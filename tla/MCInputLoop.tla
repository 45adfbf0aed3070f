---------------------------- MODULE MCInputLoop ----------------------------
\* Keyboards for the input loop.  With the first the ring has three slots, so that
\* two events fill it, with the second two.
EXTENDS InputLoop

\* Alt, F1 and F2, which select one of two TTYs with Alt and are plain keys
\* without it.
SwitchKeys == {"alt", "f1", "f2"}
SwitchCodeOf == [k \in SwitchKeys |-> CASE k = "alt" -> 56 [] k = "f1" -> 59 [] k = "f2" -> 60]
SwitchCodes == {56, 59, 60}

\* The two shifts, which share a flag, an arrow key, whose bytes carry a prefix,
\* and a letter.
ShiftKeys == {"lshift", "rshift", "up", "a"}
ShiftCodeOf ==
    [k \in ShiftKeys |-> CASE k = "lshift" -> 42 [] k = "rshift" -> 54
                           [] k = "up" -> 72 [] k = "a" -> 30]
ShiftCodes == {42, 54, 72, 30}

TwoTTYs == {0, 1}

SafetySpec == LoopInit /\ [][Next]_vars
=============================================================================
