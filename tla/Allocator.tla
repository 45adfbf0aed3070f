------------------------------ MODULE Allocator ------------------------------
(***************************************************************************)
(* What a heap promises its clients, with no word about how it keeps its   *)
(* blocks: the regions in a client's hands lie in the arena and share no   *)
(* byte, and a region stays where it is until its holder gives it back or  *)
(* asks for another size.                                                  *)
(***************************************************************************)
EXTENDS Integers

CONSTANTS
    ArenaSize,  \* bytes in the arena
    Sizes       \* sizes clients ask for

VARIABLE live       \* pointer the client holds -> bytes it may use there

\* The bytes a region of n bytes at p occupies, up to but without the last bound.
InArena(p, n) == 0 <= p /\ p + n <= ArenaSize

\* A region of n bytes at p shares no byte with the region of m bytes at q.
Disjoint(p, n, q, m) == p + n <= q \/ q + m <= p

\* A region of n bytes at p is in the arena and clear of the regions of `others'.
Fresh(p, n, others) ==
    /\ InArena(p, n)
    /\ \A q \in others : p # q /\ Disjoint(p, n, q, live[q])

Init == live = [p \in {} |-> 0]

\* A new region is handed out; no region in use is touched.
Alloc(p, n) ==
    /\ n > 0
    /\ Fresh(p, n, DOMAIN live)
    /\ live' = [q \in DOMAIN live \cup {p} |-> IF q = p THEN n ELSE live[q]]

\* A region comes back; the others stay.
Free(p) ==
    /\ p \in DOMAIN live
    /\ live' = [q \in DOMAIN live \ {p} |-> live[q]]

\* A region changes its size where it is.
Resize(p, n) ==
    /\ p \in DOMAIN live
    /\ n > 0
    /\ Fresh(p, n, DOMAIN live \ {p})
    /\ live' = [live EXCEPT ![p] = n]

\* A region moves: the new place is clear of every region in use, the old one
\* included, so that its bytes can be copied before it is given up.
Move(p, q, n) ==
    /\ p \in DOMAIN live
    /\ n > live[p]
    /\ Fresh(q, n, DOMAIN live)
    /\ live' = [x \in (DOMAIN live \ {p}) \cup {q} |-> IF x = q THEN n ELSE live[x]]

Place == 0 .. ArenaSize

Next ==
    \/ \E p \in DOMAIN live : Free(p)
    \/ \E n \in Sizes :
          \/ \E p \in Place : Alloc(p, n)
          \/ \E p \in DOMAIN live :
                \/ Resize(p, n)
                \/ \E q \in Place : Move(p, q, n)

Spec == Init /\ [][Next]_live
=============================================================================
