------------------------------ MODULE Keyboard ------------------------------
(***************************************************************************)
(* The keyboard driver, src/drivers/input/keyboard.c: the scancode decoder *)
(* that runs in the interrupt handler and the ring of key events between   *)
(* it and the main loop.  The handler only moves buffer_head, the poll     *)
(* only buffer_tail; one slot stays empty so that full and empty differ.   *)
(***************************************************************************)
EXTENDS Integers

CONSTANTS
    KEY_BUFFER_SIZE,  \* slots of the ring
    Codes,            \* scancodes of the keys modelled, without the release bit
    NoEvent           \* an event variable nothing was stored in

ASSUME RingAssumption == KEY_BUFFER_SIZE \in Nat \ {0, 1}
\* 0x60 is no key's: a release of it would send the byte of the prefix.
ASSUME CodesAssumption == Codes \subseteq (0 .. 127) \ {96}

VARIABLES
    pressed,       \* shift_pressed, ctrl_pressed, alt_pressed: those that are 1
    extended_key,  \* the last byte was the 0xE0 prefix
    key_buffer,    \* the ring
    buffer_head,   \* next slot the handler fills
    buffer_tail,   \* next slot the poll empties
    event,         \* tty_poll_input's event
    focus          \* (auxiliary) the TTY in front once every event queued is handled

keyboardVars == <<pressed, extended_key, key_buffer, buffer_head, buffer_tail, event, focus>>

-----------------------------------------------------------------------------
PREFIX == 224   \* 0xE0
RELEASE == 128  \* bit 7
F1 == 59        \* 0x3B
F6 == 64        \* 0x40

Shifts == {42, 54}  \* SCANCODE_LSHIFT, SCANCODE_RSHIFT
Ctrl == 29          \* SCANCODE_LCTRL
Alt == 56           \* SCANCODE_LALT

Modifiers == Shifts \cup {Ctrl, Alt}
ModifierOf(code) ==
    IF code \in Shifts THEN "shift" ELSE IF code = Ctrl THEN "ctrl" ELSE "alt"

\* A byte on the data port: a prefix, a key going down, a key coming up.
Byte == {PREFIX} \cup Codes \cup {c + RELEASE : c \in Codes}

\* A key event; `character' is a function of the other fields and is left out,
\* `for' (auxiliary) is the TTY in front at the event's place in the typing.
KeyEvent == [type : {"char", "special"}, scancode : Codes,
             mods : SUBSET {"shift", "ctrl", "alt"}, for : 0 .. F6 - F1]

\* Alt+Fn, the keys that select a TTY.
SelectsTTY(code) == "alt" \in pressed /\ F1 <= code /\ code <= F6

Init ==
    /\ pressed = {}
    /\ extended_key = 0
    /\ key_buffer = [i \in 0 .. KEY_BUFFER_SIZE - 1 |-> NoEvent]
    /\ buffer_head = 0
    /\ buffer_tail = 0
    /\ event = NoEvent
    /\ focus = 0

-----------------------------------------------------------------------------
\* Mutant of Advanced: an index one past the last slot.
AdvancedTooFar(index) == (index + 1) % (KEY_BUFFER_SIZE + 1)

Advanced(index) == (index + 1) % KEY_BUFFER_SIZE

\* Mutants of Full: no check at all, and a second slot kept empty.
FullNever == FALSE
FullEarly == buffer_tail \in {Advanced(buffer_head), Advanced(Advanced(buffer_head))}

Full == Advanced(buffer_head) = buffer_tail
Empty == buffer_tail = buffer_head

\* The event a key press makes, in front of the TTY selected by the keys before it.
EventOf(code) ==
    [type     |-> IF SelectsTTY(code) \/ extended_key = 1 THEN "special" ELSE "char",
     scancode |-> code,
     mods     |-> pressed,
     for      |-> focus]

\* The end of keyboard_handler: the event goes into the ring unless it is full.
Enqueue(code) ==
    IF Full
    THEN UNCHANGED <<key_buffer, buffer_head, focus>>
    ELSE /\ key_buffer' = [key_buffer EXCEPT ![buffer_head] = EventOf(code)]
         /\ buffer_head' = Advanced(buffer_head)
         /\ focus' = IF SelectsTTY(code) THEN code - F1 ELSE focus

Prefix ==
    /\ extended_key' = 1
    /\ UNCHANGED <<pressed, key_buffer, buffer_head, focus>>

\* Mutant of KeyUp: a modifier stays set.
KeyUpKeepsModifier(code) ==
    /\ extended_key' = 0
    /\ UNCHANGED <<pressed, key_buffer, buffer_head, focus>>

\* Mutant of KeyUp: the prefix of the release is left for the next key.
KeyUpKeepsPrefix(code) ==
    /\ pressed' = IF code \in Modifiers THEN pressed \ {ModifierOf(code)} ELSE pressed
    /\ UNCHANGED <<extended_key, key_buffer, buffer_head, focus>>

KeyUp(code) ==
    /\ pressed' = IF code \in Modifiers THEN pressed \ {ModifierOf(code)} ELSE pressed
    /\ extended_key' = 0
    /\ UNCHANGED <<key_buffer, buffer_head, focus>>

ModifierDown(code) ==
    /\ pressed' = pressed \cup {ModifierOf(code)}
    /\ extended_key' = 0
    /\ UNCHANGED <<key_buffer, buffer_head, focus>>

KeyDown(code) ==
    /\ Enqueue(code)
    /\ extended_key' = 0
    /\ UNCHANGED pressed

\* keyboard_handler for the byte read from port 0x60.
keyboard_handler(byte) ==
    /\ \/ byte = PREFIX /\ Prefix
       \/ byte # PREFIX /\ byte >= RELEASE /\ KeyUp(byte - RELEASE)
       \/ byte < RELEASE /\ byte \in Modifiers /\ ModifierDown(byte)
       \/ byte < RELEASE /\ byte \notin Modifiers /\ KeyDown(byte)
    /\ UNCHANGED <<buffer_tail, event>>

\* keyboard_poll_event between its cli and sti, when the ring is not empty:
\* the copy, then the advance.
CopyEvent ==
    /\ ~ Empty
    /\ event' = key_buffer[buffer_tail]
    /\ UNCHANGED <<pressed, extended_key, key_buffer, buffer_head, buffer_tail, focus>>
AdvanceTail ==
    /\ buffer_tail' = Advanced(buffer_tail)
    /\ UNCHANGED <<pressed, extended_key, key_buffer, buffer_head, event, focus>>
=============================================================================
