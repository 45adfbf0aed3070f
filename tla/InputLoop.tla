----------------------------- MODULE InputLoop -----------------------------
(***************************************************************************)
(* The kernel's only two threads of control at work on the keyboard: the   *)
(* main loop of kernel_main with tty_poll_input, and the interrupts of the *)
(* timer and the keyboard that preempt it wherever the interrupt flag is   *)
(* set.  A handler runs behind an interrupt gate, hence in one step; the   *)
(* main loop is split at every point where an interrupt can come between.  *)
(*                                                                         *)
(* The keyboard hardware is modelled too: keys go down and come up, each   *)
(* sends its bytes, the controller raises IRQ1 while a byte waits.         *)
(***************************************************************************)
EXTENDS Keyboard, Sequences

CONSTANTS
    Keys,      \* keys of the keyboard that are used
    CodeOf,    \* key -> its scancode
    Extended,  \* the keys whose bytes come with the 0xE0 prefix
    TTYs,      \* ttys[i].initialized: the TTYs the shell registered
    MaxBytes   \* bound: bytes on their way from the keyboard

ASSUME TTYAssumption == 0 \in TTYs /\ TTYs \subseteq 0 .. F6 - F1
ASSUME KeysAssumption ==
    /\ CodeOf \in [Keys -> Codes]
    /\ Extended \subseteq Keys
    /\ \A c \in Codes : F1 <= c /\ c <= F6 => c - F1 \in TTYs

VARIABLES
    down,         \* modifier keys held down
    bytes,        \* bytes the keyboard has sent and the handler has not read
    tick,         \* the timer's request is pending
    in_service,   \* interrupt the PIC waits for the end of, NoIrq if none
    running,      \* interrupt whose handler runs, NoIrq while the main loop does
    IF_flag,      \* the interrupt flag of the CPU
    pc,           \* where the main loop is
    current_tty   \* tty.c's current_tty

vars == <<keyboardVars, down, bytes, tick, in_service, running, IF_flag, pc, current_tty>>

TIMER == 32
KEYBOARD == 33
NoIrq == -1

hardware == <<down, bytes, tick>>
interrupts == <<tick, in_service, running>>

LoopInit ==
    /\ Init
    /\ down = {}
    /\ bytes = << >>
    /\ tick = FALSE
    /\ in_service = NoIrq
    /\ running = NoIrq
    /\ IF_flag = TRUE
    /\ pc = "poll"
    /\ current_tty = 0

-----------------------------------------------------------------------------
\* The user and the hardware.

Sent(k, code) == IF k \in Extended THEN <<PREFIX, code>> ELSE <<code>>

ModifierKeys == {k \in Keys : CodeOf[k] \in Modifiers}

\* A key goes down, or repeats while it is down.
Press(k) ==
    /\ Len(bytes) < MaxBytes
    /\ down' = IF k \in ModifierKeys THEN down \cup {k} ELSE down
    /\ bytes' = bytes \o Sent(k, CodeOf[k])
    /\ UNCHANGED <<keyboardVars, interrupts, IF_flag, pc, current_tty>>

\* A key comes up; which of the other keys are down makes no difference to the
\* driver and is not kept.
Release(k) ==
    /\ Len(bytes) < MaxBytes
    /\ k \in ModifierKeys => k \in down
    /\ down' = down \ {k}
    /\ bytes' = bytes \o Sent(k, CodeOf[k] + RELEASE)
    /\ UNCHANGED <<keyboardVars, interrupts, IF_flag, pc, current_tty>>

Tick ==
    /\ tick' = TRUE
    /\ UNCHANGED <<keyboardVars, down, bytes, in_service, running, IF_flag, pc, current_tty>>

\* The CPU takes an interrupt: the handler starts with the flag clear, a CPU in
\* hlt goes on at the top of the loop after it.  When both requests are pending
\* the PIC offers the timer's first; here either may be taken.
Interrupt(n) ==
    /\ IF_flag
    /\ in_service = NoIrq
    /\ running' = n
    /\ in_service' = n
    /\ IF_flag' = FALSE
    /\ pc' = IF pc = "halted" THEN "poll" ELSE pc
    /\ UNCHANGED <<keyboardVars, down, bytes, current_tty>>
TimerInterrupt ==
    /\ tick
    /\ tick' = FALSE
    /\ Interrupt(TIMER)
KeyboardInterrupt ==
    /\ bytes # << >>
    /\ UNCHANGED tick
    /\ Interrupt(KEYBOARD)

\* Mutant of irq_handler: no end of interrupt.
irq_handlerNoEOI ==
    /\ running # NoIrq
    /\ IF running = KEYBOARD
       THEN keyboard_handler(Head(bytes)) /\ bytes' = Tail(bytes)
       ELSE UNCHANGED <<keyboardVars, bytes>>
    /\ running' = NoIrq
    /\ IF_flag' = TRUE
    /\ UNCHANGED <<down, tick, in_service, pc, current_tty>>

\* irq_handler: the device's handler, the end of interrupt, iret.
irq_handler ==
    /\ running # NoIrq
    /\ IF running = KEYBOARD
       THEN keyboard_handler(Head(bytes)) /\ bytes' = Tail(bytes)
       ELSE UNCHANGED <<keyboardVars, bytes>>
    /\ in_service' = NoIrq
    /\ running' = NoIrq
    /\ IF_flag' = TRUE
    /\ UNCHANGED <<down, tick, pc, current_tty>>

-----------------------------------------------------------------------------
\* The main loop.

At(here) == running = NoIrq /\ pc = here

\* keyboard_poll_event: cli.
poll_cli ==
    /\ At("poll")
    /\ IF_flag' = FALSE
    /\ pc' = "test"
    /\ UNCHANGED <<keyboardVars, hardware, in_service, running, current_tty>>

\* The ring is empty: sti, return 0, and tty_poll_input is over.
poll_empty ==
    /\ At("test")
    /\ Empty
    /\ IF_flag' = TRUE
    /\ pc' = "update"
    /\ UNCHANGED <<keyboardVars, hardware, in_service, running, current_tty>>

poll_copy ==
    /\ At("test")
    /\ CopyEvent
    /\ pc' = "advance"
    /\ UNCHANGED <<hardware, in_service, running, IF_flag, current_tty>>

\* Mutant of poll_advance: the event is returned without the advance.
poll_advanceNotAtAll ==
    /\ At("advance")
    /\ IF_flag' = TRUE
    /\ pc' = "dispatch"
    /\ UNCHANGED <<keyboardVars, hardware, in_service, running, current_tty>>

\* The tail advances; sti, return 1.
poll_advance ==
    /\ At("advance")
    /\ AdvanceTail
    /\ IF_flag' = TRUE
    /\ pc' = "dispatch"
    /\ UNCHANGED <<hardware, in_service, running, current_tty>>

\* Mutant of Selects: the modifier state of now, not the event's.
SelectsByFlag(e) ==
    /\ e.type = "special" /\ "alt" \in pressed
    /\ F1 <= e.scancode /\ e.scancode <= F6
    /\ e.scancode - F1 \in TTYs

\* tty_poll_input with the event in hand: Alt+Fn selects a TTY that is
\* initialized, everything else goes to the TTY in front.
Selects(e) ==
    /\ e.type = "special" /\ "alt" \in e.mods
    /\ F1 <= e.scancode /\ e.scancode <= F6
    /\ e.scancode - F1 \in TTYs
tty_poll_input ==
    /\ At("dispatch")
    /\ current_tty' = IF Selects(event) THEN event.scancode - F1 ELSE current_tty
    /\ pc' = "poll"
    /\ UNCHANGED <<keyboardVars, hardware, in_service, running, IF_flag>>

\* The update and draw functions of the TTYs.
update_and_draw ==
    /\ At("update")
    /\ pc' = "hlt"
    /\ UNCHANGED <<keyboardVars, hardware, in_service, running, IF_flag, current_tty>>
hlt ==
    /\ At("hlt")
    /\ pc' = "halted"
    /\ UNCHANGED <<keyboardVars, hardware, in_service, running, IF_flag, current_tty>>

kernel_main ==
    \/ poll_cli \/ poll_empty \/ poll_copy \/ poll_advance
    \/ tty_poll_input \/ update_and_draw \/ hlt

Next ==
    \/ \E k \in Keys : Press(k) \/ Release(k)
    \/ Tick \/ TimerInterrupt \/ KeyboardInterrupt
    \/ irq_handler
    \/ kernel_main

\* The timer ticks for ever and a pending interrupt is taken.  The handlers
\* take far less than a millisecond, the time between two ticks: neither the
\* keyboard's interrupt nor the main loop is kept out for ever by the timer's.
Fairness ==
    /\ WF_vars(Tick) /\ WF_vars(irq_handler)
    /\ SF_vars(TimerInterrupt) /\ SF_vars(KeyboardInterrupt)
    /\ SF_vars(kernel_main)

Spec == LoopInit /\ [][Next]_vars /\ Fairness

-----------------------------------------------------------------------------
\* The driver's and the loop's variables have the values the code gives them.
TypeOK ==
    /\ pressed \subseteq {"shift", "ctrl", "alt"}
    /\ extended_key \in {0, 1}
    /\ key_buffer \in [0 .. KEY_BUFFER_SIZE - 1 -> KeyEvent \cup {NoEvent}]
    /\ buffer_head \in 0 .. KEY_BUFFER_SIZE - 1
    /\ buffer_tail \in 0 .. KEY_BUFFER_SIZE - 1
    /\ event \in KeyEvent \cup {NoEvent}
    /\ focus \in TTYs
    /\ down \subseteq ModifierKeys
    /\ bytes \in Seq(Byte)
    /\ tick \in BOOLEAN
    /\ in_service \in {NoIrq, TIMER, KEYBOARD}
    /\ running \in {NoIrq, TIMER, KEYBOARD}
    /\ IF_flag \in BOOLEAN
    /\ pc \in {"poll", "test", "advance", "dispatch", "update", "hlt", "halted"}
    /\ current_tty \in TTYs

\* The events in the ring, oldest first.  The one already copied out by
\* keyboard_poll_event is gone although the tail has yet to advance.
First == IF pc = "advance" THEN Advanced(buffer_tail) ELSE buffer_tail
Waiting == (buffer_head - First) % KEY_BUFFER_SIZE
Queue == [i \in 1 .. Waiting |-> key_buffer[(First + i - 1) % KEY_BUFFER_SIZE]]

\* A key is handled by the TTY that is in front at its place in the typing: a
\* key typed before Alt+Fn goes to the old TTY and one typed after it to the
\* new one, although the switch itself waits in the ring with them.
DispatchInFront == pc = "dispatch" => event.for = current_tty

\* The keyboards on which the code and the prefix belong together: without the
\* keypad's plain keys, whose codes are the arrows'.
ExtendedCodes == {CodeOf[k] : k \in Extended}
PrefixTells == \A k \in Keys \ Extended : CodeOf[k] \in ExtendedCodes => CodeOf[k] \in Modifiers

\* The prefix counts for the key it was sent with and no other: an event is
\* special when its key sends one, or selects a TTY, although the prefix and the
\* key come in two interrupts with presses, releases and polls around them.
PrefixForOneKey ==
    \A i \in DOMAIN Queue :
        Queue[i].type = "special" <=>
            \/ Queue[i].scancode \in ExtendedCodes
            \/ "alt" \in Queue[i].mods /\ F1 <= Queue[i].scancode /\ Queue[i].scancode <= F6

\* Once every byte has been read no modifier sticks and none is missed: its flag
\* is clear while none of its keys is held, and set while all of them are.  Two
\* shifts are on one flag, which the release of one clears (keyboard.c:79-80): with
\* just one of them held the driver keeps no promise, and none is stated.
KeysOf(m) == {k \in ModifierKeys : ModifierOf(CodeOf[k]) = m}
ModifiersFollow ==
    bytes = << >> =>
        \A m \in {"shift", "ctrl", "alt"} :
            /\ m \in pressed => KeysOf(m) \cap down # {}
            /\ KeysOf(m) # {} /\ KeysOf(m) \subseteq down => m \in pressed

\* The ring is a bounded first-in first-out queue of KEY_BUFFER_SIZE - 1 events.
Q == INSTANCE EventQueue
        WITH Event    <- KeyEvent \cup {NoEvent},
             Capacity <- KEY_BUFFER_SIZE - 1,
             queue    <- Queue,
             taken    <- event
RefinesEventQueue == Q!Spec

\* A key press is lost only when the ring is full.
MakesEvent(byte) == byte < RELEASE /\ byte \notin Modifiers
LostOnlyWhenFull ==
    [][bytes # << >> /\ bytes' = Tail(bytes) /\ MakesEvent(Head(bytes))
         => Len(Queue') = Len(Queue) + 1 \/ Len(Queue) = KEY_BUFFER_SIZE - 1]_vars

\* Every event in the ring is handled in the end, also when it arrives between
\* the empty poll and the hlt of the main loop.
EventsHandled ==
    \A i \in 0 .. KEY_BUFFER_SIZE - 1 :
        buffer_tail = i /\ ~ Empty ~> buffer_tail # i

\* The bytes the keyboard sends are read in the end: a full line drains.
BytesRead == Len(bytes) >= MaxBytes ~> Len(bytes) < MaxBytes
=============================================================================
