----------------------------- MODULE EventQueue -----------------------------
(***************************************************************************)
(* What the keyboard driver promises the rest of the kernel: key events    *)
(* come out once each, in the order they went in, and at most Capacity of  *)
(* them wait.                                                              *)
(***************************************************************************)
EXTENDS Naturals, Sequences

CONSTANTS
    Event,     \* key events
    Capacity   \* events that may wait

VARIABLES
    queue,     \* the events that wait
    taken      \* the event handed out last

Init == queue = << >> /\ taken \in Event

Put(e) ==
    /\ Len(queue) < Capacity
    /\ queue' = Append(queue, e)
    /\ UNCHANGED taken

Take ==
    /\ queue # << >>
    /\ taken' = Head(queue)
    /\ queue' = Tail(queue)

Next == Take \/ \E e \in Event : Put(e)

Spec == Init /\ [][Next]_<<queue, taken>>
=============================================================================
