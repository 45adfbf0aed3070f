-------------------------- MODULE InputLoopProofs --------------------------
(***************************************************************************)
(* The input loop, proved for every ring size, keyboard and set of TTYs.   *)
(* The inductive invariant ties four things together: the types, the       *)
(* interrupt flag's critical section, the ring's live slots, and a chain   *)
(* through the events that wait: each was typed in front of the TTY that   *)
(* the one before it leaves in front.                                      *)
(***************************************************************************)
EXTENDS InputLoop, SequenceTheorems, TLAPS

N == KEY_BUFFER_SIZE
Slots == 0 .. N - 1

-----------------------------------------------------------------------------
\* The modular arithmetic of the ring, one case split per operation.
LEMMA Successor ==
    ASSUME NEW i \in Slots
    PROVE  Advanced(i) = (IF i + 1 = N THEN 0 ELSE i + 1) /\ Advanced(i) \in Slots
  <1> USE RingAssumption DEF Slots, N, Advanced
  <1>1. CASE i + 1 = N
    <2>1. N % N = 0
      OBVIOUS
    <2>2. QED
      BY <1>1, <2>1
  <1>2. CASE i + 1 # N
    <2>1. i + 1 \in Nat /\ i + 1 < N
      BY <1>2
    <2>2. (i + 1) % N = i + 1
      BY <2>1
    <2>3. QED
      BY <1>2, <2>1, <2>2
  <1>3. QED
    BY <1>1, <1>2

LEMMA Distance ==
    ASSUME NEW a \in Slots, NEW b \in Slots
    PROVE  (a - b) % N = (IF b <= a THEN a - b ELSE a - b + N)
  <1> USE RingAssumption DEF Slots, N
  <1>1. CASE b <= a
    <2>1. a - b \in Nat /\ a - b < N
      BY <1>1
    <2>2. QED
      BY <1>1, <2>1
  <1>2. CASE a < b
    <2>1. a - b \in Int /\ 0 <= a - b + N /\ a - b + N < N
      BY <1>2
    <2>2. (a - b) % N = a - b + N
      BY <2>1
    <2>3. QED
      BY <1>2, <2>2
  <1>3. QED
    BY <1>1, <1>2

LEMMA SlotOf ==
    ASSUME NEW f \in Slots, NEW i \in 1 .. N
    PROVE  (f + i - 1) % N = (IF f + i - 1 < N THEN f + i - 1 ELSE f + i - 1 - N)
  <1> USE RingAssumption DEF Slots, N
  <1>1. CASE f + i - 1 < N
    <2>1. f + i - 1 \in Nat
      OBVIOUS
    <2>2. QED
      BY <1>1, <2>1
  <1>2. CASE N <= f + i - 1
    <2>1. f + i - 1 \in N .. 2 * N - 1
      BY <1>2
    <2>2. (f + i - 1) % N = f + i - 1 - N
      BY <2>1
    <2>3. QED
      BY <1>2, <2>2
  <1>3. QED
    BY <1>1, <1>2

-----------------------------------------------------------------------------
\* The ring as a sequence, for any first slot, head and contents.
Count(f, h) == (h - f) % N
Contents(buf, f, h) == [i \in 1 .. Count(f, h) |-> buf[(f + i - 1) % N]]

\* c lists the n slots from f on.
Lists(c, buf, f, n) == \A i \in 1 .. n : c[i] = buf[(f + i - 1) % N]

LEMMA CountBounds ==
    ASSUME NEW f \in Slots, NEW h \in Slots
    PROVE  Count(f, h) \in Slots /\ (Count(f, h) = 0 <=> f = h)
  BY Distance, RingAssumption DEF Count, Slots, N

\* The ring's contents are a sequence of what its live slots hold.
LEMMA ContentsSeq ==
    ASSUME NEW S, NEW buf \in [Slots -> S], NEW f \in Slots, NEW h \in Slots
    PROVE  /\ Contents(buf, f, h) \in Seq(S)
           /\ Len(Contents(buf, f, h)) = Count(f, h)
           /\ Lists(Contents(buf, f, h), buf, f, Count(f, h))
  <1>1. Count(f, h) \in Nat
    BY CountBounds, RingAssumption DEF Slots, N
  <1> DEFINE n == Count(f, h)
             c == Contents(buf, f, h)
  <1>2. c = [i \in 1 .. n |-> buf[(f + i - 1) % N]]
    BY DEF Contents
  <1>3. \A i \in 1 .. n : buf[(f + i - 1) % N] \in S
    <2> SUFFICES ASSUME NEW i \in 1 .. n PROVE (f + i - 1) % N \in Slots
      OBVIOUS
    <2>1. i \in 1 .. N
      BY CountBounds, RingAssumption DEF Slots, N
    <2>2. (f + i - 1) % N = IF f + i - 1 < N THEN f + i - 1 ELSE f + i - 1 - N
      BY SlotOf, <2>1
    <2>3. QED
      BY <2>1, <2>2, RingAssumption DEF Slots, N
  <1> HIDE DEF n, c
  <1>4. c \in [1 .. n -> S] /\ n \in Nat
    BY <1>1, <1>2, <1>3 DEF n
  <1>5. c \in Seq(S) /\ Len(c) = n
    BY <1>4, SeqDef
  <1>6. \A i \in 1 .. n : c[i] = buf[(f + i - 1) % N]
    BY <1>2
  <1>7. QED
    BY <1>5, <1>6 DEF n, c, Lists

\* Filling the slot at the head of a ring that is not full appends.
LEMMA FillAppends ==
    ASSUME NEW S, NEW buf \in [Slots -> S], NEW f \in Slots, NEW h \in Slots, NEW e \in S,
           Advanced(h) # f
    PROVE  /\ Contents([buf EXCEPT ![h] = e], f, Advanced(h)) = Append(Contents(buf, f, h), e)
           /\ Count(f, Advanced(h)) = Count(f, h) + 1
  <1> USE RingAssumption
  <1> DEFINE n  == Count(f, h)
             b2 == [buf EXCEPT ![h] = e]
  <1>1. Advanced(h) \in Slots /\ n \in Slots
    BY Successor, CountBounds
  <1>2. Count(f, Advanced(h)) = n + 1 /\ n + 1 \in 1 .. N
    <2>1. n = IF f <= h THEN h - f ELSE h - f + N
      BY Distance DEF Count
    <2>2. Count(f, Advanced(h)) = IF f <= Advanced(h) THEN Advanced(h) - f ELSE Advanced(h) - f + N
      BY Distance, <1>1 DEF Count
    <2>3. Advanced(h) = IF h + 1 = N THEN 0 ELSE h + 1
      BY Successor
    <2>4. Count(f, Advanced(h)) = n + 1
      BY <2>1, <2>2, <2>3 DEF Slots, N
    <2>5. QED
      BY <2>4, <1>1 DEF Slots, N
  <1>3. \A i \in 1 .. n : (f + i - 1) % N # h /\ (f + i - 1) % N \in Slots
    <2> SUFFICES ASSUME NEW i \in 1 .. n
                 PROVE  (f + i - 1) % N # h /\ (f + i - 1) % N \in Slots
      OBVIOUS
    <2>1. n = IF f <= h THEN h - f ELSE h - f + N
      BY Distance DEF Count
    <2>2. (f + i - 1) % N = IF f + i - 1 < N THEN f + i - 1 ELSE f + i - 1 - N
      BY SlotOf, <1>1 DEF Slots, N
    <2> HIDE DEF n
    <2>3. QED
      BY <2>1, <2>2, <1>1 DEF Slots, N
  <1>4. (f + (n + 1) - 1) % N = h
    <2>1. n = IF f <= h THEN h - f ELSE h - f + N
      BY Distance DEF Count
    <2>2. (f + (n + 1) - 1) % N = IF f + (n + 1) - 1 < N THEN f + (n + 1) - 1
                                  ELSE f + (n + 1) - 1 - N
      BY SlotOf, <1>2
    <2> HIDE DEF n
    <2>3. QED
      BY <2>1, <2>2, <1>1 DEF Slots, N
  <1>5. Contents(buf, f, h) \in Seq(S) /\ Len(Contents(buf, f, h)) = n
        /\ \A i \in 1 .. n : Contents(buf, f, h)[i] = buf[(f + i - 1) % N]
    <2>1. Contents(buf, f, h) \in Seq(S) /\ Len(Contents(buf, f, h)) = n
          /\ Lists(Contents(buf, f, h), buf, f, n)
      BY ContentsSeq
    <2>2. QED
      BY <2>1 DEF Lists
  <1>6. \A i \in 1 .. n + 1 : b2[(f + i - 1) % N] = IF i <= n THEN buf[(f + i - 1) % N] ELSE e
    <2> SUFFICES ASSUME NEW i \in 1 .. n + 1
                 PROVE  b2[(f + i - 1) % N] = IF i <= n THEN buf[(f + i - 1) % N] ELSE e
      OBVIOUS
    <2>1. n \in Nat
      BY <1>1 DEF Slots, N
    <2> HIDE DEF n
    <2>2. CASE i <= n
      <3>1. i \in 1 .. n
        BY <2>1, <2>2
      <3>2. (f + i - 1) % N # h /\ (f + i - 1) % N \in Slots
        BY <1>3, <3>1
      <3>3. QED
        BY <2>2, <3>2
    <2>3. CASE ~ (i <= n)
      <3>1. i = n + 1
        BY <2>1, <2>3
      <3>2. (f + i - 1) % N = h
        BY <3>1, <1>4
      <3>3. QED
        BY <2>3, <3>2
    <2>4. QED
      BY <2>2, <2>3
  <1>7. Contents(b2, f, Advanced(h)) \in Seq(S) /\ Len(Contents(b2, f, Advanced(h))) = n + 1
        /\ \A i \in 1 .. n + 1 : Contents(b2, f, Advanced(h))[i] = b2[(f + i - 1) % N]
    <2>1. b2 \in [Slots -> S]
      OBVIOUS
    <2> HIDE DEF b2
    <2>2. Contents(b2, f, Advanced(h)) \in Seq(S)
          /\ Len(Contents(b2, f, Advanced(h))) = Count(f, Advanced(h))
          /\ Lists(Contents(b2, f, Advanced(h)), b2, f, Count(f, Advanced(h)))
      BY <2>1, <1>1, ContentsSeq
    <2>3. QED
      BY <2>2, <1>2 DEF Lists
  <1>8. Append(Contents(buf, f, h), e) \in Seq(S)
        /\ Len(Append(Contents(buf, f, h), e)) = n + 1
        /\ \A i \in 1 .. n + 1 : Append(Contents(buf, f, h), e)[i]
                                   = IF i <= n THEN buf[(f + i - 1) % N] ELSE e
    <2> DEFINE c == Contents(buf, f, h)
    <2>1. c \in Seq(S) /\ Len(c) = n /\ n \in Nat /\ \A i \in 1 .. n : c[i] = buf[(f + i - 1) % N]
      BY <1>1, <1>5 DEF Slots, N
    <2> HIDE DEF c, n
    <2>2. Append(c, e) \in Seq(S) /\ Len(Append(c, e)) = n + 1
          /\ \A i \in 1 .. n + 1 : Append(c, e)[i] = IF i <= n THEN c[i] ELSE e
      BY <2>1, AppendProperties
    <2>3. \A i \in 1 .. n + 1 : i <= n => i \in 1 .. n
      BY <2>1
    <2>4. QED
      BY <2>1, <2>2, <2>3 DEF c
  <1>9. Contents(b2, f, Advanced(h)) = Append(Contents(buf, f, h), e)
    <2>1. \A i \in 1 .. Len(Contents(b2, f, Advanced(h))) :
            Contents(b2, f, Advanced(h))[i] = Append(Contents(buf, f, h), e)[i]
      BY <1>6, <1>7, <1>8
    <2>2. QED
      BY <2>1, <1>7, <1>8, SeqEqual
  <1>10. QED
    BY <1>2, <1>9

\* Moving the first slot on by one drops the head of a ring that is not empty.
LEMMA AdvanceTails ==
    ASSUME NEW S, NEW buf \in [Slots -> S], NEW f \in Slots, NEW h \in Slots, f # h
    PROVE  /\ Contents(buf, f, h) # << >>
           /\ Contents(buf, f, h) \in Seq(S)
           /\ Head(Contents(buf, f, h)) = buf[f]
           /\ Contents(buf, Advanced(f), h) = Tail(Contents(buf, f, h))
  <1> USE RingAssumption
  <1> DEFINE n == Count(f, h)
             g == Advanced(f)
             c == Contents(buf, f, h)
             d == Contents(buf, g, h)
  <1>1. g \in Slots /\ n \in Slots /\ n # 0
    BY Successor, CountBounds
  <1>2. Count(g, h) = n - 1
    <2>1. n = IF f <= h THEN h - f ELSE h - f + N
      BY Distance DEF Count
    <2>2. Count(g, h) = IF g <= h THEN h - g ELSE h - g + N
      BY Distance, <1>1 DEF Count
    <2>3. g = IF f + 1 = N THEN 0 ELSE f + 1
      BY Successor
    <2> HIDE DEF n, g
    <2>4. QED
      BY <2>1, <2>2, <2>3, <1>1 DEF Slots, N
  <1>4. \A i \in 1 .. n - 1 : (g + i - 1) % N = (f + (i + 1) - 1) % N
    <2> SUFFICES ASSUME NEW i \in 1 .. n - 1 PROVE (g + i - 1) % N = (f + (i + 1) - 1) % N
      OBVIOUS
    <2>0. i \in 1 .. N /\ i + 1 \in 1 .. N
      BY <1>1 DEF Slots, N
    <2>1. (f + (i + 1) - 1) % N = IF f + (i + 1) - 1 < N THEN f + (i + 1) - 1
                                  ELSE f + (i + 1) - 1 - N
      BY SlotOf, <2>0
    <2>2. (g + i - 1) % N = IF g + i - 1 < N THEN g + i - 1 ELSE g + i - 1 - N
      BY SlotOf, <2>0, <1>1
    <2>3. g = IF f + 1 = N THEN 0 ELSE f + 1
      BY Successor
    <2> HIDE DEF n, g
    <2>4. QED
      BY <2>0, <2>1, <2>2, <2>3, <1>1 DEF Slots, N
  <1>5. c \in Seq(S) /\ Len(c) = n /\ \A i \in 1 .. n : c[i] = buf[(f + i - 1) % N]
    <2>1. c \in Seq(S) /\ Len(c) = n /\ Lists(c, buf, f, n)
      BY ContentsSeq
    <2>2. QED
      BY <2>1 DEF Lists
  <1>6. n \in Nat /\ n > 0
    BY <1>1 DEF Slots, N
  <1>7. \A i \in 1 .. n - 1 : buf[(g + i - 1) % N] = c[i + 1] /\ c[i + 1] \in S
    <2> SUFFICES ASSUME NEW i \in 1 .. n - 1
                 PROVE  buf[(g + i - 1) % N] = c[i + 1] /\ c[i + 1] \in S
      OBVIOUS
    <2>1. i + 1 \in 1 .. n
      BY <1>6
    <2>2. c[i + 1] = buf[(f + (i + 1) - 1) % N]
      BY <2>1, <1>5
    <2>3. c[i + 1] \in S
      BY <2>1, <1>5, ElementOfSeq
    <2>4. QED
      BY <2>2, <2>3, <1>4
  <1>8. d \in Seq(S) /\ Len(d) = n - 1 /\ \A i \in 1 .. n - 1 : d[i] = c[i + 1]
    <2>1. d \in Seq(S) /\ Len(d) = Count(g, h)
          /\ Lists(d, buf, g, Count(g, h))
      BY <1>1, ContentsSeq
    <2>2. QED
      BY <2>1, <1>2, <1>7 DEF Lists
  <1> HIDE DEF c, d, n
  <1>9. c # << >>
    BY <1>5, <1>6, EmptySeq
  <1>10. Tail(c) \in Seq(S) /\ Len(Tail(c)) = n - 1 /\ \A i \in 1 .. n - 1 : Tail(c)[i] = c[i + 1]
    BY <1>5, <1>9, HeadTailProperties
  <1>11. d = Tail(c)
    <2>1. \A i \in 1 .. Len(d) : d[i] = Tail(c)[i]
      BY <1>8, <1>10
    <2>2. QED
      BY <2>1, <1>8, <1>10, SeqEqual
  <1>12. Head(c) = buf[f]
    <2>1. Head(c) = c[1] /\ 1 \in 1 .. n
      BY <1>5, <1>6, <1>9
    <2>2. (f + 1 - 1) % N = f
      <3>1. f \in Nat /\ f < N /\ f + 1 - 1 = f
        BY DEF Slots, N
      <3>2. f % N = f
        BY <3>1 DEF N
      <3>3. QED
        BY <3>1, <3>2
    <2>3. QED
      BY <2>1, <2>2, <1>5
  <1>13. QED
    BY <1>5, <1>9, <1>11, <1>12 DEF c, d

-----------------------------------------------------------------------------
(***************************************************************************)
(* The inductive invariant.                                                *)
(***************************************************************************)

\* The interrupt flag is clear exactly in a handler and between the cli and sti
\* of keyboard_poll_event, where no handler runs.
Control ==
    /\ in_service = running
    /\ IF_flag = TRUE <=> running = NoIrq /\ pc \notin {"test", "advance"}
    /\ running # NoIrq => pc \notin {"test", "advance"}
    /\ running = KEYBOARD => bytes # << >>
    /\ pc = "advance" => ~ Empty

\* The TTY an event leaves in front.
After(e) == IF Selects(e) THEN e.scancode - F1 ELSE e.for

\* From the TTY `ahead', each event of q is for the TTY the one before it leaves
\* in front, and `last' is the TTY the last one leaves.
Chain(q, ahead, last) ==
    /\ q # << >> => q[1].for = ahead /\ last = After(q[Len(q)])
    /\ q = << >> => last = ahead
    /\ \A i \in 1 .. Len(q) - 1 : q[i + 1].for = After(q[i])

InHand == pc \in {"advance", "dispatch"}
Ahead == IF InHand THEN After(event) ELSE current_tty

\* The events in the ring are real ones, in a chain from the event in hand to focus.
Typed ==
    /\ InHand => event \in KeyEvent /\ event.for = current_tty
    /\ Queue \in Seq(KeyEvent)
    /\ Chain(Queue, Ahead, focus)

Inv == TypeOK /\ Control /\ Typed

-----------------------------------------------------------------------------
\* The chain grows at the end and shrinks at the front.
LEMMA ChainAppend ==
    ASSUME NEW q \in Seq(KeyEvent), NEW e \in KeyEvent, NEW ahead, NEW last,
           Chain(q, ahead, last), e.for = last
    PROVE  Append(q, e) \in Seq(KeyEvent) /\ Chain(Append(q, e), ahead, After(e))
  <1> DEFINE r == Append(q, e)
  <1>1. r \in Seq(KeyEvent) /\ Len(r) = Len(q) + 1 /\ Len(q) \in Nat
        /\ (\A i \in 1 .. Len(q) : r[i] = q[i]) /\ r[Len(q) + 1] = e
    BY AppendProperties, LenProperties
  <1> HIDE DEF r
  <1>2. r # << >>
    BY <1>1, EmptySeq
  <1>3. r[1].for = ahead
    <2>1. CASE q = << >>
      BY <2>1, <1>1 DEF Chain
    <2>2. CASE q # << >>
      <3>1. Len(q) > 0
        BY <2>2, EmptySeq
      <3>2. QED
        BY <3>1, <2>2, <1>1 DEF Chain
    <2>3. QED
      BY <2>1, <2>2
  <1>4. \A i \in 1 .. Len(r) - 1 : r[i + 1].for = After(r[i])
    <2> SUFFICES ASSUME NEW i \in 1 .. Len(q) PROVE r[i + 1].for = After(r[i])
      BY <1>1
    <2>1. r[i] = q[i]
      BY <1>1
    <2>2. CASE i = Len(q)
      <3>1. q # << >>
        BY <2>2, <1>1, EmptySeq
      <3>2. QED
        BY <3>1, <2>1, <2>2, <1>1 DEF Chain
    <2>3. CASE i # Len(q)
      <3>1. i \in 1 .. Len(q) - 1 /\ i + 1 \in 1 .. Len(q)
        BY <2>3, <1>1
      <3>2. r[i + 1] = q[i + 1]
        BY <3>1, <1>1
      <3>3. QED
        BY <3>1, <3>2, <2>1 DEF Chain
    <2>4. QED
      BY <2>2, <2>3
  <1>5. After(r[Len(r)]) = After(e)
    BY <1>1
  <1>6. Chain(r, ahead, After(e))
    BY <1>2, <1>3, <1>4, <1>5 DEF Chain
  <1>7. QED
    BY <1>1, <1>6 DEF r

LEMMA ChainTail ==
    ASSUME NEW q \in Seq(KeyEvent), q # << >>, NEW ahead, NEW last, Chain(q, ahead, last)
    PROVE  /\ Head(q) \in KeyEvent /\ Head(q).for = ahead
           /\ Tail(q) \in Seq(KeyEvent) /\ Chain(Tail(q), After(Head(q)), last)
  <1> DEFINE t == Tail(q)
             n == Len(q)
  <1>1. n \in Nat /\ n > 0 /\ Head(q) = q[1] /\ Head(q) \in KeyEvent
    BY EmptySeq, HeadTailProperties
  <1>2. t \in Seq(KeyEvent) /\ Len(t) = n - 1 /\ \A i \in 1 .. n - 1 : t[i] = q[i + 1]
    BY HeadTailProperties
  <1>3. Head(q).for = ahead
    BY <1>1 DEF Chain
  <1>4. last = After(q[n]) /\ \A i \in 1 .. n - 1 : q[i + 1].for = After(q[i])
    BY DEF Chain
  <1> HIDE DEF t, n
  <1>5. CASE n = 1
    <2>1. t = << >>
      BY <1>2, <1>5, EmptySeq
    <2>2. Len(t) - 1 = -1
      BY <1>2, <1>5
    <2>3. QED
      BY <2>1, <2>2, <1>1, <1>2, <1>3, <1>4, <1>5 DEF Chain, t
  <1>6. CASE n # 1
    <2>1. n - 1 \in 1 .. n - 1 /\ 1 \in 1 .. n - 1 /\ Len(t) > 0
      BY <1>1, <1>2, <1>6
    <2>2. t # << >>
      BY <2>1, EmptySeq
    <2>3. t[1].for = After(q[1])
      BY <2>1, <1>2, <1>4
    <2>4. t[Len(t)] = q[n]
      BY <2>1, <1>1, <1>2
    <2>5. \A i \in 1 .. Len(t) - 1 : t[i + 1].for = After(t[i])
      <3> SUFFICES ASSUME NEW i \in 1 .. Len(t) - 1 PROVE t[i + 1].for = After(t[i])
        OBVIOUS
      <3>1. i \in 1 .. n - 1 /\ i + 1 \in 1 .. n - 1
        BY <1>1, <1>2
      <3>2. t[i] = q[i + 1] /\ t[i + 1] = q[(i + 1) + 1]
        BY <3>1, <1>2
      <3>3. q[(i + 1) + 1].for = After(q[i + 1])
        BY <3>1, <1>4
      <3>4. QED
        BY <3>2, <3>3
    <2>6. Chain(t, After(Head(q)), last)
      BY <2>2, <2>3, <2>4, <2>5, <1>1, <1>4 DEF Chain
    <2>7. QED
      BY <2>6, <1>1, <1>2, <1>3 DEF t
  <1>7. QED
    BY <1>5, <1>6

-----------------------------------------------------------------------------
\* The ring's slots and indices have their types, the queue is its contents.
LEMMA RingTypes ==
    ASSUME TypeOK
    PROVE  /\ First \in Slots /\ buffer_head \in Slots /\ buffer_tail \in Slots
           /\ key_buffer \in [Slots -> KeyEvent \cup {NoEvent}]
           /\ Queue = Contents(key_buffer, First, buffer_head)
           /\ Waiting = Count(First, buffer_head)
  <1>1. buffer_head \in Slots /\ buffer_tail \in Slots
        /\ key_buffer \in [Slots -> KeyEvent \cup {NoEvent}]
    BY DEF TypeOK, Slots, N
  <1>2. First \in Slots
    BY <1>1, Successor DEF First
  <1>3. QED
    BY <1>1, <1>2 DEF Queue, Waiting, Contents, Count, N

\* The types of what the main loop and the hardware keep apart from the driver.
LoopTypes ==
    /\ down \subseteq ModifierKeys /\ bytes \in Seq(Byte) /\ tick \in BOOLEAN
    /\ in_service \in {NoIrq, TIMER, KEYBOARD} /\ running \in {NoIrq, TIMER, KEYBOARD}
    /\ IF_flag \in BOOLEAN
    /\ pc \in {"poll", "test", "advance", "dispatch", "update", "hlt", "halted"}
    /\ current_tty \in TTYs
DriverTypes ==
    /\ pressed \subseteq {"shift", "ctrl", "alt"} /\ extended_key \in {0, 1}
    /\ key_buffer \in [Slots -> KeyEvent \cup {NoEvent}]
    /\ buffer_head \in Slots /\ buffer_tail \in Slots
    /\ event \in KeyEvent \cup {NoEvent} /\ focus \in TTYs
LEMMA TypesSplit == TypeOK <=> DriverTypes /\ LoopTypes
  BY DEF TypeOK, DriverTypes, LoopTypes, Slots, N
LEMMA TypesSplitNext == TypeOK' <=> DriverTypes' /\ LoopTypes'
  BY DEF TypeOK, DriverTypes, LoopTypes, Slots, N, KeyEvent, Byte, ModifierKeys, Modifiers

\* A step that leaves the driver and the TTY alone, and starts and ends in the
\* same part of the poll, keeps the chain.
LEMMA DriverUntouched ==
    ASSUME TypeOK, Typed, UNCHANGED keyboardVars, current_tty' = current_tty,
           pc' = "advance" <=> pc = "advance", pc' = "dispatch" <=> pc = "dispatch"
    PROVE  Typed' /\ DriverTypes' /\ Queue' = Queue
  <1>1. /\ pressed' = pressed /\ extended_key' = extended_key /\ key_buffer' = key_buffer
        /\ buffer_head' = buffer_head /\ buffer_tail' = buffer_tail
        /\ event' = event /\ focus' = focus
    BY DEF keyboardVars
  <1>2. First' = First
    BY <1>1 DEF First, Advanced
  <1>3. Queue' = Queue
    BY <1>1, <1>2 DEF Queue, Waiting
  <1>4. InHand' = InHand /\ Ahead' = Ahead
    BY <1>1 DEF InHand, Ahead, After, Selects
  <1>5. DriverTypes'
    BY <1>1, TypesSplit DEF DriverTypes
  <1>6. QED
    BY <1>1, <1>3, <1>4, <1>5 DEF Typed

LEMMA InitInv == LoopInit => Inv
  <1> SUFFICES ASSUME LoopInit PROVE Inv
    OBVIOUS
  <1> USE RingAssumption, TTYAssumption
  <1>1. DriverTypes
    BY DEF LoopInit, Init, DriverTypes, Slots, N
  <1>2. LoopTypes
    <2>1. bytes = << >> /\ << >> \in Seq(Byte)
      BY EmptySeq DEF LoopInit
    <2>2. QED
      BY <2>1 DEF LoopInit, LoopTypes
  <1>3. TypeOK
    BY <1>1, <1>2, TypesSplit
  <1>4. Control
    BY DEF LoopInit, Control, NoIrq, KEYBOARD
  <1>5. Queue = << >>
    <2>1. First = buffer_head
      BY DEF LoopInit, Init, First
    <2>2. Count(First, buffer_head) = 0
      BY <1>3, <2>1, RingTypes, CountBounds
    <2>3. Queue \in Seq(KeyEvent \cup {NoEvent}) /\ Len(Queue) = 0
      BY <1>3, <2>2, RingTypes, ContentsSeq
    <2>4. QED
      BY <2>3, EmptySeq
  <1>6. Typed
    <2>1. ~ InHand /\ focus = Ahead
      BY DEF LoopInit, Init, InHand, Ahead
    <2>2. Chain(<< >>, Ahead, focus) /\ << >> \in Seq(KeyEvent)
      <3>1. Len(<< >>) - 1 = -1
        BY EmptySeq
      <3>2. 1 .. -1 = {}
        OBVIOUS
      <3>3. QED
        BY <2>1, <3>1, <3>2, EmptySeq DEF Chain
    <2>3. QED
      BY <1>5, <2>1, <2>2 DEF Typed
  <1>7. QED
    BY <1>3, <1>4, <1>6 DEF Inv

\* The bytes of a key, going down or coming up, are bytes.
LEMMA SentBytes ==
    ASSUME NEW k \in Keys
    PROVE  Sent(k, CodeOf[k]) \in Seq(Byte) /\ Sent(k, CodeOf[k] + RELEASE) \in Seq(Byte)
  <1>1. CodeOf[k] \in Codes
    BY KeysAssumption
  <1>2. CodeOf[k] \in Byte /\ CodeOf[k] + RELEASE \in Byte /\ PREFIX \in Byte
    BY <1>1 DEF Byte
  <1> HIDE DEF Byte
  <1>3. QED
    BY <1>2 DEF Sent

\* The hardware's steps leave driver and loop alone.
LEMMA HardwareInv ==
    ASSUME Inv, \/ \E k \in Keys : Press(k) \/ Release(k)
                \/ Tick
    PROVE  Inv' /\ UNCHANGED keyboardVars /\ Queue' = Queue
  <1>1. TypeOK /\ Control /\ Typed /\ LoopTypes
    BY TypesSplit DEF Inv
  <1>2. UNCHANGED <<keyboardVars, in_service, running, IF_flag, pc, current_tty>>
    BY DEF Press, Release, Tick, interrupts
  <1>3. down' \subseteq ModifierKeys /\ tick' \in BOOLEAN
    BY <1>1 DEF Press, Release, Tick, interrupts, LoopTypes, ModifierKeys
  <1>4. bytes' \in Seq(Byte) /\ (bytes # << >> => bytes' # << >>)
    <2>1. ASSUME NEW k \in Keys, Press(k) \/ Release(k)
          PROVE  bytes' \in Seq(Byte) /\ (bytes # << >> => bytes' # << >>)
      <3>1. PICK s \in Seq(Byte) : bytes' = bytes \o s
        BY <2>1, SentBytes DEF Press, Release
      <3>2. bytes \in Seq(Byte)
        BY <1>1 DEF LoopTypes
      <3>3. bytes \o s \in Seq(Byte) /\ (bytes # << >> => bytes \o s # << >>)
        <4>1. bytes \o s \in Seq(Byte) /\ Len(bytes \o s) = Len(bytes) + Len(s)
          BY <3>2, ConcatProperties
        <4>2. Len(bytes) \in Nat /\ Len(s) \in Nat /\ (bytes # << >> => Len(bytes) > 0)
          BY <3>2, EmptySeq, LenProperties
        <4>3. bytes # << >> => Len(bytes \o s) > 0
          BY <4>1, <4>2
        <4>4. QED
          BY <4>1, <4>3, EmptySeq
      <3>4. QED
        BY <3>1, <3>3
    <2>2. CASE Tick
      BY <2>2, <1>1 DEF Tick, LoopTypes
    <2>3. QED
      BY <2>1, <2>2
  <1>5. Typed' /\ DriverTypes' /\ Queue' = Queue
    BY <1>1, <1>2, DriverUntouched
  <1>6. LoopTypes'
    BY <1>1, <1>2, <1>3, <1>4 DEF LoopTypes, ModifierKeys, Byte
  <1>7. Control'
    BY <1>1, <1>2, <1>4 DEF Control, Empty, keyboardVars
  <1>8. QED
    BY <1>2, <1>5, <1>6, <1>7, TypesSplitNext DEF Inv

\* An interrupt is taken only where the flag is set.
LEMMA InterruptInv ==
    ASSUME Inv, TimerInterrupt \/ KeyboardInterrupt
    PROVE  Inv' /\ UNCHANGED <<keyboardVars, bytes>> /\ Queue' = Queue
  <1>1. TypeOK /\ Control /\ Typed /\ LoopTypes
    BY TypesSplit DEF Inv
  <1>2. PICK n \in {TIMER, KEYBOARD} : Interrupt(n) /\ (n = KEYBOARD => bytes # << >>)
    BY DEF TimerInterrupt, KeyboardInterrupt, TIMER, KEYBOARD
  <1>3. UNCHANGED <<keyboardVars, down, bytes, current_tty>> /\ tick' \in BOOLEAN
    BY <1>1 DEF TimerInterrupt, KeyboardInterrupt, Interrupt, LoopTypes
  <1>4. /\ running' = n /\ in_service' = n /\ IF_flag' = FALSE /\ IF_flag = TRUE
        /\ pc' = (IF pc = "halted" THEN "poll" ELSE pc)
    BY <1>1, <1>2 DEF Interrupt, LoopTypes
  <1>5. pc \notin {"test", "advance"}
    BY <1>1, <1>4 DEF Control
  <1>6. Typed' /\ DriverTypes' /\ Queue' = Queue
    BY <1>1, <1>3, <1>4, DriverUntouched
  <1>7. LoopTypes'
    BY <1>1, <1>3, <1>4 DEF LoopTypes, ModifierKeys, Byte
  <1>8. Control'
    BY <1>1, <1>2, <1>3, <1>4, <1>5 DEF Control, TIMER, KEYBOARD, NoIrq
  <1>9. QED
    BY <1>3, <1>6, <1>7, <1>8, TypesSplitNext DEF Inv

\* What the decoder does to the queue: an event goes in at the end, or nothing.
LEMMA HandlerQueue ==
    ASSUME Inv, pc \notin {"advance"}, pc' = pc, current_tty' = current_tty,
           NEW byte \in Byte, keyboard_handler(byte)
    PROVE  /\ Typed' /\ DriverTypes'
           /\ event' = event /\ buffer_tail' = buffer_tail
           /\ \/ Queue' = Queue /\ (MakesEvent(byte) => Waiting = N - 1)
              \/ /\ MakesEvent(byte) /\ EventOf(byte) \in KeyEvent
                 /\ Queue' = Append(Queue, EventOf(byte))
                 /\ Len(Queue') = Len(Queue) + 1
                 /\ Len(Queue) < N - 1
  <1> USE RingAssumption
  <1>1. TypeOK /\ Typed /\ DriverTypes
    BY TypesSplit DEF Inv
  <1>2. event' = event /\ buffer_tail' = buffer_tail
    BY DEF keyboard_handler
  <1>3. First = buffer_tail /\ First' = buffer_tail
    BY <1>2 DEF First
  <1>4. First \in Slots /\ buffer_head \in Slots
        /\ key_buffer \in [Slots -> KeyEvent \cup {NoEvent}]
        /\ Queue = Contents(key_buffer, First, buffer_head)
        /\ Waiting = Count(First, buffer_head)
    BY <1>1, RingTypes
  <1>5. InHand' = InHand /\ Ahead' = Ahead /\ (InHand => event \in KeyEvent /\ event.for = current_tty)
    BY <1>1, <1>2 DEF InHand, Ahead, After, Selects, Typed
  <1>6. CASE ~ MakesEvent(byte) \/ Full
    <2>1. UNCHANGED <<key_buffer, buffer_head, focus>>
      BY <1>6 DEF keyboard_handler, Prefix, KeyUp, ModifierDown, KeyDown, Enqueue, MakesEvent,
                  PREFIX, RELEASE
    <2>2. Queue' = Queue
      BY <2>1, <1>3 DEF Queue, Waiting
    <2>3. pressed' \subseteq {"shift", "ctrl", "alt"} /\ extended_key' \in {0, 1}
      BY <1>1 DEF keyboard_handler, Prefix, KeyUp, ModifierDown, KeyDown, DriverTypes, ModifierOf
    <2>4. DriverTypes'
      BY <2>1, <2>3, <1>1, <1>2 DEF DriverTypes
    <2>5. Typed'
      BY <2>1, <2>2, <1>1, <1>2, <1>5 DEF Typed
    <2>6. MakesEvent(byte) => Waiting = N - 1
      <3> SUFFICES ASSUME Full PROVE Count(First, buffer_head) = N - 1
        BY <1>4, <1>6
      <3>1. Advanced(buffer_head) = First
        BY <1>3 DEF Full
      <3>2. Advanced(buffer_head) = IF buffer_head + 1 = N THEN 0 ELSE buffer_head + 1
        BY <1>4, Successor
      <3>3. Count(First, buffer_head)
              = IF First <= buffer_head THEN buffer_head - First ELSE buffer_head - First + N
        BY <1>4, Distance DEF Count
      <3>4. QED
        BY <3>1, <3>2, <3>3, <1>4 DEF Slots, N
    <2>7. QED
      BY <2>2, <2>4, <2>5, <2>6, <1>2
  <1>7. CASE MakesEvent(byte) /\ ~ Full
    <2> DEFINE e == EventOf(byte)
    <2>1. /\ key_buffer' = [key_buffer EXCEPT ![buffer_head] = e]
          /\ buffer_head' = Advanced(buffer_head)
          /\ focus' = (IF SelectsTTY(byte) THEN byte - F1 ELSE focus)
          /\ extended_key' = 0 /\ pressed' = pressed
      <3>0. byte \in Nat
        BY CodesAssumption DEF Byte, PREFIX, RELEASE
      <3>1. KeyDown(byte)
        BY <3>0, <1>7 DEF keyboard_handler, MakesEvent, PREFIX, RELEASE
      <3>2. QED
        BY <3>1, <1>7 DEF KeyDown, Enqueue
    <2>2. byte \in Codes
      BY <1>7, CodesAssumption DEF Byte, MakesEvent, PREFIX, RELEASE
    <2>3. e \in KeyEvent /\ e.for = focus /\ e.scancode = byte /\ e.mods = pressed
          /\ e.type = (IF SelectsTTY(byte) \/ extended_key = 1 THEN "special" ELSE "char")
      BY <2>2, <1>1, TTYAssumption DEF EventOf, KeyEvent, DriverTypes
    <2>4. After(e) = focus' /\ focus' \in TTYs
      <3>1. Selects(e) <=> SelectsTTY(byte)
        <4>1. F1 <= byte /\ byte <= F6 => byte - F1 \in TTYs
          BY <2>2, KeysAssumption
        <4>2. QED
          BY <4>1, <2>3 DEF Selects, SelectsTTY
      <3>2. QED
        BY <3>1, <2>1, <2>2, <2>3, <1>1, KeysAssumption DEF After, SelectsTTY, DriverTypes
    <2> HIDE DEF e
    <2>5. Advanced(buffer_head) # First /\ Advanced(buffer_head) \in Slots
      BY <1>3, <1>4, <1>7, Successor DEF Full
    <2>6. /\ Contents(key_buffer', First, buffer_head') = Append(Queue, e)
          /\ Count(First, buffer_head') = Count(First, buffer_head) + 1
      <3>1. /\ Contents([key_buffer EXCEPT ![buffer_head] = e], First, Advanced(buffer_head))
                 = Append(Contents(key_buffer, First, buffer_head), e)
            /\ Count(First, Advanced(buffer_head)) = Count(First, buffer_head) + 1
        <4> DEFINE K == KeyEvent \cup {NoEvent}
        <4>1. e \in K /\ key_buffer \in [Slots -> K]
          BY <2>3, <1>4
        <4> HIDE DEF K
        <4>2. First \in Slots /\ buffer_head \in Slots /\ Advanced(buffer_head) # First
          BY <2>5, <1>4
        <4>3. QED
          BY <4>1, <4>2, FillAppends, Zenon
      <3>2. QED
        BY <3>1, <2>1, <1>4
    <2>7. Queue' = Append(Queue, e)
      BY <2>6, <1>3 DEF Queue, Waiting, Contents, Count, N
    <2>8. Append(Queue, e) \in Seq(KeyEvent) /\ Chain(Append(Queue, e), Ahead, After(e))
          /\ Len(Append(Queue, e)) = Len(Queue) + 1
      <3>1. Queue \in Seq(KeyEvent) /\ Chain(Queue, Ahead, focus)
        BY <1>1 DEF Typed
      <3>2. QED
        BY <3>1, <2>3, ChainAppend, AppendProperties
    <2>9. Len(Queue) < N - 1
      <3>1. Len(Queue) = Count(First, buffer_head)
        BY <1>4, ContentsSeq
      <3>2. Count(First, buffer_head) + 1 \in Slots /\ Count(First, buffer_head) \in Slots
        BY <2>1, <2>5, <2>6, <1>4, CountBounds
      <3>3. QED
        BY <3>1, <3>2 DEF Slots, N
    <2>10. Typed'
      BY <2>4, <2>7, <2>8, <1>2, <1>5 DEF Typed
    <2>11. DriverTypes'
      <3>1. key_buffer' \in [Slots -> KeyEvent \cup {NoEvent}]
        BY <2>1, <2>3, <1>4
      <3>2. QED
        BY <3>1, <2>1, <2>4, <2>5, <1>1, <1>2 DEF DriverTypes
    <2>12. QED
      BY <2>3, <2>7, <2>8, <2>9, <2>10, <2>11, <1>2, <1>7 DEF e
  <1>8. QED
    BY <1>6, <1>7

LEMMA QueueLength ==
    ASSUME TypeOK
    PROVE  Len(Queue) = Waiting
  <1> DEFINE K == KeyEvent \cup {NoEvent}
  <1>1. First \in Slots /\ buffer_head \in Slots /\ key_buffer \in [Slots -> K]
    BY RingTypes
  <1> HIDE DEF K
  <1>2. Len(Contents(key_buffer, First, buffer_head)) = Count(First, buffer_head)
    BY <1>1, ContentsSeq, Zenon
  <1>3. QED
    BY <1>2, RingTypes

\* A byte was read, and its event is in the queue.
EventQueued ==
    LET e == EventOf(Head(bytes))
    IN  /\ MakesEvent(Head(bytes)) /\ bytes # << >>
        /\ e \in KeyEvent /\ Queue' = Append(Queue, e) /\ Len(Queue) < N - 1

\* The handler reads one byte and ends the interrupt.
LEMMA HandlerInv ==
    ASSUME Inv, irq_handler
    PROVE  /\ Inv' /\ event' = event
           /\ Queue' = Queue \/ EventQueued
           /\ bytes' # bytes /\ MakesEvent(Head(bytes))
                => Len(Queue') = Len(Queue) + 1 \/ Len(Queue) = N - 1
  <1>1. TypeOK /\ Control /\ Typed /\ LoopTypes
    BY TypesSplit DEF Inv
  <1>2. /\ running # NoIrq /\ running' = NoIrq /\ in_service' = NoIrq /\ IF_flag' = TRUE
        /\ UNCHANGED <<down, tick, pc, current_tty>>
    BY DEF irq_handler
  <1>3. pc \notin {"test", "advance"}
    BY <1>1, <1>2 DEF Control
  <1>4. Control'
    BY <1>2, <1>3 DEF Control, NoIrq, KEYBOARD
  <1>5. CASE running = KEYBOARD
    <2>1. keyboard_handler(Head(bytes)) /\ bytes' = Tail(bytes) /\ bytes # << >>
      BY <1>1, <1>5 DEF irq_handler, Control
    <2>2. Head(bytes) \in Byte /\ Tail(bytes) \in Seq(Byte)
      BY <2>1, <1>1, HeadTailProperties DEF LoopTypes
    <2> DEFINE byte == Head(bytes)
    <2>3. byte \in Byte /\ keyboard_handler(byte) /\ pc' = pc /\ current_tty' = current_tty
          /\ pc \notin {"advance"}
      BY <2>1, <2>2, <1>2, <1>3
    <2> HIDE DEF byte
    <2>4. /\ Typed' /\ DriverTypes' /\ event' = event
          /\ \/ Queue' = Queue /\ (MakesEvent(byte) => Waiting = N - 1)
             \/ /\ MakesEvent(byte) /\ EventOf(byte) \in KeyEvent
                /\ Queue' = Append(Queue, EventOf(byte))
                /\ Len(Queue') = Len(Queue) + 1
                /\ Len(Queue) < N - 1
      BY <2>3, HandlerQueue
    <2>5. LoopTypes'
      BY <1>1, <1>2, <2>1, <2>2 DEF LoopTypes, ModifierKeys, Byte
    <2>6. Len(Queue) = Waiting
      BY <1>1, QueueLength
    <2>7. Inv'
      BY <1>4, <2>4, <2>5, TypesSplitNext DEF Inv
    <2>8. MakesEvent(byte) => Len(Queue') = Len(Queue) + 1 \/ Len(Queue) = N - 1
      BY <2>4, <2>6
    <2>9. QED
      BY <2>1, <2>4, <2>7, <2>8 DEF byte, EventQueued
  <1>6. CASE running # KEYBOARD
    <2>1. UNCHANGED <<keyboardVars, bytes>>
      BY <1>6 DEF irq_handler
    <2>2. Typed' /\ DriverTypes' /\ Queue' = Queue
      BY <1>1, <1>2, <2>1, DriverUntouched
    <2>3. LoopTypes'
      BY <1>1, <1>2, <2>1 DEF LoopTypes, ModifierKeys, Byte
    <2>4. QED
      BY <1>4, <2>1, <2>2, <2>3, TypesSplitNext DEF Inv, keyboardVars
  <1>7. QED
    BY <1>5, <1>6

-----------------------------------------------------------------------------
\* The main loop's steps that leave the driver alone.
LEMMA LoopInv ==
    ASSUME Inv, poll_cli \/ poll_empty \/ update_and_draw \/ hlt
    PROVE  Inv' /\ UNCHANGED <<keyboardVars, bytes>> /\ Queue' = Queue
  <1>1. TypeOK /\ Control /\ Typed /\ LoopTypes
    BY TypesSplit DEF Inv
  <1>2. /\ running = NoIrq /\ UNCHANGED <<keyboardVars, down, bytes, tick, in_service, running, current_tty>>
    BY DEF poll_cli, poll_empty, update_and_draw, hlt, At, hardware
  <1>3. Typed' /\ DriverTypes' /\ Queue' = Queue
    <2>1. pc' = "advance" <=> pc = "advance"
      BY DEF poll_cli, poll_empty, update_and_draw, hlt, At
    <2>2. pc' = "dispatch" <=> pc = "dispatch"
      BY DEF poll_cli, poll_empty, update_and_draw, hlt, At
    <2>3. QED
      BY <1>1, <1>2, <2>1, <2>2, DriverUntouched
  <1>4. LoopTypes'
    <2>1. pc' \in {"poll", "test", "advance", "dispatch", "update", "hlt", "halted"}
          /\ IF_flag' \in BOOLEAN
      BY <1>1 DEF poll_cli, poll_empty, update_and_draw, hlt, At, LoopTypes
    <2>2. QED
      BY <1>1, <1>2, <2>1 DEF LoopTypes, ModifierKeys, Byte
  <1>5. Control'
    BY <1>1, <1>2 DEF Control, poll_cli, poll_empty, update_and_draw, hlt, At, NoIrq, KEYBOARD
  <1>6. QED
    BY <1>2, <1>3, <1>4, <1>5, TypesSplitNext DEF Inv

\* keyboard_poll_event takes the oldest event off the queue when it copies it.
LEMMA CopyInv ==
    ASSUME Inv, poll_copy
    PROVE  /\ Inv' /\ UNCHANGED bytes
           /\ Queue # << >> /\ event' = Head(Queue) /\ Queue' = Tail(Queue)
  <1>1. TypeOK /\ Control /\ Typed /\ LoopTypes /\ DriverTypes
    BY TypesSplit DEF Inv
  <1>2. /\ running = NoIrq /\ pc = "test" /\ pc' = "advance" /\ ~ Empty
        /\ event' = key_buffer[buffer_tail]
        /\ UNCHANGED <<pressed, extended_key, key_buffer, buffer_head, buffer_tail, focus>>
        /\ UNCHANGED <<down, bytes, tick, in_service, running, IF_flag, current_tty>>
    BY DEF poll_copy, CopyEvent, At, hardware
  <1>3. First = buffer_tail /\ First' = Advanced(buffer_tail)
    BY <1>2 DEF First, Advanced
  <1>4. /\ First \in Slots /\ buffer_head \in Slots
        /\ key_buffer \in [Slots -> KeyEvent \cup {NoEvent}]
        /\ Queue = Contents(key_buffer, First, buffer_head)
    BY <1>1, RingTypes
  <1>5. First # buffer_head
    BY <1>2, <1>3 DEF Empty
  <1>6. /\ Contents(key_buffer, First, buffer_head) # << >>
        /\ Head(Contents(key_buffer, First, buffer_head)) = key_buffer[First]
        /\ Contents(key_buffer, Advanced(First), buffer_head)
              = Tail(Contents(key_buffer, First, buffer_head))
    <2> DEFINE K == KeyEvent \cup {NoEvent}
    <2>1. key_buffer \in [Slots -> K]
      BY <1>4
    <2> HIDE DEF K
    <2>2. ASSUME NEW f \in Slots, NEW h \in Slots, f # h
          PROVE  /\ Contents(key_buffer, f, h) # << >>
                 /\ Head(Contents(key_buffer, f, h)) = key_buffer[f]
                 /\ Contents(key_buffer, Advanced(f), h) = Tail(Contents(key_buffer, f, h))
      BY <2>1, <2>2, AdvanceTails, Zenon
    <2>3. QED
      BY <2>2, <1>4, <1>5, Zenon
  <1>7. Queue # << >> /\ event' = Head(Queue) /\ Queue' = Tail(Queue)
    <2>1. Queue' = Contents(key_buffer, Advanced(First), buffer_head)
      BY <1>2, <1>3 DEF Queue, Waiting, Contents, Count, N
    <2>2. QED
      BY <2>1, <1>2, <1>3, <1>4, <1>6
  <1>8. /\ Head(Queue) \in KeyEvent /\ Head(Queue).for = current_tty
        /\ Tail(Queue) \in Seq(KeyEvent) /\ Chain(Tail(Queue), After(Head(Queue)), focus)
    <2>1. Queue \in Seq(KeyEvent) /\ Chain(Queue, current_tty, focus)
      BY <1>1, <1>2 DEF Typed, Ahead, InHand
    <2>2. QED
      BY <2>1, <1>7, ChainTail
  <1>9. Typed'
    <2>1. InHand' /\ Ahead' = After(event')
      BY <1>2 DEF InHand, Ahead, After, Selects
    <2>2. QED
      BY <2>1, <1>2, <1>7, <1>8 DEF Typed
  <1>10. DriverTypes' /\ LoopTypes'
    BY <1>1, <1>2, <1>7, <1>8 DEF DriverTypes, LoopTypes, ModifierKeys, Byte
  <1>11. Control'
    BY <1>1, <1>2 DEF Control, Empty, NoIrq
  <1>12. QED
    BY <1>2, <1>7, <1>9, <1>10, <1>11, TypesSplitNext DEF Inv

LEMMA AdvanceInv ==
    ASSUME Inv, poll_advance
    PROVE  Inv' /\ UNCHANGED <<event, bytes>> /\ Queue' = Queue
  <1>1. TypeOK /\ Control /\ Typed /\ LoopTypes /\ DriverTypes
    BY TypesSplit DEF Inv
  <1>2. /\ running = NoIrq /\ pc = "advance" /\ pc' = "dispatch" /\ IF_flag' = TRUE
        /\ buffer_tail' = Advanced(buffer_tail)
        /\ UNCHANGED <<pressed, extended_key, key_buffer, buffer_head, event, focus>>
        /\ UNCHANGED <<down, bytes, tick, in_service, running, current_tty>>
    BY DEF poll_advance, AdvanceTail, At, hardware
  <1>3. First' = First /\ buffer_tail' \in Slots
    BY <1>1, <1>2, Successor DEF First, DriverTypes
  <1>4. Queue' = Queue
    BY <1>2, <1>3 DEF Queue, Waiting
  <1>5. Typed'
    <2>1. InHand /\ InHand' /\ Ahead' = Ahead
      BY <1>2 DEF InHand, Ahead, After, Selects
    <2>2. QED
      BY <2>1, <1>1, <1>2, <1>4 DEF Typed
  <1>6. DriverTypes' /\ LoopTypes'
    BY <1>1, <1>2, <1>3 DEF DriverTypes, LoopTypes, ModifierKeys, Byte
  <1>7. Control'
    BY <1>1, <1>2 DEF Control, NoIrq
  <1>8. QED
    BY <1>2, <1>4, <1>5, <1>6, <1>7, TypesSplitNext DEF Inv

LEMMA DispatchInv ==
    ASSUME Inv, tty_poll_input
    PROVE  Inv' /\ UNCHANGED <<keyboardVars, bytes>> /\ Queue' = Queue
  <1>1. TypeOK /\ Control /\ Typed /\ LoopTypes /\ DriverTypes
    BY TypesSplit DEF Inv
  <1>2. /\ running = NoIrq /\ pc = "dispatch" /\ pc' = "poll"
        /\ current_tty' = (IF Selects(event) THEN event.scancode - F1 ELSE current_tty)
        /\ UNCHANGED <<keyboardVars, down, bytes, tick, in_service, running, IF_flag>>
    BY DEF tty_poll_input, At, hardware
  <1>3. UNCHANGED <<pressed, extended_key, key_buffer, buffer_head, buffer_tail, event, focus>>
    BY <1>2 DEF keyboardVars
  <1>4. First' = First
    BY <1>2, <1>3 DEF First
  <1>5. Queue' = Queue
    BY <1>3, <1>4 DEF Queue, Waiting
  <1>6. event.for = current_tty /\ InHand
    BY <1>1, <1>2 DEF Typed, InHand
  <1>7. ~ InHand' /\ Ahead = After(event) /\ Ahead' = current_tty' /\ current_tty' = After(event)
    BY <1>2, <1>6 DEF InHand, Ahead, After
  <1>8. Typed'
    BY <1>1, <1>3, <1>5, <1>7 DEF Typed
  <1>9. DriverTypes' /\ LoopTypes'
    <2>1. current_tty' \in TTYs
      BY <1>1, <1>2 DEF LoopTypes, Selects
    <2>2. QED
      BY <2>1, <1>1, <1>2, <1>3 DEF DriverTypes, LoopTypes, ModifierKeys, Byte
  <1>10. Control'
    BY <1>1, <1>2 DEF Control, NoIrq
  <1>11. QED
    BY <1>2, <1>5, <1>8, <1>9, <1>10, TypesSplitNext DEF Inv

-----------------------------------------------------------------------------
\* What one step does to the queue and the event in hand.
QueueStep ==
    \/ UNCHANGED <<Queue, event>>
    \/ event' = event /\ EventQueued
    \/ Queue # << >> /\ event' = Head(Queue) /\ Queue' = Tail(Queue)

\* A byte read that makes an event is lost only when the ring is full.
ByteStep ==
    bytes # << >> /\ bytes' = Tail(bytes) /\ MakesEvent(Head(bytes))
        => Len(Queue') = Len(Queue) + 1 \/ Len(Queue) = N - 1

\* A line to which bytes are added, or that stays, has not lost its head.
LEMMA NotTail ==
    ASSUME NEW s \in Seq(Byte), s # << >>
    PROVE  s # Tail(s) /\ \A t \in Seq(Byte) : s \o t # Tail(s)
  <1>1. Len(Tail(s)) = Len(s) - 1 /\ Len(s) \in Nat
    BY HeadTailProperties, LenProperties
  <1>2. ASSUME NEW n, NEW m, n \in Nat, m \in Nat PROVE n - 1 # n + m
    BY <1>2
  <1>3. ASSUME NEW n, n \in Nat PROVE n - 1 # n
    BY <1>3
  <1>4. Len(Tail(s)) # Len(s)
    BY <1>1, <1>3
  <1>5. s # Tail(s)
    BY <1>4, Zenon
  <1>6. ASSUME NEW t \in Seq(Byte) PROVE s \o t # Tail(s)
    <2>1. Len(s \o t) = Len(s) + Len(t) /\ Len(t) \in Nat
      BY ConcatProperties, LenProperties
    <2>2. Len(s) - 1 # Len(s) + Len(t)
      BY <1>1, <1>2, <2>1, Zenon
    <2>3. Len(s \o t) # Len(Tail(s))
      BY <1>1, <2>1, <2>2, Zenon
    <2>4. QED
      BY <2>3, Zenon
  <1>7. QED
    BY <1>5, <1>6

LEMMA NextInv ==
    ASSUME Inv, [Next]_vars
    PROVE  Inv' /\ QueueStep /\ ByteStep
  <1>0. bytes \in Seq(Byte)
    BY DEF Inv, TypeOK
  <1>1. ASSUME UNCHANGED bytes PROVE ByteStep
    BY <1>0, <1>1, NotTail DEF ByteStep
  <1>2. ASSUME NEW k \in Keys, Press(k) \/ Release(k) PROVE Inv' /\ QueueStep /\ ByteStep
    <2>1. Inv' /\ UNCHANGED keyboardVars /\ Queue' = Queue
      BY <1>2, HardwareInv
    <2>2. PICK t \in Seq(Byte) : bytes' = bytes \o t
      BY <1>2, SentBytes DEF Press, Release
    <2>3. QED
      BY <1>0, <2>1, <2>2, NotTail DEF QueueStep, ByteStep, keyboardVars
  <1>3. CASE Tick
    <2>1. UNCHANGED bytes
      BY <1>3 DEF Tick
    <2>2. QED
      BY <1>1, <1>3, <2>1, HardwareInv DEF QueueStep, keyboardVars
  <1>4. CASE TimerInterrupt \/ KeyboardInterrupt
    BY <1>1, <1>4, InterruptInv DEF QueueStep, keyboardVars
  <1>5. CASE irq_handler
    <2>1. bytes' = bytes \/ (bytes' # bytes)
      OBVIOUS
    <2>2. QED
      BY <1>1, <1>5, <2>1, HandlerInv DEF QueueStep, ByteStep
  <1>6. CASE poll_cli \/ poll_empty \/ update_and_draw \/ hlt
    BY <1>1, <1>6, LoopInv DEF QueueStep, keyboardVars
  <1>7. CASE poll_copy
    BY <1>1, <1>7, CopyInv DEF QueueStep
  <1>8. CASE poll_advance
    BY <1>1, <1>8, AdvanceInv DEF QueueStep
  <1>9. CASE tty_poll_input
    BY <1>1, <1>9, DispatchInv DEF QueueStep, keyboardVars
  <1>10. CASE UNCHANGED vars
    <2>1. UNCHANGED <<keyboardVars, down, bytes, tick, in_service, running, IF_flag, pc, current_tty>>
      BY <1>10 DEF vars
    <2>2. Typed' /\ DriverTypes' /\ Queue' = Queue
      BY <2>1, DriverUntouched DEF Inv
    <2>3. LoopTypes' /\ Control'
      BY <2>1, TypesSplit DEF Inv, LoopTypes, Control, Empty, ModifierKeys, Byte, keyboardVars
    <2>4. QED
      BY <1>1, <2>1, <2>2, <2>3, TypesSplitNext DEF Inv, QueueStep, keyboardVars
  <1>11. QED
    BY <1>2, <1>3, <1>4, <1>5, <1>6, <1>7, <1>8, <1>9, <1>10 DEF Next, kernel_main

-----------------------------------------------------------------------------
\* The inductive invariant holds in every reachable state, for every ring,
\* keyboard and set of TTYs.
THEOREM InputInvariant == Spec => []Inv
  <1>1. Inv /\ [Next]_vars => Inv'
    BY NextInv
  <1>2. QED
    BY <1>1, InitInv, PTL DEF Spec

\* The driver's and the loop's variables keep their types.
THEOREM InputTypes == Spec => []TypeOK
  <1>1. Inv => TypeOK
    BY DEF Inv
  <1>2. QED
    BY <1>1, InputInvariant, PTL

\* Every key is handled by the TTY in front at its place in the typing.
THEOREM KeysReachTheirTTY == Spec => []DispatchInFront
  <1>1. Inv => DispatchInFront
    BY DEF Inv, Typed, InHand, DispatchInFront
  <1>2. QED
    BY <1>1, InputInvariant, PTL

\* A key press is lost only when KEY_BUFFER_SIZE - 1 events wait already.
THEOREM NoneLostWithRoom == Spec => LostOnlyWhenFull
  <1>1. Inv /\ [Next]_vars => ByteStep
    BY NextInv
  <1>2. ByteStep =>
          [bytes # << >> /\ bytes' = Tail(bytes) /\ MakesEvent(Head(bytes))
             => Len(Queue') = Len(Queue) + 1 \/ Len(Queue) = KEY_BUFFER_SIZE - 1]_vars
    BY DEF ByteStep, N
  <1>3. QED
    BY <1>1, <1>2, InputInvariant, PTL DEF Spec, LostOnlyWhenFull

\* The ring, its interrupt handler and the poll implement the bounded
\* first-in first-out queue of EventQueue.tla.
THEOREM RingRefinesEventQueue == Spec => RefinesEventQueue
  <1>1. LoopInit => Q!Init
    <2> SUFFICES ASSUME LoopInit PROVE Q!Init
      OBVIOUS
    <2>1. TypeOK /\ First = buffer_head /\ event = NoEvent
      BY InitInv DEF Inv, LoopInit, Init, First
    <2>2. Queue \in Seq(KeyEvent) /\ Len(Queue) = 0
      <3>1. First \in Slots /\ Waiting = Count(First, First) /\ Len(Queue) = Waiting
        BY <2>1, QueueLength, RingTypes
      <3>2. Count(First, First) = 0
        BY <3>1, CountBounds
      <3>3. QED
        BY <3>1, <3>2, InitInv DEF Inv, Typed
    <2>3. Queue = << >>
      BY <2>2, EmptySeq
    <2>4. QED
      BY <2>1, <2>3 DEF Q!Init
  <1>2. QueueStep => [Q!Next]_<<Queue, event>>
    <2>1. ASSUME UNCHANGED <<Queue, event>> PROVE [Q!Next]_<<Queue, event>>
      BY <2>1
    <2>2. ASSUME event' = event, EventQueued PROVE Q!Next
      <3> DEFINE e == EventOf(Head(bytes))
      <3>1. Q!Put(e) /\ e \in KeyEvent
        BY <2>2 DEF Q!Put, N, EventQueued
      <3> HIDE DEF e
      <3>2. QED
        BY <3>1 DEF Q!Next
    <2>3. ASSUME Queue # << >>, event' = Head(Queue), Queue' = Tail(Queue)
          PROVE  Q!Next
      BY <2>3 DEF Q!Next, Q!Take
    <2>4. QED
      BY <2>1, <2>2, <2>3 DEF QueueStep
  <1>3. Inv /\ [Next]_vars => [Q!Next]_<<Queue, event>>
    BY <1>2, NextInv
  <1>4. QED
    BY <1>1, <1>3, InputInvariant, PTL DEF Spec, RefinesEventQueue, Q!Spec

-----------------------------------------------------------------------------
(***************************************************************************)
(* The bytes on their way: which key each of them is of, and what the last *)
(* ones of a modifier will leave in the driver's flags.                    *)
(***************************************************************************)

\* A byte of a key, going down or coming up.
OfKey(k, byte) == byte \in {CodeOf[k], CodeOf[k] + RELEASE}

\* The byte to come at i has the prefix before it, read already or on its way.
Prefixed(line, flag, i) == IF i = 1 THEN flag = 1 ELSE line[i - 1] = PREFIX

\* Every byte is a prefix or of a key that has one exactly if the byte has.
Wire ==
    /\ ~ Prefixed(bytes, extended_key, Len(bytes) + 1)
    /\ \A i \in 1 .. Len(bytes) :
          \/ bytes[i] = PREFIX
          \/ \E k \in Keys : OfKey(k, bytes[i]) /\ (Prefixed(bytes, extended_key, i) <=> k \in Extended)

\* The last byte of a modifier on its way, 0 for what was read; and whether it
\* says that a key of it went down.
Names == {"shift", "ctrl", "alt"}
OfModifier(m, byte) == \E k \in KeysOf(m) : OfKey(k, byte)
LastByte(line, m, i) ==
    /\ i = 0 \/ OfModifier(m, line[i])
    /\ \A j \in i + 1 .. Len(line) : ~ OfModifier(m, line[j])
SaysDown(line, flags, m, i) == IF i = 0 THEN m \in flags ELSE line[i] < RELEASE

\* What a modifier's flag will be when all is read: clear while none of its keys
\* is held, set while all are.
Follows(says, m) ==
    /\ says => \E k \in KeysOf(m) : k \in down
    /\ KeysOf(m) # {} /\ KeysOf(m) \subseteq down => says
Tracked ==
    \A m \in Names : \A i \in 0 .. Len(bytes) :
        LastByte(bytes, m, i) => Follows(SaysDown(bytes, pressed, m, i), m)

\* The bytes of different keys are different, and none is the prefix.
LEMMA CodesTold ==
    /\ \A k \in Keys : CodeOf[k] \in 0 .. 127 /\ ~ OfKey(k, PREFIX)
    /\ \A k, l \in Keys : \A byte : OfKey(k, byte) /\ OfKey(l, byte) => CodeOf[k] = CodeOf[l]
    /\ \A k \in Keys : CodeOf[k] \in Codes /\ CodeOf[k] # CodeOf[k] + RELEASE
  <1>1. \A k \in Keys : CodeOf[k] \in Codes /\ CodeOf[k] \in 0 .. 127 /\ CodeOf[k] # 96
    BY KeysAssumption, CodesAssumption
  <1>2. ASSUME NEW k \in Keys, NEW l \in Keys, NEW byte, OfKey(k, byte), OfKey(l, byte)
        PROVE  CodeOf[k] = CodeOf[l]
    <2>1. CodeOf[k] \in 0 .. 127 /\ CodeOf[l] \in 0 .. 127
      BY <1>1
    <2>2. \/ CodeOf[k] = CodeOf[l] \/ CodeOf[k] = CodeOf[l] + RELEASE
          \/ CodeOf[k] + RELEASE = CodeOf[l] \/ CodeOf[k] + RELEASE = CodeOf[l] + RELEASE
      BY <1>2, Zenon DEF OfKey
    <2>3. ASSUME NEW a \in 0 .. 127, NEW b \in 0 .. 127
          PROVE  a # b + RELEASE /\ a + RELEASE # b /\ (a + RELEASE = b + RELEASE => a = b)
      BY DEF RELEASE
    <2>4. QED
      BY <2>1, <2>2, <2>3
  <1>3. \A k \in Keys : ~ OfKey(k, PREFIX) /\ CodeOf[k] # CodeOf[k] + RELEASE
    <2> SUFFICES ASSUME NEW k \in Keys PROVE ~ OfKey(k, PREFIX) /\ CodeOf[k] # CodeOf[k] + RELEASE
      OBVIOUS
    <2>1. CodeOf[k] \in 0 .. 127 /\ CodeOf[k] # 96
      BY <1>1
    <2>2. CodeOf[k] # 224 /\ CodeOf[k] + 128 # 224 /\ CodeOf[k] # CodeOf[k] + 128
      BY <2>1
    <2>3. QED
      BY <2>2 DEF OfKey, RELEASE, PREFIX
  <1>4. QED
    BY <1>1, <1>2, <1>3

\* What a byte does to the flags and the prefix.
LEMMA Decoded ==
    ASSUME NEW byte, keyboard_handler(byte)
    PROVE  /\ extended_key' = IF byte = PREFIX THEN 1 ELSE 0
           /\ byte = PREFIX => pressed' = pressed
           /\ \A code \in 0 .. 127 : byte = code =>
                 pressed' = IF code \in Modifiers THEN pressed \cup {ModifierOf(code)} ELSE pressed
           /\ \A code \in 0 .. 127 : byte # PREFIX /\ byte = code + RELEASE =>
                 pressed' = IF code \in Modifiers THEN pressed \ {ModifierOf(code)} ELSE pressed
  <1>1. CASE byte = PREFIX
    <2>1. Prefix
      BY <1>1 DEF keyboard_handler, PREFIX, RELEASE
    <2>2. QED
      BY <1>1, <2>1 DEF Prefix, PREFIX
  <1>2. CASE byte # PREFIX /\ byte >= RELEASE /\ KeyUp(byte - RELEASE)
    <2>1. \A code \in 0 .. 127 : byte # code /\ (byte = code + RELEASE => byte - RELEASE = code)
      BY <1>2 DEF RELEASE
    <2>2. QED
      BY <1>2, <2>1 DEF KeyUp
  <1>3. CASE byte < RELEASE /\ byte \in Modifiers /\ ModifierDown(byte)
    <2>1. byte # PREFIX /\ \A code \in 0 .. 127 : byte # code + RELEASE
      BY <1>3 DEF RELEASE, PREFIX
    <2>2. QED
      BY <1>3, <2>1 DEF ModifierDown
  <1>4. CASE byte < RELEASE /\ byte \notin Modifiers /\ KeyDown(byte)
    <2>1. byte # PREFIX /\ \A code \in 0 .. 127 : byte # code + RELEASE
      BY <1>4 DEF RELEASE, PREFIX
    <2>2. QED
      BY <1>4, <2>1 DEF KeyDown
  <1>5. QED
    BY <1>1, <1>2, <1>3, <1>4 DEF keyboard_handler

\* The steps of the system, as the wire sees them.
Typing(k) ==
    \/ bytes' = bytes \o Sent(k, CodeOf[k])
       /\ down' = IF k \in ModifierKeys THEN down \cup {k} ELSE down
    \/ bytes' = bytes \o Sent(k, CodeOf[k] + RELEASE) /\ down' = down \ {k}
Reading == /\ bytes # << >> /\ keyboard_handler(Head(bytes)) /\ bytes' = Tail(bytes) /\ down' = down

LEMMA WireSteps ==
    ASSUME Inv, [Next]_vars
    PROVE  \/ \E k \in Keys : Typing(k) /\ UNCHANGED <<pressed, extended_key>>
           \/ Reading
           \/ UNCHANGED <<pressed, extended_key, down, bytes>>
  <1>1. ASSUME NEW k \in Keys, Press(k) \/ Release(k)
        PROVE  Typing(k) /\ UNCHANGED <<pressed, extended_key>>
    BY <1>1 DEF Press, Release, Typing, keyboardVars
  <1>2. CASE irq_handler
    BY <1>2 DEF irq_handler, Reading, keyboardVars, Inv, Control
  <1>3. CASE Tick \/ TimerInterrupt \/ KeyboardInterrupt
    BY <1>3 DEF Tick, TimerInterrupt, KeyboardInterrupt, Interrupt, keyboardVars
  <1>4. CASE kernel_main
    BY <1>4 DEF kernel_main, poll_cli, poll_empty, poll_copy, poll_advance, tty_poll_input,
                update_and_draw, hlt, CopyEvent, AdvanceTail, keyboardVars, hardware
  <1>5. CASE UNCHANGED vars
    BY <1>5 DEF vars, keyboardVars
  <1>6. QED
    BY <1>1, <1>2, <1>3, <1>4, <1>5 DEF Next

\* The bytes behind those on their way, and those left when one was read.
LEMMA BytesSent ==
    ASSUME bytes \in Seq(Byte), NEW k \in Keys, NEW code \in Byte, code # PREFIX
    PROVE  LET new == bytes \o Sent(k, code)
               n == Len(bytes)
           IN  /\ n \in Nat /\ Len(new) \in Nat
               /\ Len(new) = IF k \in Extended THEN n + 2 ELSE n + 1
               /\ \A i \in 1 .. n : new[i] = bytes[i]
               /\ new[Len(new)] = code
               /\ k \in Extended => new[n + 1] = PREFIX
  <1> DEFINE s == Sent(k, code)
  <1>1. /\ s \in Seq(Byte) /\ Len(s) = (IF k \in Extended THEN 2 ELSE 1)
        /\ s[Len(s)] = code /\ (k \in Extended => s[1] = PREFIX)
    <2>1. PREFIX \in Byte
      BY DEF Byte
    <2>2. CASE k \in Extended
      <3>1. s = <<PREFIX, code>>
        BY <2>2 DEF Sent
      <3>2. QED
        BY <2>1, <2>2, <3>1
    <2>3. CASE k \notin Extended
      <3>1. s = <<code>>
        BY <2>3 DEF Sent
      <3>2. QED
        BY <2>3, <3>1
    <2>4. QED
      BY <2>2, <2>3
  <1>2. Len(bytes) \in Nat
    BY LenProperties
  <1> HIDE DEF s
  <1>3. /\ Len(bytes \o s) = Len(bytes) + Len(s)
        /\ \A i \in 1 .. Len(bytes) + Len(s) :
              (bytes \o s)[i] = IF i <= Len(bytes) THEN bytes[i] ELSE s[i - Len(bytes)]
    BY <1>1, ConcatProperties
  <1>4. \A i \in 1 .. Len(bytes) : (bytes \o s)[i] = bytes[i]
    BY <1>1, <1>2, <1>3
  <1>5. (bytes \o s)[Len(bytes) + Len(s)] = s[Len(s)]
    <2>1. /\ Len(bytes) + Len(s) \in 1 .. Len(bytes) + Len(s) /\ ~ (Len(bytes) + Len(s) <= Len(bytes))
          /\ (Len(bytes) + Len(s)) - Len(bytes) = Len(s)
      BY <1>1, <1>2
    <2>2. QED
      BY <1>3, <2>1
  <1>6. (bytes \o s)[Len(bytes) + 1] = s[1]
    <2>1. /\ Len(bytes) + 1 \in 1 .. Len(bytes) + Len(s) /\ ~ (Len(bytes) + 1 <= Len(bytes))
          /\ (Len(bytes) + 1) - Len(bytes) = 1
      BY <1>1, <1>2
    <2>2. QED
      BY <1>3, <2>1
  <1>7. QED
    BY <1>1, <1>2, <1>3, <1>4, <1>5, <1>6 DEF s

LEMMA BytesRest ==
    ASSUME bytes \in Seq(Byte), bytes # << >>
    PROVE  /\ Len(bytes) \in Nat \ {0} /\ Head(bytes) = bytes[1] /\ Len(Tail(bytes)) = Len(bytes) - 1
           /\ \A i \in 1 .. Len(bytes) - 1 : Tail(bytes)[i] = bytes[i + 1]
  BY HeadTailProperties, EmptySeq, LenProperties

-----------------------------------------------------------------------------
LEMMA InitWire == LoopInit => Wire /\ Tracked
  <1> SUFFICES ASSUME LoopInit PROVE Wire /\ Tracked
    OBVIOUS
  <1>1. bytes = << >> /\ Len(bytes) = 0 /\ extended_key = 0 /\ pressed = {} /\ down = {}
    BY EmptySeq DEF LoopInit, Init
  <1>2. QED
    BY <1>1 DEF Wire, Tracked, Prefixed, LastByte, SaysDown, Follows

LEMMA WireTyping ==
    ASSUME Inv, Wire, NEW k \in Keys, Typing(k), UNCHANGED extended_key
    PROVE  Wire'
  <1> DEFINE n == Len(bytes)
  <1>1. PICK code \in {CodeOf[k], CodeOf[k] + RELEASE} : bytes' = bytes \o Sent(k, code)
    BY DEF Typing
  <1>2. bytes \in Seq(Byte) /\ code \in Byte /\ code # PREFIX /\ OfKey(k, code)
    BY <1>1, CodesTold DEF Inv, TypeOK, Byte, OfKey
  <1>3. /\ n \in Nat /\ Len(bytes') = IF k \in Extended THEN n + 2 ELSE n + 1
        /\ \A i \in 1 .. n : bytes'[i] = bytes[i]
        /\ bytes'[Len(bytes')] = code
        /\ k \in Extended => bytes'[n + 1] = PREFIX
    BY <1>1, <1>2, BytesSent
  <1>4. \A i \in 1 .. n + 1 : Prefixed(bytes', extended_key', i) <=> Prefixed(bytes, extended_key, i)
    <2> SUFFICES ASSUME NEW i \in 1 .. n + 1 PROVE Prefixed(bytes', extended_key', i) <=> Prefixed(bytes, extended_key, i)
      OBVIOUS
    <2>1. i # 1 => i - 1 \in 1 .. n
      BY <1>3
    <2>2. QED
      BY <1>3, <2>1 DEF Prefixed
  <1>5. ~ Prefixed(bytes, extended_key, n + 1) /\ n + 1 \in 1 .. n + 1
    BY <1>3 DEF Wire
  <1>6. Prefixed(bytes', extended_key', Len(bytes')) <=> k \in Extended
    <2>1. CASE k \in Extended
      <3>1. Len(bytes') = n + 2 /\ n + 2 # 1 /\ (n + 2) - 1 = n + 1 /\ bytes'[n + 1] = PREFIX
        BY <1>3, <2>1
      <3>2. QED
        BY <2>1, <3>1 DEF Prefixed
    <2>2. CASE k \notin Extended
      BY <1>3, <1>4, <1>5, <2>2
    <2>3. QED
      BY <2>1, <2>2
  <1>7. ~ Prefixed(bytes', extended_key', Len(bytes') + 1)
    <2>1. Len(bytes') + 1 # 1 /\ (Len(bytes') + 1) - 1 = Len(bytes')
      BY <1>3
    <2>2. QED
      BY <1>2, <1>3, <2>1 DEF Prefixed
  <1>8. ASSUME NEW i \in 1 .. Len(bytes')
        PROVE  \/ bytes'[i] = PREFIX
               \/ \E l \in Keys : OfKey(l, bytes'[i]) /\ (Prefixed(bytes', extended_key', i) <=> l \in Extended)
    <2>1. CASE i \in 1 .. n
      <3>1. Prefixed(bytes', extended_key', i) <=> Prefixed(bytes, extended_key, i)
        BY <1>3, <1>4, <2>1
      <3>2. bytes'[i] = bytes[i]
        BY <1>3, <2>1
      <3>3. QED
        BY <2>1, <3>1, <3>2 DEF Wire
    <2>2. CASE i = Len(bytes')
      BY <1>2, <1>3, <1>6, <2>2
    <2>3. CASE i \notin 1 .. n /\ i # Len(bytes')
      <3>1. k \in Extended /\ i = n + 1
        BY <1>3, <2>3
      <3>2. QED
        BY <1>3, <3>1
    <2>4. QED
      BY <2>1, <2>2, <2>3
  <1>9. QED
    BY <1>7, <1>8 DEF Wire, OfKey

LEMMA WireReading ==
    ASSUME Inv, Wire, Reading
    PROVE  Wire'
  <1> DEFINE n == Len(bytes)
  <1>1. bytes \in Seq(Byte) /\ bytes # << >> /\ bytes' = Tail(bytes)
    BY DEF Inv, TypeOK, Reading
  <1>2. /\ n \in Nat \ {0} /\ Head(bytes) = bytes[1] /\ Len(bytes') = n - 1
        /\ \A i \in 1 .. n - 1 : bytes'[i] = bytes[i + 1]
    BY <1>1, BytesRest
  <1>3. extended_key' = IF bytes[1] = PREFIX THEN 1 ELSE 0
    BY <1>2, Decoded DEF Reading
  <1>4. \A i \in 1 .. n : Prefixed(bytes', extended_key', i) <=> Prefixed(bytes, extended_key, i + 1)
    <2> SUFFICES ASSUME NEW i \in 1 .. n PROVE Prefixed(bytes', extended_key', i) <=> Prefixed(bytes, extended_key, i + 1)
      OBVIOUS
    <2>1. CASE i = 1
      <3>1. i + 1 # 1 /\ (i + 1) - 1 = 1
        BY <2>1
      <3>2. QED
        BY <1>3, <2>1, <3>1 DEF Prefixed
    <2>2. CASE i # 1
      <3>1. i + 1 # 1 /\ (i + 1) - 1 = (i - 1) + 1 /\ i - 1 \in 1 .. n - 1
        BY <1>2, <2>2
      <3>2. QED
        BY <1>2, <2>2, <3>1 DEF Prefixed
    <2>3. QED
      BY <2>1, <2>2
  <1>5. ~ Prefixed(bytes', extended_key', Len(bytes') + 1)
    <2>1. Len(bytes') + 1 = n /\ n \in 1 .. n
      BY <1>2
    <2>2. QED
      BY <1>4, <2>1 DEF Wire
  <1>6. ASSUME NEW i \in 1 .. Len(bytes')
        PROVE  \/ bytes'[i] = PREFIX
               \/ \E l \in Keys : OfKey(l, bytes'[i]) /\ (Prefixed(bytes', extended_key', i) <=> l \in Extended)
    <2>1. i \in 1 .. n /\ i + 1 \in 1 .. n /\ bytes'[i] = bytes[i + 1]
      BY <1>2
    <2>2. QED
      BY <1>4, <2>1 DEF Wire
  <1>7. QED
    BY <1>5, <1>6 DEF Wire, OfKey

LEMMA WireNext ==
    ASSUME Inv, Wire, [Next]_vars
    PROVE  Wire'
  <1>1. CASE UNCHANGED <<pressed, extended_key, down, bytes>>
    BY <1>1 DEF Wire, Prefixed, OfKey
  <1>2. QED
    BY <1>1, WireSteps, WireTyping, WireReading

\* A key sends bytes of its own modifier and of no other; a plain key of none.
LEMMA ModifierBytes ==
    ASSUME NEW m \in Names, NEW key \in Keys, NEW byte, OfKey(key, byte)
    PROVE  /\ key \in KeysOf(m) => OfModifier(m, byte)
           /\ key \notin KeysOf(m) => ~ OfModifier(m, byte)
           /\ key \in KeysOf(m) <=> CodeOf[key] \in Modifiers /\ ModifierOf(CodeOf[key]) = m
  <1>1. key \in KeysOf(m) <=> CodeOf[key] \in Modifiers /\ ModifierOf(CodeOf[key]) = m
    BY DEF KeysOf, ModifierKeys
  <1>2. ASSUME NEW k \in KeysOf(m), OfKey(k, byte)
        PROVE  key \in KeysOf(m)
    <2>1. k \in Keys /\ CodeOf[k] \in Modifiers /\ ModifierOf(CodeOf[k]) = m
      BY DEF KeysOf, ModifierKeys
    <2>2. CodeOf[k] = CodeOf[key]
      BY <1>2, <2>1, CodesTold
    <2>3. QED
      BY <1>1, <2>1, <2>2
  <1>3. QED
    BY <1>1, <1>2 DEF OfModifier

LEMMA TrackedTyping ==
    ASSUME Inv, Tracked, NEW key \in Keys, Typing(key), UNCHANGED pressed
    PROVE  Tracked'
  <1> DEFINE n == Len(bytes)
  <1>1. PICK code \in {CodeOf[key], CodeOf[key] + RELEASE} :
          /\ bytes' = bytes \o Sent(key, code)
          /\ key \in ModifierKeys => (key \in down' <=> code = CodeOf[key])
          /\ \A k : k # key => (k \in down' <=> k \in down)
    BY CodesTold DEF Typing
  <1>2. /\ bytes \in Seq(Byte) /\ code \in Byte /\ code # PREFIX /\ OfKey(key, code)
        /\ code < RELEASE <=> code = CodeOf[key]
    <2>1. CodeOf[key] \in 0 .. 127 /\ CodeOf[key] < 128 /\ ~ (CodeOf[key] + 128 < 128)
      BY CodesTold
    <2>2. QED
      BY <1>1, <2>1, CodesTold DEF Inv, TypeOK, Byte, OfKey, RELEASE
  <1>3. /\ n \in Nat /\ Len(bytes') = IF key \in Extended THEN n + 2 ELSE n + 1
        /\ \A i \in 1 .. n : bytes'[i] = bytes[i]
        /\ bytes'[Len(bytes')] = code
        /\ key \in Extended => bytes'[n + 1] = PREFIX
    BY <1>1, <1>2, BytesSent
  <1>4. \A i \in n + 1 .. Len(bytes') : bytes'[i] = code \/ bytes'[i] = PREFIX
    <2> SUFFICES ASSUME NEW i \in n + 1 .. Len(bytes') PROVE bytes'[i] = code \/ bytes'[i] = PREFIX
      OBVIOUS
    <2>1. i = Len(bytes') \/ (key \in Extended /\ i = n + 1)
      BY <1>3
    <2>2. QED
      BY <1>3, <2>1
  <1>5. ASSUME NEW m \in Names, NEW i \in 0 .. Len(bytes'), LastByte(bytes', m, i)
        PROVE  /\ SaysDown(bytes', pressed, m, i) => \E k \in KeysOf(m) : k \in down'
               /\ KeysOf(m) # {} /\ KeysOf(m) \subseteq down' => SaysDown(bytes', pressed, m, i)
    <2>1. CASE key \in KeysOf(m)
      <3>1. i = Len(bytes') /\ i # 0
        <4>1. Len(bytes') \in Nat /\ Len(bytes') # 0
          BY <1>3
        <4>2. OfModifier(m, bytes'[Len(bytes')])
          BY <1>2, <1>3, <2>1, ModifierBytes
        <4>3. Len(bytes') \notin i + 1 .. Len(bytes')
          BY <1>5, <4>2 DEF LastByte
        <4>4. QED
          BY <4>1, <4>3
      <3>2. SaysDown(bytes', pressed, m, i) <=> code = CodeOf[key]
        BY <1>2, <1>3, <3>1 DEF SaysDown
      <3>3. key \in down' <=> code = CodeOf[key]
        BY <1>1, <2>1 DEF KeysOf
      <3>4. CASE code = CodeOf[key]
        BY <2>1, <3>2, <3>3, <3>4
      <3>5. CASE code # CodeOf[key]
        BY <2>1, <3>2, <3>3, <3>5
      <3>6. QED
        BY <3>4, <3>5
    <2>2. CASE key \notin KeysOf(m)
      <3>1. ~ OfModifier(m, code) /\ ~ OfModifier(m, PREFIX)
        BY <1>2, <2>2, ModifierBytes, CodesTold DEF OfModifier, KeysOf, ModifierKeys
      <3>2. i \in 0 .. n
        <4>1. i \in n + 1 .. Len(bytes') => ~ OfModifier(m, bytes'[i])
          BY <1>4, <3>1
        <4>2. i = 0 \/ OfModifier(m, bytes'[i])
          BY <1>5 DEF LastByte
        <4>3. QED
          BY <1>3, <4>1, <4>2
      <3>3. i # 0 => bytes'[i] = bytes[i]
        BY <1>3, <3>2
      <3>4. LastByte(bytes, m, i)
        <4>1. \A j \in i + 1 .. n : j \in i + 1 .. Len(bytes') /\ bytes'[j] = bytes[j]
          BY <1>3, <3>2
        <4>2. QED
          BY <1>5, <3>3, <4>1 DEF LastByte
      <3>5. SaysDown(bytes', pressed, m, i) <=> SaysDown(bytes, pressed, m, i)
        BY <3>3 DEF SaysDown
      <3>6. Follows(SaysDown(bytes, pressed, m, i), m)
        BY <3>2, <3>4 DEF Tracked
      <3>7. \A k \in KeysOf(m) : k \in down' <=> k \in down
        BY <1>1, <2>2
      <3>8. QED
        BY <3>5, <3>6, <3>7 DEF Follows
    <2>3. QED
      BY <2>1, <2>2
  <1>6. QED
    BY <1>5 DEF Tracked, LastByte, SaysDown, Follows, OfModifier, OfKey, KeysOf, ModifierKeys

LEMMA TrackedReading ==
    ASSUME Inv, Wire, Tracked, Reading
    PROVE  Tracked'
  <1> DEFINE n == Len(bytes)
             byte == bytes[1]
  <1>1. bytes \in Seq(Byte) /\ bytes # << >> /\ bytes' = Tail(bytes) /\ down' = down
    BY DEF Inv, TypeOK, Reading
  <1>2. /\ n \in Nat \ {0} /\ Head(bytes) = byte /\ Len(bytes') = n - 1
        /\ \A i \in 1 .. n - 1 : bytes'[i] = bytes[i + 1]
    BY <1>1, BytesRest
  <1>3. /\ byte = PREFIX => pressed' = pressed
        /\ \A code \in 0 .. 127 : byte = code =>
              pressed' = IF code \in Modifiers THEN pressed \cup {ModifierOf(code)} ELSE pressed
        /\ \A code \in 0 .. 127 : byte # PREFIX /\ byte = code + RELEASE =>
              pressed' = IF code \in Modifiers THEN pressed \ {ModifierOf(code)} ELSE pressed
    <2>1. keyboard_handler(byte)
      BY <1>2 DEF Reading
    <2> HIDE DEF byte
    <2>2. QED
      BY <2>1, Decoded
  <1>4. byte = PREFIX \/ \E l \in Keys : OfKey(l, byte)
    <2>1. 1 \in 1 .. n
      BY <1>2
    <2>2. QED
      BY <2>1 DEF Wire
  <1> HIDE DEF byte
  \* The byte says of its own modifier what the flag becomes, of others nothing.
  <1>5. ASSUME NEW m \in Names
        PROVE  /\ OfModifier(m, byte) => (m \in pressed' <=> byte < RELEASE)
               /\ ~ OfModifier(m, byte) => (m \in pressed' <=> m \in pressed)
    <2>1. CASE byte = PREFIX
      <3>1. ~ OfModifier(m, byte)
        BY <2>1, CodesTold DEF OfModifier, KeysOf, ModifierKeys
      <3>2. QED
        BY <1>3, <2>1, <3>1
    <2>2. ASSUME NEW l \in Keys, OfKey(l, byte)
          PROVE  <1>5!2
      <3>1. /\ byte # PREFIX /\ CodeOf[l] \in 0 .. 127 /\ CodeOf[l] # CodeOf[l] + RELEASE
            /\ CodeOf[l] < RELEASE /\ ~ (CodeOf[l] + RELEASE < RELEASE)
        <4>1. byte # PREFIX /\ CodeOf[l] \in 0 .. 127 /\ CodeOf[l] # CodeOf[l] + RELEASE
          BY <2>2, CodesTold
        <4>2. QED
          BY <4>1 DEF RELEASE
      <3>2. byte = CodeOf[l] \/ byte = CodeOf[l] + RELEASE
        BY <2>2 DEF OfKey
      <3>3. pressed' = IF CodeOf[l] \notin Modifiers THEN pressed
                       ELSE IF byte < RELEASE THEN pressed \cup {ModifierOf(CodeOf[l])}
                       ELSE pressed \ {ModifierOf(CodeOf[l])}
        BY <1>3, <3>1, <3>2
      <3>4. OfModifier(m, byte) <=> CodeOf[l] \in Modifiers /\ ModifierOf(CodeOf[l]) = m
        BY <2>2, ModifierBytes
      <3>5. QED
        BY <3>3, <3>4
    <2>3. QED
      BY <1>4, <2>1, <2>2
  <1>6. ASSUME NEW m \in Names, NEW i \in 0 .. Len(bytes'), LastByte(bytes', m, i)
        PROVE  Follows(SaysDown(bytes', pressed', m, i), m)
    <2>1. \A j \in i + 2 .. n : ~ OfModifier(m, bytes[j])
      <3> SUFFICES ASSUME NEW j \in i + 2 .. n PROVE ~ OfModifier(m, bytes[j])
        OBVIOUS
      <3>1. j - 1 \in i + 1 .. Len(bytes') /\ bytes'[j - 1] = bytes[(j - 1) + 1] /\ (j - 1) + 1 = j
        BY <1>2
      <3>2. QED
        BY <1>6, <3>1 DEF LastByte
    <2>2. CASE i # 0
      <3>1. i \in 1 .. n - 1 /\ i + 1 \in 0 .. n /\ i + 1 # 0 /\ (i + 1) + 1 = i + 2
            /\ bytes'[i] = bytes[i + 1]
        BY <1>2, <2>2
      <3>2. LastByte(bytes, m, i + 1)
        BY <1>6, <2>1, <2>2, <3>1 DEF LastByte
      <3>3. Follows(SaysDown(bytes, pressed, m, i + 1), m)
        BY <3>1, <3>2 DEF Tracked
      <3>4. SaysDown(bytes', pressed', m, i) <=> SaysDown(bytes, pressed, m, i + 1)
        BY <2>2, <3>1 DEF SaysDown
      <3>5. QED
        BY <3>3, <3>4 DEF Follows
    <2>3. CASE i = 0 /\ OfModifier(m, byte)
      <3>1. 1 \in 0 .. n /\ 1 # 0 /\ LastByte(bytes, m, 1)
        <4>1. 1 + 1 = i + 2 /\ 1 \in 0 .. n
          BY <1>2, <2>3
        <4>2. QED
          BY <2>1, <2>3, <4>1 DEF LastByte, byte
      <3>2. Follows(SaysDown(bytes, pressed, m, 1), m)
        BY <3>1 DEF Tracked
      <3>3. SaysDown(bytes', pressed', m, i) <=> SaysDown(bytes, pressed, m, 1)
        BY <1>5, <2>3, <3>1 DEF SaysDown, byte
      <3>4. QED
        BY <3>2, <3>3 DEF Follows
    <2>4. CASE i = 0 /\ ~ OfModifier(m, byte)
      <3>1. 0 \in 0 .. n /\ LastByte(bytes, m, 0)
        <4>1. \A j \in 0 + 1 .. n : j = 1 \/ j \in i + 2 .. n
          BY <1>2, <2>4
        <4>2. \A j \in 0 + 1 .. n : ~ OfModifier(m, bytes[j])
          BY <2>1, <2>4, <4>1 DEF byte
        <4>3. 0 \in 0 .. n
          BY <1>2
        <4>4. QED
          BY <4>2, <4>3 DEF LastByte
      <3>2. Follows(SaysDown(bytes, pressed, m, 0), m)
        BY <3>1 DEF Tracked
      <3>3. SaysDown(bytes', pressed', m, i) <=> SaysDown(bytes, pressed, m, 0)
        BY <1>5, <2>4 DEF SaysDown
      <3>4. QED
        BY <3>2, <3>3 DEF Follows
    <2>5. QED
      BY <2>2, <2>3, <2>4
  <1>7. QED
    BY <1>1, <1>6 DEF Tracked, LastByte, SaysDown, Follows, OfModifier, OfKey, KeysOf, ModifierKeys

LEMMA TrackedNext ==
    ASSUME Inv, Wire, Tracked, [Next]_vars
    PROVE  Tracked'
  <1>1. CASE UNCHANGED <<pressed, extended_key, down, bytes>>
    BY <1>1 DEF Tracked, LastByte, SaysDown, Follows, OfModifier, OfKey, KeysOf, ModifierKeys
  <1>2. QED
    BY <1>1, WireSteps, TrackedTyping, TrackedReading

-----------------------------------------------------------------------------
\* On any keyboard and any ring, however presses, releases, prefixes, interrupts
\* and polls interleave: whenever no byte is on its way, shift_pressed, ctrl_pressed
\* and alt_pressed are clear if none of their keys is held, and set if all are; with
\* one key to a modifier that is whether it is held.
THEOREM FlagsFollowKeys == Spec => []ModifiersFollow
  <1> DEFINE I == Inv /\ Wire /\ Tracked
  <1>1. LoopInit => I
    BY InitInv, InitWire
  <1>2. I /\ [Next]_vars => I'
    BY NextInv, WireNext, TrackedNext
  <1>3. I => ModifiersFollow
    <2> SUFFICES ASSUME Tracked, bytes = << >>, NEW m \in Names
                 PROVE  /\ m \in pressed => KeysOf(m) \cap down # {}
                        /\ KeysOf(m) # {} /\ KeysOf(m) \subseteq down => m \in pressed
      BY DEF ModifiersFollow, Names
    <2>1. Len(bytes) = 0
      BY EmptySeq
    <2>2. LastByte(bytes, m, 0)
      BY <2>1 DEF LastByte
    <2>3. Follows(m \in pressed, m)
      BY <2>1, <2>2 DEF Tracked, SaysDown
    <2>4. QED
      BY <2>3 DEF Follows
  <1>4. QED
    BY <1>1, <1>2, <1>3, PTL DEF Spec

\* On a keyboard whose codes and prefixes belong together an event is special
\* exactly if its key sends the prefix or selects a TTY: whatever comes between
\* the interrupts of the two bytes, the prefix counts for its own key alone.
THEOREM PrefixCountsOnce ==
    ASSUME PrefixTells
    PROVE  Spec => []PrefixForOneKey
  <1> DEFINE Told(e) == e.type = "special" <=>
                 \/ e.scancode \in ExtendedCodes
                 \/ "alt" \in e.mods /\ F1 <= e.scancode /\ e.scancode <= F6
             AllTold(q) == \A i \in DOMAIN q : Told(q[i])
             I == Inv /\ Wire /\ AllTold(Queue)
  <1>1. LoopInit => I
    <2> SUFFICES ASSUME LoopInit PROVE I
      OBVIOUS
    <2>1. Inv /\ Wire
      BY InitInv, InitWire
    <2>2. First = buffer_head
      BY DEF LoopInit, Init, First
    <2>3. Waiting = 0
      BY <2>1, <2>2, RingTypes, CountBounds DEF Inv
    <2>4. DOMAIN Queue = {}
      BY <2>3 DEF Queue
    <2>5. QED
      BY <2>1, <2>4
  <1>2. ASSUME Inv, Wire, EventQueued PROVE Told(EventOf(Head(bytes)))
    <2> DEFINE byte == Head(bytes)
    <2>1. /\ byte = bytes[1] /\ 1 \in 1 .. Len(bytes) /\ MakesEvent(byte)
      BY <1>2, BytesRest DEF EventQueued, Inv, TypeOK
    <2>2. byte < RELEASE /\ byte \notin Modifiers
      BY <2>1 DEF MakesEvent
    <2> HIDE DEF byte
    <2>3. byte # PREFIX
      BY <2>2 DEF PREFIX, RELEASE
    <2>4. PICK k \in Keys : OfKey(k, byte) /\ (extended_key = 1 <=> k \in Extended)
      BY <1>2, <2>1, <2>3 DEF Wire, Prefixed
    <2>5. CodeOf[k] = byte
      BY <2>2, <2>4, CodesTold DEF OfKey, RELEASE
    <2>6. byte \in ExtendedCodes <=> k \in Extended
      BY <2>2, <2>5 DEF ExtendedCodes, PrefixTells
    <2> HIDE DEF byte
    <2>7. /\ EventOf(byte).scancode = byte /\ EventOf(byte).mods = pressed
          /\ EventOf(byte).type = "special" <=> SelectsTTY(byte) \/ extended_key = 1
      BY DEF EventOf
    <2>8. QED
      BY <2>4, <2>6, <2>7 DEF SelectsTTY, byte
  <1>3. ASSUME I, [Next]_vars PROVE I'
    <2>1. Inv' /\ Wire' /\ QueueStep /\ Queue \in Seq(KeyEvent)
      BY <1>3, NextInv, WireNext DEF Inv, Typed
    <2>2. CASE UNCHANGED <<Queue, event>>
      BY <1>3, <2>1, <2>2
    <2>3. CASE EventQueued
      <3> DEFINE e == EventOf(Head(bytes))
                 q == Queue
      <3>1. Told(e) /\ e \in KeyEvent /\ Queue' = Append(q, e) /\ q \in Seq(KeyEvent) /\ AllTold(q)
        BY <1>2, <1>3, <2>1, <2>3 DEF EventQueued
      <3> HIDE DEF e, q, Told
      <3>2. AllTold(Append(q, e))
        <4>1. Len(q) \in Nat /\ DOMAIN q = 1 .. Len(q) /\ DOMAIN Append(q, e) = 1 .. Len(q) + 1
              /\ \A i \in 1 .. Len(q) + 1 : Append(q, e)[i] = IF i <= Len(q) THEN q[i] ELSE e
          BY <3>1, AppendProperties, LenProperties
        <4>2. QED
          BY <3>1, <4>1
      <3>3. QED
        BY <2>1, <3>1, <3>2 DEF Told
    <2>4. CASE Queue # << >> /\ Queue' = Tail(Queue)
      <3> DEFINE q == Queue
      <3>1. q # << >> /\ Queue' = Tail(q) /\ q \in Seq(KeyEvent) /\ AllTold(q)
        BY <1>3, <2>1, <2>4
      <3> HIDE DEF q, Told
      <3>2. AllTold(Tail(q))
        <4>1. Len(q) \in Nat /\ DOMAIN q = 1 .. Len(q) /\ DOMAIN Tail(q) = 1 .. Len(q) - 1
              /\ \A i \in 1 .. Len(q) - 1 : Tail(q)[i] = q[i + 1]
          BY <3>1, HeadTailProperties, LenProperties
        <4>2. QED
          BY <3>1, <4>1
      <3>3. QED
        BY <2>1, <3>1, <3>2 DEF Told
    <2>5. QED
      BY <2>1, <2>2, <2>3, <2>4 DEF QueueStep
  <1>4. I => PrefixForOneKey
    BY DEF PrefixForOneKey
  <1>5. QED
    BY <1>1, <1>3, <1>4, PTL DEF Spec
=============================================================================
