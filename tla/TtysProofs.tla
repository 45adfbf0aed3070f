----------------------------- MODULE TtysProofs -----------------------------
(***************************************************************************)
(* For any number of terminals, any games and any lines: the modes agree,  *)
(* the line on the screen is the line of the shell in front, and a game    *)
(* that runs is played somewhere.                                          *)
(***************************************************************************)
EXTENDS Ttys, SequenceTheorems, FiniteSetTheorems, WellFoundedInduction, TLAPS

\* A line never begins with the NUL: the parse writes it behind a word.
Text == Seq(Games \cup Words \cup {NUL})
Line == {l \in Text : l # << >> => l[1] # NUL}
Terminal ==
    [mode : {"SHELL", "GAME"}, program : Games \cup {SHELL}, needs_redraw : BOOLEAN, command : Line]
Globals ==
    [running : BOOLEAN, over : BOOLEAN, initialized : BOOLEAN, needs_redraw : BOOLEAN,
     counter : Nat]

\* The types, as far as the steps need them.
Shape ==
    /\ current_tty \in TTYs
    /\ ttys \in [TTYs -> Terminal]
    /\ tty_backup \in [TTYs -> Terminal]
    /\ game \in [Games -> Globals]
    /\ \E shows, cursor : \E text \in Text :
          screen = [picture |-> [shows |-> shows, text |-> text], cursor |-> cursor]

TtysInv == Shape /\ ModesAgree /\ RunningIsPlayed /\ LineOnScreen

-----------------------------------------------------------------------------
\* A line without a NUL is written to its end.
LEMMA WrittenWhole ==
    ASSUME NEW l \in Line, NUL \notin Range(l)
    PROVE  Written(l) = l
<1>1. DOMAIN l = 1 .. Len(l)
  BY LenProperties DEF Line, Text
<1>2. \A i \in 1 .. Len(l) : l[i] # NUL
  BY <1>1 DEF Range
<1>3. {i \in 1 .. Len(l) : l[i] = NUL} = {}
  BY <1>2
<1>4. Printed(l) = 0
  BY <1>3 DEF Printed, SelectInSeq
<1> QED
  BY <1>4 DEF Written

\* The least of a set of numbers: where SelectInSeq finds the first NUL.
LEMMA LeastNumber ==
    ASSUME NEW S, S \subseteq Nat, S # {}
    PROVE  \E m \in S : \A n \in S : m <= n
  <1>1. PICK m \in S : \A n \in S : ~ (<<n, m>> \in OpToRel(<, Nat))
    BY NatLessThanWellFounded, WFMin, Zenon
  <1>2. \A n \in S : ~ (n < m)
    <2> SUFFICES ASSUME NEW n \in S, n < m PROVE FALSE
      OBVIOUS
    <2>1. <<n, m>> \in Nat \X Nat /\ <<n, m>>[1] < <<n, m>>[2]
      OBVIOUS
    <2>2. QED
      BY <1>1, <2>1, Zenon DEF OpToRel
  <1>3. QED
    BY <1>2

\* What is written of a line begins with its command.
LEMMA CommandWritten ==
    ASSUME NEW l \in Line
    PROVE  /\ Written(l) \in Text
           /\ l # << >> => Written(l) # << >> /\ Written(l)[1] = l[1]
<1>1. l \in Text /\ Len(l) \in Nat /\ (l # << >> => l[1] # NUL)
  BY LenProperties DEF Line, Text
<1> DEFINE I == {i \in 1 .. Len(l) : l[i] = NUL}
<1>2. CASE I = {}
  <2>1. Printed(l) = 0
    BY <1>2 DEF Printed, SelectInSeq
  <2> QED
    BY <1>1, <2>1 DEF Written
<1>3. CASE I # {}
  <2>1. \E p \in I : \A q \in I : p <= q
    <3>1. I \subseteq Nat
      OBVIOUS
    <3> HIDE DEF I
    <3> QED
      BY <1>3, <3>1, LeastNumber
  <2>2. Printed(l) \in I
    BY <1>3, <2>1 DEF Printed, SelectInSeq, Min
  <2>3. Printed(l) - 1 \in 1 .. Len(l)
    BY <1>1, <2>2
  <2>4. Written(l) = SubSeq(l, 1, Printed(l) - 1)
    BY <1>1, <2>2 DEF Written
  <2> DEFINE n == Printed(l) - 1
  <2>5. \A i \in 1 .. n : l[i] \in Games \cup Words \cup {NUL}
    BY <1>1, <2>2, ElementOfSeq DEF Text
  <2>6. /\ SubSeq(l, 1, Printed(l) - 1) \in Text
        /\ Len(SubSeq(l, 1, Printed(l) - 1)) = Printed(l) - 1
        /\ SubSeq(l, 1, Printed(l) - 1)[1] = l[1]
    BY <1>1, <2>3, <2>5, SubSeqProperties DEF Text
  <2>7. SubSeq(l, 1, Printed(l) - 1) # << >>
    BY <2>3, <2>6
  <2> QED
    BY <2>4, <2>6, <2>7
<1> QED
  BY <1>2, <1>3

\* The parse puts a NUL into the line or leaves it.
LEMMA ParsedLine ==
    ASSUME NEW l \in Line
    PROVE  Parsed(l) \in Line
<1>1. CASE Len(l) > 1 /\ l[2] # NUL
  <2>1. Len(l) \in Nat /\ l # << >>
    BY <1>1, LenProperties DEF Line, Text
  <2>2. Tail(l) \in Text
    BY <2>1, HeadTailProperties DEF Line, Text
  <2>3. l[1] \in Games \cup Words \cup {NUL} /\ l[1] # NUL
    BY <1>1, <2>1, ElementOfSeq DEF Line, Text
  <2>4. <<l[1], NUL>> \in Text
    BY <2>3 DEF Text
  <2>5. /\ <<l[1], NUL>> \o Tail(l) \in Text
        /\ (<<l[1], NUL>> \o Tail(l))[1] = l[1]
    BY <2>2, <2>4, ConcatProperties DEF Text
  <2> QED
    BY <1>1, <2>3, <2>5 DEF Parsed, Line
<1>2. CASE ~ (Len(l) > 1 /\ l[2] # NUL)
  BY <1>2 DEF Parsed
<1> QED
  BY <1>1, <1>2

\* A word typed behind a text comes after what it begins with.
LEMMA TextTyped ==
    ASSUME NEW l \in Text, NEW word \in Games \cup Words
    PROVE  /\ Append(l, word) \in Text /\ Append(l, word) # << >>
           /\ Append(l, word)[1] = IF l = << >> THEN word ELSE l[1]
<1>1. /\ Append(l, word) \in Text /\ Append(l, word) # << >>
      /\ Append(l, word)[Len(l) + 1] = word
      /\ \A i \in 1 .. Len(l) : Append(l, word)[i] = l[i]
  BY AppendProperties DEF Text
<1>2. CASE l = << >>
  BY <1>1, <1>2
<1>3. CASE l # << >>
  <2>1. Len(l) \in Nat \ {0}
    BY <1>3, EmptySeq DEF Text
  <2> QED
    BY <1>1, <1>3, <2>1
<1> QED
  BY <1>1, <1>2, <1>3

\* A word typed behind a line brings no NUL and takes none away.
LEMMA WordTyped ==
    ASSUME NEW l \in Line, NEW word \in Games \cup Words
    PROVE  /\ Append(l, word) \in Line /\ Append(l, word)[1] = IF l = << >> THEN word ELSE l[1]
           /\ NUL \notin Range(Append(l, word)) => NUL \notin Range(l)
<1>1. /\ Append(l, word) \in Text /\ l \in Text
      /\ Len(Append(l, word)) = Len(l) + 1
      /\ \A i \in 1 .. Len(l) : Append(l, word)[i] = l[i]
  BY AppendProperties DEF Line, Text
<1>2. DOMAIN l = 1 .. Len(l) /\ Len(l) \in Nat
  BY LenProperties DEF Line, Text
<1>3. DOMAIN Append(l, word) = 1 .. Len(l) + 1
  BY <1>1, LenProperties DEF Line, Text
<1>4. \A i \in DOMAIN l : i \in DOMAIN Append(l, word) /\ Append(l, word)[i] = l[i]
  BY <1>1, <1>2, <1>3
<1>5. Range(l) \subseteq Range(Append(l, word))
  BY <1>4 DEF Range
<1>6. Append(l, word)[1] = IF l = << >> THEN word ELSE l[1]
  BY <1>1, TextTyped
<1>7. Append(l, word) \in Line
  BY <1>1, <1>6, TtysAssumption DEF Line
<1> QED
  BY <1>5, <1>6, <1>7

\* The globals of a game stay globals and its flag stays, however often it is
\* updated.
LEMMA UpdatedGlobals ==
    ASSUME Shape, NEW g \in Games, NEW n \in Nat, NEW ends \in BOOLEAN
    PROVE  /\ Updated(g, n, ends) \in Globals
           /\ Updated(g, n, ends).running = game[g].running
<1>1. game[g] \in Globals
  BY DEF Shape
<1>2. game[g].counter + n \in Nat /\ Interval \in Nat \ {0}
  BY <1>1, TtysAssumption DEF Globals
<1>3. (game[g].counter + n) % Interval \in Nat
  BY <1>2
<1>4. (game[g].needs_redraw \/ game[g].counter + n >= Interval) \in BOOLEAN
  BY <1>2
<1> QED
  BY <1>1, <1>3, <1>4 DEF Updated, Globals

-----------------------------------------------------------------------------
\* The kernel starts in a shell with an empty line.
LEMMA TtysInit == Init => TtysInv
<1> SUFFICES ASSUME Init PROVE TtysInv
  OBVIOUS
<1>1. << >> \in Line /\ << >> \in Text /\ NUL \notin Range(<< >>)
  BY DEF Line, Text, Range
<1>2. Written(<< >>) = << >>
  BY <1>1, WrittenWhole
<1>3. Shell(<< >>) \in Terminal
  BY <1>1 DEF Shell, Terminal
<1>4. \A t \in TTYs : ttys[t] = Shell(<< >>) /\ tty_backup[t] = Shell(<< >>)
  BY DEF Init
<1>5. \A g \in Games : game[g] \in Globals /\ ~ game[g].running
  BY DEF Init, Fresh, Globals
<1>6. Shape
  BY <1>1, <1>2, <1>3, <1>5, TtysAssumption DEF Init, Shape, Fresh, Prompt
<1>7. ModesAgree
  BY <1>4, TtysAssumption DEF ModesAgree, Shell
<1>8. RunningIsPlayed
  BY <1>5 DEF RunningIsPlayed
<1>9. LineOnScreen
  <2>1. front = Shell(<< >>) /\ screen = [picture |-> Prompt(<< >>), cursor |-> TRUE]
    BY <1>4, TtysAssumption DEF Init, front
  <2> QED
    BY <1>2, <2>1 DEF LineOnScreen, Shell, Prompt
<1> QED
  BY <1>6, <1>7, <1>8, <1>9 DEF TtysInv

\* A step of the shell in front that changes no more than its line and the text
\* on the screen, which agree.
LEMMA LineChanged ==
    ASSUME TtysInv, front.program = SHELL, NEW l \in Line, NEW text \in Text,
           ttys' = [ttys EXCEPT ![current_tty].command = l],
           screen' = [screen EXCEPT !.picture = [shows |-> SHELL, text |-> text]],
           NUL \notin Range(l) => text = l,
           l # << >> => text # << >> /\ text[1] = l[1],
           UNCHANGED <<tty_backup, current_tty, game>>
    PROVE  TtysInv'
<1>1. current_tty \in TTYs /\ ttys \in [TTYs -> Terminal]
  BY DEF TtysInv, Shape
<1>2. ttys' \in [TTYs -> Terminal]
  BY <1>1 DEF Terminal
<1>3. \A t \in TTYs : ttys'[t].mode = ttys[t].mode /\ ttys'[t].program = ttys[t].program
  BY <1>1 DEF Terminal
<1>4. front'.command = l /\ front'.program = SHELL /\ front'.mode = front.mode
  BY <1>1, <1>3 DEF front, Terminal
<1>5. screen' = [picture |-> [shows |-> SHELL, text |-> text], cursor |-> screen.cursor]
  BY DEF TtysInv, Shape
<1>6. Shape'
  BY <1>2, <1>5 DEF TtysInv, Shape
<1>7. ModesAgree'
  BY <1>3 DEF TtysInv, ModesAgree
<1>8. RunningIsPlayed'
  BY <1>3 DEF TtysInv, RunningIsPlayed
<1>9. LineOnScreen'
  BY <1>4, <1>5 DEF TtysInv, LineOnScreen
<1> QED
  BY <1>6, <1>7, <1>8, <1>9 DEF TtysInv

\* The keys of the shell that start no game.
LEMMA ShellKeys ==
    ASSUME TtysInv, TypeWord \/ Interrupt \/ RunCommand
    PROVE  TtysInv'
<1>1. << >> \in Line /\ << >> \in Text /\ Prompt(<< >>) = [shows |-> SHELL, text |-> << >>]
  <2>1. << >> \in Line /\ << >> \in Text /\ NUL \notin Range(<< >>)
    BY DEF Line, Text, Range
  <2>2. Written(<< >>) = << >>
    BY <2>1, WrittenWhole
  <2> QED
    BY <2>1, <2>2 DEF Prompt
<1>2. CASE Interrupt \/ RunCommand
  <2>1. /\ front.program = SHELL
        /\ ttys' = [ttys EXCEPT ![current_tty].command = << >>]
        /\ screen' = [screen EXCEPT !.picture = [shows |-> SHELL, text |-> << >>]]
        /\ UNCHANGED <<tty_backup, current_tty, game>>
    BY <1>1, <1>2 DEF Interrupt, RunCommand
  <2> QED
    BY <1>1, <2>1, LineChanged
<1>3. CASE TypeWord
  <2>1. PICK word \in Games \cup Words :
           /\ ttys' = [ttys EXCEPT ![current_tty].command = Append(@, word)]
           /\ screen' = [screen EXCEPT !.picture.text = Append(@, word)]
    BY <1>3 DEF TypeWord
  <2>2. front.program = SHELL /\ UNCHANGED <<tty_backup, current_tty, game>>
    BY <1>3 DEF TypeWord
  <2> DEFINE l == Append(front.command, word)
             text == Append(screen.picture.text, word)
  <2>3. front.command \in Line
    BY DEF TtysInv, Shape, Terminal, front
  <2>4. l \in Line /\ (NUL \notin Range(l) => NUL \notin Range(front.command))
    BY <2>3, WordTyped
  <2>5. ttys' = [ttys EXCEPT ![current_tty].command = l]
    BY <2>1 DEF front
  <2>6. screen.picture.shows = SHELL
    BY <2>2 DEF TtysInv, LineOnScreen
  <2>7. screen' = [screen EXCEPT !.picture = [shows |-> SHELL, text |-> text]]
    <3>1. PICK s, t, c : screen = [picture |-> [shows |-> s, text |-> t], cursor |-> c]
      BY DEF TtysInv, Shape
    <3>2. s = SHELL
      BY <2>6, <3>1
    <3> HIDE DEF text
    <3>3. /\ screen.cursor = c
          /\ screen' = [picture |-> [shows |-> s, text |-> Append(t, word)], cursor |-> c]
      BY <2>1, <3>1
    <3>4. text = Append(t, word)
      BY <3>1 DEF text
    <3> DEFINE new == [shows |-> SHELL, text |-> text]
    <3>5. screen' = [picture |-> new, cursor |-> c]
      BY <3>2, <3>3, <3>4, Zenon
    <3> HIDE DEF new
    <3>6. [screen EXCEPT !.picture = new] = [picture |-> new, cursor |-> c]
      BY <3>1
    <3> QED
      BY <3>5, <3>6, Zenon DEF new
  <2>8. NUL \notin Range(l) => text = l
    BY <2>2, <2>4 DEF TtysInv, LineOnScreen
  <2>9. screen.picture.text \in Text
    BY DEF TtysInv, Shape
  <2>10. text \in Text /\ text # << >> /\ text[1] = IF screen.picture.text = << >> THEN word ELSE screen.picture.text[1]
    BY <2>9, TextTyped
  <2>11. text # << >> /\ text[1] = l[1]
    <3>1. NUL \notin Range(<< >>)
      BY DEF Range
    <3>2. front.command = << >> => screen.picture.text = << >>
      BY <2>2, <3>1 DEF TtysInv, LineOnScreen
    <3>3. front.command # << >> =>
            screen.picture.text # << >> /\ screen.picture.text[1] = front.command[1]
      BY <2>2 DEF TtysInv, LineOnScreen
    <3>4. l[1] = IF front.command = << >> THEN word ELSE front.command[1]
      BY <2>3, WordTyped
    <3> HIDE DEF l, text
    <3> QED
      BY <2>10, <3>2, <3>3, <3>4
  <2> HIDE DEF l, text
  <2> QED
    BY <2>2, <2>4, <2>5, <2>7, <2>8, <2>10, <2>11, LineChanged
<1> QED
  BY <1>2, <1>3

\* A game starts: the shell is in the backup, and the cursor is hidden.
LEMMA GameStarts ==
    ASSUME TtysInv, StartGame
    PROVE  TtysInv'
<1> DEFINE t0 == current_tty
           g == front.command[1]
<1>1. /\ t0 \in TTYs /\ ttys \in [TTYs -> Terminal] /\ tty_backup \in [TTYs -> Terminal]
      /\ game \in [Games -> Globals]
  BY DEF TtysInv, Shape
<1>2. front = ttys[t0] /\ front \in Terminal /\ front.program = SHELL /\ g \in Games
  BY <1>1 DEF StartGame, NamesGame, front
<1>3. Parsed(front.command) \in Line
  BY <1>2, ParsedLine DEF Terminal
<1> DEFINE saved == [front EXCEPT !.command = Parsed(front.command)]
           playing == [[saved EXCEPT !.mode = "GAME", !.program = g, !.needs_redraw = TRUE]
                         EXCEPT !.command = << >>]
<1>4. /\ ttys' = [ttys EXCEPT ![t0] = playing]
      /\ tty_backup' = [tty_backup EXCEPT ![t0] = saved]
      /\ game' = [game EXCEPT ![g] = Fresh]
      /\ screen' = [picture |-> Prompt(<< >>), cursor |-> FALSE]
      /\ current_tty' = t0
  BY DEF StartGame, tty_change_mode
<1>5. saved \in Terminal /\ saved.program = SHELL
  BY <1>2, <1>3 DEF Terminal
<1>6. playing \in Terminal /\ playing.program = g /\ playing.mode = "GAME"
  <2>1. << >> \in Line
    BY DEF Line, Text
  <2> QED
    BY <1>2, <1>5, <2>1 DEF Terminal
<1>7. Fresh \in Globals
  BY DEF Fresh, Globals
<1> HIDE DEF saved, playing, g, t0
<1>8. /\ \A t \in TTYs : ttys'[t] = IF t = t0 THEN playing ELSE ttys[t]
      /\ \A t \in TTYs : tty_backup'[t] = IF t = t0 THEN saved ELSE tty_backup[t]
      /\ \A h \in Games : game'[h] = IF h = g THEN Fresh ELSE game[h]
  BY <1>1, <1>4
<1>9. Shape'
  <2>1. ttys' \in [TTYs -> Terminal] /\ tty_backup' \in [TTYs -> Terminal]
    BY <1>1, <1>4, <1>5, <1>6
  <2>2. game' \in [Games -> Globals]
    BY <1>1, <1>4, <1>7
  <2>3. \E shows, cursor : \E text \in Text :
           screen' = [picture |-> [shows |-> shows, text |-> text], cursor |-> cursor]
    <3>1. << >> \in Line
      BY DEF Line, Text
    <3> QED
      BY <1>4, <3>1, CommandWritten DEF Prompt
  <2> QED
    BY <1>1, <1>4, <2>1, <2>2, <2>3 DEF Shape
<1>10. ModesAgree'
  BY <1>2, <1>5, <1>6, <1>8 DEF TtysInv, ModesAgree
<1>11. RunningIsPlayed'
  <2> SUFFICES ASSUME NEW h \in Games, game'[h].running
               PROVE  \E t \in TTYs : ttys'[t].program = h
    BY DEF RunningIsPlayed
  <2>1. CASE h = g
    BY <1>1, <1>6, <1>8, <2>1
  <2>2. CASE h # g
    <3>1. PICK t \in TTYs : ttys[t].program = h
      BY <1>8, <2>2 DEF TtysInv, RunningIsPlayed
    <3>2. t # t0
      BY <1>2, <3>1, TtysAssumption
    <3> QED
      BY <1>8, <3>1, <3>2
  <2> QED
    BY <2>1, <2>2
<1>12. LineOnScreen'
  <2>1. front' = playing
    BY <1>1, <1>4, <1>8 DEF front
  <2>2. ~ screen'.cursor /\ g # SHELL
    BY <1>2, <1>4, TtysAssumption
  <2> QED
    BY <1>4, <1>6, <2>1, <2>2 DEF LineOnScreen
<1> QED
  BY <1>9, <1>10, <1>11, <1>12 DEF TtysInv

\* ESC, Alt+Fn and R.
LEMMA EscapeKeeps ==
    ASSUME TtysInv, Escape
    PROVE  TtysInv'
<1> DEFINE t0 == current_tty
           g == front.program
           line == tty_backup[t0].command
           shell == [Shell(line) EXCEPT !.program = tty_backup[t0].program]
<1>1. /\ t0 \in TTYs /\ ttys \in [TTYs -> Terminal] /\ tty_backup \in [TTYs -> Terminal]
      /\ game \in [Games -> Globals]
  BY DEF TtysInv, Shape
<1>2. g \in Games /\ g = ttys[t0].program
  BY DEF Escape, front
<1>3. tty_backup[t0].program = SHELL /\ line \in Line
  BY <1>1, <1>2 DEF TtysInv, ModesAgree, Terminal
<1>4. /\ shell \in Terminal /\ shell.mode = "SHELL" /\ shell.program = SHELL
      /\ shell.command = line
  BY <1>3 DEF Shell, Terminal
<1>5. /\ ttys' = [ttys EXCEPT ![t0] = shell]
      /\ game' = [game EXCEPT ![g].running = FALSE]
      /\ screen' = [picture |-> Prompt(line), cursor |-> TRUE]
      /\ UNCHANGED <<tty_backup, current_tty>>
  BY DEF Escape, tty_restore_to_shell
<1> HIDE DEF shell, g, t0, line
<1>6. /\ \A t \in TTYs : ttys'[t] = IF t = t0 THEN shell ELSE ttys[t]
      /\ \A h \in Games : game'[h].running = IF h = g THEN FALSE ELSE game[h].running
  BY <1>1, <1>4, <1>5 DEF Globals
<1>7. Shape'
  <2>1. ttys' \in [TTYs -> Terminal]
    BY <1>1, <1>4, <1>5
  <2>2. game' \in [Games -> Globals]
    BY <1>1, <1>5 DEF Globals
  <2>3. \E shows, cursor : \E text \in Text :
           screen' = [picture |-> [shows |-> shows, text |-> text], cursor |-> cursor]
    BY <1>3, <1>5, CommandWritten DEF Prompt
  <2> QED
    BY <1>1, <1>5, <2>1, <2>2, <2>3 DEF Shape, t0
<1>8. ModesAgree'
  BY <1>4, <1>5, <1>6, TtysAssumption DEF TtysInv, ModesAgree
<1>9. RunningIsPlayed'
  <2> SUFFICES ASSUME NEW h \in Games, game'[h].running
               PROVE  \E t \in TTYs : ttys'[t].program = h
    BY DEF RunningIsPlayed
  <2>1. h # g
    BY <1>6
  <2>2. PICK t \in TTYs : ttys[t].program = h
    BY <1>6, <2>1 DEF TtysInv, RunningIsPlayed
  <2> QED
    BY <1>2, <1>6, <2>1, <2>2
<1>10. LineOnScreen'
  <2>1. front' = shell
    BY <1>1, <1>5, <1>6 DEF front, t0
  <2>2. NUL \notin Range(line) => Written(line) = line
    BY <1>3, WrittenWhole
  <2> QED
    BY <1>3, <1>4, <1>5, <2>1, <2>2, CommandWritten DEF LineOnScreen, Prompt
<1> QED
  BY <1>7, <1>8, <1>9, <1>10 DEF TtysInv

LEMMA SwitchKeeps ==
    ASSUME TtysInv, NEW u \in TTYs, tty_switch(u)
    PROVE  TtysInv'
<1>1. /\ ttys \in [TTYs -> Terminal]
      /\ ttys' = [ttys EXCEPT ![u].needs_redraw = TRUE]
      /\ screen' = [picture |-> IF ttys[u].mode = "SHELL" THEN Prompt(ttys[u].command) ELSE Blank,
                    cursor  |-> ttys[u].mode # "GAME"]
      /\ current_tty' = u
      /\ UNCHANGED <<tty_backup, game>>
  BY DEF TtysInv, Shape, tty_switch
<1>2. ttys' \in [TTYs -> Terminal]
  BY <1>1 DEF Terminal
<1>3. \A t \in TTYs : /\ ttys'[t].mode = ttys[t].mode
                      /\ ttys'[t].program = ttys[t].program
                      /\ ttys'[t].command = ttys[t].command
  BY <1>1 DEF Terminal
<1>4. \E shows, cursor : \E text \in Text :
         screen' = [picture |-> [shows |-> shows, text |-> text], cursor |-> cursor]
  <2>1. << >> \in Text
    BY DEF Text
  <2>2. Written(ttys[u].command) \in Text
    BY <1>1, CommandWritten DEF Terminal
  <2> QED
    BY <1>1, <2>1, <2>2 DEF Prompt, Blank
<1>5. Shape'
  BY <1>1, <1>2, <1>4 DEF TtysInv, Shape
<1>6. ModesAgree'
  BY <1>1, <1>3 DEF TtysInv, ModesAgree
<1>7. RunningIsPlayed'
  BY <1>1, <1>3 DEF TtysInv, RunningIsPlayed
<1>8. LineOnScreen'
  <2>1. /\ front'.mode = ttys[u].mode /\ front'.program = ttys[u].program
        /\ front'.command = ttys[u].command
    BY <1>1, <1>3 DEF front
  <2>2. /\ ttys[u].mode \in {"SHELL", "GAME"} /\ ttys[u].program \in Games \cup {SHELL}
        /\ ttys[u].command \in Line
    BY <1>1 DEF Terminal
  <2>3. ttys[u].mode = "GAME" <=> ttys[u].program \in Games
    BY DEF TtysInv, ModesAgree
  <2>4. screen'.cursor <=> front'.mode = "SHELL"
    BY <1>1, <2>1, <2>2
  <2>5. ASSUME front'.program = SHELL
        PROVE  /\ screen'.picture.shows = SHELL
               /\ NUL \notin Range(front'.command) => screen'.picture.text = front'.command
               /\ front'.command # << >> =>
                     screen'.picture.text # << >> /\ screen'.picture.text[1] = front'.command[1]
    <3>1. ttys[u].mode = "SHELL"
      BY <2>1, <2>2, <2>3, <2>5, TtysAssumption
    <3>2. screen'.picture = Prompt(ttys[u].command)
      BY <1>1, <3>1
    <3>3. NUL \notin Range(ttys[u].command) => Written(ttys[u].command) = ttys[u].command
      BY <2>2, WrittenWhole
    <3> QED
      BY <2>1, <2>2, <3>2, <3>3, CommandWritten DEF Prompt
  <2> QED
    BY <2>4, <2>5 DEF LineOnScreen
<1> QED
  BY <1>5, <1>6, <1>7, <1>8 DEF TtysInv

LEMMA RestartKeeps ==
    ASSUME TtysInv, Restart
    PROVE  TtysInv'
<1>1. /\ front.program \in Games /\ current_tty \in TTYs
      /\ game \in [Games -> Globals]
      /\ game' = [game EXCEPT ![front.program] = Fresh]
      /\ UNCHANGED <<ttys, tty_backup, current_tty, screen>>
  BY DEF Restart, TtysInv, Shape
<1>2. Shape' /\ ModesAgree' /\ LineOnScreen'
  <2>1. Fresh \in Globals
    BY DEF Fresh, Globals
  <2>2. game' \in [Games -> Globals]
    BY <1>1, <2>1
  <2> QED
    BY <1>1, <2>2 DEF TtysInv, Shape, ModesAgree, LineOnScreen, front
<1>3. RunningIsPlayed'
  <2> SUFFICES ASSUME NEW h \in Games, game'[h].running
               PROVE  \E t \in TTYs : ttys'[t].program = h
    BY DEF RunningIsPlayed
  <2>1. CASE h = front.program
    BY <1>1, <2>1 DEF front
  <2>2. CASE h # front.program
    <3>1. game[h].running
      BY <1>1, <2>2
    <3> QED
      BY <1>1, <3>1 DEF TtysInv, RunningIsPlayed
  <2> QED
    BY <2>1, <2>2
<1> QED
  BY <1>2, <1>3 DEF TtysInv

\* A frame: no program, mode, line or running flag changes, and the cursor of a
\* screen a game draws on was hidden before.
LEMMA FrameKeeps ==
    ASSUME TtysInv, Frame
    PROVE  TtysInv'
<1>1. /\ current_tty \in TTYs /\ ttys \in [TTYs -> Terminal] /\ game \in [Games -> Globals]
      /\ front = ttys[current_tty] /\ front \in Terminal
  BY DEF TtysInv, Shape, front
<1>2. PICK ends \in [Games -> BOOLEAN] :
         LET state == [g \in Games |-> Updated(g, Players(g), ends[g])]
         IN  IF front.program = SHELL THEN DrawShell(state) ELSE DrawGame(front.program, state)
  BY DEF Frame
<1> DEFINE state == [g \in Games |-> Updated(g, Players(g), ends[g])]
<1>3. \A g \in Games : Players(g) \in Nat
  <2> SUFFICES ASSUME NEW g \in Games PROVE Players(g) \in Nat
    OBVIOUS
  <2> DEFINE P == {t \in TTYs : ttys[t].program = g}
  <2>1. IsFiniteSet(P)
    BY TtysAssumption, FS_Subset
  <2>2. Cardinality(P) \in Nat
    BY <2>1, FS_CardinalityType
  <2> QED
    BY <2>2 DEF Players
<1>4. \A g \in Games : state[g] \in Globals /\ state[g].running = game[g].running
  BY <1>3, UpdatedGlobals DEF TtysInv
<1>5. state \in [Games -> Globals]
  BY <1>4
<1>6. UNCHANGED <<tty_backup, current_tty>>
  BY DEF Frame
<1>7. CASE front.program = SHELL
  <2>1. /\ game' = state /\ screen' = screen
        /\ ttys' = [ttys EXCEPT ![current_tty].needs_redraw = FALSE]
    BY <1>2, <1>7 DEF DrawShell
  <2> HIDE DEF state
  <2>2. ttys' \in [TTYs -> Terminal]
    BY <1>1, <2>1 DEF Terminal
  <2>3. \A t \in TTYs : /\ ttys'[t].mode = ttys[t].mode
                        /\ ttys'[t].program = ttys[t].program
                        /\ ttys'[t].command = ttys[t].command
    BY <1>1, <2>1 DEF Terminal
  <2>4. Shape'
    BY <1>5, <1>6, <2>1, <2>2 DEF TtysInv, Shape
  <2>5. ModesAgree' /\ RunningIsPlayed'
    BY <1>4, <1>6, <2>1, <2>3 DEF TtysInv, ModesAgree, RunningIsPlayed
  <2>6. LineOnScreen'
    BY <1>1, <1>6, <2>1, <2>3 DEF TtysInv, LineOnScreen, front
  <2> QED
    BY <2>4, <2>5, <2>6 DEF TtysInv
<1>8. CASE front.program # SHELL
  <2> DEFINE g == front.program
  <2>1. g \in Games
    BY <1>1, <1>8 DEF Terminal
  <2>2. /\ game' = [state EXCEPT ![g].initialized = TRUE, ![g].needs_redraw = FALSE]
        /\ screen' = IF state[g].needs_redraw \/ ~ state[g].initialized
                     THEN [picture |-> Picture(g), cursor |-> screen.cursor /\ state[g].initialized]
                     ELSE screen
        /\ UNCHANGED ttys
    BY <1>2, <1>8 DEF DrawGame
  <2> HIDE DEF state, g
  <2>3. game' \in [Games -> Globals] /\ \A h \in Games : game'[h].running = game[h].running
    BY <1>4, <1>5, <2>1, <2>2 DEF Globals
  <2>4. Shape'
    <3>1. \E shows, cursor : \E text \in Text :
             screen' = [picture |-> [shows |-> shows, text |-> text], cursor |-> cursor]
      <4>1. << >> \in Text
        BY DEF Text
      <4> QED
        BY <2>2, <4>1 DEF TtysInv, Shape, Picture
    <3> QED
      BY <1>6, <2>2, <2>3, <3>1 DEF TtysInv, Shape
  <2>5. ModesAgree' /\ RunningIsPlayed'
    BY <1>6, <2>2, <2>3 DEF TtysInv, ModesAgree, RunningIsPlayed
  <2>6. front.mode = "GAME" /\ ~ screen.cursor
    BY <1>1, <2>1 DEF TtysInv, ModesAgree, LineOnScreen, g
  <2>7. front' = front /\ ~ screen'.cursor
    BY <1>6, <2>2, <2>6 DEF front
  <2>8. LineOnScreen'
    BY <1>8, <2>6, <2>7 DEF LineOnScreen
  <2> QED
    BY <2>4, <2>5, <2>8 DEF TtysInv
<1> QED
  BY <1>7, <1>8

-----------------------------------------------------------------------------
\* TtysInv is inductive.
LEMMA TtysStep == TtysInv /\ [Next]_vars => TtysInv'
<1> SUFFICES ASSUME TtysInv, [Next]_vars PROVE TtysInv'
  OBVIOUS
<1>1. CASE shell_handle_char
  BY <1>1, ShellKeys, GameStarts DEF shell_handle_char
<1>2. CASE Escape
  BY <1>2, EscapeKeeps
<1>3. CASE Restart
  BY <1>3, RestartKeeps
<1>4. CASE \E t \in TTYs : tty_switch(t)
  BY <1>4, SwitchKeeps
<1>5. CASE Frame
  BY <1>5, FrameKeeps
<1>6. CASE UNCHANGED vars
  <2>1. Shape'
    BY <1>6 DEF vars, TtysInv, Shape
  <2>2. ModesAgree' /\ RunningIsPlayed'
    BY <1>6 DEF vars, TtysInv, ModesAgree, RunningIsPlayed
  <2>3. LineOnScreen'
    BY <1>6 DEF vars, TtysInv, LineOnScreen, front
  <2> QED
    BY <2>1, <2>2, <2>3 DEF TtysInv
<1> QED
  BY <1>1, <1>2, <1>3, <1>4, <1>5, <1>6 DEF Next

LEMMA TtysInvariant == Spec => []TtysInv
<1>1. Init => TtysInv
  BY TtysInit
<1>2. TtysInv /\ [Next]_vars => TtysInv'
  BY TtysStep
<1> QED
  BY <1>1, <1>2, PTL DEF Spec

\* The mode of every terminal fits its functions, and ESC in a game finds a
\* shell in the backup.
THEOREM ModesAlwaysAgree == Spec => []ModesAgree
<1>1. TtysInv => ModesAgree
  BY DEF TtysInv
<1> QED
  BY <1>1, TtysInvariant, PTL

\* However many terminals, games and switches: the line on the screen is the
\* one Enter runs, and begins with its command even if it came back with the NUL
\* of the parse; the cursor shows when a shell is in front.
THEOREM LineAlwaysOnScreen == Spec => []LineOnScreen
<1>1. TtysInv => LineOnScreen
  BY DEF TtysInv
<1> QED
  BY <1>1, TtysInvariant, PTL

\* No game runs on that no terminal can reach.
THEOREM RunningAlwaysPlayed == Spec => []RunningIsPlayed
<1>1. TtysInv => RunningIsPlayed
  BY DEF TtysInv
<1> QED
  BY <1>1, TtysInvariant, PTL
=============================================================================
