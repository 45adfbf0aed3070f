----------------------------- MODULE ShellProofs -----------------------------
(***************************************************************************)
(* For any size of the line's buffer and of the history, and any strings:  *)
(* the indices stay inside, the strings fit, a 0 ends the line, and the    *)
(* keys are those of an editor of lines.  For any size of the screen and   *)
(* any prompt: the row on which the line is shows the line.                *)
(***************************************************************************)
EXTENDS ShellScreen, SequenceTheorems, FiniteSetTheorems, WellFoundedInduction, TLAPS

-----------------------------------------------------------------------------
\* The least of a set of numbers.
LEMMA Least ==
    ASSUME NEW S, S \subseteq Nat, S # {}
    PROVE  Min(S) \in S /\ \A i \in S : Min(S) <= i
<1>1. PICK i \in S : \A j \in S : ~ (<<j, i>> \in OpToRel(<, Nat))
  BY NatLessThanWellFounded, WFMin, Zenon
<1>2. \A j \in S : ~ (j < i)
  <2> SUFFICES ASSUME NEW j \in S, j < i PROVE FALSE
    OBVIOUS
  <2>1. <<j, i>> \in Nat \X Nat /\ <<j, i>>[1] < <<j, i>>[2]
    OBVIOUS
  <2> QED
    BY <1>1, <2>1, Zenon DEF OpToRel
<1>3. i \in S /\ \A j \in S : i <= j
  BY <1>2
<1> QED
  BY <1>3 DEF Min

\* The places of the next space and of the next word lie in the string or just
\* behind it.
LEMMA PlacesInString ==
    ASSUME NEW S, NEW s \in Seq(S), NEW i \in 1 .. Len(s) + 1
    PROVE  /\ SpaceFrom(s, i) \in i .. Len(s) + 1
           /\ WordFrom(s, i) \in i .. Len(s) + 1
           /\ \A j \in i .. SpaceFrom(s, i) - 1 : s[j] # SPACE
           /\ \A j \in i .. WordFrom(s, i) - 1 : s[j] = SPACE
<1>1. Len(s) \in Nat
  OBVIOUS
<1> DEFINE A == {j \in i .. Len(s) : s[j] = SPACE}
           B == {j \in i .. Len(s) : s[j] # SPACE}
           Ends == {Len(s) + 1}
<1>7. A \cup Ends \subseteq Nat /\ A \cup Ends # {} /\ B \cup Ends \subseteq Nat /\ B \cup Ends # {}
  BY <1>1
<1>2. SpaceFrom(s, i) \in A \cup Ends /\ \A j \in A \cup Ends : SpaceFrom(s, i) <= j
  <2>1. SpaceFrom(s, i) = Min(A \cup Ends)
    BY Zenon DEF SpaceFrom
  <2> QED
    BY <1>7, <2>1, Least, Zenon
<1>3. WordFrom(s, i) \in B \cup Ends /\ \A j \in B \cup Ends : WordFrom(s, i) <= j
  <2>1. WordFrom(s, i) = Min(B \cup Ends)
    BY Zenon DEF WordFrom
  <2> QED
    BY <1>7, <2>1, Least, Zenon
<1>4. SpaceFrom(s, i) \in i .. Len(s) + 1 /\ WordFrom(s, i) \in i .. Len(s) + 1
  BY <1>1, <1>2, <1>3
<1>5. \A j \in i .. SpaceFrom(s, i) - 1 : s[j] # SPACE
  <2> SUFFICES ASSUME NEW j \in i .. SpaceFrom(s, i) - 1, s[j] = SPACE PROVE FALSE
    OBVIOUS
  <2>1. j \in i .. Len(s) /\ ~ (SpaceFrom(s, i) <= j)
    BY <1>1, <1>4
  <2> QED
    BY <1>2, <2>1
<1>6. \A j \in i .. WordFrom(s, i) - 1 : s[j] = SPACE
  <2> SUFFICES ASSUME NEW j \in i .. WordFrom(s, i) - 1, s[j] # SPACE PROVE FALSE
    OBVIOUS
  <2>1. j \in i .. Len(s) /\ ~ (WordFrom(s, i) <= j)
    BY <1>1, <1>4
  <2> QED
    BY <1>3, <2>1
<1> QED
  BY <1>4, <1>5, <1>6

\* What C's functions see of characters with a NUL among them is a string.
LEMMA CStringOf ==
    ASSUME NEW s \in Seq(Chars), NEW n \in 1 .. Len(s), s[n] = NUL
    PROVE  /\ CString(s) \in Seq(Typed) /\ Len(CString(s)) < n
           /\ \A i \in 1 .. Len(CString(s)) : CString(s)[i] = s[i]
           /\ s[Len(CString(s)) + 1] = NUL
<1> DEFINE I == {i \in 1 .. Len(s) : s[i] = NUL}
           nul == Min(I)
<1>1. Len(s) \in Nat /\ n \in I /\ I \subseteq Nat
  OBVIOUS
<1>2. nul \in I /\ \A i \in I : nul <= i
  BY <1>1, Least
<1>3. nul # 0 /\ I # {}
  BY <1>1, <1>2
<1>4. CString(s) = SubSeq(s, 1, nul - 1)
  BY <1>3, Zenon DEF CString, SelectInSeq
<1> HIDE DEF nul
<1>5. nul \in 1 .. Len(s) /\ nul <= n /\ s[nul] = NUL
  BY <1>1, <1>2
<1>6. \A i \in 1 .. nul - 1 : s[i] \in Typed /\ i \in DOMAIN s
  <2> SUFFICES ASSUME NEW i \in 1 .. nul - 1 PROVE s[i] \in Typed /\ i \in DOMAIN s
    OBVIOUS
  <2>1. i \in 1 .. Len(s) /\ ~ (nul <= i)
    BY <1>1, <1>5
  <2>2. s[i] # NUL
    BY <1>2, <2>1
  <2>3. s[i] \in Chars /\ i \in DOMAIN s
    BY <2>1, ElementOfSeq, LenProperties
  <2> QED
    BY <2>2, <2>3 DEF Chars
<1>7. /\ SubSeq(s, 1, nul - 1) \in Seq(Typed)
      /\ Len(SubSeq(s, 1, nul - 1)) = IF 1 <= nul - 1 THEN nul - 1 - 1 + 1 ELSE 0
      /\ \A i \in 1 .. nul - 1 - 1 + 1 : SubSeq(s, 1, nul - 1)[i] = s[1 + i - 1]
  BY <1>1, <1>5, <1>6, SubSeqProperties
<1>8. Len(CString(s)) = nul - 1 /\ nul - 1 - 1 + 1 = nul - 1
  BY <1>4, <1>5, <1>7
<1>9. \A i \in 1 .. nul - 1 : CString(s)[i] = s[i]
  <2> SUFFICES ASSUME NEW i \in 1 .. nul - 1 PROVE CString(s)[i] = s[i]
    OBVIOUS
  <2>1. CString(s)[i] = s[1 + i - 1]
    BY <1>4, <1>7, <1>8, Zenon
  <2>2. 1 + i - 1 = i
    BY <1>5
  <2> QED
    BY <2>1, <2>2, Zenon
<1>10. Len(CString(s)) < n /\ Len(CString(s)) + 1 = nul
  BY <1>5, <1>8
<1> QED
  BY <1>4, <1>5, <1>7, <1>8, <1>9, <1>10
-----------------------------------------------------------------------------
\* A line in a buffer: n characters, the cursor at c, and the 0 behind them.
LineOK(b, n, c) ==
    /\ b \in [Positions -> Chars]
    /\ n \in Positions
    /\ c \in 0 .. n
    /\ b[n] = NUL
HistoryOK ==
    /\ command_history \in [0 .. SHELL_HISTORY_SIZE - 1 -> String]
    /\ history_count \in 0 .. SHELL_HISTORY_SIZE
    /\ history_index \in -1 .. history_count - 1
    /\ temp_buffer \in String
BackupOK ==
    tty_backup.playing =>
        LineOK(tty_backup.command_buffer, tty_backup.buffer_index, tty_backup.cursor_position)

LEMMA TerminatedParts ==
    Terminated <=> LineOK(command_buffer, buffer_index, cursor_position) /\ HistoryOK /\ BackupOK
BY DEF Terminated, TypeOK, LineOK, HistoryOK, BackupOK

LEMMA TerminatedPartsNext ==
    Terminated' <=>
        LineOK(command_buffer', buffer_index', cursor_position') /\ HistoryOK' /\ BackupOK'
BY DEF Terminated, TypeOK, LineOK, HistoryOK, BackupOK

\* What the string functions see of a terminated line fits a buffer.
LEMMA StrIsString ==
    ASSUME SizesAssumption, Terminated
    PROVE  Str \in String
<1> DEFINE s == [i \in 1 .. SHELL_BUFFER_SIZE |-> command_buffer[i - 1]]
<1>1. SHELL_BUFFER_SIZE \in Nat \ {0}
  BY DEF SizesAssumption
<1>2. command_buffer \in [Positions -> Chars] /\ buffer_index \in Positions
      /\ command_buffer[buffer_index] = NUL
  BY DEF Terminated, TypeOK
<1>3. \A i \in 1 .. SHELL_BUFFER_SIZE : i - 1 \in Positions
  BY <1>1 DEF Positions
<1>4. s \in Seq(Chars) /\ Len(s) = SHELL_BUFFER_SIZE
  BY <1>1, <1>2, <1>3
<1>5. buffer_index + 1 \in 1 .. SHELL_BUFFER_SIZE /\ buffer_index + 1 - 1 = buffer_index
  BY <1>1, <1>2 DEF Positions
<1>6. s[buffer_index + 1] = NUL
  <2>1. \A j \in 1 .. SHELL_BUFFER_SIZE : s[j] = command_buffer[j - 1]
    OBVIOUS
  <2>2. s[buffer_index + 1] = command_buffer[buffer_index + 1 - 1]
    <3> HIDE DEF s
    <3> QED
      BY <1>1, <1>2, <1>5, <2>1 DEF Positions
  <2> QED
    BY <1>2, <1>5, <2>2, Zenon
<1>7. Str = CString(s)
  BY DEF Str
<1> HIDE DEF s
<1>8. Str \in Seq(Typed) /\ Len(Str) < buffer_index + 1
  BY <1>4, <1>5, <1>6, <1>7, CStringOf
<1>9. Len(Str) \in Nat /\ Len(Str) < SHELL_BUFFER_SIZE
  BY <1>1, <1>5, <1>8
<1> QED
  BY <1>8, <1>9 DEF String

\* strcpy of a string that fits leaves a line.
LEMMA SetLineOK ==
    ASSUME SizesAssumption, command_buffer \in [Positions -> Chars],
           NEW s \in Seq(Chars), Len(s) < SHELL_BUFFER_SIZE, SetLine(s)
    PROVE  LineOK(command_buffer', buffer_index', cursor_position')
<1>1. SHELL_BUFFER_SIZE \in Nat \ {0} /\ Len(s) \in Nat
  BY DEF SizesAssumption
<1>2. Len(s) \in Positions /\ Len(s) \in 0 .. Len(s)
  BY <1>1 DEF Positions
<1>3. \A i \in Positions : i < Len(s) => i + 1 \in 1 .. Len(s)
  BY <1>1 DEF Positions
<1>4. \A i \in Positions : i < Len(s) => s[i + 1] \in Chars
  BY <1>3, ElementOfSeq
<1>5. NUL \in Chars
  BY DEF Chars
<1>6. Stored(s) \in [Positions -> Chars]
  BY <1>4, <1>5 DEF Stored
<1>7. Stored(s)[Len(s)] = NUL
  BY <1>1, <1>2 DEF Stored
<1> QED
  BY <1>2, <1>6, <1>7 DEF SetLine, LineOK

LEMMA EmptiedOK ==
    ASSUME SizesAssumption, command_buffer \in [Positions -> Chars], Emptied
    PROVE  LineOK(command_buffer', buffer_index', cursor_position')
BY DEF SizesAssumption, Emptied, LineOK, Positions, Chars

LEMMA StringsAreChars == \A s \in String : s \in Seq(Chars) /\ Len(s) < SHELL_BUFFER_SIZE
<1>1. Typed \subseteq Chars
  BY DEF Chars
<1> QED
  BY <1>1 DEF String

\* What the actions that only touch the line leave as it is.
LEMMA RestUnchanged ==
    ASSUME HistoryOK, BackupOK, UNCHANGED <<history, temp_buffer, tty_backup>>,
           history_index' \in {-1, history_index}
    PROVE  HistoryOK' /\ BackupOK'
<1>1. HistoryOK'
  BY DEF HistoryOK, history
<1>2. BackupOK'
  BY DEF BackupOK, LineOK
<1> QED
  BY <1>1, <1>2

-----------------------------------------------------------------------------
\* The keys, one lemma for each.  The line's own first.
LEMMA MoveCursorTerminated ==
    ASSUME SizesAssumption, Terminated, MoveCursor
    PROVE  Terminated'
<1>1. LineOK(command_buffer', buffer_index', cursor_position')
  BY TerminatedParts DEF LineOK, MoveCursor
<1> QED
  BY <1>1, TerminatedParts, TerminatedPartsNext, RestUnchanged DEF MoveCursor

\* The character taken out is in the line.
LEMMA TakenOutOK ==
    ASSUME SizesAssumption, NEW c, LineOK(command_buffer, buffer_index, c),
           NEW from \in 0 .. buffer_index - 1
    PROVE  /\ TakenOut(from) \in [Positions -> Chars]
           /\ buffer_index - 1 \in Positions
           /\ TakenOut(from)[buffer_index - 1] = NUL
<1>1. SHELL_BUFFER_SIZE \in Nat \ {0} /\ buffer_index \in 0 .. SHELL_BUFFER_SIZE - 1
  BY DEF SizesAssumption, LineOK, Positions
<1>2. buffer_index - 1 \in Positions
  BY <1>1 DEF Positions
<1>3. \A i \in Positions : i < buffer_index - 1 => i + 1 \in Positions
  BY <1>1 DEF Positions
<1>4. TakenOut(from) \in [Positions -> Chars]
  BY <1>3 DEF TakenOut, LineOK, Chars
<1>5. TakenOut(from)[buffer_index - 1] = NUL
  BY <1>2 DEF TakenOut
<1> QED
  BY <1>2, <1>4, <1>5

LEMMA DeleteKeyTerminated ==
    ASSUME SizesAssumption, Terminated, DeleteKey
    PROVE  Terminated'
<1>1. LineOK(command_buffer, buffer_index, cursor_position) /\ HistoryOK /\ BackupOK
  BY TerminatedParts
<1>2. cursor_position \in 0 .. buffer_index - 1
  BY <1>1 DEF LineOK, DeleteKey, Positions
<1>3. /\ TakenOut(cursor_position) \in [Positions -> Chars]
      /\ buffer_index - 1 \in Positions
      /\ TakenOut(cursor_position)[buffer_index - 1] = NUL
  BY <1>1, <1>2, TakenOutOK
<1>4. LineOK(command_buffer', buffer_index', cursor_position')
  BY <1>2, <1>3 DEF LineOK, DeleteKey
<1> QED
  BY <1>1, <1>4, TerminatedPartsNext, RestUnchanged DEF DeleteKey

LEMMA BackspaceTerminated ==
    ASSUME SizesAssumption, Terminated, Backspace
    PROVE  Terminated'
<1>1. LineOK(command_buffer, buffer_index, cursor_position) /\ HistoryOK /\ BackupOK
  BY TerminatedParts
<1>2. cursor_position - 1 \in 0 .. buffer_index - 1
  BY <1>1 DEF LineOK, Backspace, Positions
<1>3. /\ TakenOut(cursor_position - 1) \in [Positions -> Chars]
      /\ buffer_index - 1 \in Positions
      /\ TakenOut(cursor_position - 1)[buffer_index - 1] = NUL
  BY <1>1, <1>2, TakenOutOK
<1>4. LineOK(command_buffer', buffer_index', cursor_position')
  BY <1>2, <1>3 DEF LineOK, Backspace
<1> QED
  BY <1>1, <1>4, TerminatedPartsNext, RestUnchanged DEF Backspace

LEMMA KillToEndTerminated ==
    ASSUME SizesAssumption, Terminated, KillToEnd
    PROVE  Terminated'
<1>1. LineOK(command_buffer, buffer_index, cursor_position) /\ HistoryOK /\ BackupOK
  BY TerminatedParts
<1>2. cursor_position \in Positions /\ cursor_position \in 0 .. cursor_position
  BY <1>1 DEF LineOK, Positions
<1>3. LineOK(command_buffer', buffer_index', cursor_position')
  BY <1>1, <1>2 DEF LineOK, KillToEnd, Chars
<1> QED
  BY <1>1, <1>3, TerminatedPartsNext, RestUnchanged DEF KillToEnd

LEMMA KillLineTerminated ==
    ASSUME SizesAssumption, Terminated, KillLine \/ Cancel
    PROVE  Terminated'
<1>1. LineOK(command_buffer, buffer_index, cursor_position) /\ HistoryOK /\ BackupOK
  BY TerminatedParts
<1>2. LineOK(command_buffer', buffer_index', cursor_position')
  BY <1>1, EmptiedOK DEF LineOK, KillLine, Cancel
<1> QED
  BY <1>1, <1>2, TerminatedPartsNext, RestUnchanged DEF KillLine, Cancel

LEMMA InsertCharTerminated ==
    ASSUME SizesAssumption, Terminated, NEW c \in Letters \cup {SPACE}, InsertChar(c)
    PROVE  Terminated'
<1>1. LineOK(command_buffer, buffer_index, cursor_position) /\ HistoryOK /\ BackupOK
  BY TerminatedParts
<1>2. SHELL_BUFFER_SIZE \in Nat \ {0} /\ buffer_index \in 0 .. SHELL_BUFFER_SIZE - 2
  BY <1>1 DEF SizesAssumption, LineOK, Positions, InsertChar, Room
<1>3. buffer_index + 1 \in Positions /\ cursor_position + 1 \in 0 .. buffer_index + 1
  BY <1>1, <1>2 DEF LineOK, Positions
<1>4. \A i \in Positions : cursor_position < i => i - 1 \in Positions
  BY <1>1 DEF LineOK, Positions
<1>5. c \in Chars /\ NUL \in Chars
  BY DEF Chars, Typed
<1>6. command_buffer' \in [Positions -> Chars]
  BY <1>1, <1>4, <1>5 DEF InsertChar, LineOK
<1>7. command_buffer'[buffer_index + 1] = NUL
  BY <1>3 DEF InsertChar
<1>8. LineOK(command_buffer', buffer_index', cursor_position')
  BY <1>3, <1>6, <1>7 DEF LineOK, InsertChar
<1> QED
  BY <1>1, <1>8, TerminatedPartsNext, RestUnchanged DEF InsertChar

-----------------------------------------------------------------------------
\* The keys that put a string of the history or of a completion into the line.
LEMMA UpTerminated ==
    ASSUME SizesAssumption, Terminated, Up
    PROVE  Terminated'
<1>1. LineOK(command_buffer, buffer_index, cursor_position) /\ HistoryOK /\ BackupOK
  BY TerminatedParts
<1>2. history_index + 1 \in 0 .. SHELL_HISTORY_SIZE - 1 /\ history_index + 1 <= history_count - 1
  BY <1>1 DEF SizesAssumption, HistoryOK, Up
<1>3. command_history[history_index + 1] \in String
  BY <1>1, <1>2 DEF HistoryOK
<1>4. LineOK(command_buffer', buffer_index', cursor_position')
  BY <1>1, <1>3, StringsAreChars, SetLineOK DEF Up, LineOK
<1>5. temp_buffer' \in String
  BY <1>1, StrIsString DEF Up, HistoryOK
<1>6. HistoryOK'
  BY <1>1, <1>2, <1>5 DEF HistoryOK, Up, history
<1>7. BackupOK'
  BY <1>1 DEF BackupOK, LineOK, Up
<1> QED
  BY <1>4, <1>6, <1>7, TerminatedPartsNext

LEMMA DownTerminated ==
    ASSUME SizesAssumption, Terminated, Down
    PROVE  Terminated'
<1>1. LineOK(command_buffer, buffer_index, cursor_position) /\ HistoryOK /\ BackupOK
  BY TerminatedParts
<1> DEFINE s == IF history_index = 0 THEN temp_buffer ELSE command_history[history_index - 1]
<1>2. s \in String
  <2>1. history_index # 0 => history_index - 1 \in 0 .. SHELL_HISTORY_SIZE - 1
    BY <1>1 DEF SizesAssumption, HistoryOK, Down
  <2> QED
    BY <1>1, <2>1 DEF HistoryOK
<1>3. SetLine(s)
  BY DEF Down
<1> HIDE DEF s
<1>4. LineOK(command_buffer', buffer_index', cursor_position')
  BY <1>1, <1>2, <1>3, StringsAreChars, SetLineOK DEF LineOK
<1>5. HistoryOK'
  BY <1>1 DEF HistoryOK, Down, history
<1>6. BackupOK'
  BY <1>1 DEF BackupOK, LineOK, Down
<1> QED
  BY <1>4, <1>5, <1>6, TerminatedPartsNext

\* A command fits by the assumption, a file by the bound the action states.
LEMMA TabTerminated ==
    ASSUME SizesAssumption, StringsAssumption, Terminated, Tab
    PROVE  Terminated'
<1>1. LineOK(command_buffer, buffer_index, cursor_position) /\ HistoryOK /\ BackupOK
  BY TerminatedParts
<1>2. LineOK(command_buffer', buffer_index', cursor_position')
  <2>1. ASSUME NEW s \in available_commands, CompletesCommand(s)
        PROVE  LineOK(command_buffer', buffer_index', cursor_position')
    <3>1. s \in Seq(Letters) /\ Len(s) < SHELL_BUFFER_SIZE /\ SetLine(s)
      BY <2>1 DEF StringsAssumption, CompletesCommand
    <3>2. Letters \subseteq Chars
      BY DEF Chars, Typed
    <3>3. s \in Seq(Chars)
      BY <3>1, <3>2
    <3> QED
      BY <1>1, <3>1, <3>3, SetLineOK DEF LineOK
  <2>2. ASSUME NEW file \in Files, CompletesFile(file)
        PROVE  LineOK(command_buffer', buffer_index', cursor_position')
    <3> DEFINE s == Kept \o Listed(file)
    <3>1. Len(s) < SHELL_BUFFER_SIZE /\ SetLine(s)
      BY <2>2 DEF CompletesFile
    <3>2. Listed(file) \in Seq(Chars)
      <4>1. file.name \in Seq(Typed) /\ Typed \subseteq Chars /\ Slash \in Chars
        BY DEF StringsAssumption, Chars, Typed
      <4> QED
        BY <4>1 DEF Listed
    <3>3. Kept \in Seq(Chars)
      <4>1. Text \in Seq(Chars) /\ Len(Text) = buffer_index /\ buffer_index \in Nat
        BY <1>1 DEF Text, LineOK, Positions, SizesAssumption
      <4>2. 1 \in 1 .. Len(Text) + 1
        BY <4>1
      <4>3. SpaceFrom(Text, 1) \in 1 .. Len(Text) + 1
        BY <4>1, <4>2, PlacesInString
      <4>4. WordFrom(Text, SpaceFrom(Text, 1)) \in SpaceFrom(Text, 1) .. Len(Text) + 1
        BY <4>1, <4>3, PlacesInString
      <4> DEFINE n == WordFrom(Text, SpaceFrom(Text, 1)) - 1
      <4>5. n \in 0 .. Len(Text)
        BY <4>1, <4>3, <4>4
      <4>6. Kept = SubSeq(Text, 1, n)
        BY DEF Kept
      <4> HIDE DEF n
      <4>7. \A i \in 1 .. n : Text[i] \in Chars
        BY <4>1, <4>5, ElementOfSeq
      <4> QED
        BY <4>1, <4>5, <4>6, <4>7, SubSeqProperties
    <3>4. s \in Seq(Chars)
      BY <3>2, <3>3, ConcatProperties
    <3> HIDE DEF s
    <3> QED
      BY <1>1, <3>1, <3>4, SetLineOK DEF LineOK
  <2> QED
    BY <2>1, <2>2 DEF Tab
<1> QED
  BY <1>1, <1>2, TerminatedPartsNext, RestUnchanged DEF Tab

\* The line goes to the history without the spaces before it, to a game as the
\* parse left it.
LEMMA EnterTerminated ==
    ASSUME SizesAssumption, Terminated, Enter
    PROVE  Terminated'
<1>1. LineOK(command_buffer, buffer_index, cursor_position) /\ HistoryOK /\ BackupOK
  BY TerminatedParts
<1>2. Str \in String
  BY StrIsString
<1>3. LineOK(Parsed, buffer_index, cursor_position)
  BY <1>1 DEF Parsed, LineOK, Chars
<1>4. LineOK(command_buffer', buffer_index', cursor_position')
  <2>1. 0 \in Positions /\ NUL \in Chars
    BY DEF SizesAssumption, Positions, Chars
  <2>2. [Parsed EXCEPT ![0] = NUL] \in [Positions -> Chars]
        /\ [Parsed EXCEPT ![0] = NUL][0] = NUL
    BY <1>3, <2>1 DEF LineOK
  <2> QED
    BY <2>1, <2>2 DEF LineOK, Enter
<1>5. HistoryOK'
  <2> DEFINE n == WordFrom(Str, 1)
             s == SubSeq(Str, n, Len(Str))
  <2>1. Str \in Seq(Typed) /\ Len(Str) \in Nat /\ Len(Str) < SHELL_BUFFER_SIZE
    BY <1>2 DEF String
  <2>2. 1 \in 1 .. Len(Str) + 1
    BY <2>1
  <2>3. n \in 1 .. Len(Str) + 1
    BY <2>1, <2>2, PlacesInString
  <2>4. add_to_history(s)
    BY DEF Enter
  <2> HIDE DEF n
  <2>5. \A i \in n .. Len(Str) : Str[i] \in Typed
    BY <2>1, <2>3, ElementOfSeq
  <2>6. s \in Seq(Typed) /\ Len(s) = IF n <= Len(Str) THEN Len(Str) - n + 1 ELSE 0
    BY <2>1, <2>3, <2>5, SubSeqProperties
  <2> HIDE DEF s
  <2>7. s \in String
    <3>1. Len(s) < SHELL_BUFFER_SIZE
      BY <2>1, <2>3, <2>6, <1>1 DEF SizesAssumption
    <3> QED
      BY <2>6, <3>1 DEF String
  <2>8. command_history' \in [0 .. SHELL_HISTORY_SIZE - 1 -> String]
    <3>1. DOMAIN command_history = 0 .. SHELL_HISTORY_SIZE - 1
      BY <1>1 DEF HistoryOK
    <3>2. \A i \in 0 .. SHELL_HISTORY_SIZE - 1 : i # 0 => i - 1 \in 0 .. SHELL_HISTORY_SIZE - 1
      BY DEF SizesAssumption
    <3> QED
      BY <1>1, <2>4, <2>7, <3>1, <3>2 DEF HistoryOK, add_to_history, history
  <2>9. history_count' \in 0 .. SHELL_HISTORY_SIZE
    <3> DEFINE both == {history_count + 1, SHELL_HISTORY_SIZE}
    <3>1. SHELL_HISTORY_SIZE \in Nat /\ history_count \in 0 .. SHELL_HISTORY_SIZE
      BY <1>1 DEF SizesAssumption, HistoryOK
    <3>2. both \subseteq Nat /\ both # {} /\ SHELL_HISTORY_SIZE \in both
      BY <3>1
    <3>3. Min(both) \in Nat /\ Min(both) <= SHELL_HISTORY_SIZE
      BY <3>2, Least
    <3>4. history_count' \in {history_count, Min(both)}
      BY <2>4 DEF add_to_history, history
    <3> HIDE DEF both
    <3> QED
      BY <3>1, <3>3, <3>4
  <2>10. history_index' = -1 /\ history_count' \in Nat
    BY <2>9 DEF Enter, SizesAssumption
  <2>11. temp_buffer' \in String
    BY <1>1 DEF HistoryOK, Enter
  <2>12. history_index' \in -1 .. history_count' - 1
    <3>1. \A count \in Nat : -1 \in -1 .. count - 1
      OBVIOUS
    <3> QED
      BY <2>10, <3>1
  <2> QED
    BY <2>8, <2>9, <2>11, <2>12 DEF HistoryOK
<1>6. BackupOK'
  <2>1. CASE Word(Str) \in games
    <3>1. tty_backup' = [playing |-> TRUE, command_buffer |-> Parsed,
                         buffer_index |-> buffer_index, cursor_position |-> cursor_position]
      BY <2>1 DEF Enter
    <3> QED
      BY <1>3, <3>1 DEF BackupOK, LineOK
  <2>2. CASE Word(Str) \notin games
    BY <2>2 DEF Enter, BackupOK, NoGame
  <2> QED
    BY <2>1, <2>2
<1> QED
  BY <1>4, <1>5, <1>6, TerminatedPartsNext

LEMMA EscapeTerminated ==
    ASSUME SizesAssumption, Terminated, Escape
    PROVE  Terminated'
<1>1. HistoryOK /\ BackupOK
  BY TerminatedParts
<1>2. LineOK(command_buffer', buffer_index', cursor_position')
  BY <1>1 DEF BackupOK, Escape
<1>3. HistoryOK'
  BY <1>1 DEF HistoryOK, Escape, history
<1>4. BackupOK'
  BY DEF BackupOK, Escape, NoGame
<1> QED
  BY <1>2, <1>3, <1>4, TerminatedPartsNext

-----------------------------------------------------------------------------
LEMMA InitTerminated ==
    ASSUME SizesAssumption, Init
    PROVE  Terminated
<1>1. << >> \in String
  BY DEF String, SizesAssumption
<1>2. LineOK(command_buffer, buffer_index, cursor_position)
  BY DEF Init, LineOK, Positions, Chars, SizesAssumption
<1>3. HistoryOK
  BY <1>1 DEF Init, HistoryOK, SizesAssumption
<1>4. BackupOK
  BY DEF Init, BackupOK, NoGame
<1> QED
  BY <1>2, <1>3, <1>4, TerminatedParts

LEMMA StepTerminated ==
    ASSUME SizesAssumption, StringsAssumption, Terminated, [Next]_vars
    PROVE  Terminated'
<1>1. CASE UNCHANGED vars
  BY <1>1, TerminatedParts, TerminatedPartsNext
     DEF vars, line, history, LineOK, HistoryOK, BackupOK
<1>2. CASE shell_handle_special_key
  BY <1>2, UpTerminated, DownTerminated, MoveCursorTerminated, DeleteKeyTerminated
     DEF shell_handle_special_key
<1>3. CASE shell_handle_char
  BY <1>3, KillLineTerminated, KillToEndTerminated, TabTerminated, BackspaceTerminated,
     EnterTerminated, InsertCharTerminated
     DEF shell_handle_char
<1>4. CASE Escape
  BY <1>4, EscapeTerminated
<1> QED
  BY <1>1, <1>2, <1>3, <1>4 DEF Next

\* A 0 is at buffer_index in every state of the editor, for every size of the
\* buffer and of the history: no key, completion, history line or return from a
\* game leaves strcpy and strlen without an end.
THEOREM LineTerminated == Spec => []Terminated
<1>1. Init => Terminated
  BY SizesAssumption, InitTerminated
<1>2. Terminated /\ [Next]_vars => Terminated'
  BY SizesAssumption, StringsAssumption, StepTerminated
<1> QED
  BY <1>1, <1>2, PTL DEF Spec

-----------------------------------------------------------------------------
\* Each key with its drawing is the key, and a list or a switch of terminals
\* leaves the line as it is.
LEMMA ScreenStep == ScreenNext => [Next]_vars
<1>1. Recall \/ Move \/ Delete => shell_handle_special_key
  BY DEF Recall, Move, Delete, shell_handle_special_key
<1>2. Erase \/ CtrlK \/ CtrlU \/ Complete \/ CtrlC \/ Run => shell_handle_char
  BY DEF Erase, CtrlK, CtrlU, Complete, CtrlC, Run, shell_handle_char
<1>3. ASSUME NEW c \in Letters \cup {SPACE}, Type(c)
      PROVE  shell_handle_char
  BY <1>3 DEF Type, shell_handle_char
<1>4. List \/ SwitchBack => UNCHANGED vars
  BY DEF List, SwitchBack
<1>5. Return => Escape
  BY DEF Return
<1> QED
  BY <1>1, <1>2, <1>3, <1>4, <1>5 DEF ScreenNext, Next

\* What is drawn for a key adds nothing to what the key does to the line: the
\* shell on its console is the shell's line.
LEMMA ScreenIsLine == ScreenSpec => Spec
<1>1. ScreenInit => Init
  BY DEF ScreenInit
<1>2. [ScreenNext]_<<vars, screen>> => [Next]_vars
  BY ScreenStep DEF vars
<1> QED
  BY <1>1, <1>2, PTL DEF ScreenSpec, Spec

\* So the line is terminated there too, lists, switches and returns included.
THEOREM LineOnScreenTerminated == ScreenSpec => []Terminated
BY ScreenIsLine, LineTerminated, PTL

-----------------------------------------------------------------------------
(***************************************************************************)
(* The shell's line implements LineEditor.  TextOf is the text of a buffer *)
(* of n characters; the lemmas say what each change of the buffer is to    *)
(* it.                                                                     *)
(***************************************************************************)
TextOf(b, n) == [i \in 1 .. n |-> b[i - 1]]

LEMMA TextIsSeq ==
    ASSUME SizesAssumption, NEW b, NEW n, NEW c, LineOK(b, n, c)
    PROVE  /\ TextOf(b, n) \in Seq(Chars) /\ Len(TextOf(b, n)) = n /\ n \in Nat /\ c \in 0 .. n
           /\ \A i \in 1 .. n : TextOf(b, n)[i] = b[i - 1] /\ i - 1 \in Positions
<1>1. n \in Nat /\ n <= SHELL_BUFFER_SIZE - 1 /\ SHELL_BUFFER_SIZE \in Nat
  BY DEF LineOK, Positions, SizesAssumption
<1>2. \A i \in 1 .. n : i - 1 \in Positions
  BY <1>1 DEF Positions
<1>3. \A i \in 1 .. n : b[i - 1] \in Chars
  BY <1>2 DEF LineOK
<1>4. TextOf(b, n) \in Seq(Chars) /\ Len(TextOf(b, n)) = n
  BY <1>1, <1>3 DEF TextOf
<1> QED
  BY <1>1, <1>2, <1>4 DEF TextOf, LineOK

\* Two sequences of one length with equal elements are equal.
LEMMA SameSeq ==
    ASSUME NEW S, NEW s \in Seq(S), NEW t \in Seq(S), Len(s) = Len(t),
           \A i \in 1 .. Len(s) : s[i] = t[i]
    PROVE  s = t
BY SeqEqual

\* The text before and behind the cursor.
LEMMA TextParts ==
    ASSUME NEW S, NEW t \in Seq(S), NEW c \in 0 .. Len(t)
    PROVE  /\ SubSeq(t, 1, c) \in Seq(S) /\ Len(SubSeq(t, 1, c)) = c
           /\ \A i \in 1 .. c : SubSeq(t, 1, c)[i] = t[i]
           /\ SubSeq(t, c + 1, Len(t)) \in Seq(S) /\ Len(SubSeq(t, c + 1, Len(t))) = Len(t) - c
           /\ \A i \in 1 .. Len(t) - c : SubSeq(t, c + 1, Len(t))[i] = t[c + i]
<1>1. Len(t) \in Nat
  OBVIOUS
<1>2. /\ SubSeq(t, 1, c) \in Seq(S)
      /\ Len(SubSeq(t, 1, c)) = IF 1 <= c THEN c - 1 + 1 ELSE 0
      /\ \A i \in 1 .. c - 1 + 1 : SubSeq(t, 1, c)[i] = t[1 + i - 1]
  <2>1. \A i \in 1 .. c : t[i] \in S
    BY <1>1, ElementOfSeq
  <2> QED
    BY <1>1, <2>1, SubSeqProperties
<1>3. /\ SubSeq(t, c + 1, Len(t)) \in Seq(S)
      /\ Len(SubSeq(t, c + 1, Len(t))) = IF c + 1 <= Len(t) THEN Len(t) - (c + 1) + 1 ELSE 0
      /\ \A i \in 1 .. Len(t) - (c + 1) + 1 : SubSeq(t, c + 1, Len(t))[i] = t[c + 1 + i - 1]
  <2>1. \A i \in c + 1 .. Len(t) : t[i] \in S
    BY <1>1, ElementOfSeq
  <2> QED
    BY <1>1, <2>1, SubSeqProperties
<1>4. c - 1 + 1 = c /\ Len(t) - (c + 1) + 1 = Len(t) - c
  BY <1>1
<1>5. \A i \in Int : 1 + i - 1 = i /\ c + 1 + i - 1 = c + i
  BY <1>1
<1>6. \A i \in 1 .. c : SubSeq(t, 1, c)[i] = t[i]
  BY <1>2, <1>4, <1>5
<1>7. \A i \in 1 .. Len(t) - c : SubSeq(t, c + 1, Len(t))[i] = t[c + i]
  BY <1>3, <1>4, <1>5
<1>8. Len(SubSeq(t, 1, c)) = c /\ Len(SubSeq(t, c + 1, Len(t))) = Len(t) - c
  BY <1>1, <1>2, <1>3
<1> QED
  BY <1>2, <1>3, <1>6, <1>7, <1>8

\* One character put in, or taken out.
LEMMA PutIn ==
    ASSUME NEW S, NEW t \in Seq(S), NEW c \in 0 .. Len(t), NEW e \in S,
           NEW u \in Seq(S), Len(u) = Len(t) + 1,
           \A i \in 1 .. Len(u) : u[i] = IF i <= c THEN t[i] ELSE IF i = c + 1 THEN e ELSE t[i - 1]
    PROVE  u = Append(SubSeq(t, 1, c), e) \o SubSeq(t, c + 1, Len(t))
<1> DEFINE a == SubSeq(t, 1, c)
           b == SubSeq(t, c + 1, Len(t))
           w == Append(a, e)
<1>1. Len(t) \in Nat /\ c \in Nat /\ c <= Len(t)
  OBVIOUS
<1>2. /\ a \in Seq(S) /\ Len(a) = c /\ b \in Seq(S) /\ Len(b) = Len(t) - c
      /\ \A i \in 1 .. c : a[i] = t[i]
      /\ \A i \in 1 .. Len(t) - c : b[i] = t[c + i]
  BY TextParts
<1> HIDE DEF a, b
<1>3. /\ w \in Seq(S) /\ Len(w) = c + 1 /\ w[c + 1] = e
      /\ \A i \in 1 .. c : w[i] = t[i]
  <2>1. \A i \in 1 .. Len(a) : w[i] = a[i]
    BY <1>2, AppendProperties
  <2>2. w \in Seq(S) /\ Len(w) = Len(a) + 1 /\ w[Len(a) + 1] = e
    BY <1>2, AppendProperties
  <2> QED
    BY <1>2, <2>1, <2>2
<1> HIDE DEF w
<1>4. /\ w \o b \in Seq(S) /\ Len(w \o b) = Len(w) + Len(b)
      /\ \A i \in 1 .. Len(w) + Len(b) : (w \o b)[i] = IF i <= Len(w) THEN w[i] ELSE b[i - Len(w)]
  BY <1>2, <1>3, ConcatProperties
<1>5. Len(w \o b) = Len(u)
  BY <1>1, <1>2, <1>3, <1>4
<1>6. ASSUME NEW i \in 1 .. Len(u) PROVE u[i] = (w \o b)[i]
  <2>1. (w \o b)[i] = IF i <= c + 1 THEN w[i] ELSE b[i - (c + 1)]
    BY <1>1, <1>2, <1>3, <1>4
  <2>2. CASE i <= c
    BY <1>1, <1>3, <2>1, <2>2
  <2>3. CASE i = c + 1
    BY <1>1, <1>3, <2>1, <2>3
  <2>4. CASE i > c + 1
    <3>1. i - (c + 1) \in 1 .. Len(t) - c /\ c + (i - (c + 1)) = i - 1
      BY <1>1, <2>4
    <3>2. b[i - (c + 1)] = t[i - 1]
      BY <1>2, <3>1
    <3> QED
      BY <1>1, <2>1, <2>4, <3>2
  <2>5. i <= c \/ i = c + 1 \/ i > c + 1
    BY <1>1
  <2> QED
    BY <2>2, <2>3, <2>4, <2>5
<1> HIDE DEF w
<1>7. u = w \o b
  BY <1>4, <1>5, <1>6, SameSeq
<1> QED
  BY <1>7 DEF w, a, b

LEMMA TookOut ==
    ASSUME NEW S, NEW t \in Seq(S), NEW c \in 0 .. Len(t) - 1,
           NEW u \in Seq(S), Len(u) = Len(t) - 1,
           \A i \in 1 .. Len(u) : u[i] = IF i <= c THEN t[i] ELSE t[i + 1]
    PROVE  /\ u = SubSeq(t, 1, c) \o SubSeq(t, c + 2, Len(t))
           /\ u = SubSeq(t, 1, c) \o Tail(SubSeq(t, c + 1, Len(t)))
<1> DEFINE a == SubSeq(t, 1, c)
           b == SubSeq(t, (c + 1) + 1, Len(t))
           d == SubSeq(t, c + 1, Len(t))
<1>1. Len(t) \in Nat /\ c \in Nat /\ c + 1 <= Len(t) /\ (c + 1) + 1 = c + 2 /\ c + 1 \in 0 .. Len(t)
  OBVIOUS
<1>2. /\ a \in Seq(S) /\ Len(a) = c /\ d \in Seq(S) /\ Len(d) = Len(t) - c
      /\ \A i \in 1 .. c : a[i] = t[i]
      /\ \A i \in 1 .. Len(t) - c : d[i] = t[c + i]
  BY <1>1, TextParts
<1>3. /\ b \in Seq(S) /\ Len(b) = Len(t) - (c + 1)
      /\ \A i \in 1 .. Len(t) - (c + 1) : b[i] = t[(c + 1) + i]
  BY <1>1, TextParts
<1> HIDE DEF a, b, d
<1>4. b = Tail(d)
  <2>1. d # << >>
    BY <1>1, <1>2
  <2>2. /\ Tail(d) \in Seq(S) /\ Len(Tail(d)) = Len(d) - 1
        /\ \A i \in 1 .. Len(Tail(d)) : Tail(d)[i] = d[i + 1]
    BY <1>2, <2>1, HeadTailProperties
  <2>3. Len(Tail(d)) = Len(b)
    BY <1>1, <1>2, <1>3, <2>2
  <2>4. ASSUME NEW i \in 1 .. Len(b) PROVE b[i] = Tail(d)[i]
    <3>1. i \in 1 .. Len(t) - (c + 1)
      BY <1>3, <2>4
    <3>2. i + 1 \in 1 .. Len(t) - c /\ c + (i + 1) = (c + 1) + i
      BY <1>1, <3>1
    <3>3. d[i + 1] = t[(c + 1) + i]
      BY <1>2, <3>2
    <3>4. b[i] = t[(c + 1) + i]
      BY <1>3, <3>1
    <3>5. Tail(d)[i] = d[i + 1]
      BY <2>2, <2>3, <2>4
    <3> QED
      BY <3>3, <3>4, <3>5
  <2>5. b \in Seq(S)
    BY <1>3
  <2> HIDE DEF a, b, d
  <2> QED
    BY <2>2, <2>3, <2>4, <2>5, SameSeq
<1>s. a \in Seq(S) /\ b \in Seq(S)
  BY <1>2, <1>3
<1>5. /\ a \o b \in Seq(S) /\ Len(a \o b) = Len(a) + Len(b)
      /\ \A i \in 1 .. Len(a) + Len(b) : (a \o b)[i] = IF i <= Len(a) THEN a[i] ELSE b[i - Len(a)]
  BY <1>s, ConcatProperties
<1>6. Len(a \o b) = Len(u)
  BY <1>1, <1>2, <1>3, <1>5
<1>7. ASSUME NEW i \in 1 .. Len(u) PROVE u[i] = (a \o b)[i]
  <2>1. (a \o b)[i] = IF i <= c THEN a[i] ELSE b[i - c]
    BY <1>1, <1>2, <1>3, <1>5
  <2>2. CASE i <= c
    BY <1>1, <1>2, <2>1, <2>2
  <2>3. CASE i > c
    <3>1. i - c \in 1 .. Len(t) - (c + 1) /\ (c + 1) + (i - c) = i + 1
      BY <1>1, <2>3
    <3>2. b[i - c] = t[i + 1]
      BY <1>3, <3>1
    <3> QED
      BY <1>1, <2>1, <2>3, <3>2
  <2>4. i <= c \/ i > c
    BY <1>1
  <2> QED
    BY <2>2, <2>3, <2>4
<1>8. u = a \o b
  BY <1>5, <1>6, <1>7, SameSeq
<1>9. u = SubSeq(t, 1, c) \o SubSeq(t, c + 2, Len(t))
  BY <1>1, <1>8 DEF a, b
<1> QED
  BY <1>4, <1>8, <1>9 DEF a, d

-----------------------------------------------------------------------------
\* What the history and a game take of the text is the string in the buffer.
LEMMA EMin == \A S : E!Min(S) = Min(S)
BY DEF E!Min, Min

LEMMA StrIsKept ==
    ASSUME SizesAssumption, StringsAssumption, Terminated
    PROVE  /\ Str = E!Kept /\ Str \in String /\ Len(Str) \in 0 .. buffer_index
           /\ \A i \in 1 .. Len(Str) : Str[i] = command_buffer[i - 1]
<1> DEFINE s == [i \in 1 .. SHELL_BUFFER_SIZE |-> command_buffer[i - 1]]
<1>1. LineOK(command_buffer, buffer_index, cursor_position)
  BY TerminatedParts
<1>2. /\ SHELL_BUFFER_SIZE \in Nat \ {0} /\ buffer_index \in 0 .. SHELL_BUFFER_SIZE - 1
      /\ \A i \in 1 .. SHELL_BUFFER_SIZE : i - 1 \in Positions
  BY <1>1 DEF SizesAssumption, LineOK, Positions
<1>3. /\ Text \in Seq(Chars) /\ Len(Text) = buffer_index
      /\ \A i \in 1 .. buffer_index : Text[i] = command_buffer[i - 1]
  BY <1>1, TextIsSeq DEF Text, TextOf
<1>4. s \in Seq(Chars) /\ Len(s) = SHELL_BUFFER_SIZE
  BY <1>1, <1>2 DEF LineOK
<1>5. \A i \in 1 .. SHELL_BUFFER_SIZE : s[i] = command_buffer[i - 1]
  OBVIOUS
<1>6. Str = CString(s)
  BY DEF Str
<1> HIDE DEF s
<1>7. buffer_index + 1 \in 1 .. Len(s) /\ s[buffer_index + 1] = NUL
  <2>1. buffer_index + 1 \in 1 .. SHELL_BUFFER_SIZE /\ buffer_index + 1 - 1 = buffer_index
    BY <1>2
  <2> QED
    BY <1>1, <1>4, <1>5, <2>1 DEF LineOK
<1>8. /\ Str \in Seq(Typed) /\ Len(Str) < buffer_index + 1
      /\ \A i \in 1 .. Len(Str) : Str[i] = s[i]
      /\ s[Len(Str) + 1] = NUL
  BY <1>4, <1>6, <1>7, CStringOf
<1> DEFINE n == Len(Str)
<1>9. n \in 0 .. buffer_index /\ n \in Nat
  BY <1>2, <1>8
<1> HIDE DEF n
<1>10. /\ \A i \in 1 .. n : Str[i] = command_buffer[i - 1] /\ Str[i] \in Typed
       /\ command_buffer[n] = NUL
  <2>1. \A i \in 1 .. n : Str[i] = command_buffer[i - 1] /\ Str[i] \in Typed
    <3> SUFFICES ASSUME NEW i \in 1 .. n
                 PROVE  Str[i] = command_buffer[i - 1] /\ Str[i] \in Typed
      OBVIOUS
    <3>1. i \in 1 .. SHELL_BUFFER_SIZE /\ i \in 1 .. Len(Str)
      BY <1>2, <1>9 DEF n
    <3> QED
      BY <1>5, <1>8, <3>1, ElementOfSeq
  <2>2. command_buffer[n] = NUL
    <3>1. n + 1 \in 1 .. SHELL_BUFFER_SIZE /\ n + 1 - 1 = n
      BY <1>2, <1>9
    <3> QED
      BY <1>5, <1>8, <3>1 DEF n
  <2> QED
    BY <2>1, <2>2
<1> DEFINE I == {i \in DOMAIN Text : Text[i] = NUL} \cup {Len(Text) + 1}
<1>11. DOMAIN Text = 1 .. buffer_index
  BY <1>3, LenProperties
<1>12. n + 1 \in I
  <2>1. n # buffer_index => n + 1 \in 1 .. buffer_index /\ n + 1 - 1 = n
    BY <1>2, <1>9
  <2> QED
    BY <1>3, <1>9, <1>10, <1>11, <2>1
<1>13. \A i \in I : n + 1 <= i
  <2> SUFFICES ASSUME NEW i \in 1 .. buffer_index, Text[i] = NUL PROVE n + 1 <= i
    BY <1>2, <1>3, <1>9, <1>11
  <2>1. i \notin 1 .. n
    BY <1>3, <1>10 DEF StringsAssumption
  <2> QED
    BY <1>9, <2>1
<1>14. I \subseteq Nat /\ I # {}
  BY <1>2, <1>3, <1>11, <1>12
<1> HIDE DEF I
<1>15. Min(I) = n + 1
  <2>1. Min(I) \in I /\ \A i \in I : Min(I) <= i
    BY <1>14, Least
  <2>2. Min(I) <= n + 1 /\ n + 1 <= Min(I) /\ Min(I) \in Nat
    BY <1>12, <1>13, <1>14, <2>1
  <2> QED
    BY <1>9, <2>2
<1>16. E!Kept = SubSeq(Text, 1, n)
  <2>1. E!Kept = SubSeq(Text, 1, E!Min(I) - 1)
    BY DEF E!Kept, I
  <2>2. E!Min(I) - 1 = n
    BY <1>9, <1>15, EMin
  <2> QED
    BY <2>1, <2>2
<1>17. /\ SubSeq(Text, 1, n) \in Seq(Chars) /\ Len(SubSeq(Text, 1, n)) = n
       /\ \A i \in 1 .. n : SubSeq(Text, 1, n)[i] = Text[i]
  BY <1>3, <1>9, TextParts
<1>18. Str \in Seq(Chars)
  <2>1. Typed \subseteq Chars
    BY DEF Chars
  <2> QED
    BY <1>8, <2>1
<1>19. \A i \in 1 .. Len(Str) : Str[i] = SubSeq(Text, 1, n)[i]
  <2> SUFFICES ASSUME NEW i \in 1 .. n PROVE Str[i] = SubSeq(Text, 1, n)[i]
    BY DEF n
  <2>1. i \in 1 .. buffer_index
    BY <1>2, <1>9
  <2> QED
    BY <1>3, <1>10, <1>17, <2>1
<1>20. Str = SubSeq(Text, 1, n)
  BY <1>17, <1>18, <1>19, SameSeq DEF n
<1> QED
  BY <1>9, <1>10, <1>16, <1>20, StrIsString DEF n

\* strcpy of a string leaves it as the text.
LEMMA SetLineText ==
    ASSUME SizesAssumption, command_buffer \in [Positions -> Chars],
           NEW s \in Seq(Chars), Len(s) < SHELL_BUFFER_SIZE, SetLine(s)
    PROVE  Text' = s /\ cursor_position' = Len(s)
<1>1. LineOK(command_buffer', buffer_index', cursor_position') /\ buffer_index' = Len(s)
  BY SetLineOK DEF SetLine
<1>2. /\ Text' \in Seq(Chars) /\ Len(Text') = Len(s)
      /\ \A i \in 1 .. Len(s) : Text'[i] = command_buffer'[i - 1] /\ i - 1 \in Positions
  BY <1>1, TextIsSeq DEF Text, TextOf
<1>3. \A i \in 1 .. Len(s) : Text'[i] = s[i]
  <2> SUFFICES ASSUME NEW i \in 1 .. Len(s) PROVE command_buffer'[i - 1] = s[i]
    BY <1>2
  <2>1. i - 1 \in Positions /\ i - 1 < Len(s) /\ i - 1 + 1 = i
    BY <1>2
  <2> QED
    BY <2>1 DEF SetLine, Stored
<1>4. Text' = s
  BY <1>2, <1>3, SameSeq
<1> QED
  BY <1>4 DEF SetLine

LEMMA EmptiedText ==
    ASSUME Emptied
    PROVE  Text' = << >> /\ cursor_position' = 0
<1>1. buffer_index' = 0 /\ cursor_position' = 0
  BY DEF Emptied
<1>2. Text' = [i \in 1 .. 0 |-> command_buffer'[i - 1]]
  BY <1>1 DEF Text
<1>3. 1 .. 0 = {}
  OBVIOUS
<1> QED
  BY <1>1, <1>2, <1>3

-----------------------------------------------------------------------------
\* The parts of LineEditor's state behind the text and the cursor.
Past == [i \in 1 .. history_count |-> command_history[i - 1]]
Draft == IF history_index = -1 THEN << >> ELSE temp_buffer
Aside ==
    IF ~ tty_backup.playing THEN << >>
    ELSE <<[i \in 1 .. tty_backup.buffer_index |-> tty_backup.command_buffer[i - 1]],
           tty_backup.cursor_position>>

LEMMA LineOf ==
    ASSUME SizesAssumption, Terminated
    PROVE  /\ LineOK(command_buffer, buffer_index, cursor_position) /\ HistoryOK /\ BackupOK
           /\ Text \in Seq(Chars) /\ Len(Text) = buffer_index /\ buffer_index \in Nat
           /\ cursor_position \in 0 .. buffer_index
           /\ \A i \in 1 .. buffer_index : Text[i] = command_buffer[i - 1] /\ i - 1 \in Positions
           /\ buffer_index <= SHELL_BUFFER_SIZE - 1 /\ SHELL_BUFFER_SIZE \in Nat
<1>1. LineOK(command_buffer, buffer_index, cursor_position) /\ HistoryOK /\ BackupOK
  BY TerminatedParts
<1>2. buffer_index <= SHELL_BUFFER_SIZE - 1 /\ SHELL_BUFFER_SIZE \in Nat
  BY <1>1 DEF LineOK, Positions, SizesAssumption
<1> QED
  BY <1>1, <1>2, TextIsSeq DEF Text, TextOf

LEMMA LineOfNext ==
    ASSUME SizesAssumption, Terminated'
    PROVE  /\ Text' \in Seq(Chars) /\ Len(Text') = buffer_index' /\ buffer_index' \in Nat
           /\ \A i \in 1 .. buffer_index' : Text'[i] = command_buffer'[i - 1] /\ i - 1 \in Positions
<1>1. LineOK(command_buffer', buffer_index', cursor_position')
  BY TerminatedPartsNext
<1> QED
  BY <1>1, TextIsSeq DEF Text, TextOf

\* A key that touches only the line, or also forgets which line was looked at.
LEMMA PastKept ==
    ASSUME UNCHANGED <<history, history_index, temp_buffer, tty_backup>>
    PROVE  Past' = Past /\ (history_index + 1)' = history_index + 1 /\ Draft' = Draft /\ Aside' = Aside
BY DEF history, Past, Draft, Aside

LEMMA LookForgotten ==
    ASSUME UNCHANGED <<history, temp_buffer, tty_backup>>, history_index' = -1
    PROVE  Past' = Past /\ (history_index + 1)' = 0 /\ Draft' = << >> /\ Aside' = Aside
BY DEF history, Past, Draft, Aside

\* The keys, one lemma for each.
LEMMA MoveRefines ==
    ASSUME SizesAssumption, Terminated, MoveCursor
    PROVE  E!Move
<1>1. Text' = Text
  BY DEF MoveCursor, Text
<1>2. cursor_position' \in 0 .. Len(Text)
  BY LineOf DEF MoveCursor
<1> QED
  BY <1>1, <1>2, PastKept DEF MoveCursor, E!Move, Past, Draft, Aside

LEMMA DeleteRefines ==
    ASSUME SizesAssumption, Terminated, DeleteKey
    PROVE  E!Delete
<1> DEFINE c == cursor_position
           n == buffer_index
<1>1. /\ Text \in Seq(Chars) /\ Len(Text) = n /\ n \in Nat /\ c \in 0 .. n - 1
      /\ \A i \in 1 .. n : Text[i] = command_buffer[i - 1] /\ i - 1 \in Positions
  BY LineOf DEF DeleteKey
<1>2. Text' \in Seq(Chars) /\ Len(Text') = n - 1
  BY DeleteKeyTerminated, LineOfNext DEF DeleteKey
<1>3. ASSUME NEW i \in 1 .. n - 1
      PROVE  Text'[i] = IF i <= c THEN Text[i] ELSE Text[i + 1]
  <2>1. /\ i \in 1 .. n /\ i + 1 \in 1 .. n /\ i - 1 \in Positions /\ i - 1 # n - 1
        /\ i - 1 < n - 1 /\ i - 1 + 1 = i /\ i + 1 - 1 = i /\ (i <= c <=> ~ (c <= i - 1))
    BY <1>1
  <2>2. Text'[i] = command_buffer'[i - 1]
    BY <1>3, DeleteKeyTerminated, LineOfNext DEF DeleteKey
  <2>3. command_buffer'[i - 1] = IF c <= i - 1 THEN command_buffer[i] ELSE command_buffer[i - 1]
    BY <2>1 DEF DeleteKey, TakenOut
  <2>4. Text[i] = command_buffer[i - 1] /\ Text[i + 1] = command_buffer[i]
    BY <1>1, <2>1
  <2> QED
    BY <2>1, <2>2, <2>3, <2>4
<1>4. c \in 0 .. Len(Text) - 1 /\ Len(Text') = Len(Text) - 1
      /\ \A i \in 1 .. Len(Text') : Text'[i] = IF i <= c THEN Text[i] ELSE Text[i + 1]
  BY <1>1, <1>2, <1>3
<1>5. Text' = SubSeq(Text, 1, c) \o Tail(SubSeq(Text, c + 1, Len(Text)))
  BY <1>1, <1>2, <1>4, TookOut
<1> QED
  BY <1>1, <1>5, PastKept DEF DeleteKey, E!Delete, E!Before, E!Behind, Past, Draft, Aside

LEMMA BackspaceRefines ==
    ASSUME SizesAssumption, Terminated, Backspace
    PROVE  E!Backspace
<1> DEFINE c == cursor_position - 1
           n == buffer_index
<1>1. /\ Text \in Seq(Chars) /\ Len(Text) = n /\ n \in Nat /\ c \in 0 .. n - 1
      /\ c + 2 = cursor_position + 1 /\ cursor_position \in Int
      /\ \A i \in 1 .. n : Text[i] = command_buffer[i - 1] /\ i - 1 \in Positions
  <2>1. cursor_position \in 0 .. n /\ cursor_position > 0 /\ n \in Nat
    BY LineOf DEF Backspace
  <2>2. c \in 0 .. n - 1 /\ c + 2 = cursor_position + 1 /\ cursor_position \in Int
    BY <2>1
  <2> QED
    BY <2>2, LineOf
<1>2. Text' \in Seq(Chars) /\ Len(Text') = n - 1
  <2>1. Terminated' /\ buffer_index' = n - 1
    BY BackspaceTerminated DEF Backspace
  <2> QED
    BY <2>1, LineOfNext
<1>3. ASSUME NEW i \in 1 .. n - 1
      PROVE  Text'[i] = IF i <= c THEN Text[i] ELSE Text[i + 1]
  <2>1. /\ i \in 1 .. n /\ i + 1 \in 1 .. n /\ i - 1 \in Positions /\ i - 1 # n - 1
        /\ i - 1 < n - 1 /\ i - 1 + 1 = i /\ i + 1 - 1 = i /\ (i <= c <=> ~ (c <= i - 1))
    BY <1>1
  <2>2. Text'[i] = command_buffer'[i - 1]
    BY <1>3, BackspaceTerminated, LineOfNext DEF Backspace
  <2>3. command_buffer'[i - 1] = IF c <= i - 1 THEN command_buffer[i] ELSE command_buffer[i - 1]
    BY <2>1 DEF Backspace, TakenOut
  <2>4. Text[i] = command_buffer[i - 1] /\ Text[i + 1] = command_buffer[i]
    BY <1>1, <2>1
  <2> QED
    BY <2>1, <2>2, <2>3, <2>4
<1>4. c \in 0 .. Len(Text) - 1 /\ Len(Text') = Len(Text) - 1
      /\ \A i \in 1 .. Len(Text') : Text'[i] = IF i <= c THEN Text[i] ELSE Text[i + 1]
  BY <1>1, <1>2, <1>3
<1> HIDE DEF c
<1>5. Text' = SubSeq(Text, 1, c) \o SubSeq(Text, cursor_position + 1, Len(Text))
  <2>1. Text' = SubSeq(Text, 1, c) \o SubSeq(Text, c + 2, Len(Text))
    BY <1>1, <1>2, <1>4, TookOut
  <2> QED
    BY <1>1, <2>1
<1> QED
  BY <1>1, <1>5, PastKept DEF Backspace, E!Backspace, E!Behind, Past, Draft, Aside, c

LEMMA CutRefines ==
    ASSUME SizesAssumption, Terminated, KillToEnd
    PROVE  E!Cut
<1> DEFINE c == cursor_position
           n == buffer_index
<1>1. /\ Text \in Seq(Chars) /\ Len(Text) = n /\ n \in Nat /\ c \in 0 .. n
      /\ \A i \in 1 .. n : Text[i] = command_buffer[i - 1] /\ i - 1 \in Positions
  BY LineOf
<1>2. Text' \in Seq(Chars) /\ Len(Text') = c
  BY KillToEndTerminated, LineOfNext DEF KillToEnd
<1>3. SubSeq(Text, 1, c) \in Seq(Chars) /\ Len(SubSeq(Text, 1, c)) = c
      /\ \A i \in 1 .. c : SubSeq(Text, 1, c)[i] = Text[i]
  BY <1>1, TextParts
<1>4. ASSUME NEW i \in 1 .. c PROVE Text'[i] = SubSeq(Text, 1, c)[i]
  <2>1. i \in 1 .. n /\ i - 1 # c
    BY <1>1
  <2>2. Text'[i] = command_buffer'[i - 1]
    BY <1>4, KillToEndTerminated, LineOfNext DEF KillToEnd
  <2>3. command_buffer'[i - 1] = command_buffer[i - 1]
    BY <1>1, <2>1, LineOf DEF KillToEnd, LineOK
  <2> QED
    BY <1>1, <1>3, <2>1, <2>2, <2>3
<1>5. Text' = SubSeq(Text, 1, c)
  BY <1>2, <1>3, <1>4, SameSeq
<1> QED
  BY <1>5, PastKept DEF KillToEnd, E!Cut, E!Before, Past, Draft, Aside

LEMMA ClearRefines ==
    ASSUME KillLine \/ Cancel
    PROVE  E!Clear \/ E!Cancel
<1>1. Text' = << >> /\ cursor_position' = 0
  BY EmptiedText DEF KillLine, Cancel
<1>2. CASE KillLine
  BY <1>1, <1>2, PastKept DEF KillLine, E!Clear, Past, Draft, Aside
<1>3. CASE Cancel
  BY <1>1, <1>3, LookForgotten DEF Cancel, E!Cancel, Past, Draft, Aside
<1> QED
  BY <1>2, <1>3

LEMMA InsertRefines ==
    ASSUME SizesAssumption, Terminated, NEW e \in Letters \cup {SPACE}, InsertChar(e)
    PROVE  E!Insert(e) /\ e \in Chars
<1> DEFINE c == cursor_position
           n == buffer_index
<1>1. /\ Text \in Seq(Chars) /\ Len(Text) = n /\ n \in Nat /\ c \in 0 .. n
      /\ n < SHELL_BUFFER_SIZE - 1 /\ SHELL_BUFFER_SIZE \in Nat
      /\ \A i \in 1 .. n : Text[i] = command_buffer[i - 1] /\ i - 1 \in Positions
  BY LineOf DEF InsertChar, Room
<1>2. Text' \in Seq(Chars) /\ Len(Text') = n + 1
  BY InsertCharTerminated, LineOfNext DEF InsertChar
<1>3. e \in Chars
  BY DEF Chars, Typed
<1>4. ASSUME NEW i \in 1 .. n + 1
      PROVE  Text'[i] = IF i <= c THEN Text[i] ELSE IF i = c + 1 THEN e ELSE Text[i - 1]
  <2>1. /\ i - 1 \in Positions /\ i - 1 # n + 1 /\ i - 1 <= n
        /\ (i <= c <=> ~ (c < i - 1) /\ i - 1 # c) /\ (i = c + 1 <=> i - 1 = c)
        /\ (i <= c => i \in 1 .. n) /\ (c < i - 1 => i - 1 \in 1 .. n)
    BY <1>1 DEF Positions
  <2>2. Text'[i] = command_buffer'[i - 1]
    BY <1>4, InsertCharTerminated, LineOfNext DEF InsertChar
  <2>3. command_buffer'[i - 1] = IF i - 1 = c THEN e
                                 ELSE IF c < i - 1 THEN command_buffer[i - 1 - 1]
                                 ELSE command_buffer[i - 1]
    BY <2>1 DEF InsertChar
  <2>4. /\ i <= c => Text[i] = command_buffer[i - 1]
        /\ c < i - 1 => Text[i - 1] = command_buffer[i - 1 - 1]
    BY <1>1, <2>1
  <2> QED
    BY <2>1, <2>2, <2>3, <2>4
<1>5. c \in 0 .. Len(Text) /\ Len(Text') = Len(Text) + 1
      /\ \A i \in 1 .. Len(Text') :
            Text'[i] = IF i <= c THEN Text[i] ELSE IF i = c + 1 THEN e ELSE Text[i - 1]
  BY <1>1, <1>2, <1>4
<1>6. Text' = Append(SubSeq(Text, 1, c), e) \o SubSeq(Text, c + 1, Len(Text))
  BY <1>1, <1>2, <1>3, <1>5, PutIn
<1> QED
  BY <1>1, <1>3, <1>6, LookForgotten
     DEF InsertChar, E!Insert, E!Before, E!Behind, Past, Draft, Aside

LEMMA PastOf ==
    ASSUME SizesAssumption, HistoryOK
    PROVE  /\ Past \in Seq(String) /\ Len(Past) = history_count
           /\ history_count \in Nat /\ history_count <= SHELL_HISTORY_SIZE /\ SHELL_HISTORY_SIZE \in Nat \ {0}
           /\ \A i \in 1 .. history_count : Past[i] = command_history[i - 1]
           /\ history_index \in Int /\ history_index >= -1 /\ history_index <= history_count - 1
           /\ \A s \in String : s \in Seq(Chars) /\ Len(s) < SHELL_BUFFER_SIZE
<1>1. /\ history_count \in 0 .. SHELL_HISTORY_SIZE /\ SHELL_HISTORY_SIZE \in Nat \ {0}
      /\ history_index \in -1 .. history_count - 1
  BY DEF HistoryOK, SizesAssumption
<1>2. \A i \in 1 .. history_count : command_history[i - 1] \in String
  BY <1>1 DEF HistoryOK
<1>3. Past \in Seq(String) /\ Len(Past) = history_count
  BY <1>1, <1>2 DEF Past
<1>4. \A i \in 1 .. history_count : Past[i] = command_history[i - 1]
  BY DEF Past
<1> QED
  BY <1>1, <1>3, <1>4, StringsAreChars

LEMMA OlderRefines ==
    ASSUME SizesAssumption, StringsAssumption, Terminated, Up
    PROVE  E!Older
<1> DEFINE h == history_index
           s == command_history[h + 1]
<1>1. LineOK(command_buffer, buffer_index, cursor_position) /\ HistoryOK
  BY LineOf
<1>2. h \in Int /\ h >= -1 /\ h + 1 < history_count /\ history_count \in Nat /\ Len(Past) = history_count
  BY <1>1, PastOf DEF Up
<1>3. Past[(h + 1) + 1] = s /\ s \in String
  <2>1. (h + 1) + 1 \in 1 .. history_count /\ (h + 1) + 1 - 1 = h + 1
    BY <1>2
  <2>2. h + 1 \in 0 .. SHELL_HISTORY_SIZE - 1
    BY <1>1, <1>2, PastOf
  <2> QED
    BY <1>1, <2>1, <2>2, PastOf DEF HistoryOK
<1>4. SetLine(s)
  BY DEF Up
<1> HIDE DEF s
<1>5. Text' = s /\ cursor_position' = Len(s)
  BY <1>1, <1>3, <1>4, StringsAreChars, SetLineText DEF LineOK
<1>6. history_index' = h + 1 /\ Past' = Past /\ Aside' = Aside
  BY DEF Up, history, Past, Aside
<1>7. Draft' = IF h = -1 THEN Str ELSE temp_buffer
  <2>1. history_index' # -1
    BY <1>2, <1>6
  <2> QED
    BY <2>1 DEF Up, Draft
<1>8. Draft' = IF h + 1 = 0 THEN E!Kept ELSE Draft
  <2>1. h = -1 <=> h + 1 = 0
    BY <1>2
  <2> QED
    BY <1>7, <2>1, StrIsKept DEF Draft
<1>9. (history_index + 1)' = (history_index + 1) + 1
  BY <1>6
<1> QED
  BY <1>2, <1>3, <1>5, <1>6, <1>8, <1>9 DEF E!Older, Past, Draft, Aside

LEMMA NewerRefines ==
    ASSUME SizesAssumption, Terminated, Down
    PROVE  E!Newer
<1> DEFINE h == history_index
           s == IF h = 0 THEN temp_buffer ELSE command_history[h - 1]
<1>1. LineOK(command_buffer, buffer_index, cursor_position) /\ HistoryOK
  BY LineOf
<1>2. h \in Int /\ h >= 0 /\ h < history_count /\ history_count \in Nat /\ Len(Past) = history_count
  BY <1>1, PastOf DEF Down
<1>3. s \in String /\ (h # 0 => s = Past[(h + 1) - 1]) /\ (h = 0 => s = Draft)
  <2>1. CASE h = 0
    BY <1>1, <2>1 DEF HistoryOK, Draft
  <2>2. CASE h # 0
    <3>1. (h + 1) - 1 \in 1 .. history_count /\ (h + 1) - 1 - 1 = h - 1
      BY <1>2, <2>2
    <3>2. h - 1 \in 0 .. SHELL_HISTORY_SIZE - 1
      BY <1>1, <1>2, <2>2, PastOf
    <3> QED
      BY <1>1, <2>2, <3>1, <3>2, PastOf DEF HistoryOK
  <2> QED
    BY <2>1, <2>2
<1>4. SetLine(s)
  BY DEF Down
<1> HIDE DEF s
<1>5. Text' = s /\ cursor_position' = Len(s)
  BY <1>1, <1>3, <1>4, StringsAreChars, SetLineText DEF LineOK
<1>6. history_index' = h - 1 /\ Past' = Past /\ Aside' = Aside /\ temp_buffer' = temp_buffer
  BY DEF Down, history, Past, Aside
<1>7. /\ h = 0 <=> h + 1 = 1
      /\ h = 0 <=> h - 1 = -1
      /\ h # -1 /\ h + 1 > 0 /\ (h - 1) + 1 = (h + 1) - 1
  BY <1>2
<1>8. Draft' = IF h + 1 = 1 THEN << >> ELSE Draft
  BY <1>6, <1>7 DEF Draft
<1>9. (history_index + 1)' = (history_index + 1) - 1
  BY <1>6, <1>7
<1>10. Text' = IF h + 1 = 1 THEN Draft ELSE Past[(h + 1) - 1]
  BY <1>3, <1>5, <1>7
<1> QED
  BY <1>5, <1>6, <1>7, <1>8, <1>9, <1>10 DEF E!Newer, Past, Draft, Aside

LEMMA CompleteRefines ==
    ASSUME SizesAssumption, StringsAssumption, Terminated, Tab
    PROVE  E!Complete
<1>1. Terminated' /\ SHELL_BUFFER_SIZE \in Nat
  BY TabTerminated DEF SizesAssumption
<1>2. Text' \in Seq(Chars) /\ Len(Text') = buffer_index' /\ buffer_index' \in Positions
  BY <1>1, LineOfNext, TerminatedPartsNext DEF LineOK
<1>3. Len(Text') <= SHELL_BUFFER_SIZE - 1
  BY <1>1, <1>2 DEF Positions
<1>4. cursor_position' = buffer_index'
  BY DEF Tab, CompletesCommand, CompletesFile, SetLine
<1> QED
  BY <1>2, <1>3, <1>4, PastKept DEF Tab, E!Complete, Past, Draft, Aside

LEMMA ReturnRefines ==
    ASSUME Escape
    PROVE  E!Return
<1>1. /\ Aside = <<[i \in 1 .. tty_backup.buffer_index |-> tty_backup.command_buffer[i - 1]],
                   tty_backup.cursor_position>>
      /\ Aside' = << >>
  BY DEF Escape, Aside, NoGame
<1>2. Aside # << >> /\ Text' = Aside[1] /\ cursor_position' = Aside[2]
  BY <1>1 DEF Escape, Text
<1>3. Past' = Past /\ (history_index + 1)' = history_index + 1 /\ Draft' = Draft
  BY DEF Escape, history, Past, Draft
<1> QED
  BY <1>1, <1>2, <1>3 DEF E!Return, Past, Draft, Aside

\* The history with a line in front of it, the oldest of too many left out.
LEMMA AddedRefines ==
    ASSUME SizesAssumption, HistoryOK, NEW s \in String, add_to_history(s)
    PROVE  Past' = IF s = << >> \/ (Past # << >> /\ s = Head(Past)) THEN Past
                   ELSE SubSeq(<<s>> \o Past, 1, Min({SHELL_HISTORY_SIZE, Len(Past) + 1}))
<1> DEFINE n == history_count
           m == Min({SHELL_HISTORY_SIZE, n + 1})
           q == <<s>> \o Past
<1>1. /\ Past \in Seq(String) /\ Len(Past) = n /\ n \in Nat /\ n <= SHELL_HISTORY_SIZE
      /\ SHELL_HISTORY_SIZE \in Nat \ {0} /\ \A i \in 1 .. n : Past[i] = command_history[i - 1]
  BY PastOf
<1>2. (Past # << >> /\ s = Head(Past)) <=> (n > 0 /\ command_history[0] = s)
  <2>1. Past # << >> <=> n > 0
    BY <1>1
  <2>2. n > 0 => Past[1] = command_history[0]
    <3>1. n > 0 => 1 \in 1 .. n /\ 1 - 1 = 0
      BY <1>1
    <3> QED
      BY <1>1, <3>1
  <2>3. n > 0 => Head(Past) = Past[1]
    BY <1>1
  <2> QED
    BY <2>1, <2>2, <2>3
<1>3. CASE s = << >> \/ (n > 0 /\ command_history[0] = s)
  BY <1>2, <1>3 DEF add_to_history, history, Past
<1>4. CASE ~ (s = << >> \/ (n > 0 /\ command_history[0] = s))
  <2>1. /\ history_count' = Min({n + 1, SHELL_HISTORY_SIZE})
        /\ command_history' = [i \in DOMAIN command_history |->
                                  IF i = 0 THEN s ELSE command_history[i - 1]]
    BY <1>4 DEF add_to_history
  <2>2. DOMAIN command_history = 0 .. SHELL_HISTORY_SIZE - 1
    BY DEF HistoryOK
  <2>3. m \in 1 .. n + 1 /\ m <= SHELL_HISTORY_SIZE /\ m \in Nat
    <3> DEFINE both == {SHELL_HISTORY_SIZE, n + 1}
    <3>1. both \subseteq Nat /\ both # {} /\ SHELL_HISTORY_SIZE \in both /\ n + 1 \in both
      BY <1>1
    <3>2. m \in both /\ \A i \in both : m <= i
      <4> HIDE DEF both
      <4>1. Min(both) \in both /\ \A i \in both : Min(both) <= i
        BY <3>1, Least
      <4> QED
        BY <4>1 DEF both
    <3> HIDE DEF m
    <3> QED
      BY <1>1, <3>1, <3>2
  <2>4. history_count' = m
    <3>1. {n + 1, SHELL_HISTORY_SIZE} = {SHELL_HISTORY_SIZE, n + 1}
      OBVIOUS
    <3> QED
      BY <2>1, <3>1
  <2> HIDE DEF m
  <2>5. /\ q \in Seq(String) /\ Len(q) = n + 1 /\ q[1] = s
        /\ \A i \in 2 .. n + 1 : q[i] = Past[i - 1]
    <3>1. <<s>> \in Seq(String) /\ Len(<<s>>) = 1 /\ <<s>>[1] = s
      OBVIOUS
    <3>2. /\ q \in Seq(String) /\ Len(q) = Len(<<s>>) + Len(Past)
          /\ \A i \in 1 .. Len(<<s>>) + Len(Past) :
                q[i] = IF i <= Len(<<s>>) THEN <<s>>[i] ELSE Past[i - Len(<<s>>)]
      BY <1>1, <3>1, ConcatProperties
    <3> HIDE DEF q
    <3>3. \A i \in 1 .. n + 1 : q[i] = IF i <= 1 THEN <<s>>[i] ELSE Past[i - 1]
      <4>1. Len(<<s>>) + Len(Past) = n + 1
        BY <1>1, <3>1
      <4> QED
        BY <3>1, <3>2, <4>1
    <3>4. q[1] = s
      <4>1. 1 \in 1 .. n + 1 /\ 1 <= 1
        BY <1>1
      <4> QED
        BY <3>1, <3>3, <4>1
    <3>5. \A i \in 2 .. n + 1 : q[i] = Past[i - 1]
      <4>1. \A i \in 2 .. n + 1 : i \in 1 .. n + 1 /\ ~ (i <= 1)
        BY <1>1
      <4> QED
        BY <3>3, <4>1
    <3> QED
      BY <1>1, <3>1, <3>2, <3>4, <3>5
  <2> HIDE DEF q
  <2>6. /\ SubSeq(q, 1, m) \in Seq(String) /\ Len(SubSeq(q, 1, m)) = m
        /\ \A i \in 1 .. m : SubSeq(q, 1, m)[i] = q[i]
    <3>1. m \in 0 .. Len(q)
      BY <1>1, <2>3, <2>5
    <3> QED
      BY <2>5, <3>1, TextParts
  <2>7. Past' = [i \in 1 .. m |-> command_history'[i - 1]]
    BY <2>4 DEF Past
  <2>8. ASSUME NEW i \in 1 .. m PROVE command_history'[i - 1] = SubSeq(q, 1, m)[i]
    <3>1. i - 1 \in 0 .. SHELL_HISTORY_SIZE - 1 /\ i \in Int
      BY <1>1, <2>3
    <3>2. command_history'[i - 1] = IF i - 1 = 0 THEN s ELSE command_history[i - 1 - 1]
      BY <2>1, <2>2, <3>1
    <3>3. CASE i = 1
      BY <2>5, <2>6, <3>2, <3>3
    <3>4. CASE i # 1
      <4>1. i \in 2 .. n + 1 /\ i - 1 \in 1 .. n /\ i - 1 # 0
        BY <1>1, <2>3, <3>4
      <4>2. q[i] = command_history[i - 1 - 1]
        BY <1>1, <2>5, <4>1
      <4> QED
        BY <2>6, <3>2, <4>1, <4>2
    <3> QED
      BY <3>3, <3>4
  <2>9. Past' \in Seq(String) /\ Len(Past') = m /\ \A i \in 1 .. m : Past'[i] = SubSeq(q, 1, m)[i]
    <3>1. \A i \in 1 .. m : SubSeq(q, 1, m)[i] \in String
      BY <2>6, ElementOfSeq
    <3>2. \A i \in 1 .. m : command_history'[i - 1] \in String
      BY <2>8, <3>1
    <3> QED
      BY <2>3, <2>7, <2>8, <3>2
  <2>10. Past' = SubSeq(q, 1, m)
    BY <2>6, <2>9, SameSeq
  <2> QED
    BY <1>1, <1>2, <1>4, <2>10 DEF m, q
<1> QED
  BY <1>3, <1>4

\* Parsed is the text as it was, or with one NUL written in it.
LEMMA ParsedRefines ==
    ASSUME SizesAssumption, StringsAssumption, Terminated
    PROVE  TextOf(Parsed, buffer_index) \in
              {Text} \cup {[Text EXCEPT ![i] = NUL] : i \in DOMAIN Text}
<1> DEFINE end == SpaceFrom(Str, WordFrom(Str, 1))
           n == buffer_index
<1>1. /\ Text \in Seq(Chars) /\ Len(Text) = n /\ n \in Nat
      /\ command_buffer \in [Positions -> Chars]
      /\ \A i \in 1 .. n : i - 1 \in Positions
  BY LineOf DEF LineOK
<1>2. DOMAIN Text = 1 .. n /\ Text = TextOf(command_buffer, n)
  BY <1>1, LenProperties DEF Text, TextOf
<1>3. CASE end <= Len(Str)
  <2>1. end \in 1 .. Len(Str)
    <3>1. Str \in Seq(Typed) /\ 1 \in 1 .. Len(Str) + 1 /\ Len(Str) \in Nat
      BY StrIsString DEF String
    <3>2. WordFrom(Str, 1) \in 1 .. Len(Str) + 1
      BY <3>1, PlacesInString
    <3>3. end \in WordFrom(Str, 1) .. Len(Str) + 1
      BY <3>1, <3>2, PlacesInString
    <3> HIDE DEF end
    <3> QED
      BY <1>3, <3>1, <3>2, <3>3
  <2>2. Parsed = [command_buffer EXCEPT ![end - 1] = NUL]
    BY <1>3 DEF Parsed
  <2> HIDE DEF end
  <2>3. end \in 1 .. n
    BY <1>1, <2>1, StrIsKept
  <2>4. ASSUME NEW i \in 1 .. n
        PROVE  Parsed[i - 1] = IF i = end THEN NUL ELSE command_buffer[i - 1]
    <3>1. i - 1 \in Positions /\ (i - 1 = end - 1 <=> i = end)
      BY <1>1, <2>3
    <3> QED
      BY <1>1, <2>2, <3>1
  <2> DEFINE f == [i \in 1 .. n |-> IF i = end THEN NUL ELSE command_buffer[i - 1]]
  <2>5. TextOf(Parsed, n) = f
    BY <2>4 DEF TextOf
  <2>6. [Text EXCEPT ![end] = NUL] = f
    BY <1>2 DEF TextOf
  <2> QED
    BY <1>2, <2>3, <2>5, <2>6
<1>4. CASE ~ (end <= Len(Str))
  BY <1>2, <1>4 DEF Parsed
<1> QED
  BY <1>3, <1>4

LEMMA RunRefines ==
    ASSUME SizesAssumption, StringsAssumption, Terminated, ~ tty_backup.playing, Enter
    PROVE  E!Run
<1> DEFINE s == SubSeq(Str, WordFrom(Str, 1), Len(Str))
<1>1. HistoryOK /\ Str \in Seq(Typed) /\ Len(Str) \in Nat /\ Len(Str) < SHELL_BUFFER_SIZE
  BY LineOf, StrIsString DEF String
<1>2. E!Trimmed = s
  <2> DEFINE A == {j \in 1 .. Len(Str) : Str[j] # SPACE} \cup {Len(Str) + 1}
  <2>1. DOMAIN Str = 1 .. Len(Str)
    BY <1>1, LenProperties
  <2>2. E!Trimmed = SubSeq(Str, E!Min(A), Len(Str))
    BY <2>1, StrIsKept DEF E!Trimmed
  <2>3. s = SubSeq(Str, Min(A), Len(Str))
    BY DEF WordFrom
  <2> HIDE DEF A, s
  <2> QED
    BY <2>2, <2>3, EMin
<1>3. s \in String /\ add_to_history(s)
  <2>1. 1 \in 1 .. Len(Str) + 1
    BY <1>1
  <2> DEFINE n == WordFrom(Str, 1)
  <2>2. n \in 1 .. Len(Str) + 1
    BY <1>1, <2>1, PlacesInString
  <2> HIDE DEF n
  <2>3. \A i \in n .. Len(Str) : Str[i] \in Typed
    BY <1>1, <2>2, ElementOfSeq
  <2>4. /\ SubSeq(Str, n, Len(Str)) \in Seq(Typed)
        /\ Len(SubSeq(Str, n, Len(Str))) = IF n <= Len(Str) THEN Len(Str) - n + 1 ELSE 0
    BY <1>1, <2>2, <2>3, SubSeqProperties
  <2>5. Len(SubSeq(Str, n, Len(Str))) < SHELL_BUFFER_SIZE
    BY <1>1, <2>2, <2>4 DEF SizesAssumption
  <2> QED
    BY <2>4, <2>5 DEF Enter, String, n
<1> HIDE DEF s
<1>4. Past' = IF s = << >> \/ (Past # << >> /\ s = Head(Past)) THEN Past
              ELSE SubSeq(<<s>> \o Past, 1, Min({SHELL_HISTORY_SIZE, Len(Past) + 1}))
  BY <1>1, <1>3, AddedRefines
<1>5. Past' = E!Remembered
  BY <1>2, <1>4, EMin DEF E!Remembered, Past
<1>6. Text' = << >> /\ cursor_position' = 0 /\ (history_index + 1)' = 0 /\ Draft' = << >>
  <2>1. buffer_index' = 0 /\ cursor_position' = 0 /\ history_index' = -1
    BY DEF Enter
  <2>2. Text' = [i \in 1 .. 0 |-> command_buffer'[i - 1]]
    BY <2>1 DEF Text
  <2>3. 1 .. 0 = {}
    OBVIOUS
  <2> QED
    BY <2>1, <2>2, <2>3 DEF Draft
<1>7. Aside = << >>
  BY DEF Aside
<1>8. \/ Aside' = << >>
      \/ \E t \in {Text} \cup {[Text EXCEPT ![i] = NUL] : i \in DOMAIN Text} :
            Aside' = <<t, cursor_position>>
  <2>1. CASE Word(Str) \in games
    <3>1. tty_backup' = [playing |-> TRUE, command_buffer |-> Parsed,
                         buffer_index |-> buffer_index, cursor_position |-> cursor_position]
      BY <2>1 DEF Enter
    <3>2. Aside' = <<TextOf(Parsed, buffer_index), cursor_position>>
      BY <3>1 DEF Aside, TextOf
    <3> QED
      BY <3>2, ParsedRefines
  <2>2. CASE Word(Str) \notin games
    BY <2>2 DEF Enter, NoGame, Aside
  <2> QED
    BY <2>1, <2>2
<1> QED
  BY <1>5, <1>6, <1>7, <1>8 DEF E!Run, Past, Draft, Aside

-----------------------------------------------------------------------------
LEMMA InitRefines == Init => E!Init
<1> SUFFICES ASSUME Init PROVE E!Init
  OBVIOUS
<1>1. 1 .. 0 = {}
  OBVIOUS
<1>2. Text = << >> /\ Past = << >>
  BY <1>1 DEF Init, Text, Past
<1>3. cursor_position = 0 /\ history_index + 1 = 0 /\ Draft = << >> /\ Aside = << >>
  BY DEF Init, NoGame, Draft, Aside
<1> QED
  BY <1>2, <1>3 DEF E!Init, Past, Draft, Aside

LEMMA StepRefines ==
    ASSUME SizesAssumption, StringsAssumption, Terminated, [Next]_vars
    PROVE  [E!Next]_(E!vars)
<1>1. CASE UNCHANGED vars
  <2>1. Text' = Text /\ cursor_position' = cursor_position
    BY <1>1 DEF vars, line, Text
  <2>2. Past' = Past /\ (history_index + 1)' = history_index + 1 /\ Draft' = Draft /\ Aside' = Aside
    BY <1>1, PastKept DEF vars
  <2> QED
    BY <2>1, <2>2 DEF E!vars, Past, Draft, Aside
<1>2. CASE ~ tty_backup.playing /\ shell_handle_special_key
  BY <1>2, OlderRefines, NewerRefines, MoveRefines, DeleteRefines
     DEF shell_handle_special_key, E!Next, E!Edit
<1>3. CASE ~ tty_backup.playing /\ shell_handle_char
  <2>1. CASE \E e \in Letters \cup {SPACE} : InsertChar(e)
    BY <2>1, InsertRefines DEF E!Next, E!Edit
  <2>2. CASE Cancel \/ KillToEnd \/ KillLine \/ Tab \/ Backspace \/ Enter
    BY <1>3, <2>2, ClearRefines, CutRefines, CompleteRefines, BackspaceRefines, RunRefines
       DEF E!Next, E!Edit
  <2> QED
    BY <1>3, <2>1, <2>2 DEF shell_handle_char
<1>4. CASE Escape
  BY <1>4, ReturnRefines DEF E!Next
<1> QED
  BY <1>1, <1>2, <1>3, <1>4 DEF Next

\* For every size of the buffer and of the history and any strings, what the
\* keys do to the buffer, its indices and the history is an editor of lines:
\* characters go in and out where the cursor is, the past comes back line by
\* line and the draft behind it, and a game's end brings the line back.
THEOREM LineRefinesEditor == Spec => RefinesLineEditor
<1>1. Init => E!Init
  BY InitRefines
<1>2. Terminated /\ [Next]_vars => [E!Next]_(E!vars)
  BY SizesAssumption, StringsAssumption, StepRefines
<1> QED
  BY <1>1, <1>2, LineTerminated, PTL DEF Spec, RefinesLineEditor, E!Spec

\* And so it is with the console, its lists and its returns.
THEOREM ScreenRefinesEditor == ScreenSpec => RefinesLineEditor
BY ScreenIsLine, LineRefinesEditor, PTL

-----------------------------------------------------------------------------
(***************************************************************************)
(* The row of the screen shows the line.  First the screen: what each of   *)
(* the console's functions does to it.                                     *)
(***************************************************************************)
Glyphs == Typed \cup Range(Prompt) \cup {"^", "C"}
Screens ==
    [cells : [Con!Lines -> [Con!Columns -> Glyphs]], x : Con!Columns, y : Con!Lines,
     visible : BOOLEAN, marks : SUBSET (Con!Columns \X Con!Lines)]

\* One underscore, where the cursor is, or none while it is hidden.
Marked(con) == con.marks = IF con.visible THEN {Con!Place(con)} ELSE {}

\* The row y with the prompt, the text behind it and then blanks.
RowOf(text) ==
    [x \in Con!Columns |->
        IF x < Len(Prompt) THEN Prompt[x + 1]
        ELSE IF x < Len(Prompt) + Len(text) THEN text[x - Len(Prompt) + 1] ELSE SPACE]

Shows(con, y, text, cursor) ==
    /\ text \in Seq(Typed) /\ Len(Prompt) + Len(text) < Width
    /\ con.x = Len(Prompt) + cursor /\ con.y = y
    /\ con.cells[y] = RowOf(text)

Shown ==
    /\ console \in Screens /\ Marked(console)
    /\ anchor \in {Len(Prompt)} \X Con!Lines /\ parted \in BOOLEAN
    /\ ~ parted => Shows(console, anchor[2], Text, cursor_position)

Sounds == {con \in Screens : Marked(con)}
Bares == {con \in Screens : con.marks = {}}
AllBlank(con) == \A y \in Con!Lines, x \in Con!Columns : con.cells[y][x] = SPACE

LEMMA Sizes ==
    ASSUME ScreenAssumption
    PROVE  /\ Width \in Nat /\ Width >= 1 /\ Height \in Nat /\ Height >= 1
           /\ Con!Columns = 0 .. Width - 1 /\ Con!Lines = 0 .. Height - 1
           /\ Len(Prompt) \in Nat /\ Len(Prompt) < Width /\ SPACE \in Glyphs
           /\ NEWLINE \notin Typed /\ NEWLINE \notin Range(Prompt)
           /\ Con!NEWLINE = NEWLINE /\ Con!Blank = SPACE
BY DEF ScreenAssumption, Con!Columns, Con!Lines, Glyphs, Typed, Con!NEWLINE, NEWLINE, Con!Blank, SPACE

LEMMA Erased ==
    ASSUME ScreenAssumption, NEW con \in Screens, con.marks \subseteq {Con!Place(con)}
    PROVE  /\ Con!erase_cursor(con) \in Bares
           /\ Con!erase_cursor(con).cells = con.cells /\ Con!erase_cursor(con).visible = con.visible
           /\ Con!erase_cursor(con).x = con.x /\ Con!erase_cursor(con).y = con.y
<1> DEFINE r == Con!erase_cursor(con)
<1>1. r = [con EXCEPT !.marks = con.marks \ {Con!Place(con)}]
  BY DEF Con!erase_cursor
<1>2. con.marks \ {Con!Place(con)} = {}
  OBVIOUS
<1>3. r = [con EXCEPT !.marks = {}]
  BY <1>1, <1>2, Zenon
<1> HIDE DEF r
<1>4. r \in Screens /\ r.marks = {} /\ r.cells = con.cells /\ r.visible = con.visible
      /\ r.x = con.x /\ r.y = con.y
  BY <1>3 DEF Screens
<1> QED
  BY <1>4 DEF Bares, r

LEMMA DrawnCursor ==
    ASSUME ScreenAssumption, NEW con \in Bares
    PROVE  /\ Con!draw_cursor(con) \in Sounds
           /\ Con!draw_cursor(con).cells = con.cells /\ Con!draw_cursor(con).visible = con.visible
           /\ Con!draw_cursor(con).x = con.x /\ Con!draw_cursor(con).y = con.y
<1> DEFINE r == Con!draw_cursor(con)
<1>0. con \in Screens /\ con.marks = {}
  BY DEF Bares
<1>1. CASE con.visible
  <2>1. r = [con EXCEPT !.marks = con.marks \cup {Con!Place(con)}]
    BY <1>1 DEF Con!draw_cursor
  <2>2. con.marks \cup {Con!Place(con)} = {Con!Place(con)}
    BY <1>0
  <2>3. r = [con EXCEPT !.marks = {Con!Place(con)}]
    BY <2>1, <2>2, Zenon
  <2>4. {Con!Place(con)} \in SUBSET (Con!Columns \X Con!Lines)
    BY <1>0 DEF Screens, Con!Place
  <2> HIDE DEF r
  <2>5. r \in Screens /\ r.marks = {Con!Place(con)} /\ r.cells = con.cells /\ r.visible = con.visible
        /\ r.x = con.x /\ r.y = con.y
    BY <1>0, <2>3, <2>4 DEF Screens
  <2>6. Con!Place(r) = Con!Place(con)
    BY <2>5 DEF Con!Place
  <2>7. r \in Sounds
    BY <1>1, <2>5, <2>6 DEF Sounds, Marked
  <2> QED
    BY <2>5, <2>7 DEF r
<1>2. CASE ~ con.visible
  BY <1>0, <1>2 DEF Con!draw_cursor, Sounds, Marked
<1> QED
  BY <1>1, <1>2

LEMMA SoundMarks ==
    ASSUME NEW con \in Sounds
    PROVE  con \in Screens /\ con.marks \subseteq {Con!Place(con)} /\ con.marks \in SUBSET {Con!Place(con)}
BY DEF Sounds, Marked

\* The cursor is moved: to any place of the screen.
Moved(con, x, y) == Con!draw_cursor([Con!erase_cursor(con) EXCEPT !.x = x, !.y = y])

LEMMA MovedSound ==
    ASSUME ScreenAssumption, NEW con \in Sounds, NEW x \in Con!Columns, NEW y \in Con!Lines
    PROVE  LET r == Moved(con, x, y)
           IN  /\ r \in Sounds /\ r.cells = con.cells /\ r.visible = con.visible
               /\ r.x = x /\ r.y = y
<1> DEFINE e == Con!erase_cursor(con)
           to == [e EXCEPT !.x = x, !.y = y]
<1>1. e \in Screens /\ e.marks = {} /\ e.cells = con.cells /\ e.visible = con.visible
  BY Erased, SoundMarks DEF Bares
<1>2. Moved(con, x, y) = Con!draw_cursor(to)
  BY DEF Moved
<1> HIDE DEF e
<1>3. to \in Screens /\ to.marks = {} /\ to.cells = con.cells /\ to.visible = con.visible
      /\ to.x = x /\ to.y = y
  BY <1>1 DEF Screens
<1> HIDE DEF to
<1>4. to \in Bares
  BY <1>3 DEF Bares
<1> QED
  BY <1>2, <1>3, <1>4, DrawnCursor

LEMMA LeftStep ==
    ASSUME ScreenAssumption, NEW con \in Sounds
    PROVE  LET r == Con!fb_console_move_cursor_left(con)
           IN  /\ r \in Sounds /\ r.cells = con.cells /\ r.y = con.y
               /\ r.x = IF con.x >= 1 THEN con.x - 1 ELSE con.x
<1> DEFINE r == Con!fb_console_move_cursor_left(con)
<1>0. con \in Screens /\ con.x \in Con!Columns /\ con.y \in Con!Lines
  BY SoundMarks DEF Screens
<1>1. CASE con.x >= 1
  <2>1. con.x - 1 \in Con!Columns
    BY <1>0, <1>1, Sizes
  <2>2. r = Moved(con, con.x - 1, con.y)
    <3> DEFINE e == Con!erase_cursor(con)
    <3>1. e \in Screens /\ e.x = con.x /\ e.y = con.y
      BY Erased, SoundMarks DEF Bares
    <3>2. r = Con!draw_cursor([e EXCEPT !.x = e.x - 1])
      BY <1>1 DEF Con!fb_console_move_cursor_left
    <3>3. Moved(con, con.x - 1, con.y) = Con!draw_cursor([e EXCEPT !.x = con.x - 1, !.y = con.y])
      BY DEF Moved
    <3> HIDE DEF e
    <3>4. [e EXCEPT !.x = e.x - 1] = [e EXCEPT !.x = con.x - 1, !.y = con.y]
      BY <3>1 DEF Screens
    <3> QED
      BY <3>2, <3>3, <3>4
  <2> QED
    BY <1>0, <1>1, <2>1, <2>2, MovedSound
<1>2. CASE ~ con.x >= 1
  BY <1>2 DEF Con!fb_console_move_cursor_left
<1> QED
  BY <1>1, <1>2

LEMMA RightStep ==
    ASSUME ScreenAssumption, NEW con \in Sounds
    PROVE  LET r == Con!fb_console_move_cursor_right(con)
           IN  /\ r \in Sounds /\ r.cells = con.cells /\ r.y = con.y
               /\ r.x = IF con.x + 1 < Width THEN con.x + 1 ELSE con.x
<1> DEFINE r == Con!fb_console_move_cursor_right(con)
<1>0. con \in Screens /\ con.x \in Con!Columns /\ con.y \in Con!Lines
  BY SoundMarks DEF Screens
<1>1. CASE con.x + 1 < Width
  <2>1. con.x + 1 \in Con!Columns
    BY <1>0, <1>1, Sizes
  <2>2. r = Moved(con, con.x + 1, con.y)
    <3> DEFINE e == Con!erase_cursor(con)
    <3>1. e \in Screens /\ e.x = con.x /\ e.y = con.y
      BY Erased, SoundMarks DEF Bares
    <3>2. r = Con!draw_cursor([e EXCEPT !.x = e.x + 1])
      BY <1>1 DEF Con!fb_console_move_cursor_right
    <3>3. Moved(con, con.x + 1, con.y) = Con!draw_cursor([e EXCEPT !.x = con.x + 1, !.y = con.y])
      BY DEF Moved
    <3> HIDE DEF e
    <3>4. [e EXCEPT !.x = e.x + 1] = [e EXCEPT !.x = con.x + 1, !.y = con.y]
      BY <3>1 DEF Screens
    <3> QED
      BY <3>2, <3>3, <3>4
  <2> QED
    BY <1>0, <1>1, <2>1, <2>2, MovedSound
<1>2. CASE ~ con.x + 1 < Width
  BY <1>2 DEF Con!fb_console_move_cursor_right
<1> QED
  BY <1>1, <1>2

\* A character drawn where the cursor is.
LEMMA DrawnChar ==
    ASSUME ScreenAssumption, NEW con \in Screens, con.marks \subseteq {Con!Place(con)},
           NEW c \in Glyphs
    PROVE  LET r == Con!draw_char(con, c)
           IN  /\ r \in Bares /\ r.x = con.x /\ r.y = con.y /\ r.visible = con.visible
               /\ r.cells = [con.cells EXCEPT ![con.y] = [con.cells[con.y] EXCEPT ![con.x] = c]]
<1> DEFINE r == Con!draw_char(con, c)
           cells == [con.cells EXCEPT ![con.y] = [con.cells[con.y] EXCEPT ![con.x] = c]]
<1>1. /\ con.cells \in [Con!Lines -> [Con!Columns -> Glyphs]]
      /\ con.x \in Con!Columns /\ con.y \in Con!Lines
  BY DEF Screens
<1>2. cells \in [Con!Lines -> [Con!Columns -> Glyphs]]
  BY <1>1
<1>3. con.marks \ {Con!Place(con)} = {}
  OBVIOUS
<1>4. r = [con EXCEPT !.cells = cells, !.marks = con.marks \ {Con!Place(con)}]
  BY DEF Con!draw_char
<1>5. r = [con EXCEPT !.cells = cells, !.marks = {}]
  BY <1>3, <1>4, Zenon
<1> HIDE DEF r, cells
<1>6. r \in Screens /\ r.marks = {} /\ r.cells = cells /\ r.visible = con.visible
      /\ r.x = con.x /\ r.y = con.y
  BY <1>2, <1>5 DEF Screens
<1> QED
  BY <1>6 DEF Bares, r, cells

\* The row with one cell changed.
RowWith(con, x, c) == [con.cells EXCEPT ![con.y] = [con.cells[con.y] EXCEPT ![x] = c]]

LEMMA BackspaceStep ==
    ASSUME ScreenAssumption, NEW con \in Sounds
    PROVE  LET r == Con!fb_console_backspace(con)
           IN  /\ r \in Sounds /\ r.y = con.y
               /\ con.x >= 1 => r.x = con.x - 1 /\ r.cells = RowWith(con, con.x - 1, SPACE)
<1> DEFINE r == Con!fb_console_backspace(con)
<1>0. con \in Screens /\ con.x \in Con!Columns /\ con.y \in Con!Lines
  BY SoundMarks DEF Screens
<1>1. CASE con.x >= 1
  <2> DEFINE e == Con!erase_cursor(con)
             at == [e EXCEPT !.x = con.x - 1]
  <2>1. /\ e \in Screens /\ e.x = con.x /\ e.y = con.y /\ e.cells = con.cells /\ e.marks = {}
    BY Erased, SoundMarks DEF Bares
  <2>2. r = Con!draw_cursor(Con!draw_char([e EXCEPT !.x = e.x - 1], SPACE))
    BY <1>1, Sizes DEF Con!fb_console_backspace
  <2>3. con.x - 1 \in Con!Columns
    BY <1>0, <1>1, Sizes
  <2> HIDE DEF e
  <2>4. /\ at \in Screens /\ at.x = con.x - 1 /\ at.y = con.y /\ at.cells = con.cells
        /\ at.marks = {} /\ at = [e EXCEPT !.x = e.x - 1]
    BY <2>1, <2>3 DEF Screens
  <2> HIDE DEF at
  <2>5. r = Con!draw_cursor(Con!draw_char(at, SPACE))
    BY <2>2, <2>4
  <2>6. LET d == Con!draw_char(at, SPACE)
        IN  d \in Bares /\ d.x = con.x - 1 /\ d.y = con.y /\ d.cells = RowWith(con, con.x - 1, SPACE)
    <3>1. at.marks \subseteq {Con!Place(at)} /\ SPACE \in Glyphs
      BY <2>4, Sizes
    <3>2. LET d == Con!draw_char(at, SPACE)
          IN  /\ d \in Bares /\ d.x = at.x /\ d.y = at.y
              /\ d.cells = [at.cells EXCEPT ![at.y] = [at.cells[at.y] EXCEPT ![at.x] = SPACE]]
      BY <2>4, <3>1, DrawnChar
    <3> QED
      BY <2>4, <3>2 DEF RowWith
  <2> QED
    BY <2>5, <2>6, DrawnCursor
<1>2. CASE ~ con.x >= 1
  BY <1>2 DEF Con!fb_console_backspace
<1> QED
  BY <1>1, <1>2

LEMMA LineStep ==
    ASSUME ScreenAssumption, NEW con \in [cells : [Con!Lines -> [Con!Columns -> Glyphs]],
                x : 0 .. Width, y : Con!Lines, visible : BOOLEAN,
                marks : SUBSET (Con!Columns \X Con!Lines)], con.marks = {}
    PROVE  LET r == Con!NextLine(con)
           IN  r \in Bares /\ r.x = 0 /\ (AllBlank(con) => AllBlank(r))
<1> DEFINE r == Con!NextLine(con)
           next == [con EXCEPT !.x = 0, !.y = con.y + 1]
<1>0. 0 \in Con!Columns /\ con.y \in 0 .. Height - 1
  BY Sizes
<1>1. /\ next.cells = con.cells /\ next.x = 0 /\ next.y = con.y + 1 /\ next.visible = con.visible
      /\ next.marks = {}
  OBVIOUS
<1>2. r = IF next.y + 1 > Height THEN Con!fb_console_scroll(next) ELSE next
  BY DEF Con!NextLine
<1>3. CASE next.y + 1 > Height
  <2> DEFINE cells == [y \in Con!Lines |-> IF y = Height - 1 THEN Con!BlankLine ELSE next.cells[y + 1]]
             marks == {<<p[1], p[2] - 1>> : p \in {q \in next.marks : q[2] > 0}}
  <2>1. r = [next EXCEPT !.cells = cells, !.marks = marks, !.y = Height - 1]
    BY <1>2, <1>3 DEF Con!fb_console_scroll
  <2>2. marks = {}
    BY <1>1
  <2>3. \A y \in Con!Lines : y # Height - 1 => y + 1 \in Con!Lines
    BY Sizes
  <2>4. Con!BlankLine \in [Con!Columns -> Glyphs]
    BY Sizes DEF Con!BlankLine
  <2>5. cells \in [Con!Lines -> [Con!Columns -> Glyphs]]
    <3>1. con.cells \in [Con!Lines -> [Con!Columns -> Glyphs]]
      OBVIOUS
    <3>2. next.cells = con.cells
      BY <1>1
    <3> HIDE DEF next
    <3> QED
      BY <2>3, <2>4, <3>1, <3>2
  <2>6. AllBlank(con) => \A y \in Con!Lines, x \in Con!Columns : cells[y][x] = SPACE
    <3>1. next.cells = con.cells
      BY <1>1
    <3> HIDE DEF next
    <3> QED
      BY <2>3, <3>1, Sizes DEF AllBlank, Con!BlankLine
  <2>7. Height - 1 \in Con!Lines
    BY Sizes
  <2>8. r = [next EXCEPT !.cells = cells, !.marks = {}, !.y = Height - 1]
    BY <2>1, <2>2, Zenon
  <2>9. con.visible \in BOOLEAN
    OBVIOUS
  <2>10. next \in [cells : [Con!Lines -> [Con!Columns -> Glyphs]],
                x : Con!Columns, y : Int, visible : BOOLEAN,
                marks : SUBSET (Con!Columns \X Con!Lines)]
    <3>1. con.y + 1 \in Int
      BY <1>0
    <3> QED
      BY <1>0, <3>1
  <2> HIDE DEF next, cells, marks, r
  <2>11. r \in Screens /\ r.x = 0 /\ r.marks = {} /\ r.cells = cells
    BY <1>0, <1>1, <2>5, <2>7, <2>8, <2>10 DEF Screens
  <2> QED
    BY <2>6, <2>11 DEF Bares, AllBlank, r
<1>4. CASE ~ next.y + 1 > Height
  <2>1. next.y \in Con!Lines
    BY <1>0, <1>1, <1>4, Sizes
  <2>2. con.y + 1 \in Con!Lines
    BY <1>1, <2>1
  <2>3. next \in Screens
    BY <1>0, <2>2 DEF Screens
  <2> HIDE DEF next
  <2>4. r = next
    BY <1>2, <1>4
  <2> QED
    BY <1>1, <2>3, <2>4 DEF Bares, AllBlank
<1> QED
  BY <1>3, <1>4

\* A character written, the cursor apart.
LEMMA PutStep ==
    ASSUME ScreenAssumption, NEW con \in Bares, NEW c
    PROVE  LET r == Con!Put(con, c)
           IN  /\ r \in Bares
               /\ c = NEWLINE => r.x = 0 /\ (AllBlank(con) => AllBlank(r))
               /\ c \in Glyphs \ {NEWLINE} /\ con.x + 1 < Width =>
                     r.x = con.x + 1 /\ r.y = con.y /\ r.cells = RowWith(con, con.x, c)
<1> DEFINE r == Con!Put(con, c)
<1>0. con \in Screens /\ con.x \in Con!Columns /\ con.x \in 0 .. Width - 1 /\ con.y \in Con!Lines
      /\ con.marks = {}
  BY Sizes DEF Screens, Bares
<1>1. CASE c = NEWLINE
  <2>1. con \in [cells : [Con!Lines -> [Con!Columns -> Glyphs]],
                x : 0 .. Width, y : Con!Lines, visible : BOOLEAN,
                marks : SUBSET (Con!Columns \X Con!Lines)]
    BY <1>0, Sizes DEF Screens
  <2> QED
    BY <1>0, <1>1, <2>1, LineStep, Sizes DEF Con!Put
<1>2. CASE c # NEWLINE /\ c \notin Glyphs
  BY <1>2, Sizes DEF Con!Put, Glyphs
<1>3. CASE c # NEWLINE /\ c \in Glyphs
  <2> DEFINE d == Con!draw_char(con, c)
             next == [d EXCEPT !.x = d.x + 1]
  <2>1. r = IF next.x + 1 > Width THEN Con!NextLine(next) ELSE next
    BY <1>3, Sizes DEF Con!Put, Glyphs
  <2>2. d \in Screens /\ d.marks = {} /\ d.x = con.x /\ d.y = con.y /\ d.cells = RowWith(con, con.x, c)
    BY <1>0, <1>3, DrawnChar DEF Bares, RowWith
  <2> HIDE DEF d
  <2>3. next.x = con.x + 1 /\ next.y = con.y /\ next.marks = {} /\ next.cells = RowWith(con, con.x, c)
    BY <2>2 DEF Screens
  <2>4. next \in [cells : [Con!Lines -> [Con!Columns -> Glyphs]],
                x : 0 .. Width, y : Con!Lines, visible : BOOLEAN,
                marks : SUBSET (Con!Columns \X Con!Lines)]
    <3>1. d.x + 1 \in 0 .. Width
      BY <1>0, <2>2, Sizes
    <3> QED
      BY <2>2, <3>1 DEF Screens
  <2>5. con.x + 1 < Width => next \in Bares
    <3>1. SUFFICES ASSUME d.x + 1 < Width PROVE next \in Screens
      BY <2>2, <2>3 DEF Bares
    <3>2. d.x + 1 \in Con!Columns
      BY <1>0, <2>2, <3>1, Sizes
    <3> QED
      BY <2>2, <3>2 DEF Screens
  <2> HIDE DEF next
  <2>6. CASE con.x + 1 < Width
    BY <1>0, <1>3, <2>1, <2>3, <2>5, <2>6, Sizes
  <2>7. CASE ~ con.x + 1 < Width
    <3>1. r = Con!NextLine(next)
      BY <1>0, <2>1, <2>3, <2>7, Sizes
    <3> QED
      BY <1>3, <2>3, <2>4, <2>7, <3>1, LineStep
  <2> QED
    BY <2>6, <2>7
<1> QED
  BY <1>1, <1>2, <1>3

LEMMA PutcharStep ==
    ASSUME ScreenAssumption, NEW con \in Sounds, NEW c
    PROVE  LET r == Con!fb_console_putchar(con, c)
           IN  /\ r \in Sounds
               /\ c \in Glyphs \ {NEWLINE} /\ con.x + 1 < Width =>
                     r.x = con.x + 1 /\ r.y = con.y /\ r.cells = RowWith(con, con.x, c)
<1> DEFINE e == Con!erase_cursor(con)
           p == Con!Put(e, c)
<1>1. e \in Bares /\ e.x = con.x /\ e.y = con.y /\ e.cells = con.cells
  BY Erased, SoundMarks
<1>2. Con!fb_console_putchar(con, c) = Con!draw_cursor(p)
  BY DEF Con!fb_console_putchar
<1> HIDE DEF e
<1>3. /\ p \in Bares
      /\ c \in Glyphs \ {NEWLINE} /\ con.x + 1 < Width =>
            p.x = con.x + 1 /\ p.y = con.y /\ p.cells = RowWith(con, con.x, c)
  BY <1>1, PutStep DEF RowWith
<1> HIDE DEF p
<1> QED
  BY <1>2, <1>3, DrawnCursor

\* One turn of the loops of Ctrl+K and Ctrl+U.
WipeOne(con) == Con!fb_console_putchar(Con!fb_console_delete_char_at_cursor(con), SPACE)

LEMMA WipeStep ==
    ASSUME ScreenAssumption, NEW con \in Sounds
    PROVE  WipeOne(con) \in Sounds
<1> DEFINE d == Con!fb_console_delete_char_at_cursor(con)
           e == Con!erase_cursor(d)
<1>1. d \in Bares
  BY DrawnChar, SoundMarks, Sizes DEF Con!fb_console_delete_char_at_cursor
<1> HIDE DEF d
<1>2. e \in Bares
  BY <1>1, Erased DEF Bares
<1>3. WipeOne(con) = Con!draw_cursor(Con!Put(e, SPACE))
  BY DEF WipeOne, Con!fb_console_putchar, d
<1> HIDE DEF e
<1> QED
  BY <1>2, <1>3, PutStep, DrawnCursor

LEMMA ClearStep ==
    ASSUME ScreenAssumption, NEW con \in Screens
    PROVE  LET r == Con!fb_console_clear(con)
           IN  r \in Bares /\ r.x = 0 /\ r.y = 0 /\ r.visible = con.visible
<1> DEFINE r == Con!fb_console_clear(con)
           cells == [y \in Con!Lines |-> Con!BlankLine]
<1>1. cells \in [Con!Lines -> [Con!Columns -> Glyphs]]
  BY Sizes DEF Con!BlankLine
<1>2. Con!Started.cells = cells
  BY DEF Con!Started
<1>3. r = [con EXCEPT !.cells = cells, !.marks = {}, !.x = 0, !.y = 0]
  BY <1>2 DEF Con!fb_console_clear
<1>4. 0 \in Con!Columns /\ 0 \in Con!Lines
  BY Sizes
<1> HIDE DEF cells, r
<1>5. r \in Screens /\ r.marks = {} /\ r.x = 0 /\ r.y = 0 /\ r.visible = con.visible
  BY <1>1, <1>3, <1>4 DEF Screens
<1> QED
  BY <1>5 DEF Bares, r

\* Showing and hiding the cursor leaves a screen one can write on, and if it was
\* sound, a sound one.
LEMMA ShowStep ==
    ASSUME ScreenAssumption, NEW con \in Screens, con \in Sounds \/ con \in Bares,
           NEW show \in BOOLEAN
    PROVE  LET r == Con!fb_console_show_cursor(con, show)
           IN  /\ r \in Screens /\ r.marks \subseteq {Con!Place(r)}
               /\ r.x = con.x /\ r.y = con.y
<1> DEFINE r == Con!fb_console_show_cursor(con, show)
<1>0. con.marks \subseteq {Con!Place(con)}
  BY SoundMarks DEF Bares
<1>1. CASE show /\ ~ con.visible
  <2> DEFINE on == [con EXCEPT !.visible = TRUE]
  <2>1. r = Con!draw_cursor(on)
    BY <1>1 DEF Con!fb_console_show_cursor
  <2>2. con.marks = {}
    BY <1>1 DEF Sounds, Marked, Bares
  <2>3. on \in Screens /\ on.marks = {} /\ on.x = con.x /\ on.y = con.y
    BY <2>2 DEF Screens
  <2> HIDE DEF on
  <2>4. on \in Bares
    BY <2>3 DEF Bares
  <2>5. r \in Sounds /\ r.x = con.x /\ r.y = con.y
    BY <2>1, <2>3, <2>4, DrawnCursor
  <2> HIDE DEF r
  <2> QED
    BY <2>5, SoundMarks DEF r
<1>2. CASE ~ show /\ con.visible
  <2> DEFINE e == Con!erase_cursor(con)
  <2>1. e \in Screens /\ e.marks = {} /\ e.x = con.x /\ e.y = con.y
    BY <1>0, Erased DEF Bares
  <2>2. r = [e EXCEPT !.visible = FALSE]
    BY <1>2 DEF Con!fb_console_show_cursor
  <2> HIDE DEF e, r
  <2>3. r \in Screens /\ r.marks = {} /\ r.x = con.x /\ r.y = con.y
    BY <2>1, <2>2 DEF Screens
  <2> QED
    BY <2>3 DEF r
<1>3. CASE ~ (show /\ ~ con.visible) /\ ~ (~ show /\ con.visible)
  BY <1>0, <1>3 DEF Con!fb_console_show_cursor
<1> QED
  BY <1>1, <1>2, <1>3

-----------------------------------------------------------------------------
\* The loops over the console's functions.  A loop of n turns whose step takes S
\* to S has its states in S; what is so at the start and kept by each turn is
\* so at the end.
LEMMA Induction ==
    ASSUME NEW n \in Nat, NEW P, 0 \in P, \A i \in 1 .. n : i - 1 \in P => i \in P
    PROVE  \A i \in 0 .. n : i \in P
<1> DEFINE Bad == {i \in 0 .. n : i \notin P}
<1>1. SUFFICES ASSUME Bad # {} PROVE FALSE
  OBVIOUS
<1>2. Bad \subseteq Nat
  OBVIOUS
<1>3. PICK k \in Bad : \A i \in Bad : k <= i
  <2> HIDE DEF Bad
  <2> QED
    BY <1>1, <1>2, Least
<1>4. k \in 1 .. n /\ k - 1 \in 0 .. n /\ k - 1 < k
  BY <1>3
<1>5. k - 1 \notin Bad
  BY <1>2, <1>3, <1>4
<1> QED
  BY <1>3, <1>4, <1>5

Turns(f, n, first, G) == f = [i \in 0 .. n |-> IF i = 0 THEN first ELSE G[<<i, f[i - 1]>>]]

LEMMA LoopExists ==
    ASSUME NEW n \in Nat, NEW S, NEW first \in S, NEW G \in [(1 .. n) \X S -> S]
    PROVE  \E f \in [0 .. n -> S] : Turns(f, n, first, G)
<1> DEFINE P == {k \in 0 .. n : \E f \in [0 .. k -> S] : Turns(f, k, first, G)}
<1>1. 0 \in P
  <2> DEFINE f == [i \in 0 .. 0 |-> first]
  <2>1. f \in [0 .. 0 -> S] /\ Turns(f, 0, first, G)
    BY DEF Turns
  <2> QED
    BY <2>1
<1>2. ASSUME NEW k \in 1 .. n, k - 1 \in P
      PROVE  k \in P
  <2>1. PICK f \in [0 .. k - 1 -> S] : Turns(f, k - 1, first, G)
    BY <1>2
  <2> DEFINE g == [i \in 0 .. k |-> IF i = k THEN G[<<k, f[k - 1]>>] ELSE f[i]]
  <2>2. f[k - 1] \in S /\ <<k, f[k - 1]>> \in (1 .. n) \X S
    BY <2>1
  <2>3. G[<<k, f[k - 1]>>] \in S
    BY <2>2
  <2>4. g \in [0 .. k -> S]
    BY <2>1, <2>3
  <2>5. \A i \in 0 .. k : g[i] = IF i = 0 THEN first ELSE G[<<i, g[i - 1]>>]
    <3> SUFFICES ASSUME NEW i \in 0 .. k
                 PROVE  g[i] = IF i = 0 THEN first ELSE G[<<i, g[i - 1]>>]
      OBVIOUS
    <3>1. CASE i = k
      <4>1. k # 0 /\ k - 1 \in 0 .. k /\ k - 1 # k
        BY <1>2
      <4> QED
        BY <3>1, <4>1
    <3>2. CASE i # k
      <4>1. i \in 0 .. k - 1 /\ g[i] = f[i]
        BY <1>2, <3>2
      <4>2. f[i] = IF i = 0 THEN first ELSE G[<<i, f[i - 1]>>]
        BY <2>1, <4>1 DEF Turns
      <4>3. i # 0 => i - 1 \in 0 .. k /\ i - 1 # k /\ g[i - 1] = f[i - 1]
        BY <1>2, <4>1
      <4> QED
        BY <4>1, <4>2, <4>3
    <3> QED
      BY <3>1, <3>2
  <2>6. Turns(g, k, first, G)
    <3> DEFINE h == [i \in 0 .. k |-> IF i = 0 THEN first ELSE G[<<i, g[i - 1]>>]]
    <3>1. \A i \in 0 .. k : g[i] = h[i]
      BY <2>5
    <3>2. g = h
      BY <3>1
    <3> QED
      BY <3>2 DEF Turns
  <2> HIDE DEF g
  <2> QED
    BY <2>4, <2>6
<1>3. n \in 0 .. n
  OBVIOUS
<1> HIDE DEF P
<1>4. n \in P
  BY <1>1, <1>2, <1>3, Induction
<1> QED
  BY <1>4 DEF P

LEMMA MaxOf ==
    ASSUME NEW n \in Int
    PROVE  Max({0, n}) = IF n >= 0 THEN n ELSE 0
<1>1. \A x \in {0, n} : (\A y \in {0, n} : x >= y) <=> x = IF n >= 0 THEN n ELSE 0
  OBVIOUS
<1> QED
  BY <1>1 DEF Max

LEMMA LeftLoop ==
    ASSUME ScreenAssumption, NEW con \in Sounds, NEW n \in Int
    PROVE  LET r == Left(con, n)
           IN  /\ r \in Sounds /\ r.cells = con.cells /\ r.y = con.y
               /\ n <= con.x => r.x = IF n >= 0 THEN con.x - n ELSE con.x
<1> DEFINE Op(c) == Con!fb_console_move_cursor_left(c)
           m == Max({0, n})
           G == [p \in (1 .. m) \X Sounds |-> Op(p[2])]
           Is(g) == g = [i \in 0 .. m |-> IF i = 0 THEN con ELSE Op(g[i - 1])]
           f == CHOOSE g : Is(g)
<1>0. m \in Nat /\ (m = IF n >= 0 THEN n ELSE 0) /\ m \in 0 .. m
  BY MaxOf
<1>1. Left(con, n) = f[m]
  BY DEF Left, Repeated
<1> HIDE DEF m
<1>2. Is(f)
  <2>1. G \in [(1 .. m) \X Sounds -> Sounds]
    BY LeftStep
  <2> HIDE DEF G
  <2>2. PICK g \in [0 .. m -> Sounds] : Turns(g, m, con, G)
    BY <1>0, <2>1, LoopExists
  <2>3. \A i \in 1 .. m : <<i, g[i - 1]>> \in (1 .. m) \X Sounds
    BY <1>0
  <2>4. \A i \in 1 .. m : G[<<i, g[i - 1]>>] = Op(g[i - 1])
    BY <2>3 DEF G
  <2>5. Is(g)
    BY <1>0, <2>2, <2>4 DEF Turns
  <2> QED
    BY <2>5
<1> HIDE DEF f
<1>3. f[0] = con /\ \A i \in 1 .. m : f[i] = Op(f[i - 1])
  BY <1>0, <1>2
<1> DEFINE P == {i \in 0 .. m : /\ f[i] \in Sounds /\ f[i].cells = con.cells /\ f[i].y = con.y
                                /\ m <= con.x => f[i].x = con.x - i}
<1>4. con.x \in Nat
  BY SoundMarks, Sizes DEF Screens
<1>5. 0 \in P
  BY <1>0, <1>3, <1>4
<1>6. ASSUME NEW i \in 1 .. m, i - 1 \in P
      PROVE  i \in P
  <2> DEFINE c == f[i - 1]
  <2>1. /\ c \in Sounds /\ c.cells = con.cells /\ c.y = con.y
        /\ m <= con.x => c.x = con.x - (i - 1)
    BY <1>6
  <2>2. f[i] = Op(c)
    BY <1>3
  <2> HIDE DEF c
  <2>3. m <= con.x => c.x >= 1 /\ c.x - 1 = con.x - i
    BY <1>0, <1>4, <2>1
  <2>4. /\ f[i] \in Sounds /\ f[i].cells = c.cells /\ f[i].y = c.y
        /\ c.x >= 1 => f[i].x = c.x - 1
    BY <2>1, <2>2, LeftStep
  <2> QED
    BY <2>1, <2>3, <2>4
<1> HIDE DEF P
<1>7. m \in P
  BY <1>0, <1>5, <1>6, Induction
<1> QED
  BY <1>0, <1>1, <1>4, <1>7 DEF P

LEMMA RightLoop ==
    ASSUME ScreenAssumption, NEW con \in Sounds, NEW n \in Int
    PROVE  LET r == Right(con, n)
           IN  /\ r \in Sounds /\ r.cells = con.cells /\ r.y = con.y
               /\ con.x + n < Width => r.x = IF n >= 0 THEN con.x + n ELSE con.x
<1> DEFINE Op(c) == Con!fb_console_move_cursor_right(c)
           m == Max({0, n})
           G == [p \in (1 .. m) \X Sounds |-> Op(p[2])]
           Is(g) == g = [i \in 0 .. m |-> IF i = 0 THEN con ELSE Op(g[i - 1])]
           f == CHOOSE g : Is(g)
<1>0. m \in Nat /\ (m = IF n >= 0 THEN n ELSE 0) /\ m \in 0 .. m
  BY MaxOf
<1>1. Right(con, n) = f[m]
  BY DEF Right, Repeated
<1> HIDE DEF m
<1>2. Is(f)
  <2>1. G \in [(1 .. m) \X Sounds -> Sounds]
    BY RightStep
  <2> HIDE DEF G
  <2>2. PICK g \in [0 .. m -> Sounds] : Turns(g, m, con, G)
    BY <1>0, <2>1, LoopExists
  <2>3. \A i \in 1 .. m : <<i, g[i - 1]>> \in (1 .. m) \X Sounds
    BY <1>0
  <2>4. \A i \in 1 .. m : G[<<i, g[i - 1]>>] = Op(g[i - 1])
    BY <2>3 DEF G
  <2>5. Is(g)
    BY <1>0, <2>2, <2>4 DEF Turns
  <2> QED
    BY <2>5
<1> HIDE DEF f
<1>3. f[0] = con /\ \A i \in 1 .. m : f[i] = Op(f[i - 1])
  BY <1>0, <1>2
<1> DEFINE P == {i \in 0 .. m : /\ f[i] \in Sounds /\ f[i].cells = con.cells /\ f[i].y = con.y
                                /\ con.x + m < Width => f[i].x = con.x + i}
<1>4. con.x \in Nat /\ con.x < Width /\ Width \in Nat
  BY SoundMarks, Sizes DEF Screens
<1>5. 0 \in P
  BY <1>0, <1>3, <1>4
<1>6. ASSUME NEW i \in 1 .. m, i - 1 \in P
      PROVE  i \in P
  <2> DEFINE c == f[i - 1]
  <2>1. /\ c \in Sounds /\ c.cells = con.cells /\ c.y = con.y
        /\ con.x + m < Width => c.x = con.x + (i - 1)
    BY <1>6
  <2>2. f[i] = Op(c)
    BY <1>3
  <2> HIDE DEF c
  <2>3. con.x + m < Width => c.x + 1 < Width /\ c.x + 1 = con.x + i
    BY <1>0, <1>4, <2>1
  <2>4. /\ f[i] \in Sounds /\ f[i].cells = c.cells /\ f[i].y = c.y
        /\ c.x + 1 < Width => f[i].x = c.x + 1
    BY <2>1, <2>2, RightStep
  <2> QED
    BY <2>1, <2>3, <2>4
<1> HIDE DEF P
<1>7. m \in P
  BY <1>0, <1>5, <1>6, Induction
<1> QED
  BY <1>0, <1>1, <1>4, <1>7 DEF P

LEMMA BackLoop ==
    ASSUME ScreenAssumption, NEW con \in Sounds, NEW n \in Int
    PROVE  LET r == Backspaced(con, n)
           IN  /\ r \in Sounds /\ r.y = con.y
               /\ n \in 0 .. con.x =>
                     /\ r.x = con.x - n
                     /\ \A x \in Con!Columns :
                           r.cells[con.y][x] = IF con.x - n <= x /\ x < con.x THEN SPACE
                                               ELSE con.cells[con.y][x]
<1> DEFINE Op(c) == Con!fb_console_backspace(c)
           m == Max({0, n})
           G == [p \in (1 .. m) \X Sounds |-> Op(p[2])]
           Is(g) == g = [i \in 0 .. m |-> IF i = 0 THEN con ELSE Op(g[i - 1])]
           f == CHOOSE g : Is(g)
<1>0. m \in Nat /\ (m = IF n >= 0 THEN n ELSE 0) /\ m \in 0 .. m
  BY MaxOf
<1>1. Backspaced(con, n) = f[m]
  BY DEF Backspaced, Repeated
<1> HIDE DEF m
<1>2. Is(f)
  <2>1. G \in [(1 .. m) \X Sounds -> Sounds]
    BY BackspaceStep
  <2> HIDE DEF G
  <2>2. PICK g \in [0 .. m -> Sounds] : Turns(g, m, con, G)
    BY <1>0, <2>1, LoopExists
  <2>3. \A i \in 1 .. m : <<i, g[i - 1]>> \in (1 .. m) \X Sounds
    BY <1>0
  <2>4. \A i \in 1 .. m : G[<<i, g[i - 1]>>] = Op(g[i - 1])
    BY <2>3 DEF G
  <2>5. Is(g)
    BY <1>0, <2>2, <2>4 DEF Turns
  <2> QED
    BY <2>5
<1> HIDE DEF f
<1>3. f[0] = con /\ \A i \in 1 .. m : f[i] = Op(f[i - 1])
  BY <1>0, <1>2
<1> DEFINE Back(c, i) ==
               /\ c.x = con.x - i
               /\ \A x \in Con!Columns :
                     c.cells[con.y][x] = IF con.x - i <= x /\ x < con.x THEN SPACE
                                         ELSE con.cells[con.y][x]
           P == {i \in 0 .. m : /\ f[i] \in Sounds /\ f[i].y = con.y
                                /\ m <= con.x => Back(f[i], i)}
<1>4. con.x \in Nat /\ con.x \in Con!Columns /\ con.y \in Con!Lines /\ Con!Columns \subseteq Nat
  BY SoundMarks, Sizes DEF Screens
<1>5. 0 \in P
  BY <1>0, <1>3, <1>4
<1>6. ASSUME NEW i \in 1 .. m, i - 1 \in P
      PROVE  i \in P
  <2> DEFINE c == f[i - 1]
  <2>1. /\ c \in Sounds /\ c.y = con.y
        /\ m <= con.x => Back(c, i - 1)
    BY <1>6
  <2>2. f[i] = Op(c)
    BY <1>3
  <2> HIDE DEF c
  <2>3. /\ f[i] \in Sounds /\ f[i].y = c.y
        /\ c.x >= 1 => f[i].x = c.x - 1 /\ f[i].cells = RowWith(c, c.x - 1, SPACE)
    BY <2>1, <2>2, BackspaceStep
  <2>4. ASSUME m <= con.x
        PROVE  Back(f[i], i)
    <3>1. c.x >= 1 /\ c.x - 1 = con.x - i /\ con.x - i \in Con!Columns
      BY <1>0, <1>4, <2>1, <2>4, Sizes
    <3>2. c.cells \in [Con!Lines -> [Con!Columns -> Glyphs]]
      BY <2>1, SoundMarks DEF Screens
    <3>3. \A x \in Con!Columns :
             f[i].cells[con.y][x] = IF x = con.x - i THEN SPACE ELSE c.cells[con.y][x]
      BY <1>4, <2>1, <2>3, <3>1, <3>2 DEF RowWith
    <3>4. \A x \in Con!Columns :
             c.cells[con.y][x] = IF con.x - (i - 1) <= x /\ x < con.x THEN SPACE ELSE con.cells[con.y][x]
      BY <2>1, <2>4
    <3>5. \A x \in Con!Columns :
             f[i].cells[con.y][x] = IF con.x - i <= x /\ x < con.x THEN SPACE ELSE con.cells[con.y][x]
      BY <1>0, <1>4, <3>3, <3>4
    <3> QED
      BY <2>3, <3>1, <3>5
  <2> HIDE DEF Back
  <2> QED
    BY <2>1, <2>3, <2>4
<1> HIDE DEF P
<1>7. m \in P
  BY <1>0, <1>5, <1>6, Induction
<1>8. n \in 0 .. con.x => m = n /\ m <= con.x
  BY <1>0, <1>4
<1> QED
  BY <1>1, <1>7, <1>8 DEF P

LEMMA WipeLoop ==
    ASSUME ScreenAssumption, NEW con \in Sounds, NEW n \in Int
    PROVE  LET r == Wiped(con, n)
           IN  r \in Sounds /\ (n <= 0 => r = con)
<1> DEFINE Op(c) == WipeOne(c)
           m == Max({0, n})
           G == [p \in (1 .. m) \X Sounds |-> Op(p[2])]
           Is(g) == g = [i \in 0 .. m |-> IF i = 0 THEN con ELSE Op(g[i - 1])]
           f == CHOOSE g : Is(g)
<1>0. m \in Nat /\ (m = IF n >= 0 THEN n ELSE 0) /\ m \in 0 .. m
  BY MaxOf
<1>1. Wiped(con, n) = f[m]
  BY DEF Wiped, Repeated, WipeOne
<1> HIDE DEF m
<1>2. Is(f)
  <2>1. G \in [(1 .. m) \X Sounds -> Sounds]
    BY WipeStep
  <2> HIDE DEF G
  <2>2. PICK g \in [0 .. m -> Sounds] : Turns(g, m, con, G)
    BY <1>0, <2>1, LoopExists
  <2>3. \A i \in 1 .. m : <<i, g[i - 1]>> \in (1 .. m) \X Sounds
    BY <1>0
  <2>4. \A i \in 1 .. m : G[<<i, g[i - 1]>>] = Op(g[i - 1])
    BY <2>3 DEF G
  <2>5. Is(g)
    BY <1>0, <2>2, <2>4 DEF Turns
  <2> QED
    BY <2>5
<1> HIDE DEF f
<1>3. f[0] = con /\ \A i \in 1 .. m : f[i] = Op(f[i - 1])
  BY <1>0, <1>2
<1> DEFINE P == {i \in 0 .. m : f[i] \in Sounds}
<1>4. 0 \in P
  BY <1>0, <1>3
<1>5. ASSUME NEW i \in 1 .. m, i - 1 \in P
      PROVE  i \in P
  BY <1>3, <1>5, WipeStep
<1> HIDE DEF P
<1>6. m \in P
  BY <1>0, <1>4, <1>5, Induction
<1> QED
  BY <1>0, <1>1, <1>3, <1>6 DEF P

\* What is written stays on the row.
Printed(s) == Len(s) \in Nat /\ \A i \in 1 .. Len(s) : s[i] \in Glyphs \ {NEWLINE}

\* The row y of con, with the first n characters of s from the column x on.
RowHas(con, y, row, x, s, n) ==
    \A k \in Con!Columns :
        con.cells[y][k] = IF x <= k /\ k < x + n THEN s[k - x + 1] ELSE row[k]

\* None yet, and one more behind n - 1.
LEMMA NoneYet ==
    ASSUME ScreenAssumption, NEW con, NEW y, NEW x \in Nat, NEW s
    PROVE  RowHas(con, y, con.cells[y], x, s, 0)
<1>1. \A k \in Con!Columns : ~ (x <= k /\ k < x + 0)
  BY Sizes
<1> QED
  BY <1>1 DEF RowHas

LEMMA OneMore ==
    ASSUME ScreenAssumption, NEW con \in Screens, NEW to, NEW row, NEW x \in Nat, NEW n \in Nat \ {0},
           NEW s, RowHas(con, con.y, row, x, s, n - 1), con.x = x + (n - 1),
           to.cells = RowWith(con, con.x, s[n])
    PROVE  RowHas(to, con.y, row, x, s, n)
<1>1. /\ con.cells \in [Con!Lines -> [Con!Columns -> Glyphs]] /\ con.y \in Con!Lines
      /\ con.x \in Con!Columns /\ Con!Columns \subseteq Nat
  BY Sizes DEF Screens
<1>2. \A k \in Con!Columns : to.cells[con.y][k] = IF k = con.x THEN s[n] ELSE con.cells[con.y][k]
  BY <1>1 DEF RowWith
<1>3. \A k \in Con!Columns :
         con.cells[con.y][k] = IF x <= k /\ k < x + (n - 1) THEN s[k - x + 1] ELSE row[k]
  BY DEF RowHas
<1>4. con.x - x + 1 = n
  BY <1>1
<1>5. ASSUME NEW k \in Con!Columns
      PROVE  to.cells[con.y][k] = IF x <= k /\ k < x + n THEN s[k - x + 1] ELSE row[k]
  <2>1. CASE k = con.x
    <3>1. x <= k /\ k < x + n /\ k - x + 1 = n
      BY <1>1, <1>4, <2>1
    <3> QED
      BY <1>2, <2>1, <3>1
  <2>2. CASE k # con.x
    <3>1. (x <= k /\ k < x + n) <=> (x <= k /\ k < x + (n - 1))
      BY <1>1, <2>2
    <3> QED
      BY <1>2, <1>3, <2>2, <3>1
  <2> QED
    BY <2>1, <2>2
<1> QED
  BY <1>5 DEF RowHas

LEMMA PutcharsLoop ==
    ASSUME ScreenAssumption, NEW con \in Sounds, NEW s, Len(s) \in Nat
    PROVE  LET r == Putchars(con, s)
           IN  /\ r \in Sounds
               /\ Printed(s) /\ con.x + Len(s) < Width =>
                     /\ r.x = con.x + Len(s) /\ r.y = con.y
                     /\ RowHas(r, con.y, con.cells[con.y], con.x, s, Len(s))
<1> DEFINE Op(c, i) == Con!fb_console_putchar(c, s[i])
           m == Len(s)
           G == [p \in (1 .. m) \X Sounds |-> Op(p[2], p[1])]
           Is(g) == g = [i \in 0 .. m |-> IF i = 0 THEN con ELSE Op(g[i - 1], i)]
           f == CHOOSE g : Is(g)
<1>0. m \in Nat /\ m \in 0 .. m
  OBVIOUS
<1>1. Putchars(con, s) = f[m]
  BY DEF Putchars
<1> HIDE DEF m
<1>2. Is(f)
  <2>1. G \in [(1 .. m) \X Sounds -> Sounds]
    BY PutcharStep
  <2> HIDE DEF G
  <2>2. PICK g \in [0 .. m -> Sounds] : Turns(g, m, con, G)
    BY <1>0, <2>1, LoopExists
  <2>3. \A i \in 1 .. m : <<i, g[i - 1]>> \in (1 .. m) \X Sounds
    BY <1>0
  <2>4. \A i \in 1 .. m : G[<<i, g[i - 1]>>] = Op(g[i - 1], i)
    BY <2>3 DEF G
  <2>5. Is(g)
    BY <1>0, <2>2, <2>4 DEF Turns
  <2> QED
    BY <2>5
<1> HIDE DEF f
<1>3. f[0] = con /\ \A i \in 1 .. m : f[i] = Op(f[i - 1], i)
  BY <1>0, <1>2
<1> DEFINE Fit == Printed(s) /\ con.x + m < Width
           row == con.cells[con.y]
           Put(c, i) == c.x = con.x + i /\ c.y = con.y /\ RowHas(c, con.y, row, con.x, s, i)
           P == {i \in 0 .. m : f[i] \in Sounds /\ (Fit => Put(f[i], i))}
<1>4. con.x \in Nat /\ Width \in Nat /\ Con!Columns \subseteq Nat
  BY SoundMarks, Sizes DEF Screens
<1>5. 0 \in P
  <2>1. RowHas(f[0], con.y, row, con.x, s, 0)
    BY <1>3, <1>4, NoneYet
  <2> QED
    BY <1>0, <1>3, <1>4, <2>1
<1>6. ASSUME NEW i \in 1 .. m, i - 1 \in P
      PROVE  i \in P
  <2> DEFINE c == f[i - 1]
  <2>1. c \in Sounds /\ (Fit => Put(c, i - 1))
    BY <1>6
  <2>2. f[i] = Op(c, i)
    BY <1>3
  <2> HIDE DEF c
  <2>3. /\ f[i] \in Sounds
        /\ s[i] \in Glyphs \ {NEWLINE} /\ c.x + 1 < Width =>
              f[i].x = c.x + 1 /\ f[i].y = c.y /\ f[i].cells = RowWith(c, c.x, s[i])
    BY <2>1, <2>2, PutcharStep
  <2>4. ASSUME Fit
        PROVE  Put(f[i], i)
    <3>1. s[i] \in Glyphs \ {NEWLINE}
      BY <1>6, <2>4 DEF Printed, m
    <3>2. c.x = con.x + (i - 1) /\ c.y = con.y /\ RowHas(c, c.y, row, con.x, s, i - 1)
      BY <2>1, <2>4
    <3>3. c.x + 1 < Width /\ c.x + 1 = con.x + i /\ i \in Nat \ {0}
      BY <1>0, <1>4, <2>4, <3>2
    <3>4. f[i].x = c.x + 1 /\ f[i].y = c.y /\ f[i].cells = RowWith(c, c.x, s[i])
      BY <2>3, <3>1, <3>3
    <3>5. RowHas(f[i], c.y, row, con.x, s, i)
      <4> HIDE DEF row
      <4>1. c \in Screens
        BY <2>1, SoundMarks
      <4> QED
        BY <1>4, <3>2, <3>3, <3>4, <4>1, OneMore
    <3> QED
      BY <3>2, <3>3, <3>4, <3>5
  <2> HIDE DEF Put, Fit
  <2> QED
    BY <2>3, <2>4
<1> HIDE DEF P
<1>7. m \in P
  BY <1>0, <1>5, <1>6, Induction
<1> QED
  BY <1>1, <1>7 DEF P, m

LEMMA WriteLoop ==
    ASSUME ScreenAssumption, NEW con \in Screens, con.marks \subseteq {Con!Place(con)},
           NEW s, Len(s) \in Nat
    PROVE  LET r == Con!fb_console_write(con, s)
           IN  /\ r \in Sounds
               /\ Len(s) # 0 /\ s[Len(s)] = NEWLINE => r.x = 0
               /\ AllBlank(con) /\ (\A i \in 1 .. Len(s) : s[i] = NEWLINE) => AllBlank(r)
               /\ Printed(s) /\ con.x + Len(s) < Width =>
                     /\ r.x = con.x + Len(s) /\ r.y = con.y
                     /\ RowHas(r, con.y, con.cells[con.y], con.x, s, Len(s))
<1> DEFINE Op(c, i) == Con!Put(c, s[i])
           m == Len(s)
           e == Con!erase_cursor(con)
           G == [p \in (1 .. m) \X Bares |-> Op(p[2], p[1])]
           Is(g) == g = [i \in 0 .. m |-> IF i = 0 THEN e ELSE Op(g[i - 1], i)]
           f == CHOOSE g : Is(g)
<1>0. m \in Nat /\ m \in 0 .. m
  OBVIOUS
<1>1. Con!fb_console_write(con, s) = Con!draw_cursor(f[m])
  BY DEF Con!fb_console_write
<1>2. e \in Bares /\ e.cells = con.cells /\ e.x = con.x /\ e.y = con.y
  BY Erased
<1> HIDE DEF m, e
<1>3. Is(f)
  <2>1. G \in [(1 .. m) \X Bares -> Bares]
    BY PutStep
  <2> HIDE DEF G
  <2>2. PICK g \in [0 .. m -> Bares] : Turns(g, m, e, G)
    BY <1>0, <1>2, <2>1, LoopExists
  <2>3. \A i \in 1 .. m : <<i, g[i - 1]>> \in (1 .. m) \X Bares
    BY <1>0
  <2>4. \A i \in 1 .. m : G[<<i, g[i - 1]>>] = Op(g[i - 1], i)
    BY <2>3 DEF G
  <2>5. Is(g)
    <3> DEFINE h == [i \in 0 .. m |-> IF i = 0 THEN e ELSE Op(g[i - 1], i)]
    <3>1. \A i \in 0 .. m : g[i] = IF i = 0 THEN e ELSE G[<<i, g[i - 1]>>]
      BY <2>2 DEF Turns
    <3>2. \A i \in 0 .. m : i # 0 => i \in 1 .. m
      BY <1>0
    <3> HIDE DEF Op
    <3>3. \A i \in 0 .. m : g[i] = h[i]
      BY <2>4, <3>1, <3>2
    <3>4. g = h
      BY <2>2, <3>3
    <3> QED
      BY <3>4
  <2> QED
    BY <2>5
<1> HIDE DEF f
<1>4. f[0] = e /\ \A i \in 1 .. m : f[i] = Op(f[i - 1], i)
  <2> HIDE DEF Op
  <2> QED
    BY <1>0, <1>3
<1> DEFINE Fit == Printed(s) /\ con.x + m < Width
           Empty == AllBlank(con) /\ (\A i \in 1 .. m : s[i] = NEWLINE)
           row == con.cells[con.y]
           Put(c, i) == c.x = con.x + i /\ c.y = con.y /\ RowHas(c, con.y, row, con.x, s, i)
           P == {i \in 0 .. m : /\ f[i] \in Bares /\ (Fit => Put(f[i], i))
                                /\ Empty => AllBlank(f[i])
                                /\ i # 0 /\ s[i] = NEWLINE => f[i].x = 0}
<1>5. con.x \in Nat /\ Width \in Nat /\ Con!Columns \subseteq Nat
  BY Sizes DEF Screens
<1>6. 0 \in P
  <2>1. RowHas(e, con.y, row, con.x, s, 0)
    BY <1>2, <1>5, NoneYet
  <2>2. Empty => AllBlank(e)
    BY <1>2 DEF AllBlank
  <2> QED
    BY <1>0, <1>2, <1>4, <1>5, <2>1, <2>2
<1>7. ASSUME NEW i \in 1 .. m, i - 1 \in P
      PROVE  i \in P
  <2> DEFINE c == f[i - 1]
  <2>1. c \in Bares /\ (Fit => Put(c, i - 1)) /\ (Empty => AllBlank(c))
    BY <1>7
  <2>2. f[i] = Op(c, i)
    BY <1>4
  <2> HIDE DEF c
  <2>3. /\ f[i] \in Bares
        /\ s[i] = NEWLINE => f[i].x = 0 /\ (AllBlank(c) => AllBlank(f[i]))
        /\ s[i] \in Glyphs \ {NEWLINE} /\ c.x + 1 < Width =>
              f[i].x = c.x + 1 /\ f[i].y = c.y /\ f[i].cells = RowWith(c, c.x, s[i])
    BY <2>1, <2>2, PutStep
  <2>4. ASSUME Fit
        PROVE  Put(f[i], i)
    <3>1. s[i] \in Glyphs \ {NEWLINE}
      BY <1>7, <2>4 DEF Printed, m
    <3>2. c.x = con.x + (i - 1) /\ c.y = con.y /\ RowHas(c, c.y, row, con.x, s, i - 1)
      BY <2>1, <2>4
    <3>3. c.x + 1 < Width /\ c.x + 1 = con.x + i /\ i \in Nat \ {0}
      BY <1>0, <1>5, <2>4, <3>2
    <3>4. f[i].x = c.x + 1 /\ f[i].y = c.y /\ f[i].cells = RowWith(c, c.x, s[i])
      BY <2>3, <3>1, <3>3
    <3>5. RowHas(f[i], c.y, row, con.x, s, i)
      <4> HIDE DEF row
      <4>1. c \in Screens
        BY <2>1 DEF Bares
      <4> QED
        BY <1>5, <3>2, <3>3, <3>4, <4>1, OneMore
    <3> QED
      BY <3>2, <3>3, <3>4, <3>5
  <2>5. Empty => AllBlank(f[i])
    BY <1>7, <2>1, <2>3
  <2> HIDE DEF Put, Fit, Empty
  <2> QED
    BY <2>3, <2>4, <2>5
<1> HIDE DEF P
<1>8. m \in P
  BY <1>0, <1>6, <1>7, Induction
<1>9. /\ f[m] \in Bares /\ (Fit => Put(f[m], m)) /\ (Empty => AllBlank(f[m]))
      /\ m # 0 /\ s[m] = NEWLINE => f[m].x = 0
  BY <1>8 DEF P
<1> DEFINE r == Con!draw_cursor(f[m])
<1>10. r \in Sounds /\ r.cells = f[m].cells /\ r.x = f[m].x /\ r.y = f[m].y
  BY <1>9, DrawnCursor
<1> HIDE DEF r
<1>11. (Fit => Put(r, m)) /\ (Empty => AllBlank(r))
  BY <1>9, <1>10 DEF RowHas, AllBlank
<1> QED
  BY <1>1, <1>9, <1>10, <1>11 DEF r, m

-----------------------------------------------------------------------------
\* The lines a list writes end with a new line.
LEMMA Flattened ==
    ASSUME NEW A, NEW T, IsFiniteSet(T), T # {},
           \A t \in T : t \in Seq(A) /\ t # << >> /\ t[Len(t)] = NEWLINE
    PROVE  LET s == FlattenSeq(SetToSeq(T))
           IN  s \in Seq(A) /\ s # << >> /\ s[Len(s)] = NEWLINE
<1> DEFINE n == Cardinality(T)
           seqs == SetToSeq(T)
           S == {s \in Seq(A) : s # << >> /\ s[Len(s)] = NEWLINE}
<1>1. n \in Nat /\ n >= 1
  BY FS_CardinalityType, FS_EmptySet
<1>2. seqs \in [1 .. n -> T]
  <2>1. PICK f \in Bijection(1 .. n, T) : TRUE
    BY FS_CardinalityType DEF ExistsBijection
  <2>2. f \in [1 .. n -> T] /\ IsInjective(f)
    BY <2>1 DEF Bijection, Injection, IsInjective
  <2> QED
    BY <2>2 DEF SetToSeq
<1> HIDE DEF n, seqs
<1>3. seqs \in Seq(T) /\ Len(seqs) = n /\ \A i \in 1 .. n : seqs[i] \in S
  BY <1>1, <1>2
<1> DEFINE Is(g) == g = [i \in 1 .. n |-> IF i = 1 THEN seqs[i] ELSE g[i - 1] \o seqs[i]]
           f == CHOOSE g : Is(g)
<1>4. FlattenSeq(seqs) = f[n]
  BY <1>1, <1>3 DEF FlattenSeq
<1>5. \A s, t \in S : s \o t \in S
  <2> SUFFICES ASSUME NEW s \in S, NEW t \in S PROVE s \o t \in S
    OBVIOUS
  <2>1. s \in Seq(A) /\ t \in Seq(A) /\ t # << >> /\ t[Len(t)] = NEWLINE
    OBVIOUS
  <2>2. Len(t) \in Nat /\ Len(t) >= 1 /\ Len(s) \in Nat
    BY <2>1, EmptySeq
  <2>3. s \o t \in Seq(A) /\ Len(s \o t) = Len(s) + Len(t)
    BY <2>1
  <2>4. (s \o t)[Len(s) + Len(t)] = t[Len(s) + Len(t) - Len(s)]
    BY <2>1, <2>2, ConcatProperties
  <2>5. Len(s) + Len(t) - Len(s) = Len(t)
    BY <2>2
  <2>6. s \o t # << >>
    BY <2>2, <2>3
  <2> QED
    BY <2>1, <2>3, <2>4, <2>5, <2>6
<1> HIDE DEF S
<1>6. Is(f)
  <2> DEFINE G == [p \in (1 .. n - 1) \X S |-> p[2] \o seqs[p[1] + 1]]
  <2>1. G \in [(1 .. n - 1) \X S -> S]
    <3>1. \A i \in 1 .. n - 1 : i + 1 \in 1 .. n
      BY <1>1
    <3> QED
      BY <1>3, <1>5, <3>1
  <2>2. n - 1 \in Nat /\ seqs[1] \in S
    BY <1>1, <1>3
  <2> HIDE DEF G
  <2>3. PICK h \in [0 .. n - 1 -> S] : Turns(h, n - 1, seqs[1], G)
    BY <2>1, <2>2, LoopExists
  <2> DEFINE g == [i \in 1 .. n |-> h[i - 1]]
             k == [i \in 1 .. n |-> IF i = 1 THEN seqs[i] ELSE g[i - 1] \o seqs[i]]
  <2>4. ASSUME NEW i \in 1 .. n
        PROVE  g[i] = k[i]
    <3>1. CASE i = 1
      <4>1. i - 1 = 0 /\ 0 \in 0 .. n - 1
        BY <1>1, <3>1
      <4>2. h[0] = seqs[1]
        BY <2>3, <4>1 DEF Turns
      <4> QED
        BY <3>1, <4>1, <4>2
    <3>2. CASE i # 1
      <4>1. i - 1 \in 1 .. n - 1 /\ i - 1 \in 0 .. n - 1 /\ i - 1 # 0 /\ i - 1 \in 1 .. n
            /\ i - 1 - 1 \in 0 .. n - 1 /\ i - 1 + 1 = i
        BY <1>1, <3>2
      <4>2. h[i - 1] = G[<<i - 1, h[i - 1 - 1]>>]
        BY <2>3, <4>1 DEF Turns
      <4>3. <<i - 1, h[i - 1 - 1]>> \in (1 .. n - 1) \X S
        BY <2>3, <4>1
      <4>4. G[<<i - 1, h[i - 1 - 1]>>] = h[i - 1 - 1] \o seqs[i - 1 + 1]
        BY <4>3 DEF G
      <4>5. g[i] = h[i - 1] /\ g[i - 1] = h[i - 1 - 1]
        BY <4>1
      <4> HIDE DEF g
      <4> QED
        BY <3>2, <4>1, <4>2, <4>4, <4>5
    <3> QED
      BY <3>1, <3>2
  <2>5. g = k
    BY <2>4
  <2>6. Is(g)
    BY <2>5
  <2> HIDE DEF g
  <2> QED
    BY <2>6
<1> HIDE DEF f
<1>7. \A j \in 1 .. n : f[j] = IF j = 1 THEN seqs[j] ELSE f[j - 1] \o seqs[j]
  <2> DEFINE k == [j \in 1 .. n |-> IF j = 1 THEN seqs[j] ELSE f[j - 1] \o seqs[j]]
  <2>1. f = k
    BY <1>6
  <2>2. \A j \in 1 .. n : k[j] = IF j = 1 THEN seqs[j] ELSE f[j - 1] \o seqs[j]
    OBVIOUS
  <2> HIDE DEF k
  <2> QED
    BY <2>1, <2>2
<1> DEFINE P == {i \in 0 .. n - 1 : f[i + 1] \in S}
<1>8. 0 \in P
  <2>1. 1 \in 1 .. n /\ 0 \in 0 .. n - 1 /\ 0 + 1 = 1
    BY <1>1
  <2> QED
    BY <1>3, <1>7, <2>1
<1>9. ASSUME NEW i \in 1 .. n - 1, i - 1 \in P
      PROVE  i \in P
  <2>1. i + 1 \in 1 .. n /\ i + 1 # 1 /\ i + 1 - 1 = i /\ i - 1 + 1 = i /\ i \in 0 .. n - 1
    BY <1>1
  <2>2. f[i] \in S /\ seqs[i + 1] \in S
    BY <1>3, <1>9, <2>1
  <2>3. f[i] \o seqs[i + 1] \in S
    BY <1>5, <2>2
  <2>4. f[i + 1] = f[i] \o seqs[i + 1]
    <3> HIDE DEF P
    <3> SUFFICES ASSUME NEW j \in 1 .. n, j = i + 1 PROVE f[j] = f[i] \o seqs[j]
      BY <2>1
    <3>1. j # 1 /\ j - 1 = i
      BY <2>1
    <3> QED
      BY <1>7, <3>1
  <2> QED
    BY <2>1, <2>3, <2>4
<1> HIDE DEF P
<1>10. n - 1 \in P
  <2>1. n - 1 \in Nat /\ n - 1 \in 0 .. n - 1
    BY <1>1
  <2> QED
    BY <1>8, <1>9, <2>1, Induction
<1>11. n - 1 + 1 = n
  BY <1>1
<1>12. f[n] \in S
  BY <1>10, <1>11 DEF P
<1> QED
  BY <1>4, <1>12 DEF S, seqs

\* A text without a 0 is the string in the buffer.
LEMMA StrOfTyped == Terminated /\ Text \in Seq(Typed) => Str = Text
<1> SUFFICES ASSUME Terminated, Text \in Seq(Typed) PROVE Str = Text
  OBVIOUS
<1>1. Str = E!Kept
  BY SizesAssumption, StringsAssumption, StrIsKept
<1>2. {i \in DOMAIN Text : Text[i] = NUL} = {}
  <2>1. \A i \in DOMAIN Text : Text[i] \in Typed
    OBVIOUS
  <2> QED
    BY <2>1, StringsAssumption DEF StringsAssumption
<1>3. Len(Text) \in Nat /\ Len(Text) + 1 - 1 = Len(Text)
  OBVIOUS
<1>4. Min({Len(Text) + 1}) = Len(Text) + 1
  <2>1. {Len(Text) + 1} \subseteq Nat /\ {Len(Text) + 1} # {}
    BY <1>3
  <2>2. Min({Len(Text) + 1}) \in {Len(Text) + 1}
    BY <2>1, Least
  <2> QED
    BY <2>2
<1>5. E!Kept = SubSeq(Text, 1, Len(Text))
  <2> DEFINE I == {i \in DOMAIN Text : Text[i] = NUL} \cup {Len(Text) + 1}
  <2>1. E!Kept = SubSeq(Text, 1, E!Min(I) - 1)
    BY DEF E!Kept
  <2>2. I = {Len(Text) + 1}
    BY <1>2
  <2> HIDE DEF I
  <2>3. E!Min(I) = Len(Text) + 1
    BY <1>4, <2>2, EMin
  <2>4. E!Min(I) - 1 = Len(Text)
    BY <1>3, <2>3
  <2> QED
    BY <2>1, <2>4
<1>6. SubSeq(Text, 1, Len(Text)) = Text
  <2>1. Len(Text) \in 0 .. Len(Text)
    BY <1>3
  <2>2. /\ SubSeq(Text, 1, Len(Text)) \in Seq(Typed) /\ Len(SubSeq(Text, 1, Len(Text))) = Len(Text)
        /\ \A i \in 1 .. Len(Text) : SubSeq(Text, 1, Len(Text))[i] = Text[i]
    BY <2>1, TextParts
  <2> QED
    BY <2>2, SameSeq
<1> QED
  BY <1>1, <1>5, <1>6

LEMMA StrOfTypedNext == (Terminated /\ Text \in Seq(Typed) => Str = Text)'
BY StrOfTyped, PTL

-----------------------------------------------------------------------------
\* What the keys do, in terms of Shows.
LEMMA PrintedTyped ==
    ASSUME ScreenAssumption
    PROVE  /\ \A s \in Seq(Typed) : Printed(s)
           /\ Prompt \in Seq(Range(Prompt)) /\ Printed(Prompt)
<1>1. ASSUME NEW s \in Seq(Typed) PROVE Printed(s)
  <2>1. \A i \in 1 .. Len(s) : s[i] \in Typed
    BY ElementOfSeq
  <2> QED
    BY <2>1, Sizes DEF Printed, Glyphs
<1>2. Prompt \in Seq(Range(Prompt))
  BY DEF ScreenAssumption
<1>3. \A i \in 1 .. Len(Prompt) : Prompt[i] \in Range(Prompt)
  BY <1>2, ElementOfSeq
<1> QED
  BY <1>1, <1>2, <1>3, Sizes DEF Printed, Glyphs

\* The prompt at the start of a row and a text behind it, where it is blank.
LEMMA PromptShows ==
    ASSUME ScreenAssumption, SizesAssumption, Terminated', NEW s \in Seq(Typed),
           NEW con \in Screens, con.marks \subseteq {Con!Place(con)}, con.x = 0,
           Prompted(con, s)
    PROVE  Shown'
<1> DEFINE shown == Con!fb_console_write(con, Prompt)
           to == Con!fb_console_write(shown, s)
<1>0. con.y \in Con!Lines /\ Len(Prompt) \in Nat /\ Len(Prompt) < Width /\ Width \in Nat
      /\ Con!Columns = 0 .. Width - 1
  BY Sizes DEF Screens
<1>1. /\ shown \in Sounds /\ shown.x = Len(Prompt) /\ shown.y = con.y
      /\ RowHas(shown, con.y, con.cells[con.y], 0, Prompt, Len(Prompt))
  BY <1>0, PrintedTyped, WriteLoop
<1>2. /\ anchor' = Con!Place(shown) /\ console' = to
      /\ parted' = \/ ~ AtEnd' \/ s # Text' \/ ~ Fits'
                   \/ \E x \in shown.x .. Width - 1 : shown.cells[shown.y][x] # SPACE
  BY DEF Prompted
<1> HIDE DEF shown
<1>3. /\ to \in Sounds
      /\ shown.x + Len(s) < Width =>
            /\ to.x = shown.x + Len(s) /\ to.y = shown.y
            /\ RowHas(to, shown.y, shown.cells[shown.y], shown.x, s, Len(s))
  <2>1. Printed(s) /\ Len(s) \in Nat /\ shown \in Screens /\ shown.marks \subseteq {Con!Place(shown)}
    BY <1>1, PrintedTyped, SoundMarks
  <2> QED
    BY <2>1, WriteLoop
<1> HIDE DEF to
<1>4. anchor' = <<Len(Prompt), con.y>> /\ anchor'[1] = Len(Prompt) /\ anchor'[2] = con.y
  BY <1>1, <1>2 DEF Con!Place
<1>5. parted' \in BOOLEAN
  BY <1>2
<1>6. ASSUME ~ parted'
      PROVE  Shows(console', anchor'[2], Text', cursor_position')
  <2>1. /\ cursor_position' = buffer_index' /\ s = Text' /\ anchor'[1] + buffer_index' < Width
        /\ \A x \in shown.x .. Width - 1 : shown.cells[shown.y][x] = SPACE
    BY <1>2, <1>6 DEF AtEnd, Fits
  <2>2. Len(s) = buffer_index' /\ Len(s) \in Nat
    BY <2>1, LineOfNext
  <2>3. /\ to.x = Len(Prompt) + Len(s) /\ to.y = con.y
        /\ RowHas(to, con.y, shown.cells[con.y], Len(Prompt), s, Len(s))
    BY <1>0, <1>1, <1>3, <1>4, <2>1, <2>2
  <2>4. ASSUME NEW x \in Con!Columns
        PROVE  to.cells[con.y][x] = RowOf(s)[x]
    <3>1. x \in Nat /\ x <= Width - 1
      BY <1>0
    <3>2. to.cells[con.y][x] = IF Len(Prompt) <= x /\ x < Len(Prompt) + Len(s)
                               THEN s[x - Len(Prompt) + 1] ELSE shown.cells[con.y][x]
      BY <2>3 DEF RowHas
    <3>3. RowOf(s)[x] = IF x < Len(Prompt) THEN Prompt[x + 1]
                        ELSE IF x < Len(Prompt) + Len(s) THEN s[x - Len(Prompt) + 1] ELSE SPACE
      BY DEF RowOf
    <3>4. CASE x < Len(Prompt)
      <4>1. shown.cells[con.y][x] = Prompt[x - 0 + 1]
        BY <1>0, <1>1, <3>1, <3>4 DEF RowHas
      <4>2. x - 0 + 1 = x + 1 /\ ~ Len(Prompt) <= x
        BY <1>0, <3>1, <3>4
      <4> QED
        BY <3>2, <3>3, <3>4, <4>1, <4>2
    <3>5. CASE ~ x < Len(Prompt)
      <4>1. Len(Prompt) <= x /\ x \in Len(Prompt) .. Width - 1
        BY <1>0, <3>1, <3>5
      <4>2. shown.cells[con.y][x] = SPACE
        BY <1>1, <2>1, <4>1
      <4> QED
        BY <3>2, <3>3, <3>5, <4>1, <4>2
    <3> QED
      BY <3>4, <3>5
  <2>5. to.cells[con.y] = RowOf(s)
    <3>1. to.cells[con.y] \in [Con!Columns -> Glyphs]
      BY <1>0, <1>3, SoundMarks DEF Screens
    <3>2. DOMAIN RowOf(s) = Con!Columns /\ RowOf(s) = [x \in Con!Columns |-> RowOf(s)[x]]
      BY DEF RowOf
    <3> QED
      BY <2>4, <3>1, <3>2
  <2>6. Shows(to, con.y, s, buffer_index')
    BY <1>4, <2>1, <2>2, <2>3, <2>5 DEF Shows
  <2> QED
    BY <1>2, <1>4, <2>1, <2>6
<1>7. console' \in Screens /\ Marked(console')
  BY <1>2, <1>3 DEF Sounds
<1>8. anchor' \in {Len(Prompt)} \X Con!Lines
  BY <1>0, <1>4
<1> QED
  BY <1>5, <1>6, <1>7, <1>8 DEF Shown, Marked, Con!Place, Shows

\* The characters s, written behind the first c, make u of the text t.
Makes(t, c, s, u) ==
    /\ t \in Seq(Typed) /\ u \in Seq(Typed)
    /\ c \in Nat /\ c <= Len(t) /\ c <= Len(u) /\ \A i \in 1 .. c : t[i] = u[i]
    /\ Len(s) \in Nat /\ Len(t) <= c + Len(s) /\ Len(u) <= c + Len(s)
    /\ \A j \in 1 .. Len(s) : s[j] = IF c + j <= Len(u) THEN u[c + j] ELSE SPACE

LEMMA RowBecomes ==
    ASSUME ScreenAssumption, NEW t, NEW c, NEW s, NEW u, Makes(t, c, s, u),
           NEW con \in Screens, NEW y \in Con!Lines,
           RowHas(con, y, RowOf(t), Len(Prompt) + c, s, Len(s))
    PROVE  con.cells[y] = RowOf(u)
<1>0. /\ Len(Prompt) \in Nat /\ Len(t) \in Nat /\ Len(u) \in Nat /\ Width \in Nat
      /\ Con!Columns = 0 .. Width - 1
      /\ c \in Nat /\ c <= Len(t) /\ c <= Len(u) /\ \A i \in 1 .. c : t[i] = u[i]
      /\ Len(s) \in Nat /\ Len(t) <= c + Len(s) /\ Len(u) <= c + Len(s)
      /\ \A j \in 1 .. Len(s) : s[j] = IF c + j <= Len(u) THEN u[c + j] ELSE SPACE
  BY Sizes DEF Makes
<1>1. ASSUME NEW x \in Con!Columns
      PROVE  con.cells[y][x] = RowOf(u)[x]
  <2>0. x \in Nat
    BY <1>0
  <2>1. con.cells[y][x] = IF Len(Prompt) + c <= x /\ x < Len(Prompt) + c + Len(s)
                          THEN s[x - (Len(Prompt) + c) + 1] ELSE RowOf(t)[x]
    BY DEF RowHas
  <2>2. /\ RowOf(t)[x] = IF x < Len(Prompt) THEN Prompt[x + 1]
                         ELSE IF x < Len(Prompt) + Len(t) THEN t[x - Len(Prompt) + 1] ELSE SPACE
        /\ RowOf(u)[x] = IF x < Len(Prompt) THEN Prompt[x + 1]
                         ELSE IF x < Len(Prompt) + Len(u) THEN u[x - Len(Prompt) + 1] ELSE SPACE
    BY DEF RowOf
  <2>3. CASE x < Len(Prompt)
    <3>1. ~ Len(Prompt) + c <= x
      BY <1>0, <2>0, <2>3
    <3> QED
      BY <2>1, <2>2, <2>3, <3>1
  <2>4. CASE ~ x < Len(Prompt) /\ x < Len(Prompt) + c
    <3>1. /\ ~ Len(Prompt) + c <= x /\ x < Len(Prompt) + Len(t) /\ x < Len(Prompt) + Len(u)
          /\ x - Len(Prompt) + 1 \in 1 .. c
      BY <1>0, <2>0, <2>4
    <3> QED
      BY <1>0, <2>1, <2>2, <2>4, <3>1
  <2>5. CASE ~ x < Len(Prompt) + c /\ x < Len(Prompt) + c + Len(s)
    <3> DEFINE j == x - (Len(Prompt) + c) + 1
    <3>1. /\ j \in 1 .. Len(s) /\ c + j = x - Len(Prompt) + 1 /\ Len(Prompt) + c <= x
          /\ ~ x < Len(Prompt) /\ (c + j <= Len(u) <=> x < Len(Prompt) + Len(u))
      BY <1>0, <2>0, <2>5
    <3>2. s[j] = IF c + j <= Len(u) THEN u[c + j] ELSE SPACE
      BY <1>0, <3>1
    <3> QED
      BY <2>1, <2>2, <2>5, <3>1, <3>2
  <2>6. CASE ~ x < Len(Prompt) + c + Len(s)
    <3>1. ~ x < Len(Prompt) /\ ~ x < Len(Prompt) + Len(t) /\ ~ x < Len(Prompt) + Len(u)
      BY <1>0, <2>0, <2>6
    <3> QED
      BY <2>1, <2>2, <2>6, <3>1
  <2>7. x < Len(Prompt) \/ x < Len(Prompt) + c \/ x < Len(Prompt) + c + Len(s) \/
        ~ x < Len(Prompt) + c + Len(s)
    OBVIOUS
  <2> QED
    BY <2>3, <2>4, <2>5, <2>6
<1>2. con.cells[y] \in [Con!Columns -> Glyphs]
  BY DEF Screens
<1>3. RowOf(u) = [x \in Con!Columns |-> RowOf(u)[x]]
  BY DEF RowOf
<1> QED
  BY <1>1, <1>2, <1>3

\* So do blanks with which the cursor goes back from the end of t.
LEMMA BackShows ==
    ASSUME ScreenAssumption, NEW t \in Seq(Typed), NEW from \in 0 .. Len(t),
           NEW con \in Sounds, con.x = Len(Prompt) + Len(t), con.cells[con.y] = RowOf(t)
    PROVE  LET r == Backspaced(con, Len(t) - from)
           IN  /\ r \in Sounds /\ r.x = Len(Prompt) + from /\ r.y = con.y
               /\ r.cells[con.y] = RowOf(SubSeq(t, 1, from))
<1> DEFINE r == Backspaced(con, Len(t) - from)
           u == SubSeq(t, 1, from)
           s == [i \in 1 .. Len(t) - from |-> SPACE]
<1>0. Len(Prompt) \in Nat /\ Len(t) \in Nat /\ from \in Nat /\ from <= Len(t) /\ con.y \in Con!Lines
  BY Sizes, SoundMarks DEF Screens
<1>1. Len(t) - from \in Int /\ Len(t) - from \in 0 .. con.x /\ con.x - (Len(t) - from) = Len(Prompt) + from
  BY <1>0
<1>2. /\ r \in Sounds /\ r.y = con.y /\ r.x = Len(Prompt) + from
      /\ \A x \in Con!Columns :
            r.cells[con.y][x] = IF con.x - (Len(t) - from) <= x /\ x < con.x THEN SPACE
                                ELSE con.cells[con.y][x]
  BY <1>1, BackLoop
<1>3. u \in Seq(Typed) /\ Len(u) = from /\ \A i \in 1 .. from : u[i] = t[i]
  BY TextParts
<1>4. Len(s) = Len(t) - from /\ \A j \in 1 .. Len(s) : s[j] = SPACE
  BY <1>0
<1> HIDE DEF r, s, u
<1>5. RowHas(r, con.y, RowOf(t), Len(Prompt) + from, s, Len(s))
  <2> SUFFICES ASSUME NEW x \in Con!Columns
               PROVE  r.cells[con.y][x] =
                          IF Len(Prompt) + from <= x /\ x < Len(Prompt) + from + Len(s)
                          THEN s[x - (Len(Prompt) + from) + 1] ELSE RowOf(t)[x]
    BY DEF RowHas
  <2>0. x \in Nat
    BY Sizes
  <2>1. Len(Prompt) + from + Len(s) = con.x
    BY <1>0, <1>4
  <2>2. r.cells[con.y][x] = IF Len(Prompt) + from <= x /\ x < con.x THEN SPACE ELSE RowOf(t)[x]
    BY <1>1, <1>2
  <2>3. Len(Prompt) + from <= x /\ x < con.x => s[x - (Len(Prompt) + from) + 1] = SPACE
    <3>1. SUFFICES ASSUME Len(Prompt) + from <= x, x < con.x
                   PROVE  x - (Len(Prompt) + from) + 1 \in 1 .. Len(s)
      BY <1>4
    <3> QED
      BY <1>0, <2>0, <2>1, <1>4, <3>1
  <2> QED
    BY <2>1, <2>2, <2>3
<1>6. r.cells[con.y] = RowOf(u)
  <2>1. \A j \in 1 .. Len(s) : ~ from + j <= Len(u)
    BY <1>0, <1>3
  <2>2. Len(s) \in Nat /\ Len(t) <= from + Len(s) /\ Len(u) <= from + Len(s) /\ from <= Len(u)
    BY <1>0, <1>3, <1>4
  <2>3. \A j \in 1 .. Len(s) : s[j] = IF from + j <= Len(u) THEN u[from + j] ELSE SPACE
    BY <1>4, <2>1
  <2>4. r \in Screens /\ \A i \in 1 .. from : t[i] = u[i]
    BY <1>2, <1>3, SoundMarks
  <2>5. from \in Nat /\ from <= Len(t) /\ con.y \in Con!Lines /\ u \in Seq(Typed)
    BY <1>0, <1>3
  <2> QED
    <3>1. Makes(t, from, s, u)
      BY <2>2, <2>3, <2>4, <2>5 DEF Makes
    <3> QED
      BY <1>5, <2>4, <2>5, <3>1, RowBecomes
<1> QED
  BY <1>2, <1>6 DEF r, u

LEMMA RewrittenStep ==
    ASSUME ScreenAssumption, NEW con \in Sounds, NEW s, Len(s) \in Nat
    PROVE  LET r == Rewritten(con, s)
           IN  /\ r \in Sounds /\ r.x = con.x /\ r.y = con.y
               /\ Printed(s) /\ con.x + Len(s) < Width =>
                     RowHas(r, con.y, con.cells[con.y], con.x, s, Len(s))
<1> DEFINE p == Putchars(con, s)
<1>1. /\ p \in Sounds
      /\ Printed(s) /\ con.x + Len(s) < Width =>
            RowHas(p, con.y, con.cells[con.y], con.x, s, Len(s))
  BY PutcharsLoop
<1> HIDE DEF p
<1>2. Rewritten(con, s) = Moved(p, con.x, con.y)
  <2>1. Con!Place(con)[1] = con.x /\ Con!Place(con)[2] = con.y
    BY DEF Con!Place
  <2>2. Rewritten(con, s) = Con!draw_cursor(Con!At(Con!erase_cursor(p), Con!Place(con)))
    BY DEF Rewritten, Con!fb_console_set_cursor_pos, p
  <2> QED
    BY <2>1, <2>2 DEF Con!At, Moved
<1>3. con.x \in Con!Columns /\ con.y \in Con!Lines
  BY SoundMarks DEF Screens
<1> DEFINE r == Moved(p, con.x, con.y)
<1>4. r \in Sounds /\ r.cells = p.cells /\ r.x = con.x /\ r.y = con.y
  BY <1>1, <1>3, MovedSound
<1> HIDE DEF r
<1> QED
  BY <1>1, <1>2, <1>4 DEF RowHas, r

\* What a key has to show.
LEMMA DrawnShows ==
    ASSUME ScreenAssumption, SizesAssumption, Shown, Terminated', NEW con \in Sounds,
           NEW parts \in BOOLEAN, Drawn(con, parts),
           ~ parted /\ ~ parts /\ Len(Prompt) + Len(Text') < Width =>
               /\ Text' \in Seq(Typed)
               /\ con.x = Len(Prompt) + cursor_position' /\ con.y = anchor[2]
               /\ con.cells[anchor[2]] = RowOf(Text')
    PROVE  Shown'
<1>1. console' = con /\ anchor' = anchor /\ parted' = (parted \/ parts \/ ~ Fits')
  BY DEF Drawn
<1>2. anchor \in {Len(Prompt)} \X Con!Lines /\ anchor[1] = Len(Prompt) /\ parted \in BOOLEAN
  BY DEF Shown
<1>3. Fits' <=> Len(Prompt) + Len(Text') < Width
  <2>1. Len(Text') = buffer_index'
    BY LineOfNext
  <2> QED
    BY <1>1, <1>2, <2>1 DEF Fits
<1>4. con \in Screens /\ Marked(con)
  BY DEF Sounds
<1>5. ~ parted' => Shows(con, anchor[2], Text', cursor_position')
  BY <1>1, <1>3 DEF Shows
<1>6. parted' \in BOOLEAN
  BY <1>1, <1>2
<1> QED
  BY <1>1, <1>2, <1>4, <1>5, <1>6 DEF Shown, Shows, Marked, Con!Place

\* Where the keys start from.
LEMMA ShownNow ==
    ASSUME ScreenAssumption, SizesAssumption, Shown, Terminated
    PROVE  /\ console \in Sounds /\ anchor[2] \in Con!Lines
           /\ cursor_position \in 0 .. buffer_index /\ buffer_index \in Nat /\ cursor_position \in Nat
           /\ cursor_position <= buffer_index
           /\ Len(Text) = buffer_index /\ Len(Prompt) \in Nat /\ Width \in Nat
           /\ ~ parted =>
                 /\ Text \in Seq(Typed) /\ Len(Prompt) + buffer_index < Width
                 /\ console.x = Len(Prompt) + cursor_position /\ console.y = anchor[2]
                 /\ console.cells[anchor[2]] = RowOf(Text)
<1>1. cursor_position \in 0 .. buffer_index /\ buffer_index \in Nat /\ Len(Text) = buffer_index
  BY LineOf
<1>2. console \in Sounds /\ anchor[2] \in Con!Lines
  BY DEF Shown, Sounds
<1> QED
  BY <1>1, <1>2, Sizes DEF Shown, Shows

LEMMA MoveShows ==
    ASSUME ScreenAssumption, SizesAssumption, Shown, Terminated, Move
    PROVE  Shown'
<1> DEFINE c == cursor_position
           d == cursor_position'
           a == Left(console, c - d)
           b == Right(a, d - c)
<1>1. MoveCursor /\ Drawn(b, FALSE) /\ Terminated'
  BY MoveCursorTerminated DEF Move
<1>2. Text' = Text /\ d \in 0 .. buffer_index
  BY <1>1 DEF MoveCursor, Text
<1>3. c \in Nat /\ d \in Nat /\ c - d \in Int /\ d - c \in Int /\ d <= buffer_index /\ c <= buffer_index
      /\ buffer_index \in Nat /\ Len(Prompt) \in Nat /\ Width \in Nat /\ console.x \in Nat
  <2>1. console.x \in Nat
    BY ShownNow, SoundMarks, Sizes DEF Screens
  <2> QED
    BY <1>2, <2>1, ShownNow
<1>4. /\ a \in Sounds /\ a.cells = console.cells /\ a.y = console.y
      /\ c - d <= console.x => a.x = IF c - d >= 0 THEN console.x - (c - d) ELSE console.x
  BY <1>3, ShownNow, LeftLoop
<1> HIDE DEF a
<1>5. /\ b \in Sounds /\ b.cells = a.cells /\ b.y = a.y
      /\ a.x + (d - c) < Width => b.x = IF d - c >= 0 THEN a.x + (d - c) ELSE a.x
  BY <1>3, <1>4, RightLoop
<1> HIDE DEF b, c, d
<1>6. ASSUME ~ parted
      PROVE  /\ Text' \in Seq(Typed) /\ b.x = Len(Prompt) + d /\ b.y = anchor[2]
             /\ b.cells[anchor[2]] = RowOf(Text')
  <2>1. /\ Text \in Seq(Typed) /\ Len(Prompt) + buffer_index < Width
        /\ console.x = Len(Prompt) + c /\ console.y = anchor[2]
        /\ console.cells[anchor[2]] = RowOf(Text)
    BY <1>6, ShownNow DEF c
  <2>2. a.x = Len(Prompt) + (IF c - d >= 0 THEN d ELSE c)
    BY <1>3, <1>4, <2>1
  <2>3. b.x = Len(Prompt) + d
    BY <1>3, <1>5, <2>1, <2>2
  <2> QED
    BY <1>2, <1>4, <1>5, <2>1, <2>3
<1> QED
  BY <1>1, <1>5, <1>6, DrawnShows DEF d

LEMMA FrontKept ==
    ASSUME NEW S, NEW t \in Seq(S), NEW c \in 0 .. Len(t), NEW w \in Seq(S),
           NEW u, u = SubSeq(t, 1, c) \o w
    PROVE  u \in Seq(S) /\ Len(u) = c + Len(w) /\ \A i \in 1 .. c : t[i] = u[i]
<1>1. SubSeq(t, 1, c) \in Seq(S) /\ Len(SubSeq(t, 1, c)) = c
      /\ \A i \in 1 .. c : SubSeq(t, 1, c)[i] = t[i]
  BY TextParts
<1> DEFINE v == SubSeq(t, 1, c)
<1> HIDE DEF v
<1>2. v \o w \in Seq(S) /\ Len(v \o w) = Len(v) + Len(w)
      /\ \A i \in 1 .. Len(v) : (v \o w)[i] = v[i]
  BY <1>1, ConcatProperties DEF v
<1> QED
  BY <1>1, <1>2 DEF v

\* What redraw_line_from_cursor writes, after a character is taken out.
LEMMA RedrawMakes ==
    ASSUME ScreenAssumption, NEW t \in Seq(Typed), NEW u \in Seq(Typed), Len(u) = Len(t) - 1,
           NEW c \in 0 .. Len(u), \A i \in 1 .. c : t[i] = u[i],
           NEW s, s = SubSeq(u, c + 1, Len(u)) \o <<SPACE>>
    PROVE  Makes(t, c, s, u) /\ Printed(s) /\ Len(s) = Len(t) - c
<1> DEFINE w == SubSeq(u, c + 1, Len(u))
<1>1. /\ w \in Seq(Typed) /\ Len(w) = Len(u) - c
      /\ \A i \in 1 .. Len(u) - c : w[i] = u[c + i]
  BY TextParts
<1>2. Len(t) \in Nat /\ Len(u) \in Nat /\ c \in Nat /\ c <= Len(u)
  OBVIOUS
<1>3. <<SPACE>> \in Seq(Typed) /\ Len(<<SPACE>>) = 1 /\ <<SPACE>>[1] = SPACE
  BY DEF Typed
<1> HIDE DEF w
<1>4. s \in Seq(Typed) /\ Len(s) = Len(w) + 1 /\ s = w \o <<SPACE>>
  BY <1>1, <1>3 DEF w
<1>5. ASSUME NEW j \in 1 .. Len(s)
      PROVE  s[j] = IF c + j <= Len(u) THEN u[c + j] ELSE SPACE
  <2>1. CASE j \in 1 .. Len(u) - c
    <3>1. c + j <= Len(u)
      BY <1>2, <2>1
    <3>2. s[j] = w[j]
      BY <1>1, <1>3, <1>4, <2>1, ConcatProperties
    <3> QED
      BY <1>1, <2>1, <3>1, <3>2
  <2>2. CASE j = Len(w) + 1
    <3>1. ~ c + j <= Len(u) /\ j - Len(w) = 1
      BY <1>1, <1>2, <2>2
    <3>2. s[Len(w) + 1] = SPACE
      <4>1. w \o <<SPACE>> = Append(w, SPACE)
        BY <1>1, <1>3
      <4>2. Append(w, SPACE)[Len(w) + 1] = SPACE
        <5>1. SPACE \in Typed /\ w \in Seq(Typed)
          BY <1>1 DEF Typed
        <5> QED
          BY <5>1, AppendProperties
      <4> QED
        BY <1>4, <4>1, <4>2
    <3> QED
      BY <2>2, <3>1, <3>2
  <2>3. j \in 1 .. Len(u) - c \/ j = Len(w) + 1
    <3>1. Len(s) = Len(w) + 1 /\ Len(w) = Len(u) - c /\ Len(w) \in Nat
      BY <1>1, <1>4
    <3>2. j \in 1 .. Len(w) + 1
      BY <1>5, <3>1
    <3>3. j \in 1 .. Len(w) \/ j = Len(w) + 1
      <4> DEFINE n == Len(w)
      <4> HIDE DEF n
      <4>1. n \in Nat /\ j \in 1 .. n + 1
        BY <3>1, <3>2 DEF n
      <4>2. j \in 1 .. n \/ j = n + 1
        BY <4>1
      <4> QED
        BY <4>2 DEF n
    <3> QED
      BY <3>1, <3>3
  <2> QED
    BY <2>1, <2>2, <2>3
<1>6. Len(s) \in Nat /\ Len(s) = Len(t) - c /\ Len(t) <= c + Len(s) /\ Len(u) <= c + Len(s)
      /\ c <= Len(t)
  BY <1>1, <1>2, <1>4
<1> QED
  BY <1>2, <1>4, <1>5, <1>6, PrintedTyped DEF Makes

\* The text shown in turn when the character behind the first c is taken out.
LEMMA TakenShows ==
    ASSUME ScreenAssumption, SizesAssumption, Shown, Terminated, Terminated',
           NEW c \in Nat, c < buffer_index, cursor_position' = c, Len(Text') = Len(Text) - 1,
           ~ parted => Text' \in Seq(Typed) /\ \A i \in 1 .. c : Text[i] = Text'[i],
           NEW con \in Sounds, con.cells = console.cells, con.y = console.y,
           ~ parted => con.x = Len(Prompt) + c,
           Drawn(redraw_line_from_cursor(con), FALSE)
    PROVE  Shown'
<1> DEFINE u == Text'
           s == SubSeq(u, c + 1, Len(u)) \o <<SPACE>>
           r == Rewritten(con, s)
<1>1. u \in Seq(Chars) /\ Len(u) = buffer_index' /\ buffer_index' \in Nat
  BY LineOfNext
<1>2. Drawn(r, FALSE)
  BY <1>1 DEF redraw_line_from_cursor
<1>3. Len(Text) = buffer_index /\ buffer_index \in Nat /\ Len(Prompt) \in Nat /\ Width \in Nat
      /\ c \in 0 .. Len(u) /\ anchor[2] \in Con!Lines
  BY <1>1, ShownNow
<1>4. Len(s) \in Nat
  <2>1. SubSeq(u, c + 1, Len(u)) \in Seq(Chars)
    BY <1>1, <1>3, TextParts
  <2>2. <<SPACE>> \in Seq(Chars)
    BY DEF Chars, Typed
  <2> HIDE DEF u
  <2>3. s \in Seq(Chars)
    BY <2>1, <2>2
  <2> HIDE DEF s
  <2> QED
    BY <2>3
<1> HIDE DEF u, s
<1>5. /\ r \in Sounds /\ r.x = con.x /\ r.y = con.y
      /\ Printed(s) /\ con.x + Len(s) < Width =>
            RowHas(r, con.y, con.cells[con.y], con.x, s, Len(s))
  BY <1>4, RewrittenStep
<1> HIDE DEF r
<1>6. ASSUME ~ parted
      PROVE  /\ u \in Seq(Typed) /\ r.x = Len(Prompt) + c /\ r.y = anchor[2]
             /\ r.cells[anchor[2]] = RowOf(u)
  <2>1. /\ Text \in Seq(Typed) /\ Len(Prompt) + buffer_index < Width
        /\ console.y = anchor[2] /\ console.cells[anchor[2]] = RowOf(Text)
    BY <1>6, ShownNow
  <2>2. u \in Seq(Typed) /\ Len(u) = Len(Text) - 1 /\ \A i \in 1 .. c : Text[i] = u[i]
    BY <1>6 DEF u
  <2>3. Makes(Text, c, s, u) /\ Printed(s) /\ Len(s) = Len(Text) - c
    BY <1>3, <2>1, <2>2, RedrawMakes DEF s
  <2>4. con.x = Len(Prompt) + c /\ con.x + Len(s) < Width
    BY <1>3, <1>6, <2>1, <2>3
  <2>5. RowHas(r, anchor[2], RowOf(Text), Len(Prompt) + c, s, Len(s))
    BY <1>5, <2>1, <2>3, <2>4
  <2>6. r.cells[anchor[2]] = RowOf(u)
    BY <1>3, <1>5, <2>3, <2>5, SoundMarks, RowBecomes
  <2> QED
    BY <1>5, <2>1, <2>2, <2>4, <2>6
<1> QED
  BY <1>2, <1>5, <1>6, DrawnShows DEF u

LEMMA DeleteShows ==
    ASSUME ScreenAssumption, SizesAssumption, Shown, Terminated, Delete
    PROVE  Shown'
<1> DEFINE c == cursor_position
<1>1. DeleteKey /\ Drawn(redraw_line_from_cursor(console), FALSE)
  BY DEF Delete
<1>2. Terminated' /\ cursor_position' = c /\ c < buffer_index /\ buffer_index' = buffer_index - 1
  BY <1>1, DeleteKeyTerminated DEF DeleteKey
<1>3. c \in Nat /\ Len(Text) = buffer_index /\ c \in 0 .. Len(Text) /\ console \in Sounds
  BY ShownNow
<1>4. Len(Text') = Len(Text) - 1
  BY <1>2, <1>3, LineOfNext
<1>5. ~ parted => Text' \in Seq(Typed) /\ \A i \in 1 .. c : Text[i] = Text'[i]
  <2>1. SUFFICES ASSUME ~ parted
                 PROVE  Text' \in Seq(Typed) /\ \A i \in 1 .. c : Text[i] = Text'[i]
    OBVIOUS
  <2> DEFINE behind == SubSeq(Text, c + 1, Len(Text))
  <2>2. Text \in Seq(Typed) /\ Len(Text) - c > 0
    BY <1>2, <1>3, <2>1, ShownNow
  <2>3. behind \in Seq(Typed) /\ Len(behind) = Len(Text) - c
    BY <1>3, <2>2, TextParts
  <2>4. Text' = SubSeq(Text, 1, c) \o Tail(behind)
    BY <1>1, DeleteRefines DEF E!Delete, E!Before, E!Behind
  <2> HIDE DEF behind
  <2>5. Tail(behind) \in Seq(Typed)
    <3>1. behind # << >>
      BY <2>2, <2>3
    <3> QED
      BY <2>3, <3>1
  <2> QED
    BY <1>3, <2>2, <2>4, <2>5, FrontKept
<1>6. ~ parted => console.x = Len(Prompt) + c
  BY ShownNow
<1> HIDE DEF c
<1> QED
  BY <1>1, <1>2, <1>3, <1>4, <1>5, <1>6, TakenShows

LEMMA EraseShows ==
    ASSUME ScreenAssumption, SizesAssumption, Shown, Terminated, Erase
    PROVE  Shown'
<1> DEFINE c == cursor_position - 1
           con == Left(console, 1)
<1>1. Backspace /\ Drawn(redraw_line_from_cursor(con), FALSE)
  BY DEF Erase
<1>2. Terminated' /\ cursor_position' = c /\ buffer_index' = buffer_index - 1 /\ cursor_position > 0
  BY <1>1, BackspaceTerminated DEF Backspace
<1>3. /\ c \in Nat /\ cursor_position \in Nat /\ c < buffer_index /\ c + 1 = cursor_position
      /\ Len(Text) = buffer_index /\ c \in 0 .. Len(Text) /\ cursor_position \in 0 .. Len(Text)
      /\ console \in Sounds /\ Len(Prompt) \in Nat
  <2>1. /\ cursor_position \in 0 .. buffer_index /\ buffer_index \in Nat
        /\ Len(Text) = buffer_index /\ console \in Sounds /\ Len(Prompt) \in Nat
    BY ShownNow
  <2>2. c \in 0 .. buffer_index - 1
    BY <1>2, <2>1
  <2> QED
    BY <2>1, <2>2
<1>4. Len(Text') = Len(Text) - 1
  BY <1>2, <1>3, LineOfNext
<1>5. ~ parted => Text' \in Seq(Typed) /\ \A i \in 1 .. c : Text[i] = Text'[i]
  <2>1. SUFFICES ASSUME ~ parted
                 PROVE  Text' \in Seq(Typed) /\ \A i \in 1 .. c : Text[i] = Text'[i]
    OBVIOUS
  <2> DEFINE behind == SubSeq(Text, cursor_position + 1, Len(Text))
  <2>2. Text \in Seq(Typed)
    BY <2>1, ShownNow
  <2>3. behind \in Seq(Typed)
    BY <1>3, <2>2, TextParts
  <2>4. Text' = SubSeq(Text, 1, c) \o behind
    BY <1>1, BackspaceRefines DEF E!Backspace, E!Behind
  <2> HIDE DEF behind, c
  <2> QED
    BY <1>3, <2>2, <2>3, <2>4, FrontKept
<1>6. con \in Sounds /\ con.cells = console.cells /\ con.y = console.y
      /\ (~ parted => con.x = Len(Prompt) + c)
  <2>1. /\ con \in Sounds /\ con.cells = console.cells /\ con.y = console.y
        /\ 1 <= console.x => con.x = console.x - 1
    BY <1>3, LeftLoop
  <2> HIDE DEF con
  <2>2. ASSUME ~ parted PROVE con.x = Len(Prompt) + c
    <3>1. console.x = Len(Prompt) + cursor_position
      BY <2>2, ShownNow
    <3> QED
      BY <1>3, <2>1, <3>1
  <2> QED
    BY <2>1, <2>2
<1> HIDE DEF c, con
<1> QED
  BY <1>1, <1>2, <1>3, <1>4, <1>5, <1>6, TakenShows

LEMMA TypeShows ==
    ASSUME ScreenAssumption, SizesAssumption, Shown, Terminated,
           NEW e \in Letters \cup {SPACE}, Type(e)
    PROVE  Shown'
<1> DEFINE c == cursor_position
           u == Text'
           s == SubSeq(u, c + 1, Len(u))
           r == Rewritten(console, s)
           to == Right(r, 1)
<1>1. InsertChar(e) /\ Terminated' /\ cursor_position' = c + 1 /\ buffer_index' = buffer_index + 1
  BY InsertCharTerminated DEF Type, InsertChar
<1>2. u \in Seq(Chars) /\ Len(u) = buffer_index' /\ Len(u) \in Nat
  BY <1>1, LineOfNext
<1>3. Drawn(to, FALSE)
  BY <1>1, <1>2 DEF Type
<1>4. /\ c \in Nat /\ Len(Text) = buffer_index /\ buffer_index \in Nat /\ c \in 0 .. Len(Text)
      /\ c <= Len(Text) /\ console \in Sounds /\ Len(Prompt) \in Nat /\ Width \in Nat
      /\ anchor[2] \in Con!Lines
  BY ShownNow
<1>5. Len(u) = Len(Text) + 1 /\ c \in 0 .. Len(u) /\ c <= Len(u)
  BY <1>1, <1>2, <1>4
<1>6. /\ Len(s) = Len(u) - c /\ Len(s) \in Nat
      /\ \A i \in 1 .. Len(u) - c : s[i] = u[c + i]
  <2>1. Len(s) = Len(u) - c /\ \A i \in 1 .. Len(u) - c : s[i] = u[c + i]
    BY <1>2, <1>5, TextParts
  <2> HIDE DEF s, u, c
  <2> QED
    BY <1>2, <1>5, <2>1
<1>7. ~ parted => u \in Seq(Typed) /\ s \in Seq(Typed) /\ \A i \in 1 .. c : Text[i] = u[i]
  <2>1. SUFFICES ASSUME ~ parted
                 PROVE  u \in Seq(Typed) /\ s \in Seq(Typed) /\ \A i \in 1 .. c : Text[i] = u[i]
    OBVIOUS
  <2> DEFINE before == SubSeq(Text, 1, c)
             behind == SubSeq(Text, c + 1, Len(Text))
  <2>2. Text \in Seq(Typed) /\ e \in Typed
    BY <2>1, ShownNow DEF Typed
  <2>3. before \in Seq(Typed) /\ Len(before) = c /\ behind \in Seq(Typed)
        /\ \A i \in 1 .. c : before[i] = Text[i]
    BY <1>4, <2>2, TextParts
  <2>4. u = Append(before, e) \o behind
    BY <1>1, InsertRefines DEF E!Insert, E!Before, E!Behind
  <2> HIDE DEF before, behind
  <2> DEFINE v == Append(before, e)
  <2>5. v \in Seq(Typed) /\ Len(v) = c + 1 /\ \A i \in 1 .. c : v[i] = Text[i]
    BY <2>2, <2>3, AppendProperties
  <2> HIDE DEF v
  <2>6. v \o behind \in Seq(Typed) /\ \A i \in 1 .. Len(v) : (v \o behind)[i] = v[i]
    BY <2>3, <2>5, ConcatProperties
  <2>7. u \in Seq(Typed) /\ \A i \in 1 .. c : Text[i] = u[i]
    <3> HIDE DEF u, c
    <3>1. \A i \in 1 .. c : i \in 1 .. Len(v)
      BY <1>4, <2>5
    <3> QED
      BY <2>4, <2>5, <2>6, <3>1 DEF v
  <2>8. s \in Seq(Typed)
    <3> HIDE DEF u
    <3> QED
      BY <1>5, <2>7, TextParts
  <2> QED
    BY <2>7, <2>8
<1> HIDE DEF s
<1>8. /\ r \in Sounds /\ r.x = console.x /\ r.y = console.y
      /\ Printed(s) /\ console.x + Len(s) < Width =>
            RowHas(r, console.y, console.cells[console.y], console.x, s, Len(s))
  BY <1>4, <1>6, RewrittenStep
<1> HIDE DEF r
<1>9. /\ to \in Sounds /\ to.cells = r.cells /\ to.y = r.y
      /\ r.x + 1 < Width => to.x = r.x + 1
  <2>1. r \in Sounds /\ 1 \in Int /\ 1 >= 0
    BY <1>8
  <2> HIDE DEF c, u
  <2> QED
    BY <2>1, RightLoop
<1> HIDE DEF to, c, u
<1>10. ASSUME ~ parted, Len(Prompt) + Len(u) < Width
       PROVE  /\ u \in Seq(Typed) /\ to.x = Len(Prompt) + (c + 1) /\ to.y = anchor[2]
              /\ to.cells[anchor[2]] = RowOf(u)
  <2>1. /\ Text \in Seq(Typed) /\ console.x = Len(Prompt) + c
        /\ console.y = anchor[2] /\ console.cells[anchor[2]] = RowOf(Text)
    BY <1>10, ShownNow DEF c
  <2>2. u \in Seq(Typed) /\ Printed(s) /\ \A i \in 1 .. c : Text[i] = u[i]
    BY <1>7, <1>10, PrintedTyped
  <2>3. Len(Text) <= c + Len(s) /\ Len(u) <= c + Len(s) /\ \A j \in 1 .. Len(s) : c + j <= Len(u)
    BY <1>2, <1>4, <1>5, <1>6
  <2>4. \A j \in 1 .. Len(s) : s[j] = IF c + j <= Len(u) THEN u[c + j] ELSE SPACE
    BY <1>6, <2>3
  <2>5. Makes(Text, c, s, u)
    BY <1>4, <1>5, <1>6, <2>1, <2>2, <2>3, <2>4 DEF Makes
  <2>6. console.x + Len(s) < Width /\ r.x + 1 < Width /\ to.x = Len(Prompt) + (c + 1)
    <3>1. console.x + Len(s) = Len(Prompt) + Len(u) /\ c + 1 <= Len(u)
      BY <1>2, <1>4, <1>5, <1>6, <2>1
    <3>2. r.x + 1 < Width
      BY <1>2, <1>4, <1>8, <1>10, <2>1, <3>1
    <3>3. to.x = Len(Prompt) + (c + 1)
      BY <1>4, <1>8, <1>9, <2>1, <3>2
    <3> QED
      BY <1>10, <3>1, <3>2, <3>3
  <2>7. RowHas(r, anchor[2], RowOf(Text), Len(Prompt) + c, s, Len(s))
    BY <1>8, <2>1, <2>2, <2>6
  <2>8. r.cells[anchor[2]] = RowOf(u)
    BY <1>4, <1>8, <2>5, <2>7, SoundMarks, RowBecomes
  <2> QED
    BY <1>8, <1>9, <2>1, <2>2, <2>6, <2>8
<1> QED
  BY <1>1, <1>3, <1>9, <1>10, DrawnShows DEF u, c

LEMMA CtrlKShows ==
    ASSUME ScreenAssumption, SizesAssumption, Shown, Terminated, CtrlK
    PROVE  Shown'
<1> DEFINE to == Wiped(console, buffer_index - cursor_position)
<1>1. KillToEnd /\ Drawn(to, ~ AtEnd) /\ Terminated' /\ cursor_position' = cursor_position
  BY KillToEndTerminated DEF CtrlK, KillToEnd
<1>2. /\ buffer_index - cursor_position \in Int /\ console \in Sounds
      /\ Len(Text) = buffer_index /\ Len(Text) \in 0 .. Len(Text)
      /\ AtEnd => buffer_index - cursor_position <= 0
  BY ShownNow DEF AtEnd
<1>3. to \in Sounds /\ (AtEnd => to = console)
  BY <1>2, WipeLoop
<1> HIDE DEF to
<1>4. ASSUME ~ parted, AtEnd
      PROVE  /\ Text' \in Seq(Typed) /\ to.x = Len(Prompt) + cursor_position'
             /\ to.y = anchor[2] /\ to.cells[anchor[2]] = RowOf(Text')
  <2>1. /\ Text \in Seq(Typed) /\ console.x = Len(Prompt) + cursor_position
        /\ console.y = anchor[2] /\ console.cells[anchor[2]] = RowOf(Text)
    BY <1>4, ShownNow
  <2>2. Text' = SubSeq(Text, 1, Len(Text))
    BY <1>1, <1>2, <1>4, CutRefines DEF E!Cut, E!Before, AtEnd
  <2>3. SubSeq(Text, 1, Len(Text)) = Text
    BY <1>2, <2>1, TextParts, SameSeq
  <2> QED
    BY <1>1, <1>3, <1>4, <2>1, <2>2, <2>3
<1>5. (~ AtEnd) \in BOOLEAN
  OBVIOUS
<1> QED
  BY <1>1, <1>3, <1>4, <1>5, DrawnShows

LEMMA CtrlUShows ==
    ASSUME ScreenAssumption, SizesAssumption, Shown, Terminated, CtrlU
    PROVE  Shown'
<1> DEFINE left == Left(console, cursor_position)
           to == Wiped(left, buffer_index)
<1>1. KillLine /\ Drawn(to, buffer_index > 0) /\ Terminated'
  BY KillLineTerminated DEF CtrlU
<1>2. /\ buffer_index \in Int /\ cursor_position \in Int /\ console \in Sounds
      /\ Len(Text) = buffer_index /\ cursor_position <= buffer_index /\ cursor_position >= 0
  BY ShownNow
<1>3. /\ left \in Sounds /\ left.cells = console.cells /\ left.y = console.y
      /\ cursor_position <= console.x => left.x = console.x - cursor_position
  BY <1>2, LeftLoop
<1> HIDE DEF left
<1>4. to \in Sounds /\ (buffer_index <= 0 => to = left)
  BY <1>2, <1>3, WipeLoop
<1> HIDE DEF to
<1>5. Text' = << >> /\ cursor_position' = 0
  BY <1>1, EmptiedText DEF KillLine
<1>6. ASSUME ~ parted, ~ buffer_index > 0
      PROVE  /\ Text' \in Seq(Typed) /\ to.x = Len(Prompt) + cursor_position'
             /\ to.y = anchor[2] /\ to.cells[anchor[2]] = RowOf(Text')
  <2>1. /\ Text \in Seq(Typed) /\ console.x = Len(Prompt) + cursor_position
        /\ console.y = anchor[2] /\ console.cells[anchor[2]] = RowOf(Text) /\ Len(Prompt) \in Nat
    BY <1>6, ShownNow
  <2>2. buffer_index <= 0 /\ cursor_position = 0 /\ Len(Text) = 0
    BY <1>2, <1>6
  <2>3. Text = << >>
    BY <2>1, <2>2, EmptySeq
  <2>4. to.x = Len(Prompt) + 0
    BY <1>3, <1>4, <2>1, <2>2
  <2> QED
    BY <1>3, <1>4, <1>5, <2>1, <2>2, <2>3, <2>4
<1>7. (buffer_index > 0) \in BOOLEAN
  OBVIOUS
<1> QED
  BY <1>1, <1>4, <1>6, <1>7, DrawnShows

\* The text is the first `from' characters of the one before with s behind them.
Follows(from, s) ==
    /\ Text' \in Seq(Typed) /\ s \in Seq(Typed) /\ Len(Text') = from + Len(s)
    /\ \A i \in 1 .. from : Text'[i] = Text[i]
    /\ \A j \in 1 .. Len(s) : s[j] = Text'[from + j]

LEMMA ReplacedShows ==
    ASSUME ScreenAssumption, SizesAssumption, Shown, Terminated, Terminated',
           NEW from \in 0 .. Len(Text), NEW s, Len(s) \in Nat, Replaced(from, s),
           cursor_position' = buffer_index', ~ parted => Follows(from, s)
    PROVE  Shown'
<1> DEFINE back == Backspaced(console, Len(Text) - from)
           to == Putchars(back, s)
<1>1. /\ console \in Sounds /\ Len(Text) = buffer_index /\ Len(Text) \in Nat /\ from \in Nat
      /\ from <= Len(Text) /\ Len(Prompt) \in Nat /\ Width \in Nat /\ anchor[2] \in Con!Lines
      /\ Len(Text) - from \in Int
  BY ShownNow
<1>2. Drawn(to, ~ AtEnd)
  BY <1>1 DEF Replaced
<1>3. back \in Sounds
  BY <1>1, BackLoop
<1>4. ASSUME ~ parted, AtEnd
      PROVE  /\ back.x = Len(Prompt) + from /\ back.y = anchor[2]
             /\ back.cells[anchor[2]] = RowOf(SubSeq(Text, 1, from))
  <2>1. /\ Text \in Seq(Typed) /\ console.x = Len(Prompt) + Len(Text)
        /\ console.y = anchor[2] /\ console.cells[console.y] = RowOf(Text)
    BY <1>1, <1>4, ShownNow DEF AtEnd
  <2>2. /\ back.x = Len(Prompt) + from /\ back.y = console.y
        /\ back.cells[console.y] = RowOf(SubSeq(Text, 1, from))
    <3>1. from \in 0 .. Len(Text)
      OBVIOUS
    <3> QED
      BY <1>1, <2>1, <3>1, BackShows
  <2> HIDE DEF back
  <2> QED
    BY <2>1, <2>2
<1> HIDE DEF back
<1>5. /\ to \in Sounds
      /\ Printed(s) /\ back.x + Len(s) < Width =>
            /\ to.x = back.x + Len(s) /\ to.y = back.y
            /\ RowHas(to, back.y, back.cells[back.y], back.x, s, Len(s))
  BY <1>3, PutcharsLoop
<1> HIDE DEF to
<1>6. Len(Text') = cursor_position'
  BY LineOfNext
<1>7. ASSUME ~ parted, AtEnd, Len(Prompt) + Len(Text') < Width
      PROVE  /\ Text' \in Seq(Typed) /\ to.x = Len(Prompt) + cursor_position'
             /\ to.y = anchor[2] /\ to.cells[anchor[2]] = RowOf(Text')
  <2> DEFINE t == SubSeq(Text, 1, from)
             u == Text'
  <2>1. /\ u \in Seq(Typed) /\ s \in Seq(Typed) /\ Len(u) = from + Len(s)
        /\ \A i \in 1 .. from : u[i] = Text[i]
        /\ \A j \in 1 .. Len(s) : s[j] = u[from + j]
    BY <1>7 DEF Follows
  <2>2. t \in Seq(Typed) /\ Len(t) = from /\ \A i \in 1 .. from : t[i] = Text[i]
    <3>1. Text \in Seq(Typed)
      BY <1>7, ShownNow
    <3> QED
      BY <3>1, TextParts
  <2>3. /\ back.x = Len(Prompt) + from /\ back.y = anchor[2] /\ back.cells[anchor[2]] = RowOf(t)
    BY <1>4, <1>7
  <2> HIDE DEF t, u
  <2>4. Printed(s) /\ back.x + Len(s) < Width /\ back.x + Len(s) = Len(Prompt) + Len(u)
    BY <1>1, <1>7, <2>1, <2>3, PrintedTyped DEF u
  <2>5. /\ to.x = Len(Prompt) + Len(u) /\ to.y = anchor[2]
        /\ RowHas(to, anchor[2], RowOf(t), Len(Prompt) + from, s, Len(s))
    BY <1>5, <2>3, <2>4
  <2>6. Makes(t, from, s, u)
    <3>1. from <= Len(u) /\ Len(t) <= from + Len(s) /\ Len(u) <= from + Len(s) /\ from <= Len(t)
          /\ \A j \in 1 .. Len(s) : from + j <= Len(u)
      BY <1>1, <2>1, <2>2
    <3> QED
      BY <1>1, <2>1, <2>2, <3>1 DEF Makes
  <2>7. to.cells[anchor[2]] = RowOf(u)
    BY <1>1, <1>5, <2>5, <2>6, SoundMarks, RowBecomes
  <2> QED
    BY <1>6, <2>1, <2>5, <2>7 DEF u
<1>8. (~ AtEnd) \in BOOLEAN
  OBVIOUS
<1> QED
  BY <1>2, <1>5, <1>7, <1>8, DrawnShows

\* The whole text in place of the one before.
LEMMA AllReplacedShows ==
    ASSUME ScreenAssumption, SizesAssumption, StringsAssumption, Shown, Terminated, Terminated',
           Text' \in Seq(Typed), cursor_position' = buffer_index', Replaced(0, Str')
    PROVE  Shown'
<1>1. Str' = Text'
  BY StrOfTypedNext
<1>2. Len(Str') \in Nat /\ 0 \in 0 .. Len(Text)
  <2>1. Len(Text) \in Nat
    BY ShownNow
  <2> QED
    BY <1>1, <2>1
<1> DEFINE s == Str'
<1>3. Follows(0, s)
  <2>1. Len(s) \in Nat /\ s \in Seq(Typed) /\ s = Text'
    BY <1>1, <1>2
  <2> HIDE DEF s
  <2>2. \A j \in 1 .. Len(s) : 0 + j = j
    OBVIOUS
  <2>3. Len(Text') = 0 + Len(s)
    BY <2>1
  <2> QED
    BY <2>1, <2>2, <2>3 DEF Follows
<1> HIDE DEF s
<1>4. Replaced(0, s) /\ Len(s) \in Nat
  BY <1>2 DEF s
<1> QED
  BY <1>2, <1>3, <1>4, ReplacedShows

LEMMA RecallShows ==
    ASSUME ScreenAssumption, SizesAssumption, StringsAssumption, Shown, Terminated, Recall
    PROVE  Shown'
<1>1. Terminated' /\ Replaced(0, Str')
  BY UpTerminated, DownTerminated DEF Recall
<1>2. PICK s \in String : SetLine(s)
  <2>1. HistoryOK
    BY LineOf
  <2>2. CASE Up
    <3>1. history_index + 1 \in 0 .. SHELL_HISTORY_SIZE - 1
      BY <2>1, <2>2 DEF SizesAssumption, HistoryOK, Up
    <3> QED
      BY <2>1, <2>2, <3>1 DEF HistoryOK, Up
  <2>3. CASE Down
    <3>1. history_index # 0 => history_index - 1 \in 0 .. SHELL_HISTORY_SIZE - 1
      BY <2>1, <2>3 DEF SizesAssumption, HistoryOK, Down
    <3> QED
      BY <2>1, <2>3, <3>1 DEF HistoryOK, Down
  <2> QED
    BY <2>2, <2>3 DEF Recall
<1>3. Text' = s /\ s \in Seq(Typed) /\ cursor_position' = buffer_index'
  <2>1. command_buffer \in [Positions -> Chars]
    BY LineOf DEF LineOK
  <2>2. s \in Seq(Chars) /\ Len(s) < SHELL_BUFFER_SIZE
    BY StringsAreChars
  <2>3. Text' = s
    BY <1>2, <2>1, <2>2, SetLineText
  <2> QED
    BY <1>2, <2>3 DEF SetLine, String
<1> QED
  BY <1>1, <1>3, AllReplacedShows

\* What completing a file keeps is the front of the text.
LEMMA KeptIsFront ==
    ASSUME SizesAssumption, Terminated
    PROVE  \E n \in 0 .. Len(Text) : Kept = SubSeq(Text, 1, n)
<1>1. Text \in Seq(Chars) /\ Len(Text) \in Nat
  BY LineOf
<1>2. 1 \in 1 .. Len(Text) + 1
  BY <1>1
<1>3. SpaceFrom(Text, 1) \in 1 .. Len(Text) + 1
  BY <1>1, <1>2, PlacesInString
<1>4. WordFrom(Text, SpaceFrom(Text, 1)) \in SpaceFrom(Text, 1) .. Len(Text) + 1
  BY <1>1, <1>3, PlacesInString
<1>5. WordFrom(Text, SpaceFrom(Text, 1)) - 1 \in 0 .. Len(Text)
  BY <1>1, <1>3, <1>4
<1> QED
  BY <1>5 DEF Kept

LEMMA ListedTyped ==
    ASSUME StringsAssumption, NEW file \in Files
    PROVE  Listed(file) \in Seq(Typed)
<1>1. file.name \in Seq(Typed) /\ Slash \in Typed
  BY DEF StringsAssumption, Typed
<1> QED
  BY <1>1 DEF Listed

LEMMA CompleteShows ==
    ASSUME ScreenAssumption, SizesAssumption, StringsAssumption, Shown, Terminated, Complete
    PROVE  Shown'
<1>1. Tab /\ Terminated' /\ command_buffer \in [Positions -> Chars]
  BY TabTerminated, LineOf DEF Complete, LineOK
<1>2. CASE ~ NamesFile
  <2>1. PICK s \in available_commands : CompletesCommand(s)
    BY <1>1, <1>2 DEF Tab
  <2>2. SetLine(s) /\ s \in Seq(Letters) /\ Len(s) < SHELL_BUFFER_SIZE
    BY <2>1 DEF CompletesCommand, StringsAssumption
  <2>3. s \in Seq(Typed) /\ s \in Seq(Chars)
    <3>1. Letters \subseteq Typed /\ Letters \subseteq Chars
      BY DEF Typed, Chars
    <3> QED
      BY <2>2, <3>1
  <2>4. Text' = s
    BY <1>1, <2>2, <2>3, SetLineText
  <2>5. cursor_position' = buffer_index'
    BY <2>2 DEF SetLine
  <2>6. Replaced(0, Str')
    BY <1>2 DEF Complete
  <2> QED
    BY <1>1, <2>3, <2>4, <2>5, <2>6, AllReplacedShows
<1>3. CASE NamesFile
  <2>1. PICK file \in Files : CompletesFile(file)
    BY <1>1, <1>3 DEF Tab
  <2> DEFINE w == Listed(file)
             u == Text'
  <2>2. SetLine(Kept \o w) /\ Len(Kept \o w) < SHELL_BUFFER_SIZE
    BY <2>1 DEF CompletesFile
  <2>3. w \in Seq(Typed) /\ w \in Seq(Chars) /\ Len(w) \in Nat
    <3>1. w \in Seq(Typed)
      BY ListedTyped
    <3>2. Typed \subseteq Chars
      BY DEF Chars
    <3> HIDE DEF w
    <3> QED
      BY <3>1, <3>2
  <2>4. PICK n \in 0 .. Len(Text) : Kept = SubSeq(Text, 1, n)
    BY KeptIsFront
  <2>5. Text \in Seq(Chars) /\ Len(Text) \in Nat /\ n \in Nat
    BY LineOf
  <2> HIDE DEF w
  <2>6. Kept \in Seq(Chars) /\ Len(Kept) = n
    BY <2>4, <2>5, TextParts
  <2>7. Kept \o w \in Seq(Chars) /\ Len(Kept \o w) = n + Len(w)
    BY <2>3, <2>6, ConcatProperties
  <2>8. u = Kept \o w
    BY <1>1, <2>2, <2>7, SetLineText
  <2>9. cursor_position' = buffer_index' /\ buffer_index' = Len(u)
    BY <2>2, <2>8 DEF SetLine
  <2> DEFINE s == SubSeq(u, n + 1, Len(u))
  <2>10. Replaced(n, s)
    BY <1>3, <2>6, <2>9 DEF Complete
  <2> HIDE DEF u
  <2>11. u \in Seq(Chars) /\ Len(u) = n + Len(w) /\ n \in 0 .. Len(u) /\ Len(u) - n = Len(w)
    BY <2>3, <2>5, <2>7, <2>8
  <2>12. Len(s) = Len(w) /\ \A j \in 1 .. Len(w) : s[j] = u[n + j]
    BY <2>11, TextParts
  <2>13. ASSUME ~ parted
         PROVE  Follows(n, s)
    <3>1. Text \in Seq(Typed)
      BY <2>13, ShownNow
    <3>2. u \in Seq(Typed) /\ \A i \in 1 .. n : u[i] = Text[i]
      BY <2>3, <2>4, <2>8, <3>1, FrontKept
    <3>3. s \in Seq(Typed)
      BY <2>11, <3>2, TextParts
    <3> HIDE DEF s
    <3> QED
      BY <2>11, <2>12, <3>2, <3>3 DEF Follows, u
  <2> HIDE DEF s
  <2>14. Len(s) \in Nat
    BY <2>3, <2>12
  <2> QED
    BY <1>1, <2>4, <2>9, <2>10, <2>13, <2>14, ReplacedShows
<1> QED
  BY <1>2, <1>3

\* What is written before a prompt ends with a new line.
LEMMA WrittenAbove ==
    ASSUME ScreenAssumption, NEW con \in Screens, con.marks \subseteq {Con!Place(con)},
           NEW s, Len(s) \in Nat, Len(s) # 0, s[Len(s)] = NEWLINE
    PROVE  LET r == Con!fb_console_write(con, s)
           IN  r \in Sounds /\ r \in Screens /\ r.marks \subseteq {Con!Place(r)} /\ r.x = 0
<1>1. LET r == Con!fb_console_write(con, s) IN r \in Sounds /\ r.x = 0
  BY WriteLoop
<1> QED
  BY <1>1, SoundMarks

LEMMA ConsoleSound ==
    ASSUME Shown
    PROVE  console \in Sounds /\ console \in Screens /\ console.marks \subseteq {Con!Place(console)}
<1>1. console \in Sounds
  BY DEF Shown, Sounds
<1> QED
  BY <1>1, SoundMarks

LEMMA StrTyped ==
    /\ Terminated => Str \in Seq(Typed)
    /\ (Terminated => Str \in Seq(Typed))'
<1>1. Terminated => Str \in Seq(Typed)
  BY SizesAssumption, StrIsString DEF String
<1> QED
  BY <1>1, PTL

LEMMA CtrlCShows ==
    ASSUME ScreenAssumption, SizesAssumption, Shown, Terminated, CtrlC
    PROVE  Shown'
<1> DEFINE s == <<"^", "C", NEWLINE>>
           con == Con!fb_console_write(console, s)
<1>1. Terminated' /\ Prompted(con, << >>)
  BY KillLineTerminated DEF CtrlC
<1>2. Len(s) \in Nat /\ Len(s) # 0 /\ s[Len(s)] = NEWLINE
  OBVIOUS
<1> HIDE DEF s
<1>3. con \in Screens /\ con.marks \subseteq {Con!Place(con)} /\ con.x = 0
  BY <1>2, ConsoleSound, WrittenAbove
<1> HIDE DEF con
<1>4. << >> \in Seq(Typed)
  OBVIOUS
<1> QED
  BY <1>1, <1>3, <1>4, PromptShows

LEMMA RunShows ==
    ASSUME ScreenAssumption, SizesAssumption, Shown, Terminated, Run
    PROVE  Shown'
<1> DEFINE below == Con!fb_console_write(console, <<NEWLINE>>)
           cleared == Con!fb_console_clear(below)
           hidden == Con!fb_console_show_cursor(cleared, FALSE)
<1>1. Terminated' /\ << >> \in Seq(Typed)
  BY EnterTerminated DEF Run
<1>2. \/ Prompted(hidden, << >>) \/ Prompted(below, << >>) \/ Prompted(cleared, << >>)
      \/ \E out \in Outputs : Prompted(Con!fb_console_write(below, out), << >>)
  BY DEF Run
<1>3. below \in Sounds /\ below \in Screens /\ below.marks \subseteq {Con!Place(below)} /\ below.x = 0
  <2> DEFINE s == <<NEWLINE>>
  <2>1. Len(s) \in Nat /\ Len(s) # 0 /\ s[Len(s)] = NEWLINE
    OBVIOUS
  <2>2. below = Con!fb_console_write(console, s)
    OBVIOUS
  <2> HIDE DEF s, below
  <2> QED
    BY <2>1, <2>2, ConsoleSound, WrittenAbove
<1> HIDE DEF below
<1>4. cleared \in Bares /\ cleared \in Screens /\ cleared.marks \subseteq {Con!Place(cleared)}
      /\ cleared.x = 0
  BY <1>3, ClearStep DEF Bares
<1> HIDE DEF cleared
<1>5. hidden \in Screens /\ hidden.marks \subseteq {Con!Place(hidden)} /\ hidden.x = 0
  <2>1. FALSE \in BOOLEAN
    OBVIOUS
  <2> QED
    BY <1>4, <2>1, ShowStep
<1> HIDE DEF hidden
<1>6. ASSUME NEW out \in Outputs, Prompted(Con!fb_console_write(below, out), << >>)
      PROVE  Shown'
  <2> DEFINE con == Con!fb_console_write(below, out)
  <2>1. Len(out) \in Nat /\ Len(out) # 0 /\ out[Len(out)] = NEWLINE
    <3>1. out \in Seq(Range(out)) /\ out # << >> /\ Last(out) = NEWLINE
      BY DEF ScreenAssumption
    <3> QED
      BY <3>1, EmptySeq DEF Last
  <2>2. con \in Screens /\ con.marks \subseteq {Con!Place(con)} /\ con.x = 0
    BY <1>3, <2>1, WrittenAbove
  <2>3. Prompted(con, << >>)
    BY <1>6
  <2> HIDE DEF con
  <2> QED
    BY <1>1, <2>2, <2>3, PromptShows
<1> QED
  BY <1>1, <1>2, <1>3, <1>4, <1>5, <1>6, PromptShows

LEMMA ReturnShows ==
    ASSUME ScreenAssumption, SizesAssumption, Shown, Terminated, Return
    PROVE  Shown'
<1> DEFINE shown == Con!fb_console_show_cursor(console, TRUE)
           con == Con!fb_console_clear(shown)
           s == Str'
<1>1. Terminated' /\ Prompted(con, s)
  BY EscapeTerminated DEF Return
<1>2. shown \in Screens
  <2>1. TRUE \in BOOLEAN
    OBVIOUS
  <2> QED
    BY <2>1, ConsoleSound, ShowStep
<1> HIDE DEF shown
<1>3. con \in Screens /\ con.marks \subseteq {Con!Place(con)} /\ con.x = 0
  BY <1>2, ClearStep DEF Bares
<1>4. s \in Seq(Typed)
  BY <1>1, StrTyped
<1> HIDE DEF con, s
<1> QED
  BY <1>1, <1>3, <1>4, PromptShows

LEMMA SwitchBackShows ==
    ASSUME ScreenAssumption, SizesAssumption, Shown, Terminated, Terminated', SwitchBack
    PROVE  Shown'
<1> DEFINE cleared == Con!fb_console_clear(console)
           shown == Con!fb_console_show_cursor(cleared, TRUE)
           s == [i \in 1 .. 4 |-> NEWLINE]
           con == Con!fb_console_write(shown, s)
<1>1. Prompted(con, Str) /\ Str \in Seq(Typed)
  BY StrTyped DEF SwitchBack
<1>2. cleared \in Bares /\ cleared \in Screens
  BY ConsoleSound, ClearStep DEF Bares
<1> HIDE DEF cleared
<1>3. shown \in Screens /\ shown.marks \subseteq {Con!Place(shown)}
  <2>1. TRUE \in BOOLEAN
    OBVIOUS
  <2> QED
    BY <1>2, <2>1, ShowStep
<1> HIDE DEF shown
<1>4. Len(s) \in Nat /\ Len(s) # 0 /\ s[Len(s)] = NEWLINE
  OBVIOUS
<1> HIDE DEF s
<1>5. con \in Screens /\ con.marks \subseteq {Con!Place(con)} /\ con.x = 0
  BY <1>3, <1>4, WrittenAbove
<1> HIDE DEF con
<1> QED
  BY <1>1, <1>5, PromptShows

LEMMA ImageFinite ==
    ASSUME NEW S, IsFiniteSet(S), NEW f, NEW T, T = {f[x] : x \in S}
    PROVE  IsFiniteSet(T)
<1> DEFINE g == [x \in S |-> f[x]]
<1>1. g \in Surjection(S, T)
  BY DEF Surjection
<1> HIDE DEF g
<1> QED
  BY <1>1, FS_Surjection

\* What Tab lists: finitely many names, one on each line.
LEMMA NamesFinite ==
    ASSUME ScreenAssumption, StringsAssumption
    PROVE  LET names == IF NamesFile THEN {Listed(file) : file \in Matching} ELSE Completions
           IN  IsFiniteSet(names) /\ names \subseteq Seq(Typed)
<1>1. IsFiniteSet(Completions) /\ Completions \subseteq Seq(Typed)
  <2>1. Completions \subseteq available_commands /\ IsFiniteSet(available_commands)
    BY DEF Completions, ScreenAssumption
  <2>2. \A s \in available_commands : s \in Seq(Typed)
    <3>1. Letters \subseteq Typed /\ \A s \in available_commands : s \in Seq(Letters)
      BY DEF Typed, StringsAssumption
    <3> QED
      BY <3>1
  <2> QED
    BY <2>1, <2>2, FS_Subset
<1> DEFINE T == {Listed(file) : file \in Matching}
<1>2. IsFiniteSet(T) /\ T \subseteq Seq(Typed)
  <2>1. Matching \subseteq Files /\ IsFiniteSet(Files)
    BY DEF Matching, ScreenAssumption
  <2>2. IsFiniteSet(Matching)
    BY <2>1, FS_Subset
  <2> DEFINE f == [file \in Matching |-> Listed(file)]
  <2>3. T = {f[file] : file \in Matching}
    OBVIOUS
  <2>4. \A t \in T : t \in Seq(Typed)
    BY <2>1, ListedTyped
  <2> HIDE DEF f, T
  <2> QED
    BY <2>2, <2>3, <2>4, ImageFinite
<1> QED
  BY <1>1, <1>2

\* A sequence behind another: its last character is the last of both.
LEMMA LastOfBoth ==
    ASSUME NEW A, NEW s \in Seq(A), NEW t \in Seq(A), t # << >>
    PROVE  /\ s \o t \in Seq(A) /\ s \o t # << >>
           /\ (s \o t)[Len(s \o t)] = t[Len(t)]
<1>1. Len(t) \in Nat /\ Len(t) # 0 /\ Len(s) \in Nat
  BY EmptySeq
<1>2. s \o t \in Seq(A) /\ Len(s \o t) = Len(s) + Len(t)
      /\ \A i \in 1 .. Len(s) + Len(t) :
            (s \o t)[i] = IF i <= Len(s) THEN s[i] ELSE t[i - Len(s)]
  BY ConcatProperties
<1> DEFINE m == Len(s)
           n == Len(t)
<1> HIDE DEF m, n
<1>3. m + n \in 1 .. m + n /\ ~ m + n <= m /\ m + n - m = n /\ m + n # 0
  BY <1>1 DEF m, n
<1>4. (s \o t)[m + n] = t[n]
  BY <1>2, <1>3 DEF m, n
<1>5. s \o t # << >>
  BY <1>2, <1>3, EmptySeq DEF m, n
<1> QED
  BY <1>2, <1>4, <1>5 DEF m, n

LEMMA ListShows ==
    ASSUME ScreenAssumption, SizesAssumption, StringsAssumption, Shown, Terminated, Terminated', List
    PROVE  Shown'
<1> DEFINE names == IF NamesFile THEN {Listed(file) : file \in Matching} ELSE Completions
           T == {<<SPACE, SPACE>> \o name \o <<NEWLINE>> : name \in names}
           listed == FlattenSeq(SetToSeq(T))
           s == <<NEWLINE>> \o listed
           con == Con!fb_console_write(console, s)
           A == Typed \cup {NEWLINE}
<1>1. Cardinality(names) > 1 /\ Prompted(con, Str) /\ Str \in Seq(Typed)
  BY StrTyped DEF List
<1>2. IsFiniteSet(names) /\ names \subseteq Seq(Typed)
  BY NamesFinite
<1> HIDE DEF names
<1>3. names # {}
  <2>1. Cardinality(names) > 1
    BY <1>1
  <2>2. Cardinality({}) = 0 /\ ~ 0 > 1
    BY FS_EmptySet
  <2> QED
    BY <2>1, <2>2
<1> DEFINE Row(name) == <<SPACE, SPACE>> \o name \o <<NEWLINE>>
<1>4. \A name \in names : Row(name) \in Seq(A) /\ Row(name) # << >> /\ Row(name)[Len(Row(name))] = NEWLINE
  <2> SUFFICES ASSUME NEW name \in names
               PROVE  Row(name) \in Seq(A) /\ Row(name) # << >> /\ Row(name)[Len(Row(name))] = NEWLINE
    OBVIOUS
  <2> DEFINE front == <<SPACE, SPACE>> \o name
             end == <<NEWLINE>>
  <2>1. front \in Seq(A)
    <3>1. name \in Seq(A) /\ <<SPACE, SPACE>> \in Seq(A)
      BY <1>2 DEF Typed
    <3> QED
      BY <3>1, ConcatProperties
  <2>2. end \in Seq(A) /\ end # << >> /\ end[Len(end)] = NEWLINE
    OBVIOUS
  <2> HIDE DEF front, end, A
  <2>3. front \o end \in Seq(A) /\ front \o end # << >> /\ (front \o end)[Len(front \o end)] = NEWLINE
    BY <2>1, <2>2, LastOfBoth
  <2> QED
    BY <2>3 DEF front, end
<1>5. IsFiniteSet(T) /\ T # {} /\ \A t \in T : t \in Seq(A) /\ t # << >> /\ t[Len(t)] = NEWLINE
  <2> DEFINE f == [name \in names |-> Row(name)]
  <2>1. T = {Row(name) : name \in names}
    OBVIOUS
  <2> HIDE DEF T, Row
  <2>2. T = {f[name] : name \in names}
    BY <2>1
  <2>3. T # {} /\ \A t \in T : t \in Seq(A) /\ t # << >> /\ t[Len(t)] = NEWLINE
    BY <1>3, <1>4, <2>1
  <2> HIDE DEF f
  <2> QED
    BY <1>2, <2>2, <2>3, ImageFinite
<1> HIDE DEF T, Row
<1>6. listed \in Seq(A) /\ listed # << >> /\ listed[Len(listed)] = NEWLINE
  BY <1>5, Flattened
<1> HIDE DEF listed
<1>7. Len(s) \in Nat /\ Len(s) # 0 /\ s[Len(s)] = NEWLINE
  <2> DEFINE first == <<NEWLINE>>
  <2>1. first \in Seq(A)
    OBVIOUS
  <2> HIDE DEF first, A
  <2>2. first \o listed \in Seq(A) /\ first \o listed # << >>
        /\ (first \o listed)[Len(first \o listed)] = NEWLINE
    BY <1>6, <2>1, LastOfBoth
  <2>3. s = first \o listed
    BY DEF first
  <2> HIDE DEF s
  <2> QED
    BY <2>2, <2>3, EmptySeq
<1> HIDE DEF s
<1>8. con \in Screens /\ con.marks \subseteq {Con!Place(con)} /\ con.x = 0
  BY <1>7, ConsoleSound, WrittenAbove
<1> HIDE DEF con
<1> QED
  BY <1>1, <1>8, PromptShows

LEMMA InitShows ==
    ASSUME ScreenAssumption, ScreenInit
    PROVE  Shown
<1> DEFINE s == [i \in 1 .. Height |-> NEWLINE]
           top == Con!fb_console_write(Con!Started, s)
<1>1. /\ buffer_index = 0 /\ cursor_position = 0 /\ console = Con!fb_console_write(top, Prompt)
      /\ anchor = Con!Place(console) /\ parted = FALSE
  BY DEF ScreenInit, Init
<1>2. /\ Con!Started \in Screens /\ Con!Started.marks \subseteq {Con!Place(Con!Started)}
      /\ AllBlank(Con!Started)
  <2>1. 0 \in Con!Columns /\ 0 \in Con!Lines
    BY Sizes
  <2> DEFINE cells == [y \in Con!Lines |-> Con!BlankLine]
  <2>2. cells \in [Con!Lines -> [Con!Columns -> Glyphs]]
        /\ \A y \in Con!Lines, x \in Con!Columns : cells[y][x] = SPACE
    BY Sizes DEF Con!BlankLine
  <2>3. Con!Started = [cells |-> cells, x |-> 0, y |-> 0, visible |-> TRUE, marks |-> {}]
    BY DEF Con!Started
  <2> HIDE DEF cells
  <2> QED
    BY <2>1, <2>2, <2>3 DEF Screens, AllBlank
<1>3. Len(s) \in Nat /\ Len(s) # 0 /\ s[Len(s)] = NEWLINE /\ \A i \in 1 .. Len(s) : s[i] = NEWLINE
  <2>1. Height \in Nat /\ Height >= 1
    BY Sizes
  <2> QED
    BY <2>1
<1> HIDE DEF s
<1>4. top \in Sounds /\ top.x = 0 /\ AllBlank(top)
  BY <1>2, <1>3, WriteLoop
<1> HIDE DEF top
<1>5. top \in Screens /\ top.marks \subseteq {Con!Place(top)} /\ top.y \in Con!Lines
  BY <1>4, SoundMarks DEF Screens
<1>6. /\ console \in Sounds /\ console.x = Len(Prompt) /\ console.y = top.y
      /\ RowHas(console, top.y, top.cells[top.y], 0, Prompt, Len(Prompt))
  <2>1. Printed(Prompt) /\ Len(Prompt) \in Nat /\ 0 + Len(Prompt) < Width /\ 0 + Len(Prompt) = Len(Prompt)
    BY PrintedTyped, Sizes
  <2> QED
    BY <1>1, <1>4, <1>5, <2>1, WriteLoop
<1>7. Text = << >> /\ Text \in Seq(Typed) /\ Len(Text) = 0
  <2>1. Text = [i \in 1 .. 0 |-> command_buffer[i - 1]]
    BY <1>1 DEF Text
  <2>2. 1 .. 0 = {}
    OBVIOUS
  <2> QED
    BY <2>1, <2>2
<1>8. console.cells[console.y] = RowOf(Text)
  <2>1. \A x \in Con!Columns :
           console.cells[console.y][x] = IF 0 <= x /\ x < 0 + Len(Prompt) THEN Prompt[x - 0 + 1] ELSE SPACE
    BY <1>4, <1>5, <1>6 DEF RowHas, AllBlank
  <2>2. \A x \in Con!Columns : /\ x \in Nat /\ (0 <= x /\ x < 0 + Len(Prompt) <=> x < Len(Prompt))
                               /\ x - 0 + 1 = x + 1 /\ (x < Len(Prompt) + 0 <=> x < Len(Prompt))
    BY Sizes
  <2>3. \A x \in Con!Columns : RowOf(Text)[x] = IF x < Len(Prompt) THEN Prompt[x + 1] ELSE SPACE
    BY <1>7, <2>2 DEF RowOf
  <2>4. console.cells[console.y] \in [Con!Columns -> Glyphs]
    BY <1>6, SoundMarks DEF Screens
  <2>5. RowOf(Text) = [x \in Con!Columns |-> RowOf(Text)[x]]
    BY DEF RowOf
  <2>6. \A x \in Con!Columns : console.cells[console.y][x] = RowOf(Text)[x]
    BY <2>1, <2>2, <2>3
  <2> QED
    BY <2>4, <2>5, <2>6
<1>9. anchor \in {Len(Prompt)} \X Con!Lines /\ anchor[2] = console.y
  BY <1>1, <1>5, <1>6 DEF Con!Place
<1>10. Len(Prompt) + Len(Text) < Width /\ console.x = Len(Prompt) + cursor_position
  BY <1>1, <1>6, <1>7, Sizes
<1> QED
  BY <1>1, <1>6, <1>7, <1>8, <1>9, <1>10 DEF Shown, Shows, Sounds

LEMMA StepShows ==
    ASSUME ScreenAssumption, SizesAssumption, StringsAssumption, Shown, Terminated,
           [ScreenNext]_<<vars, screen>>
    PROVE  Shown' /\ Terminated'
<1>1. Terminated'
  <2>1. [Next]_vars
    BY ScreenStep
  <2> QED
    BY <2>1, StepTerminated
<1> SUFFICES Shown'
  BY <1>1
<1>2. CASE UNCHANGED <<vars, screen>>
  <2>1. Text' = Text /\ cursor_position' = cursor_position /\ UNCHANGED screen
    BY <1>2 DEF vars, line, Text
  <2>2. console' = console /\ anchor' = anchor /\ parted' = parted
    BY <2>1 DEF screen
  <2>3. /\ console \in Screens /\ Marked(console)
        /\ anchor \in {Len(Prompt)} \X Con!Lines /\ parted \in BOOLEAN
        /\ ~ parted => Shows(console, anchor[2], Text, cursor_position)
    BY DEF Shown
  <2>4. ~ parted' => Shows(console', anchor'[2], Text', cursor_position')
    BY <2>1, <2>2, <2>3
  <2>5. console' \in Screens /\ Marked(console')
    BY <2>2, <2>3
  <2>6. anchor' \in {Len(Prompt)} \X Con!Lines /\ parted' \in BOOLEAN
    BY <2>2, <2>3
  <2> QED
    BY <2>4, <2>5, <2>6 DEF Shown, Shows, Marked, Con!Place
<1>3. CASE Move
  BY <1>3, MoveShows
<1>4. CASE Delete
  BY <1>4, DeleteShows
<1>5. CASE Erase
  BY <1>5, EraseShows
<1>6. CASE CtrlK
  BY <1>6, CtrlKShows
<1>7. CASE CtrlU
  BY <1>7, CtrlUShows
<1>8. CASE Recall
  BY <1>8, RecallShows
<1>9. CASE Complete
  BY <1>9, CompleteShows
<1>10. CASE List
  BY <1>1, <1>10, ListShows
<1>11. CASE CtrlC
  BY <1>11, CtrlCShows
<1>12. CASE Run
  BY <1>12, RunShows
<1>13. CASE Return
  BY <1>13, ReturnShows
<1>14. CASE SwitchBack
  BY <1>1, <1>14, SwitchBackShows
<1>15. ASSUME NEW c \in Letters \cup {SPACE}, Type(c)
       PROVE  Shown'
  BY <1>15, TypeShows
<1> QED
  BY <1>1, <1>2, <1>3, <1>4, <1>5, <1>6, <1>7, <1>8, <1>9, <1>10, <1>11, <1>12, <1>13, <1>14, <1>15
     DEF ScreenNext

LEMMA ShownRow ==
    ASSUME ScreenAssumption, SizesAssumption, Shown, Terminated
    PROVE  RowShowsLine
<1> DEFINE row == console.cells[anchor[2]]
           shown == Prompt \o Text
<1>1. console.x \in 0 .. Width - 1 /\ console.y \in 0 .. Height - 1 /\ Marked(console)
  BY Sizes DEF Shown, Screens
<1>2. anchor[1] = Len(Prompt) /\ Len(Prompt) \in Nat
  BY Sizes DEF Shown
<1>3. ASSUME ~ parted
      PROVE  /\ Con!Place(console) = <<anchor[1] + cursor_position, anchor[2]>>
             /\ \A x \in anchor[1] - Len(Prompt) .. Width - 1 :
                   LET i == x - anchor[1] + Len(Prompt) + 1
                   IN  row[x] = IF i <= Len(shown) THEN shown[i] ELSE SPACE
  <2>1. /\ Text \in Seq(Typed) /\ console.x = Len(Prompt) + cursor_position
        /\ console.y = anchor[2] /\ row = RowOf(Text)
    BY <1>3, ShownNow
  <2>2. Con!Place(console) = <<anchor[1] + cursor_position, anchor[2]>>
    BY <1>2, <2>1 DEF Con!Place
  <2> DEFINE m == Len(Prompt)
             n == Len(Text)
             A == Typed \cup Range(Prompt)
  <2>3. Prompt \in Seq(A) /\ Text \in Seq(A) /\ m \in Nat /\ n \in Nat
    <3>1. Prompt \in Seq(Range(Prompt))
      BY PrintedTyped
    <3> QED
      BY <2>1, <3>1
  <2>4. Len(shown) = m + n
        /\ \A i \in 1 .. m + n : shown[i] = IF i <= m THEN Prompt[i] ELSE Text[i - m]
    <3> HIDE DEF A
    <3> QED
      BY <2>3, ConcatProperties
  <2> HIDE DEF shown, row, m, n, A
  <2>5. ASSUME NEW x \in anchor[1] - Len(Prompt) .. Width - 1
        PROVE  LET i == x - anchor[1] + Len(Prompt) + 1
               IN  row[x] = IF i <= Len(shown) THEN shown[i] ELSE SPACE
    <3>1. x - anchor[1] + Len(Prompt) + 1 = x + 1 /\ x \in Nat /\ x \in 0 .. Width - 1
      BY <1>2, <2>5, Sizes
    <3>2. row[x] = IF x < m THEN Prompt[x + 1] ELSE IF x < m + n THEN Text[x - m + 1] ELSE SPACE
      BY <2>1, <3>1, Sizes DEF RowOf, m, n
    <3>3. /\ (x < m <=> x + 1 <= m) /\ (x < m + n <=> x + 1 <= m + n) /\ x - m + 1 = x + 1 - m
          /\ (x < m => x + 1 <= m + n) /\ (x + 1 <= m + n => x + 1 \in 1 .. m + n)
      BY <2>3, <3>1
    <3>4. row[x] = IF x + 1 <= Len(shown) THEN shown[x + 1] ELSE SPACE
      <4>1. CASE x + 1 <= m + n
        <5>1. shown[x + 1] = IF x + 1 <= m THEN Prompt[x + 1] ELSE Text[x + 1 - m]
          <6>1. SUFFICES ASSUME NEW j \in 1 .. m + n, j = x + 1
                         PROVE  shown[j] = IF j <= m THEN Prompt[j] ELSE Text[j - m]
            BY <2>3, <3>1, <3>3, <4>1
          <6> QED
            BY <2>4
        <5>2. row[x] = IF x + 1 <= m THEN Prompt[x + 1] ELSE Text[x + 1 - m]
          BY <3>2, <3>3, <4>1
        <5> QED
          BY <2>4, <4>1, <5>1, <5>2
      <4>2. CASE ~ x + 1 <= m + n
        <5>1. ~ x < m /\ ~ x < m + n
          BY <3>3, <4>2
        <5> QED
          BY <2>4, <3>2, <4>2, <5>1
      <4> QED
        BY <4>1, <4>2
    <3> QED
      BY <3>1, <3>4
  <2> QED
    BY <2>2, <2>5
<1> QED
  BY <1>1, <1>3 DEF RowShowsLine, Marked

\* On a screen of any size, with any prompt, line, history, commands and files,
\* until a key parts them the row shows the prompt and the line, nothing behind
\* it, and the cursor where the next key works; and there is one underscore on
\* the screen while the cursor is visible and none while it is hidden.
THEOREM RowAlwaysShowsLine == ScreenSpec => []RowShowsLine
<1>1. ScreenInit => Shown /\ Terminated
  BY SizesAssumption, ScreenAssumption, InitShows, InitTerminated DEF ScreenInit
<1>2. Shown /\ Terminated /\ [ScreenNext]_<<vars, screen>> => (Shown /\ Terminated)'
  BY SizesAssumption, StringsAssumption, ScreenAssumption, StepShows
<1>3. Shown /\ Terminated => RowShowsLine
  BY SizesAssumption, ScreenAssumption, ShownRow
<1> QED
  BY <1>1, <1>2, <1>3, PTL DEF ScreenSpec
=============================================================================
