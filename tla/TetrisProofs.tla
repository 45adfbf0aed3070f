---------------------------- MODULE TetrisProofs ----------------------------
(***************************************************************************)
(* On any board, whatever the keys, restarts and updates in between, and   *)
(* whichever rows check_lines takes out: the piece is on the board, and on *)
(* a taken cell exactly when the game is over.  And check_lines takes out  *)
(* the full rows, all of them and no other, of every board there is.       *)
(***************************************************************************)
EXTENDS Tetris, FiniteSetTheorems, NaturalsInduction, WellFoundedInduction, TLAPS

\* What PieceFree rests on: only a game that was started runs.
PieceInv == PieceFree /\ (game_running => piece # << >>)

-----------------------------------------------------------------------------
\* The top row has a middle, on which every piece starts.
LEMMA StartOnBoard == /\ Start \in Columns \X Rows /\ Start # << >>
                      /\ Start[1] = BOARD_WIDTH \div 2 /\ Start[2] = 0
                      /\ ~ EmptyBoard[Start[2]][Start[1]]
<1>1. BOARD_WIDTH \div 2 \in Columns /\ 0 \in Rows
  BY BoardAssumption DEF Columns, Rows
<1>2. Start = <<BOARD_WIDTH \div 2, 0>>
  BY DEF Start
<1>3. ~ EmptyBoard[0][BOARD_WIDTH \div 2]
  BY <1>1 DEF EmptyBoard, EmptyRow
<1> QED
  BY <1>1, <1>2, <1>3

\* A new game.
LEMMA GameStarted ==
    ASSUME tetris_init
    PROVE  PieceInv'
<1>1. piece' = Start /\ board' = EmptyBoard /\ game_over' = FALSE
  BY DEF tetris_init
<1> QED
  BY <1>1, StartOnBoard DEF PieceInv, PieceFree

\* A piece that moves comes to a free cell of the board.
LEMMA PieceMoved ==
    ASSUME PieceInv, piece # << >>, ~ game_over, NEW p, p = <<p[1], p[2]>>, NEW points,
           MoveTo(p, points)
    PROVE  PieceInv'
<1>1. /\ piece' = p /\ board' = board /\ game_over' = game_over
      /\ p[1] \in Columns /\ p[2] \in Rows /\ ~ board[p[2]][p[1]]
  BY DEF MoveTo, Valid, is_valid_position
<1>2. p \in Columns \X Rows /\ p # << >>
  BY <1>1
<1> QED
  BY <1>1, <1>2 DEF PieceInv, PieceFree

\* When a piece lands, the next one ends the game or is on a free cell.
LEMMA PieceLanded ==
    ASSUME ~ game_over, NEW p, NEW bonus, Land(p, bonus)
    PROVE  PieceInv'
<1>1. piece' = Start /\ game_over' = (game_over \/ board'[0][BOARD_WIDTH \div 2])
  BY DEF Land, spawn_new_piece
<1>2. game_over' <=> board'[Start[2]][Start[1]]
  BY <1>1, StartOnBoard
<1> QED
  BY <1>1, <1>2, StartOnBoard DEF PieceInv, PieceFree

\* A step that changes neither piece nor board, and starts no game.
LEMMA PieceKept ==
    ASSUME PieceInv, UNCHANGED <<board, piece, game_over>>, game_running' => game_running
    PROVE  PieceInv'
BY DEF PieceInv, PieceFree

-----------------------------------------------------------------------------
\* PieceInv is inductive.
LEMMA PieceStep == PieceInv /\ [Next]_vars => PieceInv'
<1> SUFFICES ASSUME PieceInv, [Next]_vars PROVE PieceInv'
  OBVIOUS
<1>1. CASE tetris_init
  BY <1>1, GameStarted
<1>2. CASE tetris_update
  <2>1. game_running /\ game_running' = game_running /\ piece # << >>
    BY <1>2 DEF tetris_update, PieceInv
  <2>2. CASE UNCHANGED <<board, piece, game_over>>
    BY <2>1, <2>2, PieceKept
  <2>3. CASE ~ game_over /\ MoveTo(Below(piece), 0)
    <3>1. Below(piece) = <<Below(piece)[1], Below(piece)[2]>>
      BY DEF Below
    <3> QED
      BY <2>1, <2>3, <3>1, PieceMoved
  <2>4. CASE ~ game_over /\ Land(piece, 0)
    BY <2>4, PieceLanded
  <2> QED
    BY <1>2, <2>2, <2>3, <2>4 DEF tetris_update
<1>3. CASE piece # << >> /\ tetris_draw
  BY <1>3, PieceKept DEF tetris_draw
<1>4. CASE piece # << >> /\ MoveKey
  <2>1. ASSUME NEW dx \in {-1, 1}, MoveTo(Beside(piece, dx), 0)
        PROVE  PieceInv'
    <3>1. Beside(piece, dx) = <<Beside(piece, dx)[1], Beside(piece, dx)[2]>> /\ ~ game_over
      BY <1>4 DEF Beside, MoveKey
    <3> QED
      BY <1>4, <2>1, <3>1, PieceMoved
  <2>2. CASE MoveTo(Below(piece), 1)
    <3>1. Below(piece) = <<Below(piece)[1], Below(piece)[2]>> /\ ~ game_over
      BY <1>4 DEF Below, MoveKey
    <3> QED
      BY <1>4, <2>2, <3>1, PieceMoved
  <2> QED
    BY <1>4, <2>1, <2>2 DEF MoveKey
<1>5. CASE piece # << >> /\ HardDrop
  BY <1>5, PieceLanded DEF HardDrop
<1>6. CASE piece # << >> /\ Escape
  BY <1>6, PieceKept DEF Escape
<1>7. CASE Restart
  BY <1>7, GameStarted DEF Restart
<1>8. CASE UNCHANGED vars
  BY <1>8, PieceKept DEF vars, flags
<1> QED
  BY <1>1, <1>2, <1>3, <1>4, <1>5, <1>6, <1>7, <1>8 DEF Next

\* On any board the piece is on a free cell until the game is over.
THEOREM PieceIsFree == Spec => []PieceFree
<1>1. Init => PieceInv
  BY DEF Init, PieceInv, PieceFree
<1>2. PieceInv /\ [Next]_vars => PieceInv'
  BY PieceStep
<1>3. PieceInv => PieceFree
  BY DEF PieceInv
<1> QED
  BY <1>1, <1>2, <1>3, PTL DEF Spec

-----------------------------------------------------------------------------
(***************************************************************************)
(* check_lines.  After n turns the loop is at row y and has found as many  *)
(* full rows as the board had under row y - lines.  Down to y the board is *)
(* the old one, moved down by that many rows, and below y every row that   *)
(* was not full has come down to its place.                                *)
(***************************************************************************)
FullRows(b) == {y \in Rows : \A x \in Columns : b[y][x]}
FullUnder(b, y) == {r \in FullRows(b) : r > y}

Looking(b, n, y, c, k) ==
    /\ y \in -1 .. BOARD_HEIGHT - 1 /\ k \in Nat /\ c \in Boards
    /\ k = Cardinality(FullUnder(b, y - k))
    /\ \A r \in Rows : r < k => c[r] = EmptyRow
    /\ \A r \in Rows : r <= y /\ r >= k => c[r] = b[r - k]
    /\ \A o \in Rows \ FullRows(b) :
          o > y - k => LET to == o + Cardinality(FullUnder(b, o))
                       IN  to > y /\ to \in Rows /\ c[to] = b[o]
    /\ y = -1 \/ n = (BOARD_HEIGHT - 1 - y) + k

\* The full rows can be counted, and those from m on are one more, or the same.
LEMMA FullCount ==
    ASSUME NEW b
    PROVE  /\ \A y \in Int : /\ IsFiniteSet(FullUnder(b, y))
                             /\ Cardinality(FullUnder(b, y)) \in 0 .. BOARD_HEIGHT
           /\ \A y \in Rows : y + Cardinality(FullUnder(b, y)) \in Rows
           /\ \A m \in FullRows(b) : /\ FullUnder(b, m - 1) = FullUnder(b, m) \cup {m}
                                     /\ Cardinality(FullUnder(b, m - 1)) = Cardinality(FullUnder(b, m)) + 1
           /\ \A m \in Int \ FullRows(b) : FullUnder(b, m - 1) = FullUnder(b, m)
<1>1. ASSUME NEW y \in Int
      PROVE  /\ IsFiniteSet(FullUnder(b, y))
             /\ Cardinality(FullUnder(b, y)) \in 0 .. BOARD_HEIGHT
             /\ y \in Rows => y + Cardinality(FullUnder(b, y)) \in Rows
  <2>1. IsFiniteSet(Rows) /\ Cardinality(Rows) = BOARD_HEIGHT
    <3>1. 0 \in Int /\ BOARD_HEIGHT \in Int /\ BOARD_HEIGHT - 1 \in Int /\ BOARD_HEIGHT >= 1
      BY BoardAssumption
    <3>2. /\ IsFiniteSet(0 .. BOARD_HEIGHT - 1)
          /\ Cardinality(0 .. BOARD_HEIGHT - 1)
               = IF 0 > BOARD_HEIGHT - 1 THEN 0 ELSE BOARD_HEIGHT - 1 - 0 + 1
      BY <3>1, FS_Interval
    <3>3. Cardinality(0 .. BOARD_HEIGHT - 1) = BOARD_HEIGHT
      BY <3>1, <3>2
    <3> QED
      BY <3>2, <3>3 DEF Rows
  <2>2. FullUnder(b, y) \subseteq Rows
    BY DEF FullUnder, FullRows
  <2> HIDE DEF Rows
  <2>3. IsFiniteSet(FullUnder(b, y)) /\ Cardinality(FullUnder(b, y)) <= BOARD_HEIGHT
    BY <2>1, <2>2, FS_Subset
  <2>4. Cardinality(FullUnder(b, y)) \in Nat
    BY <2>3, FS_CardinalityType
  <2>5. ASSUME y \in Rows PROVE y + Cardinality(FullUnder(b, y)) \in Rows
    <3>1. y \in 0 .. BOARD_HEIGHT - 1 /\ BOARD_HEIGHT \in Nat
      BY <2>5, BoardAssumption DEF Rows
    <3>2. /\ IsFiniteSet(y + 1 .. BOARD_HEIGHT - 1)
          /\ Cardinality(y + 1 .. BOARD_HEIGHT - 1)
               = IF y + 1 > BOARD_HEIGHT - 1 THEN 0 ELSE BOARD_HEIGHT - 1 - (y + 1) + 1
      <4>1. y + 1 \in Int /\ BOARD_HEIGHT - 1 \in Int
        BY <3>1
      <4> QED
        BY <4>1, FS_Interval
    <3>3. FullUnder(b, y) \subseteq y + 1 .. BOARD_HEIGHT - 1
      BY <3>1 DEF FullUnder, FullRows, Rows
    <3>4. Cardinality(FullUnder(b, y)) <= Cardinality(y + 1 .. BOARD_HEIGHT - 1)
      BY <3>2, <3>3, FS_Subset
    <3>5. Cardinality(y + 1 .. BOARD_HEIGHT - 1) = BOARD_HEIGHT - 1 - y
      BY <3>1, <3>2
    <3> QED
      BY <2>4, <3>1, <3>4, <3>5 DEF Rows
  <2> QED
    BY <2>3, <2>4, <2>5, BoardAssumption
<1>2. ASSUME NEW m \in FullRows(b)
      PROVE  /\ FullUnder(b, m - 1) = FullUnder(b, m) \cup {m}
             /\ Cardinality(FullUnder(b, m - 1)) = Cardinality(FullUnder(b, m)) + 1
  <2>1. m \in Int /\ \A r \in FullRows(b) : r \in Int
    BY DEF FullRows, Rows
  <2>2. \A r \in FullRows(b) : r > m - 1 <=> r > m \/ r = m
    BY <2>1
  <2>3. FullUnder(b, m - 1) = FullUnder(b, m) \cup {m}
    BY <2>2 DEF FullUnder
  <2>4. m \notin FullUnder(b, m)
    BY <2>1 DEF FullUnder
  <2> QED
    BY <1>1, <2>1, <2>3, <2>4, FS_AddElement
<1>3. ASSUME NEW m \in Int \ FullRows(b)
      PROVE  FullUnder(b, m - 1) = FullUnder(b, m)
  <2>1. \A r \in FullRows(b) : r \in Int /\ r # m
    BY DEF FullRows, Rows
  <2> QED
    BY <2>1 DEF FullUnder
<1>4. \A y \in Rows : y \in Int
  BY DEF Rows
<1> QED
  BY <1>1, <1>2, <1>3, <1>4

\* A row that is not full stays, whether it is one of the board's own or one of
\* the empty ones that came down from the top.
LEMMA RowPassed ==
    ASSUME NEW b \in Boards, NEW n \in Nat, NEW y, NEW c, NEW k,
           Looking(b, n, y, c, k), y # -1, ~ Full(c, y)
    PROVE  Looking(b, n + 1, y - 1, c, k)
<1>1. /\ y \in Rows /\ y \in Int /\ k \in Nat /\ BOARD_HEIGHT \in Nat
      /\ y - 1 \in -1 .. BOARD_HEIGHT - 1 /\ y - k \in Int
  BY BoardAssumption DEF Looking, Rows
<1>2. y >= k => y - k \in Rows /\ c[y] = b[y - k]
  BY <1>1 DEF Looking, Rows
<1>3. y - k \notin FullRows(b)
  <2>1. CASE y >= k
    BY <1>2, <2>1 DEF FullRows, Full
  <2>2. CASE y < k
    BY <1>1, <2>2 DEF FullRows, Rows
  <2> QED
    BY <1>1, <2>1, <2>2
<1>4. FullUnder(b, (y - 1) - k) = FullUnder(b, y - k)
  <2>1. FullUnder(b, (y - k) - 1) = FullUnder(b, y - k)
    BY <1>1, <1>3, FullCount
  <2>2. (y - k) - 1 = (y - 1) - k
    BY <1>1
  <2> QED
    BY <2>1, <2>2
<1>5. ASSUME NEW o \in Rows \ FullRows(b), o > (y - 1) - k
      PROVE  LET to == o + Cardinality(FullUnder(b, o))
             IN  to > y - 1 /\ to \in Rows /\ c[to] = b[o]
  <2>1. o \in Int /\ (o > y - k \/ o = y - k)
    BY <1>1, <1>5 DEF Rows
  <2> DEFINE to == o + Cardinality(FullUnder(b, o))
  <2>2. to \in Rows /\ to \in Int
    <3>1. to \in Rows
      BY FullCount
    <3> QED
      BY <3>1 DEF Rows
  <2>3. CASE o > y - k
    <3>1. to > y /\ c[to] = b[o]
      BY <2>3 DEF Looking
    <3>2. to > y - 1
      <4> HIDE DEF to
      <4> QED
        BY <1>1, <2>2, <3>1
    <3> QED
      BY <2>2, <3>1, <3>2
  <2>4. CASE o = y - k
    <3>1. Cardinality(FullUnder(b, o)) = k
      BY <2>4 DEF Looking
    <3>2. to = y
      BY <1>1, <2>4, <3>1
    <3>3. y >= k
      BY <1>1, <2>4 DEF Rows
    <3>4. to > y - 1
      BY <1>1, <3>2
    <3>5. c[to] = b[o]
      BY <1>2, <2>4, <3>2, <3>3
    <3> QED
      BY <2>2, <3>4, <3>5
  <2> QED
    BY <2>1, <2>3, <2>4
<1>6. \A r \in Rows : r <= y - 1 /\ r >= k => c[r] = b[r - k]
  BY <1>1 DEF Looking, Rows
<1>7. n + 1 = (BOARD_HEIGHT - 1 - (y - 1)) + k
  <2>1. n = (BOARD_HEIGHT - 1 - y) + k
    BY DEF Looking
  <2> QED
    BY <1>1, <2>1
<1> QED
  BY <1>1, <1>4, <1>5, <1>6, <1>7 DEF Looking

\* A full row is one of the board's own; the rows above it come down by one.
LEMMA RowRemoved ==
    ASSUME NEW b \in Boards, NEW n \in Nat, NEW y, NEW c, NEW k,
           Looking(b, n, y, c, k), y # -1, Full(c, y)
    PROVE  Looking(b, n + 1, y, RemoveRow(c, y), k + 1)
<1> DEFINE d == RemoveRow(c, y)
<1>1. /\ y \in Rows /\ y \in Int /\ k \in Nat /\ BOARD_HEIGHT \in Nat
      /\ y \in -1 .. BOARD_HEIGHT - 1 /\ y - k \in Int /\ c \in Boards
  BY BoardAssumption DEF Looking, Rows
<1>2. y >= k
  <2> SUFFICES ASSUME y < k PROVE FALSE
    BY <1>1
  <2>1. c[y] = EmptyRow
    BY <1>1 DEF Looking
  <2>2. 0 \in Columns
    BY BoardAssumption DEF Columns
  <2> QED
    BY <2>1, <2>2 DEF Full, EmptyRow
<1>3. y - k \in Rows /\ c[y] = b[y - k]
  BY <1>1, <1>2 DEF Looking, Rows
<1>4. y - k \in FullRows(b)
  BY <1>3 DEF FullRows, Full
<1>5. k + 1 = Cardinality(FullUnder(b, y - (k + 1)))
  <2>1. Cardinality(FullUnder(b, (y - k) - 1)) = Cardinality(FullUnder(b, y - k)) + 1
    BY <1>4, FullCount
  <2>2. (y - k) - 1 = y - (k + 1)
    BY <1>1
  <2> QED
    BY <2>1, <2>2 DEF Looking
<1>6. d \in Boards /\ \A r \in Rows : d[r] = IF r > y THEN c[r]
                                             ELSE IF r = 0 THEN EmptyRow ELSE c[r - 1]
  <2>1. \A r \in Rows : r # 0 => r - 1 \in Rows
    BY <1>1 DEF Rows
  <2>2. EmptyRow \in [Columns -> BOOLEAN]
    BY DEF EmptyRow
  <2>3. \A r \in Rows : d[r] = IF r > y THEN c[r] ELSE IF r = 0 THEN EmptyRow ELSE c[r - 1]
    BY DEF RemoveRow
  <2>4. \A r \in Rows : c[r] \in [Columns -> BOOLEAN]
    BY <1>1 DEF Boards
  <2>5. \A r \in Rows : d[r] \in [Columns -> BOOLEAN]
    BY <2>1, <2>2, <2>3, <2>4
  <2>6. d = [r \in Rows |-> d[r]]
    BY DEF RemoveRow
  <2> HIDE DEF d
  <2>7. d \in Boards
    BY <2>5, <2>6 DEF Boards
  <2> QED
    BY <2>3, <2>7
<1> HIDE DEF d
<1>7. ASSUME NEW r \in Rows, r < k + 1 PROVE d[r] = EmptyRow
  <2>1. r \in Int /\ r >= 0 /\ ~ (r > y) /\ (r # 0 => r - 1 \in Rows /\ r - 1 < k)
    BY <1>1, <1>2, <1>7 DEF Rows
  <2>2. r # 0 => c[r - 1] = EmptyRow
    BY <2>1 DEF Looking
  <2> QED
    BY <1>6, <2>1, <2>2
<1>8. ASSUME NEW r \in Rows, r <= y, r >= k + 1 PROVE d[r] = b[r - (k + 1)]
  <2>1. /\ r \in Int /\ ~ (r > y) /\ r # 0 /\ r - 1 \in Rows /\ r - 1 <= y /\ r - 1 >= k
        /\ (r - 1) - k = r - (k + 1)
    BY <1>1, <1>8 DEF Rows
  <2>2. c[r - 1] = b[(r - 1) - k]
    BY <2>1 DEF Looking
  <2> QED
    BY <1>6, <2>1, <2>2
<1>9. ASSUME NEW o \in Rows \ FullRows(b), o > y - (k + 1)
      PROVE  LET to == o + Cardinality(FullUnder(b, o))
             IN  to > y /\ to \in Rows /\ d[to] = b[o]
  <2> DEFINE to == o + Cardinality(FullUnder(b, o))
  <2>1. o \in Int /\ o # y - k /\ o > y - k
    BY <1>1, <1>4, <1>9 DEF Rows
  <2>2. to > y /\ to \in Rows /\ c[to] = b[o]
    BY <2>1 DEF Looking
  <2> HIDE DEF to
  <2>3. d[to] = c[to]
    BY <1>6, <2>2
  <2> QED
    BY <2>2, <2>3 DEF to
<1>10. n + 1 = (BOARD_HEIGHT - 1 - y) + (k + 1)
  <2>1. n = (BOARD_HEIGHT - 1 - y) + k
    BY DEF Looking
  <2> QED
    BY <1>1, <2>1
<1>11. k + 1 \in Nat
  BY <1>1
<1> QED
  BY <1>1, <1>5, <1>6, <1>7, <1>8, <1>9, <1>10, <1>11 DEF Looking, d

\* The least of a set of numbers: what induction over the turns stands on.
LEMMA LeastNumber ==
    ASSUME NEW S, S \subseteq Nat, S # {}
    PROVE  \E m \in S : \A n \in S : m <= n
  <1>1. PICK m \in S : \A n \in S : ~ (<<n, m>> \in OpToRel(<, Nat))
    BY NatLessThanWellFounded, WFMin, Zenon
  <1>2. \A n \in S : ~ (n < m)
    <2> SUFFICES ASSUME NEW n \in S, n < m PROVE FALSE
      OBVIOUS
    <2>1. <<n, m>> \in Nat \X Nat /\ <<n, m>>[1] < <<n, m>>[2]
      OBVIOUS
    <2>2. QED
      BY <1>1, <2>1, Zenon DEF OpToRel
  <1>3. QED
    BY <1>2

\* The loop is defined: there is a function that takes its turns one by one.
FirstRow(b) == [y |-> BOARD_HEIGHT - 1, board |-> b, lines |-> 0]
Turns(b, k, f) ==
    f = [n \in 0 .. k |-> IF n = 0 THEN FirstRow(b) ELSE CheckRow(f[n - 1])]

LEMMA TurnsExist ==
    ASSUME NEW b, NEW len \in Nat
    PROVE  \E f : Turns(b, len, f)
<1> DEFINE Bad == {k \in 0 .. len : ~ \E f : Turns(b, k, f)}
<1>1. SUFFICES ASSUME Bad # {} PROVE FALSE
  OBVIOUS
<1>2. PICK k \in Bad : \A j \in Bad : k <= j
  <2>1. Bad \subseteq Nat
    OBVIOUS
  <2> HIDE DEF Bad
  <2> QED
    BY <1>1, <2>1, LeastNumber
<1>3. k # 0
  <2>1. Turns(b, 0, [n \in 0 .. 0 |-> FirstRow(b)])
    BY DEF Turns
  <2> QED
    BY <1>2, <2>1
<1>4. k \in 0 .. len /\ k - 1 \in 0 .. len /\ k - 1 \notin Bad
  BY <1>2, <1>3
<1>5. PICK f : Turns(b, k - 1, f)
  BY <1>4
<1> DEFINE g == [n \in 0 .. k |-> IF n = k THEN CheckRow(f[k - 1]) ELSE f[n]]
<1>6. \A n \in 0 .. k : g[n] = IF n = 0 THEN FirstRow(b) ELSE CheckRow(g[n - 1])
  <2> SUFFICES ASSUME NEW n \in 0 .. k
               PROVE  g[n] = IF n = 0 THEN FirstRow(b) ELSE CheckRow(g[n - 1])
    OBVIOUS
  <2>1. CASE n = k
    BY <1>3, <1>4, <2>1
  <2>2. CASE n # k
    <3>1. n \in 0 .. k - 1 /\ g[n] = f[n]
      BY <1>4, <2>2
    <3>2. f[n] = IF n = 0 THEN FirstRow(b) ELSE CheckRow(f[n - 1])
      BY <1>5, <3>1 DEF Turns
    <3>3. n # 0 => n - 1 \in 0 .. k /\ n - 1 # k /\ g[n - 1] = f[n - 1]
      BY <1>4, <3>1
    <3> QED
      BY <3>1, <3>2, <3>3
  <2> QED
    BY <2>1, <2>2
<1>7. Turns(b, k, g)
  <2> DEFINE h == [n \in 0 .. k |-> IF n = 0 THEN FirstRow(b) ELSE CheckRow(g[n - 1])]
  <2>1. \A n \in 0 .. k : g[n] = h[n]
    BY <1>6
  <2>2. g = h
    BY <2>1
  <2> QED
    BY <2>2 DEF Turns
<1> QED
  BY <1>2, <1>4, <1>7

\* Every turn leaves what Looking says.
LookingAt(b, n, at) == Looking(b, n, at.y, at.board, at.lines)

LEMMA TurnLooks ==
    ASSUME NEW b \in Boards, NEW n \in Nat, NEW at, LookingAt(b, n, at),
           at \in [y : Int, board : Boards, lines : Nat]
    PROVE  LookingAt(b, n + 1, CheckRow(at)) /\ CheckRow(at) \in [y : Int, board : Boards, lines : Nat]
<1>1. CASE at.y = -1
  BY <1>1 DEF CheckRow, LookingAt, Looking
<1>2. CASE at.y # -1 /\ Full(at.board, at.y)
  <2> DEFINE to == CheckRow(at)
  <2>1. to.y = at.y /\ to.board = RemoveRow(at.board, at.y) /\ to.lines = at.lines + 1
    BY <1>2 DEF CheckRow
  <2>2. to = [y |-> to.y, board |-> to.board, lines |-> to.lines]
    BY <1>2 DEF CheckRow
  <2> HIDE DEF to
  <2>3. Looking(b, n + 1, to.y, to.board, to.lines)
    BY <1>2, <2>1, RowRemoved DEF LookingAt
  <2>4. to.y \in Int /\ to.board \in Boards /\ to.lines \in Nat
    BY <2>1, <2>3 DEF Looking
  <2> QED
    BY <2>2, <2>3, <2>4 DEF LookingAt, to
<1>3. CASE at.y # -1 /\ ~ Full(at.board, at.y)
  <2> DEFINE to == CheckRow(at)
  <2>1. to.y = at.y - 1 /\ to.board = at.board /\ to.lines = at.lines
    BY <1>3 DEF CheckRow
  <2>2. to = [y |-> to.y, board |-> to.board, lines |-> to.lines]
    BY <1>3 DEF CheckRow
  <2> HIDE DEF to
  <2>3. Looking(b, n + 1, to.y, to.board, to.lines)
    BY <1>3, <2>1, RowPassed DEF LookingAt
  <2>4. to.y \in Int /\ to.board \in Boards /\ to.lines \in Nat
    BY <2>1, <2>3 DEF Looking
  <2> QED
    BY <2>2, <2>3, <2>4 DEF LookingAt, to
<1> QED
  BY <1>1, <1>2, <1>3

LEMMA TurnsLook ==
    ASSUME NEW b \in Boards, NEW len \in Nat, NEW f, Turns(b, len, f)
    PROVE  LookingAt(b, len, f[len])
<1> DEFINE States == [y : Int, board : Boards, lines : Nat]
           Bad == {k \in 0 .. len : ~ (LookingAt(b, k, f[k]) /\ f[k] \in States)}
<1>1. SUFFICES ASSUME Bad # {} PROVE FALSE
  OBVIOUS
<1>2. PICK k \in Bad : \A j \in Bad : k <= j
  <2>1. Bad \subseteq Nat
    OBVIOUS
  <2> HIDE DEF Bad
  <2> QED
    BY <1>1, <2>1, LeastNumber
<1>3. k \in 0 .. len /\ f[k] = IF k = 0 THEN FirstRow(b) ELSE CheckRow(f[k - 1])
  BY <1>2 DEF Turns
<1>4. CASE k = 0
  <2>1. f[k] \in States /\ f[k].y = BOARD_HEIGHT - 1 /\ f[k].board = b /\ f[k].lines = 0
    BY <1>3, <1>4, BoardAssumption DEF FirstRow
  <2>2. FullUnder(b, BOARD_HEIGHT - 1 - 0) = {}
    BY BoardAssumption DEF FullUnder, FullRows, Rows
  <2>3. Cardinality(FullUnder(b, BOARD_HEIGHT - 1 - 0)) = 0
    BY <2>2, FS_EmptySet
  <2>4. Looking(b, 0, BOARD_HEIGHT - 1, b, 0)
    BY <2>3, BoardAssumption DEF Looking, Rows
  <2> QED
    BY <1>2, <1>4, <2>1, <2>4 DEF LookingAt
<1>5. CASE k # 0
  <2>1. k - 1 \in Nat /\ (k - 1) + 1 = k /\ LookingAt(b, k - 1, f[k - 1]) /\ f[k - 1] \in States
    BY <1>2, <1>3, <1>5
  <2> QED
    BY <1>2, <1>3, <1>5, <2>1, TurnLooks
<1> QED
  BY <1>4, <1>5

\* On any board check_lines takes out exactly the full rows, and the others come
\* down in their order: the loop is at y = -1 after its last turn.
THEOREM LinesAlwaysCleared == Spec => []LinesCleared
<1>1. ASSUME NEW b \in Boards
      PROVE  LET full == {y \in Rows : \A x \in Columns : b[y][x]}
                 Fall(y) == Cardinality({r \in full : r > y})
                 cleared == check_lines(b)
             IN  /\ cleared.lines = Cardinality(full)
                 /\ cleared.board \in Boards
                 /\ \A y \in Rows \ full : cleared.board[y + Fall(y)] = b[y]
                 /\ \A y \in Rows : y < Cardinality(full) => cleared.board[y] = EmptyRow
  <2> DEFINE at == check_lines(b)
             last == 2 * BOARD_HEIGHT
  <2>1. last \in Nat /\ BOARD_HEIGHT \in Nat
    BY BoardAssumption
  <2>2. PICK f : Turns(b, last, f) /\ at = f[last]
    <3> DEFINE g == CHOOSE g : Turns(b, last, g)
    <3>1. Turns(b, last, g)
      BY <2>1, TurnsExist
    <3>2. at = g[last]
      BY DEF check_lines, Turns, FirstRow
    <3> QED
      BY <3>1, <3>2
  <2>3. Looking(b, last, at.y, at.board, at.lines)
    BY <2>1, <2>2, TurnsLook DEF LookingAt
  <2> HIDE DEF at
  <2>4. /\ at.y \in -1 .. BOARD_HEIGHT - 1 /\ at.lines \in Nat
        /\ at.lines = Cardinality(FullUnder(b, at.y - at.lines))
        /\ at.y = -1 \/ last = (BOARD_HEIGHT - 1 - at.y) + at.lines
    BY <2>3 DEF Looking
  <2>5. at.lines \in 0 .. BOARD_HEIGHT
    <3>1. at.y - at.lines \in Int
      BY <2>4
    <3>2. Cardinality(FullUnder(b, at.y - at.lines)) \in 0 .. BOARD_HEIGHT
      BY <3>1, FullCount
    <3> QED
      BY <2>4, <3>2
  <2>6. at.y = -1
    BY <2>1, <2>4, <2>5
  <2>7. FullUnder(b, at.y - at.lines) = FullRows(b)
    <3>1. \A r \in FullRows(b) : r > at.y - at.lines
      BY <2>5, <2>6 DEF FullRows, Rows
    <3> QED
      BY <3>1 DEF FullUnder
  <2>8. at.lines = Cardinality(FullRows(b)) /\ at.board \in Boards
    BY <2>3, <2>4, <2>7 DEF Looking
  <2>9. ASSUME NEW y \in Rows \ FullRows(b)
        PROVE  at.board[y + Cardinality(FullUnder(b, y))] = b[y]
    <3>1. y > at.y - at.lines
      BY <2>5, <2>6 DEF Rows
    <3> QED
      BY <2>3, <3>1 DEF Looking
  <2>10. \A y \in Rows : y < Cardinality(FullRows(b)) => at.board[y] = EmptyRow
    BY <2>3, <2>8 DEF Looking
  <2> QED
    BY <2>8, <2>9, <2>10 DEF FullRows, FullUnder, at
<1>2. LinesCleared
  BY <1>1 DEF LinesCleared
<1>3. LinesCleared /\ [Next]_vars => LinesCleared'
  BY <1>1 DEF LinesCleared
<1> QED
  BY <1>2, <1>3, PTL DEF Spec
=============================================================================
