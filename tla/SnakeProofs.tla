---------------------------- MODULE SnakeProofs ----------------------------
(***************************************************************************)
(* The food is never on the snake, the snake is a path, and whatever       *)
(* changes is drawn, for every field and whatever the keys, restarts and   *)
(* draws in between.                                                       *)
(***************************************************************************)
EXTENDS Snake, SequenceTheorems, FiniteSetTheorems, TLAPS

Cell == Int \X Int

\* What FoodFree rests on: a game that moves has a snake.
Shape ==
    /\ snake \in Seq(Cell)
    /\ heading \in Cell
    /\ game_running => snake # << >>

FoodInv == Shape /\ FoodFree

-----------------------------------------------------------------------------
\* The places of the segments of a snake that has moved.
LEMMA MovedCells ==
    ASSUME NEW S, NEW s \in Seq(S), s # << >>, NEW head \in S, NEW moved,
           moved = <<head>> \o SubSeq(s, 1, Len(s) - 1)
    PROVE  /\ moved \in Seq(S) /\ Len(moved) = Len(s)
           /\ moved[1] = head
           /\ \A i \in 2 .. Len(s) : moved[i] = s[i - 1]
<1> DEFINE n == Len(s) - 1
           body == SubSeq(s, 1, n)
           one == <<head>>
<1>1. Len(s) \in Nat \ {0} /\ n \in Nat /\ Len(s) = 1 + n
  BY EmptySeq, LenProperties
<1>2. \A i \in 1 .. n : s[i] \in S
  BY <1>1, ElementOfSeq
<1>3. /\ body \in Seq(S)
      /\ Len(body) = IF 1 <= n THEN n - 1 + 1 ELSE 0
      /\ \A i \in 1 .. n - 1 + 1 : body[i] = s[1 + i - 1]
  BY <1>1, <1>2, SubSeqProperties
<1> HIDE DEF body, n
<1>4. n - 1 + 1 = n /\ Len(body) = n
  BY <1>1, <1>3
<1>5. ASSUME NEW i \in 1 .. n
      PROVE  body[i] = s[i]
  <2>1. body[i] = s[1 + i - 1]
    BY <1>3, <1>4, <1>5, Zenon
  <2>2. 1 + i - 1 = i
    BY <1>1, <1>5
  <2> QED
    BY <2>1, <2>2, Zenon
<1>6. one \in Seq(S) /\ Len(one) = 1 /\ one[1] = head
  OBVIOUS
<1> HIDE DEF one
<1>7. /\ one \o body \in Seq(S)
      /\ Len(one \o body) = Len(one) + Len(body)
      /\ \A i \in 1 .. Len(one) + Len(body) :
            (one \o body)[i] = IF i <= Len(one) THEN one[i] ELSE body[i - Len(one)]
  BY <1>3, <1>6, ConcatProperties, Zenon
<1>8. moved = one \o body
  BY DEF one, body, n
<1>9. moved \in Seq(S) /\ Len(moved) = Len(s)
  BY <1>1, <1>4, <1>6, <1>7, <1>8, Zenon
<1>10. \A i \in 1 .. Len(s) : moved[i] = IF i <= 1 THEN one[i] ELSE body[i - 1]
  BY <1>1, <1>4, <1>6, <1>7, <1>8, Zenon
<1>11. moved[1] = head
  <2>1. 1 \in 1 .. Len(s) /\ 1 <= 1
    BY <1>1
  <2> QED
    BY <1>6, <1>10, <2>1, Zenon
<1>12. ASSUME NEW i \in 2 .. Len(s)
       PROVE  moved[i] = s[i - 1]
  <2>1. i \in 1 .. Len(s) /\ ~ (i <= 1) /\ i - 1 \in 1 .. n
    BY <1>1, <1>12
  <2> QED
    BY <1>5, <1>10, <2>1, Zenon
<1> QED
  BY <1>9, <1>11, <1>12


\* So each is the new head or was a segment.
LEMMA MovedRange ==
    ASSUME NEW S, NEW s \in Seq(S), s # << >>, NEW head \in S, NEW moved,
           moved = <<head>> \o SubSeq(s, 1, Len(s) - 1)
    PROVE  Range(moved) \subseteq {head} \cup Range(s)
<1>1. /\ moved \in Seq(S) /\ Len(moved) = Len(s)
      /\ moved[1] = head
      /\ \A i \in 2 .. Len(s) : moved[i] = s[i - 1]
  BY MovedCells
<1>2. DOMAIN moved = 1 .. Len(s) /\ DOMAIN s = 1 .. Len(s) /\ Len(s) \in Nat
  BY <1>1, LenProperties
<1>3. ASSUME NEW i \in 1 .. Len(s)
      PROVE  moved[i] \in {head} \cup Range(s)
  <2>1. CASE i = 1
    BY <1>1, <2>1
  <2>2. CASE i # 1
    <3>1. i \in 2 .. Len(s) /\ i - 1 \in DOMAIN s
      BY <1>2, <2>2
    <3> QED
      BY <1>1, <3>1 DEF Range
  <2> QED
    BY <2>1, <2>2
<1> QED
  BY <1>2, <1>3, Zenon DEF Range

\* Growth doubles a segment and brings no cell that was not one.
LEMMA GrownSnake ==
    ASSUME NEW S, NEW s \in Seq(S), s # << >>
    PROVE  Append(s, Last(s)) \in Seq(S) /\ Append(s, Last(s)) # << >>
<1>1. Len(s) \in Nat \ {0}
  BY EmptySeq
<1>2. Last(s) \in S
  BY <1>1, ElementOfSeq DEF Last
<1> QED
  BY <1>2, AppendProperties

\* New food is beside the snake it was put down for.
LEMMA FoodBesideSnake ==
    ASSUME NEW s, spawn_food(s)
    PROVE  food' \notin Range(s) \/ searching'
BY DEF spawn_food

-----------------------------------------------------------------------------
\* Before the first game there is no snake.
LEMMA FoodInit == Init => FoodInv
<1> SUFFICES ASSUME Init PROVE FoodInv
  OBVIOUS
<1>1. snake = << >> /\ heading = <<0, 0>> /\ game_running = FALSE
  BY DEF Init
<1>2. snake \in Seq(Cell)
  BY <1>1, EmptySeq
<1>3. heading \in Cell
  BY <1>1 DEF Cell
<1>4. Range(snake) = {}
  BY <1>1 DEF Range
<1> QED
  BY <1>1, <1>2, <1>3, <1>4 DEF FoodInv, Shape, FoodFree

\* Whenever a game starts, the snake is built before the food is put down.
LEMMA FoodStart ==
    ASSUME snake_init
    PROVE  FoodInv'
<1>1. /\ snake' = [i \in 1 .. 3 |-> <<GRID_WIDTH \div 2 - (i - 1), GRID_HEIGHT \div 2>>]
      /\ heading' = RIGHT
      /\ spawn_food(snake')
  BY DEF snake_init
<1>2. GRID_WIDTH \div 2 \in Int /\ GRID_HEIGHT \div 2 \in Int
  BY GridAssumption
<1>3. snake' \in Seq(Cell)
  <2>1. \A i \in 1 .. 3 : <<GRID_WIDTH \div 2 - (i - 1), GRID_HEIGHT \div 2>> \in Cell
    BY <1>2 DEF Cell
  <2>2. snake' \in [1 .. 3 -> Cell]
    BY <1>1, <2>1
  <2>3. 3 \in Nat
    OBVIOUS
  <2> QED
    BY <2>2, <2>3, SeqDef, Zenon
<1>4. snake' # << >>
  <2>1. 1 \in DOMAIN snake'
    BY <1>1
  <2> QED
    BY <2>1
<1>5. heading' \in Cell
  BY <1>1 DEF RIGHT, Cell
<1>6. food' \notin Range(snake') \/ searching'
  BY <1>1, FoodBesideSnake
<1> QED
  BY <1>3, <1>4, <1>5, <1>6 DEF FoodInv, Shape, FoodFree

\* A move: the head comes to a cell that is not the food's, or new food is put
\* down beside the grown snake.
LEMMA FoodAdvance ==
    ASSUME FoodInv, game_running, ~ searching, game_running' = game_running, Advance
    PROVE  FoodInv'
<1> DEFINE moved == <<NewHead>> \o SubSeq(snake, 1, Len(snake) - 1)
<1>1. snake \in Seq(Cell) /\ heading \in Cell /\ snake # << >> /\ food \notin Range(snake)
  BY DEF FoodInv, Shape, FoodFree
<1>2. NewHead \in Cell
  <2>1. Len(snake) \in Nat \ {0}
    BY <1>1, EmptySeq
  <2>2. snake[1] \in Cell
    BY <1>1, <2>1, ElementOfSeq
  <2> QED
    BY <1>1, <2>2 DEF NewHead, Cell
<1>3. /\ moved \in Seq(Cell) /\ moved # << >>
      /\ Range(moved) \subseteq {NewHead} \cup Range(snake)
  <2> moved = <<NewHead>> \o SubSeq(snake, 1, Len(snake) - 1)
    OBVIOUS
  <2> HIDE DEF moved
  <2>1. moved \in Seq(Cell) /\ Len(moved) = Len(snake)
    BY <1>1, <1>2, MovedCells
  <2>2. Range(moved) \subseteq {NewHead} \cup Range(snake)
    BY <1>1, <1>2, MovedRange
  <2> QED
    BY <1>1, <2>1, <2>2, EmptySeq
<1>4. /\ IF NewHead = food
         THEN /\ snake' = IF Len(snake) < MAX_SNAKE_LENGTH THEN Append(moved, Last(moved)) ELSE moved
              /\ spawn_food(snake')
         ELSE snake' = moved /\ UNCHANGED <<food, searching>>
      /\ heading' = heading
  BY DEF Advance
<1> HIDE DEF moved
<1>5. CASE NewHead = food
  <2>1. snake' = Append(moved, Last(moved)) \/ snake' = moved
    BY <1>4, <1>5
  <2>2. snake' \in Seq(Cell) /\ snake' # << >>
    BY <1>3, <2>1, GrownSnake
  <2>3. food' \notin Range(snake') \/ searching'
    BY <1>4, <1>5, FoodBesideSnake
  <2> QED
    BY <1>1, <1>4, <2>2, <2>3 DEF FoodInv, Shape, FoodFree
<1>6. CASE NewHead # food
  <2>1. snake' = moved /\ food' = food
    BY <1>4, <1>6
  <2>2. food' \notin Range(snake')
    BY <1>1, <1>3, <1>6, <2>1
  <2> QED
    BY <1>1, <1>3, <1>4, <2>1, <2>2 DEF FoodInv, Shape, FoodFree
<1> QED
  BY <1>5, <1>6

\* A step that leaves the snake, the food and the heading, or turns only.
LEMMA FoodKept ==
    ASSUME FoodInv, UNCHANGED <<snake, food, searching>>, heading' \in Cell,
           game_running' => game_running
    PROVE  FoodInv'
BY DEF FoodInv, Shape, FoodFree

\* FoodInv is inductive.
LEMMA FoodStep == FoodInv /\ [Next]_vars => FoodInv'
<1> SUFFICES ASSUME FoodInv, [Next]_vars PROVE FoodInv'
  OBVIOUS
<1>1. heading \in Cell
  BY DEF FoodInv, Shape
<1>2. CASE snake_init
  BY <1>2, FoodStart
<1>3. CASE ~ searching /\ snake_update
  <2>1. game_running /\ game_running' = game_running
    BY <1>3 DEF snake_update
  <2>2. CASE UNCHANGED <<snake, food, heading, searching>>
    BY <1>1, <2>1, <2>2, FoodKept
  <2>3. CASE Advance
    BY <1>3, <2>1, <2>3, FoodAdvance
  <2>4. CASE Crash
    BY <1>1, <2>1, <2>4, FoodKept DEF Crash
  <2> QED
    BY <1>3, <2>2, <2>3, <2>4 DEF snake_update
<1>4. CASE snake_draw
  BY <1>1, <1>4, FoodKept DEF snake_draw
<1>5. CASE snake_input
  <2>1. CASE snake_init
    BY <2>1, FoodStart
  <2>2. CASE game_running' = FALSE /\ UNCHANGED <<snake, food, heading, searching>>
    BY <1>1, <2>2, FoodKept
  <2> QED
    BY <1>5, <2>1, <2>2 DEF snake_input
<1>6. CASE snake_special_input
  <2>1. heading' \in {UP, DOWN, LEFT, RIGHT}
    BY <1>6 DEF snake_special_input
  <2>2. heading' \in Cell
    BY <2>1 DEF UP, DOWN, LEFT, RIGHT, Cell
  <2>3. UNCHANGED <<snake, food, searching, game_running>>
    BY <1>6 DEF snake_special_input, flags
  <2> QED
    BY <2>2, <2>3, FoodKept
<1>7. CASE UNCHANGED vars
  BY <1>1, <1>7, FoodKept DEF vars, flags
<1> QED
  BY <1>2, <1>3, <1>4, <1>5, <1>6, <1>7 DEF Next

\* On any field the food is never on the snake.
THEOREM FoodIsFree == Spec => []FoodFree
<1>1. Init => FoodInv
  BY FoodInit
<1>2. FoodInv /\ [Next]_vars => FoodInv'
  BY FoodStep
<1>3. FoodInv => FoodFree
  BY DEF FoodInv
<1> QED
  BY <1>1, <1>2, <1>3, PTL DEF Spec

-----------------------------------------------------------------------------
\* The redraw, step by step; it rests on no invariant.
LEMMA DrawnStep == [Next]_vars => [Picture' # Picture /\ ~ searching' => needs_redraw']_vars
<1> SUFFICES ASSUME [Next]_vars, Picture' # Picture, ~ searching' PROVE needs_redraw'
  OBVIOUS
<1>1. ~ UNCHANGED <<snake, food, score, game_over>>
  BY DEF Picture
<1>2. CASE snake_init
  BY <1>2 DEF snake_init
<1>3. CASE snake_update
  <2>1. CASE Crash
    BY <2>1 DEF Crash
  <2>2. CASE Advance
    <3>1. needs_redraw' = (needs_redraw \/ ~ searching')
      BY <2>2 DEF Advance
    <3> QED
      BY <3>1
  <2>3. CASE UNCHANGED <<snake, food, score, game_over>>
    BY <1>1, <2>3
  <2> QED
    BY <1>3, <2>1, <2>2, <2>3 DEF snake_update
<1>4. CASE snake_draw
  BY <1>1, <1>4 DEF snake_draw
<1>5. CASE snake_input
  BY <1>1, <1>2, <1>5 DEF snake_input
<1>6. CASE snake_special_input
  BY <1>1, <1>6 DEF snake_special_input, flags
<1>7. CASE UNCHANGED vars
  BY <1>1, <1>7 DEF vars, flags
<1> QED
  BY <1>2, <1>3, <1>4, <1>5, <1>6, <1>7 DEF Next

\* Every step that changes what a game shows asks for it to be drawn.
THEOREM ChangesAreDrawn == Spec => PictureIsDrawn
BY DrawnStep, PTL DEF Spec, PictureIsDrawn

-----------------------------------------------------------------------------
\* The snake's path, of any sequence of cells; and a path whose end is not
\* doubled.
Directions == {UP, DOWN, LEFT, RIGHT}
From(c, d) == <<d[1] - c[1], d[2] - c[2]>>
Distinct(s) == \A i, j \in 1 .. Len(s) : i < j => s[i] # s[j]
Connected(s) == \A i \in 1 .. Len(s) - 1 : From(s[i], s[i + 1]) \in Directions
Strict(s) == (\A i \in 1 .. Len(s) : s[i] \in Field) /\ Distinct(s) /\ Connected(s)
PathOf(s) ==
    /\ \A i \in 1 .. Len(s) : s[i] \in Field
    /\ \A i, j \in 1 .. Len(s) : i < j /\ s[i] = s[j] => i = Len(s) - 1 /\ j = Len(s)
    /\ \A i \in 1 .. Len(s) - 1 :
          From(s[i], s[i + 1]) \in Directions \/ (i = Len(s) - 1 /\ s[i] = s[i + 1])

LEMMA PathIsPathOf ==
    ASSUME NEW S, snake \in Seq(S)
    PROVE  PathOf(snake) => SnakeIsPath
<1> SUFFICES ASSUME PathOf(snake) PROVE SnakeIsPath
  OBVIOUS
<1>1. DOMAIN snake = 1 .. Len(snake)
  BY LenProperties
<1>2. Range(snake) \subseteq Field
  BY <1>1, Zenon DEF PathOf, Range
<1>3. \A i, j \in DOMAIN snake :
         i < j /\ snake[i] = snake[j] => i = Len(snake) - 1 /\ j = Len(snake)
  BY <1>1, Zenon DEF PathOf
<1>4. \A i \in 1 .. Len(snake) - 1 :
         \/ <<snake[i + 1][1] - snake[i][1], snake[i + 1][2] - snake[i][2]>>
               \in {UP, DOWN, LEFT, RIGHT}
         \/ i = Len(snake) - 1 /\ snake[i] = snake[i + 1]
  BY Zenon DEF PathOf, From, Directions
<1> QED
  BY <1>2, <1>3, <1>4, Zenon DEF SnakeIsPath

LEMMA StrictIsPath ==
    ASSUME NEW s, Strict(s)
    PROVE  PathOf(s)
BY DEF Strict, Distinct, Connected, PathOf

\* A snake that moves to a free cell beside its head is a path, its doubled end,
\* if it had one, left behind.
LEMMA MovedPath ==
    ASSUME NEW s \in Seq(Cell), s # << >>, PathOf(s),
           NEW head \in Field, head \in Cell, NEW dir \in Directions,
           head = <<s[1][1] + dir[1], s[1][2] + dir[2]>>,
           \A i \in 2 .. Len(s) : s[i] # head,
           NEW moved, moved = <<head>> \o SubSeq(s, 1, Len(s) - 1)
    PROVE  Strict(moved) /\ moved \in Seq(Cell) /\ Len(moved) = Len(s)
<1> DEFINE L == Len(s)
<1>1. L \in Nat \ {0} /\ s[1] \in Cell
  BY EmptySeq, ElementOfSeq
<1>2. /\ moved \in Seq(Cell) /\ Len(moved) = L
      /\ moved[1] = head
      /\ \A i \in 2 .. L : moved[i] = s[i - 1]
  BY MovedCells
<1> HIDE DEF L
<1>3. PICK x \in Int, y \in Int : s[1] = <<x, y>>
  BY <1>1 DEF Cell
<1>4. head = <<x + dir[1], y + dir[2]>>
  BY <1>3
<1>5. head # s[1] /\ From(head, s[1]) \in Directions
  BY <1>3, <1>4 DEF Directions, UP, DOWN, LEFT, RIGHT, From
<1>6. \A i \in 1 .. L : s[i] \in Field /\ s[i] # head
  <2> SUFFICES ASSUME NEW i \in 1 .. L PROVE s[i] \in Field /\ s[i] # head
    OBVIOUS
  <2>1. i = 1 \/ i \in 2 .. L
    BY <1>1
  <2> QED
    BY <1>5, <2>1 DEF PathOf, L
<1>7. \A i \in 1 .. L : moved[i] \in Field
  <2> SUFFICES ASSUME NEW i \in 1 .. L, i # 1 PROVE moved[i] \in Field
    BY <1>2
  <2>1. i \in 2 .. L /\ i - 1 \in 1 .. L
    BY <1>1
  <2> QED
    BY <1>2, <1>6, <2>1
<1>8. ASSUME NEW i \in 1 .. L, NEW j \in 1 .. L, i < j
      PROVE  moved[i] # moved[j]
  <2>1. j \in 2 .. L /\ j - 1 \in 1 .. L /\ j - 1 # L
    BY <1>1, <1>8
  <2>2. moved[j] = s[j - 1]
    BY <1>2, <2>1
  <2>3. CASE i = 1
    BY <1>2, <1>6, <2>1, <2>2, <2>3
  <2>4. CASE i # 1
    <3>1. i \in 2 .. L /\ i - 1 \in 1 .. L /\ i - 1 < j - 1
      BY <1>1, <1>8, <2>4
    <3>2. moved[i] = s[i - 1]
      BY <1>2, <3>1
    <3>3. s[i - 1] # s[j - 1]
      BY <2>1, <3>1 DEF PathOf, L
    <3> QED
      BY <2>2, <3>2, <3>3
  <2> QED
    BY <2>3, <2>4
<1>9. ASSUME NEW i \in 1 .. L - 1
      PROVE  From(moved[i], moved[i + 1]) \in Directions
  <2>1. i + 1 \in 2 .. L /\ i + 1 - 1 = i
    BY <1>1, <1>9
  <2>2. moved[i + 1] = s[i]
    BY <1>2, <2>1
  <2>3. CASE i = 1
    BY <1>2, <1>5, <2>2, <2>3
  <2>4. CASE i # 1
    <3>1. i \in 2 .. L /\ i - 1 \in 1 .. L - 1 /\ i - 1 # L - 1 /\ i - 1 + 1 = i
      BY <1>1, <1>9, <2>4
    <3>2. moved[i] = s[i - 1]
      BY <1>2, <3>1
    <3>3. From(s[i - 1], s[i - 1 + 1]) \in Directions
      BY <3>1 DEF PathOf, L
    <3> QED
      BY <2>2, <3>1, <3>2, <3>3
  <2> QED
    BY <2>3, <2>4
<1>10. Distinct(moved) /\ Connected(moved)
  BY <1>2, <1>8, <1>9 DEF Distinct, Connected
<1> QED
  BY <1>2, <1>7, <1>10 DEF Strict, L

\* The segment that food adds lies on the last until the next move.
LEMMA GrownPath ==
    ASSUME NEW s \in Seq(Cell), s # << >>, Strict(s)
    PROVE  PathOf(Append(s, Last(s)))
<1> DEFINE t == Append(s, Last(s))
           L == Len(s)
<1>1. L \in Nat \ {0} /\ Last(s) = s[L] /\ s[L] \in Cell
  BY EmptySeq, ElementOfSeq DEF Last
<1>2. Len(t) = L + 1 /\ (\A i \in 1 .. L : t[i] = s[i]) /\ t[L + 1] = s[L]
  BY <1>1, AppendProperties
<1> HIDE DEF t, L
<1>3. \A i \in 1 .. L + 1 : i \in 1 .. L \/ i = L + 1
  BY <1>1
<1>4. \A i \in 1 .. L : s[i] \in Field
  BY DEF Strict, L
<1>5. \A i \in 1 .. L + 1 : t[i] \in Field
  BY <1>1, <1>2, <1>3, <1>4
<1>6. ASSUME NEW i \in 1 .. L + 1, NEW j \in 1 .. L + 1, i < j, t[i] = t[j]
      PROVE  i = L /\ j = L + 1
  <2>1. i \in 1 .. L
    BY <1>1, <1>6
  <2>2. CASE j \in 1 .. L
    BY <1>2, <1>6, <2>1, <2>2 DEF Strict, Distinct, L
  <2>3. CASE j = L + 1
    <3>1. s[i] = s[L]
      BY <1>2, <1>6, <2>1, <2>3
    <3>2. L \in 1 .. L /\ (i = L \/ i < L)
      BY <1>1, <2>1
    <3> QED
      BY <2>1, <2>3, <3>1, <3>2 DEF Strict, Distinct, L
  <2> QED
    BY <1>3, <2>2, <2>3
<1>7. ASSUME NEW i \in 1 .. L
      PROVE  From(t[i], t[i + 1]) \in Directions \/ (i = L /\ t[i] = t[i + 1])
  <2>1. CASE i = L
    BY <1>1, <1>2, <2>1
  <2>2. CASE i # L
    <3>1. i \in 1 .. L - 1 /\ i + 1 \in 1 .. L
      BY <1>1, <2>2
    <3>2. t[i] = s[i] /\ t[i + 1] = s[i + 1]
      BY <1>2, <3>1
    <3> QED
      BY <3>1, <3>2 DEF Strict, Connected, L
  <2> QED
    BY <2>1, <2>2
<1>8. Len(t) = L + 1 /\ Len(t) - 1 = L
  BY <1>1, <1>2
<1>9. PathOf(t)
  BY <1>5, <1>6, <1>7, <1>8, Zenon DEF PathOf
<1> QED
  BY <1>9 DEF t


-----------------------------------------------------------------------------
\* What SnakeIsPath rests on: the head always moves to a neighbour.
PathInv ==
    /\ snake \in Seq(Cell)
    /\ snake # << >> => heading \in Directions
    /\ game_running => snake # << >>
    /\ PathOf(snake)

LEMMA PathInit == Init => PathInv
<1> SUFFICES ASSUME Init PROVE PathInv
  OBVIOUS
<1>1. snake = << >> /\ ~ game_running
  BY DEF Init
<1>2. snake \in Seq(Cell) /\ Len(snake) = 0
  BY <1>1, EmptySeq
<1>3. PathOf(snake)
  BY <1>2 DEF PathOf
<1> QED
  BY <1>1, <1>2, <1>3 DEF PathInv

\* The first snake lies in the middle of the field, which has room for it.
LEMMA PathStart ==
    ASSUME snake_init
    PROVE  PathInv'
<1> DEFINE x == GRID_WIDTH \div 2
           y == GRID_HEIGHT \div 2
           s == [i \in 1 .. 3 |-> <<x - (i - 1), y>>]
<1>1. x \in 3 .. GRID_WIDTH - 2 /\ y \in 1 .. GRID_HEIGHT - 2 
      /\ GRID_WIDTH \in Nat /\ GRID_HEIGHT \in Nat
  BY GridAssumption
<1>2. snake' = s /\ heading' = RIGHT
  BY DEF snake_init
<1> HIDE DEF x, y
<1>3. \A i \in 1 .. 3 : <<x - (i - 1), y>> \in Cell
  BY <1>1 DEF Cell
<1>4. \A i \in 1 .. 3 : <<x - (i - 1), y>> \in Field
  <2>1. \A i \in 1 .. 3 : x - (i - 1) \in 1 .. GRID_WIDTH - 2
    BY <1>1
  <2> QED
    BY <1>1, <2>1 DEF Field
<1>5. s \in Seq(Cell) /\ Len(s) = 3
  BY <1>3
<1>6. \A i \in 1 .. 3 : s[i] = <<x - (i - 1), y>>
  OBVIOUS
<1> HIDE DEF s
<1>7. s # << >>
  BY <1>5
<1>8. \A i \in 1 .. Len(s) : s[i] \in Field
  BY <1>4, <1>5, <1>6
<1>9. Distinct(s)
  BY <1>1, <1>5, <1>6 DEF Distinct
<1>10. Connected(s)
  <2> SUFFICES ASSUME NEW i \in 1 .. 2 PROVE From(s[i], s[i + 1]) \in Directions
    BY <1>5 DEF Connected
  <2>1. s[i] = <<x - (i - 1), y>> /\ s[i + 1] = <<x - (i + 1 - 1), y>>
    BY <1>6
  <2>2. From(s[i], s[i + 1]) = LEFT
    BY <1>1, <2>1 DEF From, LEFT
  <2> QED
    BY <2>2 DEF Directions
<1>11. PathOf(s)
  BY <1>8, <1>9, <1>10, StrictIsPath DEF Strict
<1> QED
  BY <1>2, <1>5, <1>7, <1>11 DEF PathInv, Directions

\* A move without a collision, with or without food.
LEMMA PathAdvance ==
    ASSUME PathInv, game_running, UNCHANGED game_running, ~ Collision, Advance
    PROVE  PathInv'
<1> DEFINE moved == <<NewHead>> \o SubSeq(snake, 1, Len(snake) - 1)
<1>1. /\ snake \in Seq(Cell) /\ snake # << >> /\ heading \in Directions /\ PathOf(snake)
  BY DEF PathInv
<1>2. NewHead \in Field /\ \A i \in 2 .. Len(snake) : snake[i] # NewHead
  BY DEF Collision
<1>3. Field \subseteq Cell
  BY GridAssumption DEF Field, Cell
<1>4. NewHead \in Cell
  BY <1>2, <1>3
<1>5. NewHead = <<snake[1][1] + heading[1], snake[1][2] + heading[2]>>
  BY DEF NewHead
<1> HIDE DEF NewHead
<1>6. Strict(moved) /\ moved \in Seq(Cell) /\ Len(moved) = Len(snake)
  BY <1>1, <1>2, <1>4, <1>5, MovedPath
<1>7. snake' \in {moved, Append(moved, Last(moved))} /\ heading' = heading
  BY DEF Advance
<1> HIDE DEF moved
<1>8. moved # << >>
  BY <1>1, <1>6, EmptySeq
<1>9. snake' \in Seq(Cell) /\ snake' # << >> /\ PathOf(snake')
  BY <1>6, <1>7, <1>8, GrownSnake, GrownPath, StrictIsPath
<1> QED
  BY <1>1, <1>7, <1>9 DEF PathInv

\* A step that leaves the snake, or turns it.
LEMMA PathKept ==
    ASSUME PathInv, UNCHANGED snake, game_running' => game_running,
           heading' = heading \/ heading' \in Directions
    PROVE  PathInv'
BY DEF PathInv, PathOf

LEMMA PathStep == PathInv /\ [Next]_vars => PathInv'
<1> SUFFICES ASSUME PathInv, [Next]_vars PROVE PathInv'
  OBVIOUS
<1>1. CASE snake_init
  BY <1>1, PathStart
<1>2. CASE snake_update
  <2>1. game_running /\ game_running' = game_running
    BY <1>2 DEF snake_update
  <2>2. CASE UNCHANGED <<snake, heading>>
    BY <2>1, <2>2, PathKept
  <2>3. CASE ~ Collision /\ Advance
    BY <2>1, <2>3, PathAdvance
  <2>4. CASE Crash
    BY <2>1, <2>4, PathKept DEF Crash
  <2> QED
    BY <1>2, <2>2, <2>3, <2>4 DEF snake_update
<1>3. CASE snake_draw
  BY <1>3, PathKept DEF snake_draw
<1>4. CASE snake_input
  <2>1. CASE game_running' = FALSE /\ UNCHANGED <<snake, heading>>
    BY <2>1, PathKept
  <2> QED
    BY <1>1, <1>4, <2>1 DEF snake_input
<1>5. CASE snake_special_input
  BY <1>5, PathKept DEF snake_special_input, flags, Directions
<1>6. CASE UNCHANGED vars
  BY <1>6, PathKept DEF vars, flags
<1> QED
  BY <1>1, <1>2, <1>3, <1>4, <1>5, <1>6 DEF Next

\* On any field, with any keys between its moves, the snake is a path without a
\* crossing, but for the segment it has just grown.
THEOREM SnakeStaysPath == Spec => []SnakeIsPath
<1>1. Init => PathInv
  BY PathInit
<1>2. PathInv /\ [Next]_vars => PathInv'
  BY PathStep
<1>3. PathInv => SnakeIsPath
  BY PathIsPathOf DEF PathInv
<1> QED
  BY <1>1, <1>2, <1>3, PTL DEF Spec

-----------------------------------------------------------------------------
(***************************************************************************)
(* How long a snake is that covers all the cells the generator draws from  *)
(* one tick count: those cells lie apart, so between two of them on the    *)
(* path there is another.                                                  *)
(***************************************************************************)

\* The odd or the even numbers up to an even one.
OfParity(m, t) == {x \in 1 .. 2 * m : x % 2 = t}

LEMMA ParityCount ==
    ASSUME NEW m \in Nat, NEW t \in 0 .. 1
    PROVE  IsFiniteSet(OfParity(m, t)) /\ Cardinality(OfParity(m, t)) = m
<1> DEFINE X == OfParity(m, t)
           f == [j \in 1 .. m |-> 2 * j - t]
<1>1. \A j \in 1 .. m : 2 * j - t \in X
  BY DEF OfParity
<1>2. f \in [1 .. m -> X]
  BY <1>1
<1>3. \A i, j \in 1 .. m : f[i] = f[j] => i = j
  OBVIOUS
<1>4. ASSUME NEW x \in X PROVE \E j \in 1 .. m : f[j] = x
  <2>1. x \in 1 .. 2 * m /\ x % 2 = t
    BY DEF OfParity
  <2>2. (x + t) \div 2 \in 1 .. m /\ 2 * ((x + t) \div 2) - t = x
    BY <2>1
  <2> QED
    BY <2>2
<1> HIDE DEF f, X
<1>5. f \in Bijection(1 .. m, X)
  BY <1>2, <1>3, <1>4 DEF Bijection, Injection, Surjection, IsInjective
<1>6. IsFiniteSet(1 .. m) /\ Cardinality(1 .. m) = m
  BY FS_Interval
<1>7. IsFiniteSet(X) /\ Cardinality(X) = m
  BY <1>5, <1>6, FS_Bijection DEF ExistsBijection
<1> QED
  BY <1>7 DEF X

\* The cells drawn from one tick count: every second of every second row.
LEMMA FoodCount ==
    ASSUME NEW t \in 0 .. 1
    PROVE  /\ IsFiniteSet(FoodCells(t))
           /\ 2 * Cardinality(FoodCells(t)) = (GRID_WIDTH - 2) * ((GRID_HEIGHT - 2) \div 2)
<1> DEFINE w == (GRID_WIDTH - 2) \div 2
           h == (GRID_HEIGHT - 2) \div 2
<1>1. w \in Nat /\ h \in Nat /\ GRID_WIDTH - 2 = 2 * w /\ GRID_HEIGHT - 2 = 2 * h
  BY GridAssumption
<1> HIDE DEF w, h
<1>2. FoodCells(t) = OfParity(w, t) \X OfParity(h, 1 - t)
  <2>1. \A y \in 1 .. 2 * h : y % 2 # t <=> y % 2 = 1 - t
    BY <1>1
  <2>2. Field = (1 .. 2 * w) \X (1 .. 2 * h)
    BY <1>1 DEF Field
  <2> QED
    BY <2>1, <2>2 DEF FoodCells, OfParity
<1>3. 1 - t \in 0 .. 1
  OBVIOUS
<1>4. /\ IsFiniteSet(OfParity(w, t)) /\ Cardinality(OfParity(w, t)) = w
      /\ IsFiniteSet(OfParity(h, 1 - t)) /\ Cardinality(OfParity(h, 1 - t)) = h
  BY <1>1, <1>3, ParityCount
<1>5. IsFiniteSet(FoodCells(t)) /\ Cardinality(FoodCells(t)) = w * h
  BY <1>2, <1>4, FS_Product
<1>6. 2 * (w * h) = (2 * w) * h
  BY <1>1
<1>7. 2 * Cardinality(FoodCells(t)) = (GRID_WIDTH - 2) * h
  BY <1>1, <1>5, <1>6
<1> QED
  BY <1>5, <1>7 DEF h

\* Of two neighbours one is not such a cell.
LEMMA FoodApart ==
    ASSUME NEW t \in 0 .. 1, NEW c \in FoodCells(t), NEW d \in FoodCells(t)
    PROVE  From(c, d) \notin Directions
<1>1. /\ c[1] \in Int /\ c[2] \in Int /\ d[1] \in Int /\ d[2] \in Int
      /\ c[1] % 2 = t /\ d[1] % 2 = t /\ c[2] % 2 # t /\ d[2] % 2 # t
  BY GridAssumption DEF FoodCells, Field
<1>2. d[1] - c[1] \notin {-1, 1} /\ d[2] - c[2] \notin {-1, 1}
  BY <1>1
<1> QED
  BY <1>2 DEF From, Directions, UP, DOWN, LEFT, RIGHT

\* A path that covers them all has at least that many cells between them.
LEMMA PathCovers ==
    ASSUME NEW s \in Seq(Cell), PathOf(s), NEW t \in 0 .. 1, FoodCells(t) \subseteq Range(s)
    PROVE  Cardinality(Range(s)) >= 2 * Cardinality(FoodCells(t)) - 1
<1> DEFINE F == FoodCells(t)
           n == Len(s)
           len == IF n > 1 /\ s[n - 1] = s[n] THEN n - 1 ELSE n
           D == 1 .. len
           P == {i \in D : s[i] \in F}
           Q == {i + 1 : i \in P}
<1>1. n \in Nat /\ DOMAIN s = 1 .. n /\ len \in Nat /\ len <= n /\ len \in {n - 1, n}
  BY LenProperties
<1>2. /\ len = n - 1 => n > 1 /\ s[n - 1] = s[n]
      /\ len = n => ~ (n > 1 /\ s[n - 1] = s[n])
  <2> HIDE DEF n
  <2>1. CASE n > 1 /\ s[n - 1] = s[n]
    <3>1. len = n - 1 /\ n - 1 # n
      BY <1>1, <2>1
    <3> QED
      BY <2>1, <3>1
  <2>2. CASE ~ (n > 1 /\ s[n - 1] = s[n])
    <3>1. len = n /\ n - 1 # n
      BY <1>1, <2>2
    <3> QED
      BY <2>2, <3>1
  <2> QED
    BY <2>1, <2>2
<1> HIDE DEF n, len
<1>3. \A i, j \in D : s[i] = s[j] => i = j
  <2>1. ASSUME NEW i \in D, NEW j \in D, i < j PROVE s[i] # s[j]
    <3>1. i \in 1 .. n /\ j \in 1 .. n
      BY <1>1
    <3>2. \A k, l \in 1 .. n : k < l /\ s[k] = s[l] => k = n - 1 /\ l = n
      BY DEF PathOf, n
    <3>3. s[i] = s[j] => i = n - 1 /\ j = n
      BY <2>1, <3>1, <3>2
    <3>4. j = n => len = n
      BY <1>1, <2>1
    <3>5. i = n - 1 /\ j = n => n > 1
      BY <1>1, <3>1
    <3> QED
      BY <1>2, <3>3, <3>4, <3>5
  <2>2. \A i, j \in D : i < j \/ i = j \/ j < i
    BY <1>1
  <2> QED
    BY <2>1, <2>2
<1>4. Range(s) = {s[i] : i \in D}
  <2>1. \A i \in 1 .. n : \E j \in D : s[j] = s[i]
    <3> SUFFICES ASSUME NEW i \in 1 .. n PROVE \E j \in D : s[j] = s[i]
      OBVIOUS
    <3>1. CASE i \in D
      BY <3>1
    <3>2. CASE i \notin D
      <4>1. len = n - 1 /\ i = n
        BY <1>1, <3>2
      <4>2. n - 1 \in D
        BY <1>1, <1>2, <4>1
      <4> QED
        BY <1>2, <4>1, <4>2
    <3> QED
      BY <3>1, <3>2
  <2>2. D \subseteq 1 .. n
    BY <1>1
  <2>3. Range(s) = {s[i] : i \in 1 .. n}
    BY <1>1 DEF Range
  <2> HIDE DEF D
  <2> QED
    BY <2>1, <2>2, <2>3
<1>5. Cardinality(Range(s)) = len /\ IsFiniteSet(D) /\ Cardinality(D) = len
  <2> DEFINE f == [i \in D |-> s[i]]
  <2>1. IsFiniteSet(D) /\ Cardinality(D) = len
    BY <1>1, FS_Interval
  <2> HIDE DEF D
  <2>2. f \in Bijection(D, Range(s))
    BY <1>3, <1>4 DEF Bijection, Injection, Surjection, IsInjective
  <2> HIDE DEF f
  <2>3. ExistsBijection(D, Range(s))
    BY <2>2 DEF ExistsBijection
  <2> QED
    BY <2>1, <2>3, FS_Bijection
<1>6. IsFiniteSet(P) /\ Cardinality(P) = Cardinality(F)
  <2> DEFINE f == [i \in P |-> s[i]]
  <2>1. IsFiniteSet(P)
    BY <1>5, FS_Subset
  <2>2. \A c \in F : \E i \in P : s[i] = c
    BY <1>4
  <2> HIDE DEF D, F
  <2>3. P \subseteq D /\ \A i \in P : s[i] \in F
    OBVIOUS
  <2> HIDE DEF P
  <2>4. f \in Bijection(P, F)
    BY <1>3, <2>2, <2>3 DEF Bijection, Injection, Surjection, IsInjective
  <2> HIDE DEF f
  <2>5. ExistsBijection(P, F)
    BY <2>4 DEF ExistsBijection
  <2> QED
    BY <2>1, <2>5, FS_Bijection
<1>7. IsFiniteSet(Q) /\ Cardinality(Q) = Cardinality(P)
  <2> DEFINE f == [i \in P |-> i + 1]
  <2>1. P \subseteq Int
    BY <1>1
  <2> HIDE DEF P
  <2>2. f \in Bijection(P, Q)
    BY <2>1 DEF Bijection, Injection, Surjection, IsInjective
  <2> HIDE DEF f, Q
  <2>3. ExistsBijection(P, Q)
    BY <2>2 DEF ExistsBijection
  <2> QED
    BY <1>6, <2>3, FS_Bijection
<1>8. P \cap Q = {}
  <2> SUFFICES ASSUME NEW i \in P, i + 1 \in P PROVE FALSE
    OBVIOUS
  <2>1. /\ i \in D /\ i + 1 \in D /\ s[i] \in F /\ s[i + 1] \in F
        /\ i \in 1 .. n - 1
    BY <1>1
  <2>2. From(s[i], s[i + 1]) \notin Directions
    BY <2>1, FoodApart
  <2>3. s[i] # s[i + 1]
    <3>1. i # i + 1
      BY <2>1
    <3> QED
      BY <1>3, <2>1, <3>1
  <2> QED
    BY <2>1, <2>2, <2>3 DEF PathOf, n
<1>9. P \cup Q \subseteq 1 .. len + 1
  BY <1>1
<1>10. Cardinality(P \cup Q) <= len + 1 /\ IsFiniteSet(P \cup Q)
  <2>1. IsFiniteSet(1 .. len + 1) /\ Cardinality(1 .. len + 1) = len + 1
    BY <1>1, FS_Interval
  <2> HIDE DEF P, Q
  <2> QED
    BY <1>9, <2>1, FS_Subset
<1> HIDE DEF P, Q, D
<1>11. Cardinality(P \cup Q) = Cardinality(P) + Cardinality(Q)
  <2>1. Cardinality(P \cup Q) = Cardinality(P) + Cardinality(Q) - Cardinality(P \cap Q)
    BY <1>6, <1>7, FS_Union
  <2>2. Cardinality(P \cap Q) = 0
    BY <1>8, FS_EmptySet
  <2>3. Cardinality(P) \in Nat /\ Cardinality(Q) \in Nat
    BY <1>6, <1>7, FS_CardinalityType
  <2> QED
    BY <2>1, <2>2, <2>3
<1>12. Cardinality(F) \in Nat
  BY <1>6, FS_CardinalityType
<1> HIDE DEF F
<1>13. Cardinality(F) + Cardinality(F) <= len + 1
  BY <1>6, <1>7, <1>10, <1>11
<1>14. len >= 2 * Cardinality(F) - 1
  BY <1>1, <1>12, <1>13
<1> QED
  BY <1>5, <1>14 DEF F

\* A search that cannot end: a snake on every cell the generator draws.
Covered == \E t \in 0 .. 1 : FoodCells(t) \subseteq Range(snake)
SearchInv == PathInv /\ (searching => Covered)

LEMMA SearchStep == SearchInv /\ [Next]_vars => SearchInv'
<1> SUFFICES ASSUME SearchInv, [Next]_vars PROVE SearchInv'
  OBVIOUS
<1>1. PathInv'
  BY PathStep DEF SearchInv
<1>2. ASSUME ~ searching, spawn_food(snake') PROVE searching' => Covered'
  BY <1>2 DEF spawn_food, Covered, FoodCells
<1>3. CASE UNCHANGED vars
  BY <1>1, <1>3 DEF vars, SearchInv, Covered
<1>4. CASE ~ searching /\ snake_init
  BY <1>1, <1>2, <1>4 DEF snake_init, SearchInv
<1>5. CASE ~ searching /\ snake_update
  BY <1>1, <1>2, <1>5 DEF snake_update, Advance, Crash, SearchInv
<1>6. CASE ~ searching /\ (snake_draw \/ snake_input \/ snake_special_input)
  BY <1>1, <1>2, <1>6 DEF snake_draw, snake_input, snake_special_input, snake_init, SearchInv
<1> QED
  BY <1>3, <1>4, <1>5, <1>6 DEF Next

\* On any field the kernel searches for food without end only under a snake
\* that has a cell on every second column of every second row and one between
\* each two of those.
THEOREM SearchEndsWhileShort == Spec => []SearchEnds
<1>1. Init => SearchInv
  BY PathInit DEF SearchInv, Init
<1>2. SearchInv /\ [Next]_vars => SearchInv'
  BY SearchStep
<1>3. ASSUME SearchInv PROVE SearchEnds
  <2> SUFFICES ASSUME searching
               PROVE  Cardinality(Range(snake))
                        >= (GRID_WIDTH - 2) * ((GRID_HEIGHT - 2) \div 2) - 1
    BY DEF SearchEnds
  <2>1. PICK t \in 0 .. 1 : FoodCells(t) \subseteq Range(snake)
    BY <1>3 DEF SearchInv, Covered
  <2>2. Cardinality(Range(snake)) >= 2 * Cardinality(FoodCells(t)) - 1
    BY <1>3, <2>1, PathCovers DEF SearchInv, PathInv
  <2> QED
    BY <2>2, FoodCount
<1> QED
  BY <1>1, <1>2, <1>3, PTL DEF Spec
=============================================================================
