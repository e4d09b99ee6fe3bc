---------------------------- MODULE GamesProofs ----------------------------
(***************************************************************************)
(* Proofs about the two games of events_quweidonghua.c.                    *)
(*                                                                         *)
(* Snake, for every field.  What makes the invariant inductive             *)
(* is that the head lies one step in direction dir from the neck while the *)
(* game runs (so a turn that is not the opposite cannot reach the neck),   *)
(* and a counting argument: a snake of distinct cells that is about to     *)
(* enter another cell of the field is shorter than the field.              *)
(*                                                                         *)
(* Game2048, for every size of the board.  The loops of compress_line are  *)
(* taken round by round.  board_has_move agrees with the moves because a   *)
(* line stays only when it is full and has no equal neighbours.  The score *)
(* is a weight: compacting a line leaves the sum of any weights of its     *)
(* tiles, and a merge changes it by the sum's weight less those of the two *)
(* tiles.  That the sum still is a tile the board has room for is another  *)
(* weight, which counts the cells with at least 2^k.  The rules are the    *)
(* loop invariant of the merging: behind round i the line is as the rules  *)
(* say, ahead of it as it was.                                             *)
(***************************************************************************)
EXTENDS Snake, Game2048, FiniteSetTheorems, SequenceTheorems, WellFoundedInduction, TLAPS

Distinct(s) == \A i, j \in DOMAIN s : s[i] = s[j] => i = j
Connected(s) == \A i \in 1..(Len(s) - 1) : \E d \in Dirs : s[i] = Ahead(s[i + 1], d)

\* A snake of cells of the field that may be drawn in one stroke.
GoodSnake(s) == s \in Seq(Cells) /\ Distinct(s) /\ Connected(s)

\* Once a game was begun: its length, its score, and where the neck is.
GameInv ==
    timer # "none" =>
        /\ Len(snake) >= StartLen
        /\ score = 10 * (Len(snake) - StartLen)
        /\ over = 0 => snake[1] = Ahead(snake[2], dir)

SnakeInv == SnakeTypeOK /\ GoodSnake(snake) /\ FoodIsFree /\ GameInv

-----------------------------------------------------------------------------
\* A function on 1..n is a sequence of length n.
LEMMA FunctionIsSeq ==
    ASSUME NEW S, NEW n \in Nat, NEW f \in [1..n -> S]
    PROVE  f \in Seq(S) /\ Len(f) = n /\ DOMAIN f = 1..n
  <1>1. f \in Seq(S)
    BY SeqDef
  <1>2. DOMAIN f = 1..n /\ DOMAIN f = 1..Len(f) /\ Len(f) \in Nat
    BY <1>1, LenProperties
  <1> QED
    BY <1>1, <1>2

\* The corner is a cell, and so is every place of the food.
LEMMA CornerIsCell == Corner \in Cells
  BY SnakeAssumption DEF Corner, Cells

\* The steps from a cell are in the plane, and two opposite steps cancel.
LEMMA AheadTurn ==
    ASSUME NEW c \in Int \X Int, NEW d \in Dirs, NEW e \in Dirs
    PROVE  /\ Ahead(c, d) \in Int \X Int
           /\ Turned(d, e) \in Dirs
           /\ Ahead(Ahead(c, d), Turned(d, e)) # c
  BY DEF Ahead, Turned, Dirs

\* Two cells apart by one step are apart by the opposite step.
LEMMA AheadBack ==
    ASSUME NEW c \in Int \X Int, NEW d \in Dirs
    PROVE  c = Ahead(Ahead(c, d), (d + 2) % 4) /\ (d + 2) % 4 \in Dirs
  BY DEF Ahead, Dirs

\* Pigeonhole: distinct cells that miss one cell of the field do not fill it.
LEMMA RoomToGrow ==
    ASSUME NEW s \in Seq(Cells), Distinct(s), NEW h \in Cells, h \notin Body(s)
    PROVE  Len(s) < MaxLen
  <1> DEFINE W == 0..(Cols - 1)
             H == 0..(Rows - 1)
  <1>1. IsFiniteSet(W) /\ Cardinality(W) = Cols /\ IsFiniteSet(H) /\ Cardinality(H) = Rows
    <2>1. Cols \in Nat /\ Rows \in Nat
      BY SnakeAssumption
    <2>2. IsFiniteSet(W) /\ IsFiniteSet(H)
      BY <2>1, FS_Interval
    <2>3. Cardinality(W) = IF 0 > Cols - 1 THEN 0 ELSE (Cols - 1) - 0 + 1
      BY <2>1, FS_Interval
    <2>4. Cardinality(H) = IF 0 > Rows - 1 THEN 0 ELSE (Rows - 1) - 0 + 1
      BY <2>1, FS_Interval
    <2> QED
      BY <2>1, <2>2, <2>3, <2>4
  <1>2. IsFiniteSet(Cells) /\ Cardinality(Cells) = Cols * Rows
    BY <1>1, FS_Product DEF Cells
  <1>3. IsFiniteSet(Cells \ {h}) /\ Cardinality(Cells \ {h}) = Cols * Rows - 1
    BY <1>2, FS_RemoveElement
  <1>4. Len(s) \in Nat /\ s \in [1..Len(s) -> Cells] /\ DOMAIN s = 1..Len(s)
    BY LenProperties
  <1>5. s \in [1..Len(s) -> Cells \ {h}]
    BY <1>4 DEF Body
  <1>6. s \in Injection(1..Len(s), Cells \ {h})
    BY <1>4, <1>5 DEF Injection, IsInjective, Distinct
  <1>7. Cardinality(1..Len(s)) = Len(s)
    BY <1>4, FS_Interval
  <1>8. Len(s) <= Cols * Rows - 1
    BY <1>3, <1>6, <1>7, FS_Injection
  <1>9. Cols * Rows \in Int
    BY SnakeAssumption
  <1> QED
    BY <1>4, <1>8, <1>9 DEF MaxLen

\* The snake of a new game: four cells in a row, the head in direction 1.
LEMMA NewSnakeIsGood ==
    /\ GoodSnake(NewSnake) /\ Len(NewSnake) = StartLen
    /\ NewSnake[1] = Ahead(NewSnake[2], 1)
  <1>1. NewSnake \in [1..StartLen -> Cells]
    BY SnakeAssumption DEF NewSnake, StartLen, Cells
  <1>2. NewSnake \in Seq(Cells) /\ Len(NewSnake) = StartLen /\ DOMAIN NewSnake = 1..StartLen
    BY <1>1, FunctionIsSeq DEF StartLen
  <1>3. Distinct(NewSnake)
    BY <1>2, SnakeAssumption DEF Distinct, NewSnake, StartLen
  <1>4. \A i \in 1..(StartLen - 1) : NewSnake[i] = Ahead(NewSnake[i + 1], 1)
    BY SnakeAssumption DEF NewSnake, StartLen, Ahead
  <1> QED
    BY <1>2, <1>3, <1>4 DEF GoodSnake, Connected, Dirs, StartLen

\* A move to a free neighbouring cell keeps the snake good, one longer if it
\* eats, and moves no other cell.
LEMMA MovedIsGood ==
    ASSUME NEW s, GoodSnake(s), Len(s) > 0, NEW d \in Dirs,
           Ahead(s[1], d) \in Cells, Ahead(s[1], d) \notin Body(s),
           NEW k \in 0..1, NEW t, t = Moved(s, Ahead(s[1], d), k = 1)
    PROVE  /\ GoodSnake(t)
           /\ Len(t) = Len(s) + k
           /\ t[1] = Ahead(s[1], d)
           /\ Len(t) > 1 => t[2] = s[1]
           /\ Body(t) \subseteq Body(s) \cup {t[1]}
  <1> DEFINE h == Ahead(s[1], d)
             n == Len(s) + k
  <1> HIDE DEF h
  <1>0. h \in Cells /\ h \notin Body(s) /\ h = Ahead(s[1], d)
    BY DEF h
  <1>1. s \in Seq(Cells) /\ Len(s) \in Nat /\ DOMAIN s = 1..Len(s) /\ s \in [1..Len(s) -> Cells]
    BY LenProperties DEF GoodSnake
  <1>2. Len(s) < MaxLen
    BY <1>0, <1>1, RoomToGrow DEF GoodSnake
  <1>3. n \in Nat /\ n <= Len(s) + 1 /\ n >= Len(s)
    BY <1>1
  <1>4. t = [i \in 1..n |-> IF i = 1 THEN h ELSE s[i - 1]]
    BY <1>0, <1>1, <1>2 DEF Moved
  <1> HIDE DEF n
  <1>5. t \in [1..n -> Cells]
    BY <1>0, <1>1, <1>3, <1>4
  <1>6. t \in Seq(Cells) /\ Len(t) = n /\ DOMAIN t = 1..n
    BY <1>3, <1>5, FunctionIsSeq
  <1>7. Distinct(t)
    BY <1>0, <1>1, <1>3, <1>4, <1>6 DEF Distinct, GoodSnake, Body
  <1>8. Connected(t)
    <2> SUFFICES ASSUME NEW i \in 1..(Len(t) - 1)
                 PROVE  \E e \in Dirs : t[i] = Ahead(t[i + 1], e)
      BY DEF Connected
    <2>1. i \in 1..n /\ i + 1 \in 1..n /\ i \in Nat /\ t[i + 1] = s[i]
      BY <1>3, <1>4, <1>6
    <2>2. ASSUME i = 1 PROVE t[i] = Ahead(t[i + 1], d)
      BY <1>0, <1>4, <2>1, <2>2
    <2>3. ASSUME i # 1 PROVE t[i] = s[i - 1] /\ i - 1 \in 1..(Len(s) - 1)
      BY <1>1, <1>3, <1>4, <1>6, <2>1, <2>3
    <2>4. ASSUME i # 1 PROVE \E e \in Dirs : s[i - 1] = Ahead(s[(i - 1) + 1], e)
      BY <2>3, <2>4 DEF GoodSnake, Connected
    <2>5. (i - 1) + 1 = i
      BY <2>1
    <2> QED
      BY <2>1, <2>2, <2>3, <2>4, <2>5
  <1>9. t[1] = h /\ (n > 1 => t[2] = s[1])
    BY <1>1, <1>3, <1>4, <1>6
  <1>10. Body(t) \subseteq Body(s) \cup {h}
    BY <1>1, <1>3, <1>4, <1>6 DEF Body
  <1> QED
    BY <1>0, <1>6, <1>7, <1>8, <1>9, <1>10 DEF GoodSnake, n, h

-----------------------------------------------------------------------------
\* A new game establishes all that is said of the game.
LEMMA NewGameInv ==
    ASSUME SnakeInv, snake_new_game
    PROVE  /\ GoodSnake(snake') /\ FoodIsFree' /\ food' \in Cells
           /\ dir' \in Dirs /\ nextDir' \in Dirs /\ score' \in Nat /\ over' \in 0..1
           /\ GameInv'
  <1>1. snake' = NewSnake /\ dir' = 1 /\ nextDir' = 1 /\ score' = 0 /\ over' = 0
    BY DEF snake_new_game
  <1>2. food' \in (Cells \ Body(snake')) \cup {Corner}
    BY DEF snake_new_game, FoodPlaces
  <1>3. GoodSnake(snake')
    BY <1>1, NewSnakeIsGood
  <1>4. GameInv'
    BY <1>1, NewSnakeIsGood DEF GameInv, StartLen
  <1>5. food' \in Cells /\ FoodIsFree'
    BY <1>2, CornerIsCell DEF FoodIsFree
  <1> QED
    BY <1>1, <1>3, <1>4, <1>5 DEF Dirs

\* A step of the snake keeps it, and cannot run into the neck.
LEMMA StepInv ==
    ASSUME SnakeInv, timer = "run", timer' = timer, over = 0, snake_step
    PROVE  /\ GoodSnake(snake') /\ FoodIsFree' /\ food' \in Cells
           /\ dir' \in Dirs /\ nextDir' \in Dirs /\ score' \in Nat /\ over' \in 0..1
           /\ GameInv'
           /\ Ahead(snake[1], dir') # snake[2]
  <1> DEFINE head == Ahead(snake[1], dir')
  <1>1. /\ snake \in Seq(Cells) /\ Len(snake) \in Nat /\ Len(snake) >= 4
        /\ DOMAIN snake = 1..Len(snake) /\ snake[1] \in Cells /\ snake[2] \in Cells
        /\ score = 10 * (Len(snake) - 4) /\ snake[1] = Ahead(snake[2], dir)
        /\ dir \in Dirs /\ nextDir \in Dirs /\ food \in Cells /\ GoodSnake(snake)
    BY LenProperties DEF SnakeInv, SnakeTypeOK, GameInv, StartLen
  <1>2. dir' = Turned(dir, nextDir) /\ nextDir' = nextDir
    BY DEF snake_step
  <1>3. \A c \in Cells : c \in Int \X Int
    BY SnakeAssumption DEF Cells
  <1>4. dir' \in Dirs /\ head # snake[2]
    BY <1>1, <1>2, <1>3, AheadTurn
  <1>5. Crash(head) \/ Advance(head)
    BY DEF snake_step
  <1>6. ASSUME Crash(head)
        PROVE  /\ GoodSnake(snake') /\ FoodIsFree' /\ food' \in Cells
               /\ score' \in Nat /\ over' \in 0..1 /\ GameInv'
    BY <1>1, <1>6 DEF Crash, SnakeInv, FoodIsFree, GameInv, StartLen
  <1>7. ASSUME Advance(head)
        PROVE  /\ GoodSnake(snake') /\ FoodIsFree' /\ food' \in Cells
               /\ score' \in Nat /\ over' \in 0..1 /\ GameInv'
    <2>1. /\ head \in Cells /\ head \notin Body(snake) /\ over' = over
          /\ head = food => snake' = Moved(snake, head, 1 = 1)
          /\ head # food => snake' = Moved(snake, head, 0 = 1)
      BY <1>7 DEF Advance, Inside, Hits, Moved
    <2>2. /\ head = food => score' = score + 10 /\ food' \in (Cells \ Body(snake')) \cup {Corner}
          /\ head # food => score' = score /\ food' = food
      BY <1>7 DEF Advance, FoodPlaces
    <2>3. /\ GoodSnake(snake')
          /\ Len(snake') = Len(snake) + (IF head = food THEN 1 ELSE 0)
          /\ snake'[1] = head
          /\ Len(snake') > 1 => snake'[2] = snake[1]
          /\ Body(snake') \subseteq Body(snake) \cup {snake'[1]}
      <3>1. Len(snake) > 0
        BY <1>1
      <3>2. ASSUME head = food PROVE <2>3!:
        BY <1>1, <1>4, <2>1, <3>1, <3>2, MovedIsGood
      <3>3. ASSUME head # food PROVE <2>3!:
        BY <1>1, <1>4, <2>1, <3>1, <3>3, MovedIsGood
      <3> QED
        BY <3>2, <3>3
    <2>4. score' = 10 * (Len(snake') - 4) /\ Len(snake') >= 4 /\ score' \in Nat
      BY <1>1, <2>2, <2>3
    <2>5. food' \in Cells /\ FoodIsFree'
      BY <1>1, <2>2, <2>3, CornerIsCell DEF SnakeInv, FoodIsFree
    <2>6. snake'[1] = Ahead(snake'[2], dir')
      BY <2>3, <2>4
    <2> QED
      BY <2>1, <2>3, <2>4, <2>5, <2>6 DEF GameInv, StartLen
  <1> QED
    BY <1>1, <1>2, <1>4, <1>5, <1>6, <1>7

\* SnakeInv holds initially ...
LEMMA SnakeInvInit == Init => SnakeInv
  <1> SUFFICES ASSUME Init PROVE SnakeInv
    OBVIOUS
  <1>1. snake \in Seq(Cells) /\ Len(snake) = 0 /\ DOMAIN snake = 1..0
    BY EmptySeq, LenProperties DEF Init
  <1>2. SnakeTypeOK
    BY <1>1, CornerIsCell DEF Init, SnakeTypeOK, Dirs
  <1>3. GoodSnake(snake)
    BY <1>1 DEF GoodSnake, Distinct, Connected
  <1> QED
    BY <1>2, <1>3 DEF Init, SnakeInv, FoodIsFree, GameInv

\* ... and every step keeps it.
LEMMA SnakeInvNext == SnakeInv /\ [Next]_vars => SnakeInv'
  <1> SUFFICES ASSUME SnakeInv, [Next]_vars PROVE SnakeInv'
    OBVIOUS
  <1> USE DEF SnakeInv
  <1>1. ASSUME UNCHANGED gameVars, mode' \in {"snake", "2048"}, act' \in {"main", "game"},
               loading' \in {"none", "main", "game"}, timer' \in {"none", "run", "paused"},
               timer = "none" => timer' = "none"
        PROVE  SnakeInv'
    BY <1>1 DEF gameVars, SnakeTypeOK, GoodSnake, Distinct, Connected, FoodIsFree, Body, GameInv
  <1>2. ASSUME snake_new_game, mode' \in {"snake", "2048"}, act' \in {"main", "game"},
               loading' \in {"none", "main", "game"}, timer' \in {"none", "run", "paused"}
        PROVE  SnakeInv'
    BY <1>2, NewGameInv DEF SnakeTypeOK, GoodSnake
  <1>3. ASSUME Tick PROVE SnakeInv'
    <2>1. ASSUME act # "game" PROVE SnakeInv'
      BY <1>1, <1>3, <2>1 DEF Tick, Stopped, SnakeTypeOK
    <2>2. ASSUME act = "game", mode = "snake", over = 0 PROVE SnakeInv'
      <3>1. timer = "run" /\ timer' = timer /\ snake_step /\ UNCHANGED <<mode, act, loading>>
        BY <1>3, <2>2 DEF Tick
      <3> QED
        BY <2>2, <3>1, StepInv DEF SnakeTypeOK, GoodSnake
    <2>3. ASSUME act = "game", ~(mode = "snake" /\ over = 0) PROVE SnakeInv'
      BY <1>1, <1>3, <2>3 DEF Tick, SnakeTypeOK
    <2> QED
      BY <2>1, <2>2, <2>3
  <1>4. ASSUME NEW m \in {"snake", "2048"}, Enter(m) PROVE SnakeInv'
    <2>1. /\ mode' \in {"snake", "2048"} /\ act' \in {"main", "game"}
          /\ loading' \in {"none", "main", "game"} /\ timer' \in {"none", "run", "paused"}
      BY <1>4 DEF Enter, SnakeTypeOK, TimerFor, Stopped
    <2>2. snake_new_game \/ (UNCHANGED gameVars /\ (timer = "none" => timer' = "none"))
      BY <1>4 DEF Enter, TimerFor, Stopped
    <2> QED
      BY <1>1, <1>2, <2>1, <2>2
  <1>5. ASSUME NEW m \in {"snake", "2048"}, switch_game(m) PROVE SnakeInv'
    <2>1. /\ mode' \in {"snake", "2048"} /\ act' \in {"main", "game"}
          /\ loading' \in {"none", "main", "game"} /\ timer' \in {"none", "run", "paused"}
      BY <1>5 DEF switch_game, SnakeTypeOK, TimerFor, Stopped
    <2>2. snake_new_game \/ (UNCHANGED gameVars /\ (timer = "none" => timer' = "none"))
      BY <1>5 DEF switch_game, TimerFor, Stopped
    <2> QED
      BY <1>1, <1>2, <2>1, <2>2
  <1>6. ASSUME Back \/ LoadStart PROVE SnakeInv'
    BY <1>1, <1>6 DEF Back, LoadStart, SnakeTypeOK
  <1>7. ASSUME Restart PROVE SnakeInv'
    BY <1>2, <1>7 DEF Restart, screenVars, SnakeTypeOK
  <1>8. ASSUME NEW d \in Dirs, Turn(d) PROVE SnakeInv'
    BY <1>8 DEF Turn, screenVars, SnakeTypeOK, GoodSnake, Distinct, Connected, FoodIsFree,
                Body, GameInv
  <1>9. ASSUME UNCHANGED vars PROVE SnakeInv'
    BY <1>1, <1>9 DEF vars, screenVars, SnakeTypeOK
  <1> QED
    BY <1>3, <1>4, <1>5, <1>6, <1>7, <1>8, <1>9 DEF Next, Swipe, Dirs

\* SnakeInv is an invariant.
THEOREM SnakeInvariant == Spec => []SnakeInv
  BY SnakeInvInit, SnakeInvNext, PTL DEF Spec

\* For every field the variables keep their types, whatever callbacks run.
THEOREM SnakeTypeCorrect == Spec => []SnakeTypeOK
  <1>1. SnakeInv => SnakeTypeOK
    BY DEF SnakeInv
  <1> QED
    BY <1>1, SnakeInvariant, PTL

\* For every field the snake of snake_step stays a path without crossings.
THEOREM SnakeBodyIsPath == Spec => []BodyIsPath
  <1>1. SnakeInv => BodyIsPath
    BY DEF SnakeInv, GoodSnake, Distinct, Connected, BodyIsPath, SnakeTypeOK, Body
  <1> QED
    BY <1>1, SnakeInvariant, PTL

\* For every field the score is ten per cell grown: g_snake_len reaches
\* SNAKE_MAX_LEN only when the field is full, and then nothing is eaten.
THEOREM SnakeScoreCountsFood == Spec => []ScoreCountsFood
  <1>1. SnakeInv => ScoreCountsFood
    BY DEF SnakeInv, GameInv, ScoreCountsFood
  <1> QED
    BY <1>1, SnakeInvariant, PTL

\* For every field food is off the snake or in the fallback corner.
THEOREM SnakeFoodIsFree == Spec => []FoodIsFree
  <1>1. SnakeInv => FoodIsFree
    BY DEF SnakeInv
  <1> QED
    BY <1>1, SnakeInvariant, PTL

\* For every field and any buttons pressed between two ticks, a step never
\* ends the game at the snake's own neck.
THEOREM SnakeNeckIsSafe == Spec => NeckIsSafe
  <1>1. SnakeInv /\ [Next]_vars =>
            [over = 0 /\ over' = 1 => Ahead(snake[1], dir') # snake[2]]_vars
    <2> SUFFICES ASSUME SnakeInv, Next, over = 0, over' = 1
                 PROVE  Ahead(snake[1], dir') # snake[2]
      OBVIOUS
    <2>1. Tick /\ over' # over
      BY DEF Next, Enter, switch_game, Back, LoadStart, Restart, Swipe, Turn, snake_new_game,
             gameVars
    <2>2. timer = "run" /\ timer' = timer /\ snake_step
      BY <2>1 DEF Tick, gameVars
    <2> QED
      BY <2>2, StepInv
  <1> QED
    BY <1>1, SnakeInvariant, PTL DEF Spec, NeckIsSafe

-----------------------------------------------------------------------------
(***************************************************************************)
(* 2048                                                                    *)
(***************************************************************************)
\* A set of naturals that is not empty has a least member.
LEMMA LeastMember ==
    ASSUME NEW S \in SUBSET Nat, S # {}
    PROVE  \E i \in S : \A j \in S : i <= j
    <1>1. \E i \in S : \A j \in S : ~(<<j, i>> \in OpToRel(<, Nat))
        BY NatLessThanWellFounded, WFMin, Zenon
    <1>2. \A i, j \in Nat : <<j, i>> \in OpToRel(<, Nat) <=> j < i
        BY DEF OpToRel
    <1>3. \E i \in S : \A j \in S : ~(j < i)
        BY <1>1, <1>2, Zenon
    <1> QED
        BY <1>3

\* A set with 0 and with the successor of each of its members, up to n, has
\* every number up to n.
LEMMA SetInduction ==
    ASSUME NEW n \in Nat, NEW T, 0 \in T, \A i \in 1..n : i - 1 \in T => i \in T
    PROVE  \A i \in 0..n : i \in T
    <1> DEFINE S == {i \in 0..n : i \notin T}
    <1>1. SUFFICES ASSUME S # {} PROVE FALSE
        OBVIOUS
    <1>2. S \in SUBSET Nat
        OBVIOUS
    <1>3. PICK i \in S : \A j \in S : i <= j
        BY <1>1, <1>2, LeastMember
    <1>4. i \in 1..n /\ i - 1 \notin S
        BY <1>3
    <1>5. i - 1 \in T
        BY <1>4
    <1> QED
        BY <1>4, <1>5

\* g starts with a and goes on with F.
Recursion(g, n, S, a, F) ==
    g \in [0..n -> S] /\ g[0] = a /\ \A i \in 1..n : g[i] = F[<<i, g[i - 1]>>]

\* There is a function for every recursion over 0..n with values in S.
LEMMA RecursionExists ==
    ASSUME NEW n \in Nat, NEW S, NEW a \in S, NEW F \in [(1..n) \X S -> S]
    PROVE  \E g : Recursion(g, n, S, a, F)
    <1> DEFINE Good(k, g) == g \in [0..k -> S] /\ g[0] = a /\ \A i \in 1..k : g[i] = F[<<i, g[i - 1]>>]
               T == {k \in 0..n : \E g : Good(k, g)}
    <1>1. 0 \in T
        <2>1. Good(0, [i \in 0..0 |-> a])
            OBVIOUS
        <2> HIDE DEF Good
        <2> QED
            BY <2>1
    <1>2. ASSUME NEW k \in 1..n, k - 1 \in T PROVE k \in T
        <2>1. PICK g : Good(k - 1, g)
            BY <1>2
        <2> DEFINE h == [i \in 0..k |-> IF i = k THEN F[<<k, g[k - 1]>>] ELSE g[i]]
        <2>2. k - 1 \in 0..(k - 1) /\ g[k - 1] \in S
            BY <2>1
        <2>3. F[<<k, g[k - 1]>>] \in S
            BY <2>2
        <2>4. h \in [0..k -> S] /\ h[0] = a
            BY <2>1, <2>3
        <2>5. \A i \in 1..k : h[i] = F[<<i, h[i - 1]>>]
            <3> TAKE i \in 1..k
            <3>1. h[i - 1] = g[i - 1]
                OBVIOUS
            <3>2. CASE i = k
                BY <3>1, <3>2
            <3>3. CASE i # k
                <4>1. i \in 1..(k - 1) /\ h[i] = g[i]
                    BY <3>3
                <4> QED
                    BY <2>1, <3>1, <4>1
            <3> QED
                BY <3>2, <3>3
        <2>6. Good(k, h)
            BY <2>4, <2>5
        <2> HIDE DEF Good, h
        <2> QED
            BY <2>6
    <1> HIDE DEF T
    <1>3. n \in T
        BY <1>1, <1>2, SetInduction
    <1> QED
        BY <1>3 DEF T, Recursion

-----------------------------------------------------------------------------
Tiles == Nat \ {0}

\* The first loop, round by round.
LEMMA PackedRounds ==
    ASSUME NEW n \in Nat, NEW line \in [1..n -> Nat], Len(line) = n
    PROVE  /\ Packed(line) \in [0..n -> Seq(Tiles)]
           /\ Packed(line)[0] = <<>>
           /\ \A i \in 1..n : Packed(line)[i] = Pack(Packed(line)[i - 1], line[i])
    <1> DEFINE F == [q \in (1..n) \X Seq(Tiles) |-> Pack(q[2], line[q[1]])]
               Def(g) == g = [i \in 0..n |-> IF i = 0 THEN <<>> ELSE Pack(g[i - 1], line[i])]
    <1>1. F \in [(1..n) \X Seq(Tiles) -> Seq(Tiles)]
        <2>1. ASSUME NEW q \in (1..n) \X Seq(Tiles) PROVE Pack(q[2], line[q[1]]) \in Seq(Tiles)
            <3>1. q[2] \in Seq(Tiles) /\ q[1] \in 1..n /\ line[q[1]] \in Nat
                OBVIOUS
            <3> QED
                BY <3>1, AppendProperties DEF Pack, Tiles
        <2> QED
            BY <2>1
    <1>2. <<>> \in Seq(Tiles)
        OBVIOUS
    <1>3. PICK g \in [0..n -> Seq(Tiles)] : g[0] = <<>> /\ \A i \in 1..n : g[i] = F[<<i, g[i - 1]>>]
        <2> HIDE DEF F
        <2>1. \E g : Recursion(g, n, Seq(Tiles), <<>>, F)
            BY <1>1, <1>2, RecursionExists, Zenon
        <2> QED
            BY <2>1 DEF Recursion
    <1>4. \A i \in 1..n : g[i] = Pack(g[i - 1], line[i])
        <2> TAKE i \in 1..n
        <2>1. i - 1 \in 0..n
            OBVIOUS
        <2> QED
            BY <1>3, <2>1
    <1>5. Def(g)
        <2>1. \A i \in 0..n : g[i] = IF i = 0 THEN <<>> ELSE Pack(g[i - 1], line[i])
            BY <1>3, <1>4
        <2> QED
            BY <2>1
    <1>6. Packed(line) = CHOOSE h : Def(h)
        BY DEF Packed
    <1>7. Def(Packed(line))
        <2> HIDE DEF Def
        <2> QED
            BY <1>5, <1>6, Zenon
    <1> DEFINE p == Packed(line)
    <1>8. p[0] = <<>> /\ \A i \in 1..n : p[i] = Pack(p[i - 1], line[i])
        BY <1>7
    <1> HIDE DEF p
    <1>9. DOMAIN p = 0..n /\ p = [i \in 0..n |-> p[i]]
        BY <1>7 DEF p
    <1>10. \A i \in 0..n : p[i] = g[i]
        <2> DEFINE T == {i \in 0..n : p[i] = g[i]}
        <2>1. 0 \in T
            BY <1>3, <1>8
        <2>2. \A i \in 1..n : i - 1 \in T => i \in T
            BY <1>4, <1>8
        <2> HIDE DEF T
        <2>3. \A i \in 0..n : i \in T
            BY <2>1, <2>2, SetInduction
        <2> QED
            BY <2>3 DEF T
    <1> QED
        BY <1>8, <1>9, <1>10 DEF p
-----------------------------------------------------------------------------
\* A round of the first loop.
LEMMA PackedRound ==
    ASSUME NEW n \in Nat, NEW line \in [1..n -> Nat], Len(line) = n, NEW i \in 1..n
    PROVE  LET p == Packed(line) IN
           /\ p[i - 1] \in Seq(Tiles) /\ Len(p[i - 1]) \in Nat
           /\ line[i] = 0 => p[i] = p[i - 1]
           /\ line[i] # 0 => /\ Len(p[i]) = Len(p[i - 1]) + 1 /\ p[i][Len(p[i])] = line[i]
                             /\ \A j \in 1..Len(p[i - 1]) : p[i][j] = p[i - 1][j]
    <1> DEFINE p == Packed(line)
    <1>1. p \in [0..n -> Seq(Tiles)] /\ \A k \in 1..n : p[k] = Pack(p[k - 1], line[k])
        BY PackedRounds
    <1> HIDE DEF p
    <1>2. p[i] = Pack(p[i - 1], line[i])
        BY <1>1, Zenon
    <1>3. p[i - 1] \in Seq(Tiles) /\ Len(p[i - 1]) \in Nat /\ line[i] \in Nat
        <2>1. i - 1 \in 0..n
            OBVIOUS
        <2> QED
            BY <1>1, <2>1, LenProperties
    <1>4. ASSUME line[i] = 0 PROVE p[i] = p[i - 1]
        BY <1>2, <1>4 DEF Pack
    <1>5. ASSUME line[i] # 0
          PROVE  /\ Len(p[i]) = Len(p[i - 1]) + 1 /\ p[i][Len(p[i])] = line[i]
                 /\ \A j \in 1..Len(p[i - 1]) : p[i][j] = p[i - 1][j]
        <2>1. p[i] = Append(p[i - 1], line[i]) /\ line[i] \in Tiles
            BY <1>2, <1>3, <1>5 DEF Pack, Tiles
        <2> QED
            BY <1>3, <2>1, AppendProperties
    <1> QED
        BY <1>3, <1>4, <1>5 DEF p

\* What is packed of the first i cells: at most i tiles, all of them when
\* there is no gap, and fewer after one.
LEMMA PackedLength ==
    ASSUME NEW n \in Nat, NEW line \in [1..n -> Nat], Len(line) = n
    PROVE  /\ \A i \in 0..n : Len(Packed(line)[i]) <= i
           /\ (\A i \in 1..n : line[i] # 0) =>
                  \A i \in 0..n : /\ Len(Packed(line)[i]) = i
                                  /\ \A j \in 1..i : Packed(line)[i][j] = line[j]
           /\ \A z \in 1..n : line[z] = 0 => Len(Packed(line)[n]) < n
    <1> DEFINE p == Packed(line)
    <1>1. p \in [0..n -> Seq(Tiles)] /\ p[0] = <<>> /\ \A i \in 1..n : p[i] = Pack(p[i - 1], line[i])
        BY PackedRounds
    <1> HIDE DEF p
    <1>2. \A i \in 0..n : Len(p[i]) \in Nat
        BY <1>1, LenProperties
    <1>3. ASSUME NEW i \in 1..n
          PROVE  /\ line[i] = 0 => p[i] = p[i - 1]
                 /\ line[i] # 0 => /\ Len(p[i]) = Len(p[i - 1]) + 1 /\ p[i][Len(p[i])] = line[i]
                                   /\ \A j \in 1..Len(p[i - 1]) : p[i][j] = p[i - 1][j]
        BY PackedRound, Zenon DEF p
    <1>4. \A i \in 0..n : Len(p[i]) <= i
        <2> DEFINE T == {i \in 0..n : Len(p[i]) <= i}
        <2>1. 0 \in T
            BY <1>1
        <2>2. ASSUME NEW i \in 1..n, i - 1 \in T PROVE i \in T
            <3>1. Len(p[i]) = Len(p[i - 1]) \/ Len(p[i]) = Len(p[i - 1]) + 1
                BY <1>3, Zenon
            <3>2. i - 1 \in 0..n /\ Len(p[i - 1]) \in Nat /\ Len(p[i - 1]) <= i - 1
                BY <1>2, <2>2
            <3> QED
                BY <3>1, <3>2
        <2> HIDE DEF T
        <2>3. \A i \in 0..n : i \in T
            BY <2>1, <2>2, SetInduction
        <2> QED
            BY <2>3 DEF T
    <1>5. ASSUME \A i \in 1..n : line[i] # 0
          PROVE  \A i \in 0..n : Len(p[i]) = i /\ \A j \in 1..i : p[i][j] = line[j]
        <2> DEFINE T == {i \in 0..n : Len(p[i]) = i /\ \A j \in 1..i : p[i][j] = line[j]}
        <2>1. 0 \in T
            BY <1>1
        <2>2. ASSUME NEW i \in 1..n, i - 1 \in T PROVE i \in T
            <3>1. Len(p[i - 1]) = i - 1 /\ \A j \in 1..(i - 1) : p[i - 1][j] = line[j]
                BY <2>2
            <3>2. Len(p[i]) = i /\ p[i][i] = line[i] /\ \A j \in 1..(i - 1) : p[i][j] = p[i - 1][j]
                <4>1. /\ Len(p[i]) = Len(p[i - 1]) + 1 /\ p[i][Len(p[i])] = line[i]
                      /\ \A j \in 1..Len(p[i - 1]) : p[i][j] = p[i - 1][j]
                    BY <1>3, <1>5, Zenon
                <4> QED
                    BY <3>1, <4>1
            <3>3. ASSUME NEW j \in 1..i PROVE p[i][j] = line[j]
                BY <3>1, <3>2
            <3> QED
                BY <3>2, <3>3
        <2> HIDE DEF T
        <2>3. \A i \in 0..n : i \in T
            BY <2>1, <2>2, SetInduction
        <2> QED
            BY <2>3 DEF T
    <1>6. ASSUME NEW z \in 1..n, line[z] = 0 PROVE Len(p[n]) < n
        <2> DEFINE T == {i \in 0..n : z <= i => Len(p[i]) < i}
        <2>1. 0 \in T
            OBVIOUS
        <2>2. ASSUME NEW i \in 1..n, i - 1 \in T PROVE i \in T
            <3>1. CASE i = z
                <4>1. Len(p[i - 1]) <= i - 1 /\ p[i] = p[i - 1]
                    BY <1>3, <1>4, <1>6, <3>1
                <4> QED
                    BY <1>2, <4>1
            <3>2. CASE i # z
                <4>1. Len(p[i]) = Len(p[i - 1]) \/ Len(p[i]) = Len(p[i - 1]) + 1
                    BY <1>3, Zenon
                <4>2. i - 1 \in 0..n /\ Len(p[i - 1]) \in Nat /\ (z <= i - 1 => Len(p[i - 1]) < i - 1)
                    BY <1>2, <2>2
                <4> QED
                    BY <3>2, <4>1, <4>2
            <3> QED
                BY <3>1, <3>2
        <2> HIDE DEF T
        <2>3. \A i \in 0..n : i \in T
            BY <2>1, <2>2, SetInduction
        <2> QED
            BY <2>3 DEF T
    <1> QED
        BY <1>4, <1>5, <1>6 DEF p

\* No tile follows an empty cell.
ZerosLast(line, n) == \A i, j \in 1..n : i < j /\ line[i] = 0 => line[j] = 0
Full(line, n)      == \A i \in 1..n : line[i] # 0

\* A compacted line has its empty cells last; a full line stays as it is, and
\* one with a gap ends with an empty cell.
LEMMA Compacted ==
    ASSUME NEW n \in Nat, NEW line \in [1..n -> Nat]
    PROVE  /\ Compact(line) \in [1..n -> Nat]
           /\ ZerosLast(Compact(line), n)
           /\ Full(line, n) => Compact(line) = line
           /\ ~ Full(line, n) => Compact(line)[n] = 0
    <1> DEFINE t == Packed(line)[n]
    <1>1. Len(line) = n
        BY FunctionIsSeq
    <1>2. t \in Seq(Tiles)
        BY <1>1, PackedRounds
    <1>3. Compact(line) = [i \in 1..n |-> IF i <= Len(t) THEN t[i] ELSE 0]
        BY <1>1 DEF Compact
    <1>4. /\ Len(t) <= n
          /\ Full(line, n) => Len(t) = n /\ \A j \in 1..n : t[j] = line[j]
          /\ ~ Full(line, n) => Len(t) < n
        BY <1>1, PackedLength DEF Full
    <1> HIDE DEF t
    <1>5. Len(t) \in Nat /\ \A i \in 1..Len(t) : t[i] \in Nat /\ t[i] # 0
        BY <1>2, LenProperties DEF Tiles
    <1> DEFINE c == Compact(line)
    <1>6. \A i \in 1..n : c[i] = IF i <= Len(t) THEN t[i] ELSE 0
        BY <1>3
    <1>7. c \in [1..n -> Nat]
        BY <1>3, <1>5
    <1> HIDE DEF c
    <1>8. ZerosLast(c, n)
        BY <1>5, <1>6 DEF ZerosLast
    <1>9. Full(line, n) => c = line
        <2>1. ASSUME Full(line, n) PROVE \A i \in 1..n : c[i] = line[i]
            BY <1>4, <1>6, <2>1
        <2> QED
            BY <1>7, <2>1
    <1>10. ~ Full(line, n) => c[n] = 0
        <2>1. ~ Full(line, n) => n \in 1..n
            BY DEF Full
        <2> QED
            BY <1>4, <1>5, <1>6, <2>1
    <1> QED
        BY <1>7, <1>8, <1>9, <1>10 DEF c

-----------------------------------------------------------------------------
Rounds(n) == [line : [1..n -> Nat], gain : Nat, skip : BOOLEAN]

\* A round of the second loop.
LEMMA MergeRound ==
    ASSUME NEW n \in Nat, NEW m \in Rounds(n), NEW i \in 1..(n - 1)
    PROVE  /\ MergeAt(m, i) \in Rounds(n)
           /\ \A z \in 1..n : m.line[z] = 0 => MergeAt(m, i).line[z] = 0
           /\ ~ m.skip /\ ~ Equal(m.line, i) => MergeAt(m, i) = m
           /\ ~ m.skip /\ Equal(m.line, i) => MergeAt(m, i).line[i + 1] = 0
    <1>1. m.line \in [1..n -> Nat] /\ m.gain \in Nat /\ m.skip \in BOOLEAN
        BY DEF Rounds
    <1>2. Len(m.line) = n /\ i \in 1..n /\ i + 1 \in 1..n /\ m.line[i] \in Nat
        BY <1>1, FunctionIsSeq
    <1>3. CASE m.skip
        <2>1. MergeAt(m, i) = [m EXCEPT !.skip = FALSE]
            BY <1>3 DEF MergeAt
        <2> QED
            BY <1>1, <1>3, <2>1 DEF Rounds
    <1>4. CASE ~ m.skip /\ ~ Equal(m.line, i)
        BY <1>4 DEF MergeAt
    <1>5. CASE ~ m.skip /\ Equal(m.line, i)
        <2> DEFINE new == Pair(m.line, i, 2 * m.line[i], 0)
        <2>1. MergeAt(m, i) = [line |-> new, gain |-> m.gain + 2 * m.line[i], skip |-> TRUE]
            BY <1>5 DEF MergeAt
        <2>2. new = [j \in 1..n |-> IF j = i THEN 2 * m.line[i] ELSE IF j = i + 1 THEN 0 ELSE m.line[j]]
            BY <1>2 DEF Pair
        <2>3. new \in [1..n -> Nat]
            <3>1. 2 * m.line[i] \in Nat /\ 0 \in Nat /\ \A j \in 1..n : m.line[j] \in Nat
                BY <1>1, <1>2
            <3> HIDE DEF new
            <3> QED
                BY <2>2, <3>1
        <2>4. new[i + 1] = 0
            BY <1>2, <2>2
        <2>5. \A z \in 1..n : m.line[z] = 0 => new[z] = 0
            BY <1>5, <2>2 DEF Equal
        <2> HIDE DEF new
        <2>6. MergeAt(m, i).line = new
            BY <2>1
        <2>7. m.gain + 2 * m.line[i] \in Nat
            BY <1>1, <1>2
        <2>8. MergeAt(m, i) \in Rounds(n)
            BY <2>1, <2>3, <2>7 DEF Rounds
        <2> QED
            BY <1>5, <2>4, <2>5, <2>6, <2>8
    <1> QED
        BY <1>3, <1>4, <1>5

\* The second loop, round by round.
LEMMA MergingRounds ==
    ASSUME NEW n \in Nat \ {0}, NEW line \in [1..n -> Nat]
    PROVE  /\ Merging(line) \in [0..(n - 1) -> Rounds(n)]
           /\ Merging(line)[0] = [line |-> line, gain |-> 0, skip |-> FALSE]
           /\ \A i \in 1..(n - 1) : Merging(line)[i] = MergeAt(Merging(line)[i - 1], i)
    <1> DEFINE start == [line |-> line, gain |-> 0, skip |-> FALSE]
               k == n - 1
               F == [q \in (1..k) \X Rounds(n) |-> MergeAt(q[2], q[1])]
               Def(g) == g = [i \in 0..k |-> IF i = 0 THEN start ELSE MergeAt(g[i - 1], i)]
    <1>1. F \in [(1..k) \X Rounds(n) -> Rounds(n)]
        <2>1. ASSUME NEW q \in (1..k) \X Rounds(n) PROVE MergeAt(q[2], q[1]) \in Rounds(n)
            BY MergeRound
        <2> QED
            BY <2>1
    <1>2. start \in Rounds(n)
        BY DEF Rounds
    <1>3. k \in Nat /\ k = n - 1 /\ Len(line) = n
        BY FunctionIsSeq
    <1>4. Merging(line) = CHOOSE h : Def(h)
        BY <1>3 DEF Merging
    <1> HIDE DEF start, k
    <1>5. PICK g \in [0..k -> Rounds(n)] : g[0] = start /\ \A i \in 1..k : g[i] = F[<<i, g[i - 1]>>]
        <2> HIDE DEF F
        <2>1. \E g : Recursion(g, k, Rounds(n), start, F)
            BY <1>1, <1>2, <1>3, RecursionExists, Zenon
        <2> QED
            BY <2>1 DEF Recursion
    <1>6. \A i \in 1..k : g[i] = MergeAt(g[i - 1], i)
        <2> TAKE i \in 1..k
        <2>1. i - 1 \in 0..k
            BY <1>3
        <2> QED
            BY <1>5, <2>1
    <1>7. Def(g)
        <2>1. \A i \in 0..k : g[i] = IF i = 0 THEN start ELSE MergeAt(g[i - 1], i)
            BY <1>3, <1>5, <1>6
        <2> QED
            BY <2>1
    <1>8. Def(Merging(line))
        <2> HIDE DEF Def
        <2> QED
            BY <1>4, <1>7, Zenon
    <1> DEFINE p == Merging(line)
    <1>9. p[0] = start /\ \A i \in 1..k : p[i] = MergeAt(p[i - 1], i)
        BY <1>3, <1>8
    <1> HIDE DEF p
    <1>10. DOMAIN p = 0..k /\ p = [i \in 0..k |-> p[i]]
        BY <1>8 DEF p
    <1>11. \A i \in 0..k : p[i] = g[i]
        <2> DEFINE T == {i \in 0..k : p[i] = g[i]}
        <2>1. 0 \in T
            BY <1>3, <1>5, <1>9
        <2>2. ASSUME NEW i \in 1..k, i - 1 \in T PROVE i \in T
            <3>1. p[i] = MergeAt(p[i - 1], i) /\ g[i] = MergeAt(g[i - 1], i)
                BY <1>6, <1>9, Zenon
            <3> QED
                BY <1>3, <2>2, <3>1
        <2> HIDE DEF T
        <2>3. \A i \in 0..k : i \in T
            BY <1>3, <2>1, <2>2, SetInduction
        <2> QED
            BY <2>3 DEF T
    <1>12. p \in [0..k -> Rounds(n)]
        BY <1>10, <1>11
    <1> QED
        BY <1>9, <1>12 DEF p, k, start
\* Two equal neighbours.
Twins(line, n) == \E i \in 1..(n - 1) : line[i] = line[i + 1]

\* After the second loop a full line without equal neighbours is as it was;
\* in one with equal neighbours there is a gap.
LEMMA MergingEnds ==
    ASSUME NEW n \in Nat \ {0}, NEW line \in [1..n -> Nat], Full(line, n)
    PROVE  /\ ~ Twins(line, n) => Merging(line)[n - 1].line = line
           /\ Twins(line, n) => ~ Full(Merging(line)[n - 1].line, n)
    <1> DEFINE p == Merging(line)
               k == n - 1
               start == [line |-> line, gain |-> 0, skip |-> FALSE]
    <1>1. p \in [0..k -> Rounds(n)] /\ p[0] = start /\ \A i \in 1..k : p[i] = MergeAt(p[i - 1], i)
        BY MergingRounds
    <1>2. k \in Nat /\ k = n - 1
        OBVIOUS
    <1>3. start.line = line /\ start.skip = FALSE
        OBVIOUS
    <1>4. \A i \in 1..k : Equal(line, i) <=> line[i] = line[i + 1]
        BY DEF Equal, Full
    <1> HIDE DEF p, k, start
    <1>5. ASSUME NEW i \in 1..k
          PROVE  /\ p[i - 1] \in Rounds(n) /\ p[i] = MergeAt(p[i - 1], i) /\ i \in 1..(n - 1)
        <2>1. i - 1 \in 0..k /\ i \in 1..(n - 1)
            BY <1>2
        <2> QED
            BY <1>1, <2>1
    <1>6. ASSUME NEW j \in 0..k, \A i \in 1..j : line[i] # line[i + 1]
          PROVE  \A i \in 0..j : p[i] = start
        <2> DEFINE T == {i \in 0..j : p[i] = start}
        <2>1. 0 \in T /\ j \in Nat
            BY <1>1, <1>2
        <2>2. ASSUME NEW i \in 1..j, i - 1 \in T PROVE i \in T
            <3>1. i \in 1..k /\ p[i - 1] = start
                BY <1>2, <2>2
            <3>2. ~ Equal(line, i)
                BY <1>4, <1>6, <3>1
            <3>3. start \in Rounds(n) /\ p[i] = MergeAt(start, i) /\ i \in 1..(n - 1)
                BY <1>5, <3>1
            <3>4. MergeAt(start, i) = start
                BY <1>3, <3>2, <3>3, MergeRound
            <3> QED
                BY <3>3, <3>4
        <2> HIDE DEF T
        <2>3. \A i \in 0..j : i \in T
            BY <2>1, <2>2, SetInduction
        <2> QED
            BY <2>3 DEF T
    <1>7. ASSUME ~ Twins(line, n) PROVE p[k].line = line
        <2>1. k \in 0..k /\ \A i \in 1..k : line[i] # line[i + 1]
            BY <1>2, <1>7 DEF Twins
        <2> QED
            BY <1>3, <1>6, <2>1
    <1>8. ASSUME Twins(line, n) PROVE ~ Full(p[k].line, n)
        <2> DEFINE S == {i \in 1..k : line[i] = line[i + 1]}
        <2>1. S \in SUBSET Nat /\ S # {}
            BY <1>2, <1>8 DEF Twins
        <2>2. PICK t \in S : \A j \in S : t <= j
            BY <2>1, LeastMember
        <2>3. t \in 1..k /\ line[t] = line[t + 1] /\ \A i \in 1..(t - 1) : line[i] # line[i + 1]
            BY <1>2, <2>2
        <2>4. p[t - 1] = start
            <3>1. t - 1 \in 0..k /\ t - 1 \in 0..(t - 1)
                BY <1>2, <2>3
            <3> QED
                BY <1>6, <2>3, <3>1
        <2>5. start \in Rounds(n) /\ p[t] = MergeAt(start, t) /\ t \in 1..(n - 1)
            BY <1>5, <2>3, <2>4
        <2>6. Equal(line, t)
            BY <1>4, <2>3
        <2>7. p[t].line[t + 1] = 0
            BY <1>3, <2>5, <2>6, MergeRound
        <2> DEFINE T == {i \in 0..k : t <= i => p[i].line[t + 1] = 0}
        <2>8. 0 \in T
            BY <1>2, <2>3
        <2>9. ASSUME NEW i \in 1..k, i - 1 \in T PROVE i \in T
            <3>1. CASE i = t
                BY <1>2, <2>7, <3>1
            <3>2. CASE i < t
                BY <1>2, <2>3, <3>2
            <3>3. CASE i > t
                <4>1. p[i - 1].line[t + 1] = 0 /\ t + 1 \in 1..n
                    BY <1>2, <2>3, <2>9, <3>3
                <4>2. p[i - 1] \in Rounds(n) /\ p[i] = MergeAt(p[i - 1], i) /\ i \in 1..(n - 1)
                    BY <1>5
                <4>3. p[i].line[t + 1] = 0
                    BY <4>1, <4>2, MergeRound
                <4> QED
                    BY <1>2, <4>3
            <3> QED
                BY <1>2, <2>3, <3>1, <3>2, <3>3
        <2> HIDE DEF T
        <2>10. \A i \in 0..k : i \in T
            BY <1>2, <2>8, <2>9, SetInduction
        <2>11. k \in 0..k /\ t <= k /\ t + 1 \in 1..n
            BY <1>2, <2>3
        <2>12. p[k].line[t + 1] = 0
            BY <2>10, <2>11 DEF T
        <2> QED
            BY <2>11, <2>12 DEF Full
    <1> QED
        BY <1>7, <1>8 DEF p, k

-----------------------------------------------------------------------------
\* What compress_line does to a line: the empty cells come last; a full line
\* changes exactly when two neighbours are equal.
LEMMA CompressedLine ==
    ASSUME NEW n \in Nat \ {0}, NEW line \in [1..n -> Nat]
    PROVE  /\ compress_line(line).line \in [1..n -> Nat]
           /\ ZerosLast(compress_line(line).line, n)
           /\ Full(line, n) => (compress_line(line).line = line <=> ~ Twins(line, n))
    <1> DEFINE c == Compact(line)
               m == Merging(c)[n - 1]
    <1>1. Len(line) = n
        BY FunctionIsSeq
    <1>2. compress_line(line).line = Compact(m.line)
        BY <1>1 DEF compress_line
    <1>3. c \in [1..n -> Nat] /\ (Full(line, n) => c = line)
        BY Compacted
    <1> HIDE DEF c
    <1>4. m \in Rounds(n)
        <2>1. n - 1 \in 0..(n - 1)
            OBVIOUS
        <2> QED
            BY <1>3, <2>1, MergingRounds
    <1>5. Full(line, n) => /\ ~ Twins(line, n) => m.line = line
                           /\ Twins(line, n) => ~ Full(m.line, n)
        BY <1>3, MergingEnds
    <1> HIDE DEF m
    <1>6. m.line \in [1..n -> Nat]
        BY <1>4 DEF Rounds
    <1>7. /\ Compact(m.line) \in [1..n -> Nat] /\ ZerosLast(Compact(m.line), n)
          /\ Full(m.line, n) => Compact(m.line) = m.line
          /\ ~ Full(m.line, n) => Compact(m.line)[n] = 0
        BY <1>6, Compacted
    <1>8. ASSUME Full(line, n), ~ Twins(line, n) PROVE Compact(m.line) = line
        BY <1>5, <1>7, <1>8
    <1>9. ASSUME Full(line, n), Twins(line, n) PROVE Compact(m.line) # line
        <2>1. n \in 1..n
            OBVIOUS
        <2>2. line[n] # 0
            BY <1>9, <2>1 DEF Full
        <2> QED
            BY <1>5, <1>7, <1>9, <2>2
    <1> QED
        BY <1>2, <1>7, <1>8, <1>9

-----------------------------------------------------------------------------
Boards == [Squares -> Nat]

\* Lines and positions number the cells, whatever the direction.
LEMMA LinesNumberCells ==
    ASSUME NEW d \in Moves
    PROVE  /\ \A i, j \in Idx : /\ CellAt(d, i, j) \in Squares
                               /\ LineOf(d, CellAt(d, i, j)) = i /\ PosOf(d, CellAt(d, i, j)) = j
           /\ \A c \in Squares : /\ LineOf(d, c) \in Idx /\ PosOf(d, c) \in Idx
                                 /\ CellAt(d, LineOf(d, c), PosOf(d, c)) = c
    <1>1. \A j \in Idx : N - 1 - j \in Idx /\ N - 1 - (N - 1 - j) = j
        BY GameAssumption DEF Idx
    <1>2. d = 0 \/ d = 1 \/ d = 2 \/ d = 3
        BY DEF Moves
    <1>3. ASSUME NEW i \in Idx, NEW j \in Idx
          PROVE  /\ CellAt(d, i, j) \in Squares
                 /\ LineOf(d, CellAt(d, i, j)) = i /\ PosOf(d, CellAt(d, i, j)) = j
        BY <1>1, <1>2 DEF CellAt, LineOf, PosOf, Squares
    <1>4. ASSUME NEW c \in Squares
          PROVE  /\ LineOf(d, c) \in Idx /\ PosOf(d, c) \in Idx
                 /\ CellAt(d, LineOf(d, c), PosOf(d, c)) = c
        <2>1. PICK y \in Idx, x \in Idx : c = <<y, x>>
            BY DEF Squares
        <2> QED
            BY <1>1, <1>2, <2>1 DEF CellAt, LineOf, PosOf
    <1> QED
        BY <1>3, <1>4

\* A line of the board, and that a shift which changes nothing changes no line.
LEMMA LinesOfBoard ==
    ASSUME NEW b \in Boards, NEW d \in Moves
    PROVE  /\ \A i \in Idx : Line(b, d, i) \in [1..N -> Nat]
           /\ \A i \in Idx, j \in 1..N : Line(b, d, i)[j] = b[CellAt(d, i, j - 1)]
           /\ Shifted(b, d) \in Boards
           /\ Shifted(b, d) = b <=> \A i \in Idx : compress_line(Line(b, d, i)).line = Line(b, d, i)
    <1> DEFINE new == [i \in Idx |-> compress_line(Line(b, d, i)).line]
    <1>1. N \in Nat \ {0}
        BY GameAssumption
    <1>2. \A j : j \in 1..N <=> j \in Int /\ j - 1 \in Idx
        BY <1>1 DEF Idx
    <1>3. ASSUME NEW i \in Idx, NEW j \in 1..N
          PROVE  Line(b, d, i)[j] = b[CellAt(d, i, j - 1)] /\ b[CellAt(d, i, j - 1)] \in Nat
        <2>1. CellAt(d, i, j - 1) \in Squares
            BY <1>2, LinesNumberCells
        <2> QED
            BY <2>1 DEF Line, Boards
    <1>4. ASSUME NEW i \in Idx PROVE Line(b, d, i) \in [1..N -> Nat]
        BY <1>3 DEF Line
    <1>5. \A i \in Idx : new[i] \in [1..N -> Nat]
        BY <1>1, <1>4, CompressedLine
    <1>6. Shifted(b, d) = [c \in Squares |-> new[LineOf(d, c)][PosOf(d, c) + 1]]
        BY DEF Shifted
    <1>7. \A i \in Idx : new[i] = compress_line(Line(b, d, i)).line
        OBVIOUS
    <1> HIDE DEF new
    <1>8. ASSUME NEW c \in Squares
          PROVE  LineOf(d, c) \in Idx /\ PosOf(d, c) \in Idx /\ PosOf(d, c) + 1 \in 1..N
        BY <1>1, LinesNumberCells DEF Idx
    <1>9. Shifted(b, d) \in Boards
        <2>1. \A c \in Squares : new[LineOf(d, c)][PosOf(d, c) + 1] \in Nat
            BY <1>5, <1>8
        <2> QED
            BY <1>6, <2>1 DEF Boards
    <1>10. ASSUME Shifted(b, d) = b, NEW i \in Idx PROVE new[i] = Line(b, d, i)
        <2>1. ASSUME NEW j \in 1..N PROVE new[i][j] = Line(b, d, i)[j]
            <3> DEFINE c == CellAt(d, i, j - 1)
            <3>1. j - 1 \in Idx /\ (j - 1) + 1 = j
                BY <1>2
            <3>2. c \in Squares /\ LineOf(d, c) = i /\ PosOf(d, c) = j - 1
                BY <3>1, LinesNumberCells
            <3> HIDE DEF c
            <3>3. b[c] = new[i][j]
                BY <1>6, <1>10, <3>1, <3>2
            <3> QED
                BY <1>3, <3>3 DEF c
        <2>2. new[i] \in [1..N -> Nat] /\ Line(b, d, i) \in [1..N -> Nat]
            BY <1>4, <1>5
        <2> QED
            BY <1>1, <2>1, <2>2
    <1>11. ASSUME \A i \in Idx : new[i] = Line(b, d, i) PROVE Shifted(b, d) = b
        <2>1. ASSUME NEW c \in Squares PROVE Shifted(b, d)[c] = b[c]
            <3> DEFINE i == LineOf(d, c)
                       j == PosOf(d, c) + 1
            <3>1. i \in Idx /\ j \in 1..N
                BY <1>8
            <3>2. CellAt(d, i, j - 1) = c
                BY <1>8, LinesNumberCells DEF Idx
            <3>3. Shifted(b, d)[c] = new[i][j]
                BY <1>6
            <3> HIDE DEF i, j
            <3> QED
                BY <1>3, <1>11, <3>1, <3>2, <3>3
        <2> QED
            BY <1>9, <2>1 DEF Boards
    <1> QED
        BY <1>3, <1>4, <1>7, <1>9, <1>10, <1>11

\* board_has_move says whether some move would change a board that has a tile.
LEMMA HasMoveIsRight ==
    ASSUME NEW b \in Boards, \E c \in Squares : b[c] # 0
    PROVE  board_has_move(b) <=> ~ \A d \in Moves : Shifted(b, d) = b
    <1>1. N \in Nat \ {0} /\ Idx = 0..(N - 1) /\ Moves = 0..3
        BY GameAssumption DEF Idx, Moves
    <1>2. ASSUME NEW d \in Moves, NEW i \in Idx
          PROVE  /\ Line(b, d, i) \in [1..N -> Nat]
                 /\ \A j \in 1..N : Line(b, d, i)[j] = b[CellAt(d, i, j - 1)]
                 /\ Full(Line(b, d, i), N) =>
                       (compress_line(Line(b, d, i)).line = Line(b, d, i) <=> ~ Twins(Line(b, d, i), N))
                 /\ Shifted(b, d) = b => /\ compress_line(Line(b, d, i)).line = Line(b, d, i)
                                         /\ ZerosLast(Line(b, d, i), N)
        <2>1. Line(b, d, i) \in [1..N -> Nat] /\ \A j \in 1..N : Line(b, d, i)[j] = b[CellAt(d, i, j - 1)]
            BY LinesOfBoard
        <2>2. Shifted(b, d) = b => compress_line(Line(b, d, i)).line = Line(b, d, i)
            BY LinesOfBoard
        <2>3. /\ ZerosLast(compress_line(Line(b, d, i)).line, N)
              /\ Full(Line(b, d, i), N) =>
                       (compress_line(Line(b, d, i)).line = Line(b, d, i) <=> ~ Twins(Line(b, d, i), N))
            BY <1>1, <2>1, CompressedLine
        <2> QED
            BY <2>1, <2>2, <2>3
    <1>3. \A i, j \in Idx : /\ CellAt(0, i, j) = <<j, i>> /\ CellAt(1, i, j) = <<i, N - 1 - j>>
                            /\ CellAt(2, i, j) = <<N - 1 - j, i>> /\ CellAt(3, i, j) = <<i, j>>
        BY DEF CellAt
    <1>4. ASSUME ~ board_has_move(b) PROVE \A d \in Moves : Shifted(b, d) = b
        <2>1. /\ \A y, x \in Idx : b[<<y, x>>] # 0
              /\ \A y, x \in Idx : x < N - 1 => b[<<y, x>>] # b[<<y, x + 1>>]
              /\ \A y, x \in Idx : y < N - 1 => b[<<y, x>>] # b[<<y + 1, x>>]
            BY <1>4 DEF board_has_move
        <2> SUFFICES ASSUME NEW d \in Moves, NEW i \in Idx
                     PROVE  compress_line(Line(b, d, i)).line = Line(b, d, i)
            BY LinesOfBoard
        <2>2. Full(Line(b, d, i), N)
            <3>1. ASSUME NEW j \in 1..N PROVE Line(b, d, i)[j] # 0
                <4>1. CellAt(d, i, j - 1) \in Squares
                    <5>1. j - 1 \in Idx
                        BY <1>1
                    <5> QED
                        BY <5>1, LinesNumberCells
                <4>2. b[CellAt(d, i, j - 1)] # 0
                    BY <2>1, <4>1 DEF Squares
                <4> QED
                    BY <1>2, <4>2
            <3> QED
                BY <3>1 DEF Full
        <2>3. ~ Twins(Line(b, d, i), N)
            <3>1. ASSUME NEW j \in 1..(N - 1) PROVE Line(b, d, i)[j] # Line(b, d, i)[j + 1]
                <4>1. j \in 1..N /\ j + 1 \in 1..N /\ j - 1 \in Idx /\ (j + 1) - 1 = j /\ j \in Idx
                    BY <1>1
                <4>2. Line(b, d, i)[j] = b[CellAt(d, i, j - 1)] /\ Line(b, d, i)[j + 1] = b[CellAt(d, i, j)]
                    BY <1>2, <4>1
                <4>3. /\ j - 1 < N - 1 /\ (j - 1) + 1 = j /\ N - 1 - j \in Idx /\ N - 1 - j < N - 1
                      /\ (N - 1 - j) + 1 = N - 1 - (j - 1)
                    BY <1>1
                <4>4. CASE d = 0
                    BY <1>3, <2>1, <4>1, <4>2, <4>3, <4>4
                <4>5. CASE d = 1
                    <5>1. CellAt(d, i, j - 1) = <<i, (N - 1 - j) + 1>> /\ CellAt(d, i, j) = <<i, N - 1 - j>>
                        BY <1>3, <4>1, <4>3, <4>5
                    <5>2. b[<<i, N - 1 - j>>] # b[<<i, (N - 1 - j) + 1>>]
                        BY <2>1, <4>3
                    <5> QED
                        BY <4>2, <5>1, <5>2
                <4>6. CASE d = 2
                    <5>1. CellAt(d, i, j - 1) = <<(N - 1 - j) + 1, i>> /\ CellAt(d, i, j) = <<N - 1 - j, i>>
                        BY <1>3, <4>1, <4>3, <4>6
                    <5>2. b[<<N - 1 - j, i>>] # b[<<(N - 1 - j) + 1, i>>]
                        BY <2>1, <4>3
                    <5> QED
                        BY <4>2, <5>1, <5>2
                <4>7. CASE d = 3
                    BY <1>3, <2>1, <4>1, <4>2, <4>3, <4>7
                <4> QED
                    BY <1>1, <4>4, <4>5, <4>6, <4>7
            <3> QED
                BY <3>1 DEF Twins
        <2> QED
            BY <1>2, <2>2, <2>3
    <1>5. ASSUME \A d \in Moves : Shifted(b, d) = b PROVE ~ board_has_move(b)
        <2>1. ASSUME NEW d \in Moves, NEW i \in Idx, NEW j \in Idx, NEW k \in Idx,
                     b[CellAt(d, i, j)] = 0, j < k
              PROVE  b[CellAt(d, i, k)] = 0
            <3>1. j + 1 \in 1..N /\ k + 1 \in 1..N /\ (j + 1) - 1 = j /\ (k + 1) - 1 = k /\ j + 1 < k + 1
                BY <1>1, <2>1
            <3>2. Line(b, d, i)[j + 1] = 0 /\ Line(b, d, i)[k + 1] = b[CellAt(d, i, k)]
                BY <1>2, <2>1, <3>1
            <3>3. ZerosLast(Line(b, d, i), N)
                BY <1>2, <1>5
            <3> QED
                BY <3>1, <3>2, <3>3 DEF ZerosLast
        <2>2. ASSUME NEW y \in Idx, NEW x \in Idx, b[<<y, x>>] = 0 PROVE \A k \in Idx : b[<<y, k>>] = 0
            <3> TAKE k \in Idx
            <3>1. CASE x < k
                <4>1. 3 \in Moves /\ CellAt(3, y, x) = <<y, x>> /\ CellAt(3, y, k) = <<y, k>>
                    BY <1>1, <1>3
                <4> QED
                    BY <2>1, <2>2, <3>1, <4>1
            <3>2. CASE k < x
                <4>1. N - 1 - x \in Idx /\ N - 1 - k \in Idx /\ N - 1 - x < N - 1 - k
                    BY <1>1, <3>2
                <4>2. CellAt(1, y, N - 1 - x) = <<y, x>> /\ CellAt(1, y, N - 1 - k) = <<y, k>>
                    BY <1>1, <1>3, <4>1
                <4> QED
                    BY <1>1, <2>1, <2>2, <4>1, <4>2
            <3> QED
                BY <1>1, <2>2, <3>1, <3>2
        <2>3. ASSUME NEW y \in Idx, NEW x \in Idx, b[<<y, x>>] = 0 PROVE \A k \in Idx : b[<<k, x>>] = 0
            <3> TAKE k \in Idx
            <3>1. CASE y < k
                <4>1. 0 \in Moves /\ CellAt(0, x, y) = <<y, x>> /\ CellAt(0, x, k) = <<k, x>>
                    BY <1>1, <1>3
                <4> QED
                    BY <2>1, <2>3, <3>1, <4>1
            <3>2. CASE k < y
                <4>1. N - 1 - y \in Idx /\ N - 1 - k \in Idx /\ N - 1 - y < N - 1 - k
                    BY <1>1, <3>2
                <4>2. CellAt(2, x, N - 1 - y) = <<y, x>> /\ CellAt(2, x, N - 1 - k) = <<k, x>>
                    BY <1>1, <1>3, <4>1
                <4> QED
                    BY <1>1, <2>1, <2>3, <4>1, <4>2
            <3> QED
                BY <1>1, <2>3, <3>1, <3>2
        <2>4. \A y, x \in Idx : b[<<y, x>>] # 0
            <3> SUFFICES ASSUME NEW y \in Idx, NEW x \in Idx, b[<<y, x>>] = 0 PROVE FALSE
                OBVIOUS
            <3>1. \A v, w \in Idx : b[<<v, w>>] = 0
                BY <2>2, <2>3
            <3> QED
                BY <3>1 DEF Squares
        <2>5. ASSUME NEW d \in Moves, NEW i \in Idx, NEW j \in Idx, j < N - 1
              PROVE  b[CellAt(d, i, j)] # b[CellAt(d, i, j + 1)]
            <3>1. Full(Line(b, d, i), N)
                <4>1. ASSUME NEW k \in 1..N PROVE Line(b, d, i)[k] # 0
                    <5>1. CellAt(d, i, k - 1) \in Squares
                        <6>1. k - 1 \in Idx
                            BY <1>1
                        <6> QED
                            BY <6>1, LinesNumberCells
                    <5>2. b[CellAt(d, i, k - 1)] # 0
                        BY <2>4, <5>1 DEF Squares
                    <5> QED
                        BY <1>2, <5>2
                <4> QED
                    BY <4>1 DEF Full
            <3>2. ~ Twins(Line(b, d, i), N)
                BY <1>2, <1>5, <3>1
            <3>3. /\ j + 1 \in 1..(N - 1) /\ j + 1 \in 1..N /\ (j + 1) + 1 \in 1..N /\ (j + 1) - 1 = j
                  /\ ((j + 1) + 1) - 1 = j + 1
                BY <1>1, <2>5
            <3>4. Line(b, d, i)[j + 1] # Line(b, d, i)[(j + 1) + 1]
                BY <3>2, <3>3 DEF Twins
            <3> QED
                BY <1>2, <3>3, <3>4
        <2>6. ASSUME NEW y \in Idx, NEW x \in Idx, x < N - 1 PROVE b[<<y, x>>] # b[<<y, x + 1>>]
            <3>1. x + 1 \in Idx /\ 3 \in Moves
                BY <1>1, <2>6
            <3> QED
                BY <1>3, <2>5, <2>6, <3>1
        <2>7. ASSUME NEW y \in Idx, NEW x \in Idx, y < N - 1 PROVE b[<<y, x>>] # b[<<y + 1, x>>]
            <3>1. y + 1 \in Idx /\ 0 \in Moves
                BY <1>1, <2>7
            <3> QED
                BY <1>3, <2>5, <2>7, <3>1
        <2> QED
            BY <2>4, <2>6, <2>7 DEF board_has_move
    <1> QED
        BY <1>4, <1>5

-----------------------------------------------------------------------------
\* Why the end test is right: a game always has a tile, and the game is over
\* exactly when board_has_move found none.
BoardInv == /\ board \in Boards /\ over2048 \in {0, 1}
            /\ \E c \in Squares : board[c] # 0
            /\ over2048 = 1 <=> ~ board_has_move(board)

\* A board with room gets a tile, a full one has tiles.
LEMMA TileAdded ==
    ASSUME NEW b \in Boards, NEW t \in board_add_tile(b)
    PROVE  /\ t.board \in Boards /\ \E c \in Squares : t.board[c] # 0
           /\ \E c \in Squares : \A x \in Squares : x # c => t.board[x] = b[x]
    <1>1. <<0, 0>> \in Squares
        BY GameAssumption DEF Squares, Idx
    <1>2. CASE Empty(b) = {}
        <2>1. t.board = b
            BY <1>2 DEF board_add_tile
        <2>2. b[<<0, 0>>] # 0
            BY <1>1, <1>2 DEF Empty
        <2> QED
            BY <1>1, <2>1, <2>2
    <1>3. CASE Empty(b) # {}
        <2>1. PICK c \in Empty(b), v \in {2, 4} :
                  t = [board |-> [x \in Squares |-> IF x = c THEN v ELSE b[x]], tile |-> v]
            BY <1>3 DEF board_add_tile
        <2>2. t.board = [x \in Squares |-> IF x = c THEN v ELSE b[x]]
            BY <2>1
        <2>3. c \in Squares
            BY DEF Empty
        <2>4. t.board \in Boards
            BY <2>2 DEF Boards
        <2>5. t.board[c] # 0 /\ \A x \in Squares : x # c => t.board[x] = b[x]
            BY <2>2, <2>3
        <2> QED
            BY <2>3, <2>4, <2>5
    <1> QED
        BY <1>2, <1>3

\* A new game has a tile and an empty cell.
LEMMA NewGameOK ==
    ASSUME NEW g \in NewGames
    PROVE  /\ g.board \in Boards /\ \E c \in Squares : g.board[c] # 0
           /\ board_has_move(g.board)
    <1> DEFINE empty == [c \in Squares |-> 0]
    <1>1. PICK t \in board_add_tile(empty) :
              \E u \in board_add_tile(t.board) : g = [board |-> u.board, fours |-> Four(t) + Four(u)]
        BY DEF NewGames
    <1>2. PICK u \in board_add_tile(t.board) : g = [board |-> u.board, fours |-> Four(t) + Four(u)]
        BY <1>1
    <1>3. empty \in Boards /\ \A x \in Squares : empty[x] = 0
        BY DEF Boards
    <1> HIDE DEF empty
    <1>4. /\ t.board \in Boards
          /\ \E c \in Squares : \A x \in Squares : x # c => t.board[x] = empty[x]
        BY <1>3, TileAdded
    <1>5. PICK c \in Squares : \A x \in Squares : x # c => t.board[x] = 0
        BY <1>3, <1>4
    <1>6. /\ u.board \in Boards /\ \E x \in Squares : u.board[x] # 0
          /\ \E e \in Squares : \A x \in Squares : x # e => u.board[x] = t.board[x]
        BY <1>4, TileAdded
    <1>7. PICK e \in Squares : \A x \in Squares : x # e => u.board[x] = t.board[x]
        BY <1>6
    <1>8. 0 \in Idx /\ 1 \in Idx
        BY GameAssumption DEF Idx
    <1>9. <<0, 0>> \in Squares /\ <<0, 1>> \in Squares /\ <<1, 0>> \in Squares
        BY <1>8 DEF Squares
    <1>10. \E y, x \in Idx : <<y, x>> \in Squares /\ <<y, x>> # c /\ <<y, x>> # e
        <2>1. <<0, 0>> # <<0, 1>> /\ <<0, 0>> # <<1, 0>> /\ <<0, 1>> # <<1, 0>>
            OBVIOUS
        <2> QED
            BY <1>8, <1>9, <2>1, Zenon
    <1>11. \E y, x \in Idx : u.board[<<y, x>>] = 0
        BY <1>5, <1>7, <1>10
    <1>12. g.board = u.board
        BY <1>2
    <1>13. board_has_move(u.board)
        BY <1>11 DEF board_has_move
    <1> QED
        BY <1>6, <1>12, <1>13

\* A new game has a tile and a move.
LEMMA GameInitial == GameInit => BoardInv
    <1> SUFFICES ASSUME GameInit PROVE BoardInv
        OBVIOUS
    <1>1. PICK g \in NewGames : board = g.board /\ over2048 = 0
        BY DEF GameInit
    <1>2. board \in Boards /\ (\E c \in Squares : board[c] # 0) /\ board_has_move(board)
        BY <1>1, NewGameOK
    <1> QED
        BY <1>1, <1>2 DEF BoardInv

\* A move keeps the tiles, and tests the board it leaves.
LEMMA GameStep == BoardInv /\ [GameNext]_boardVars => BoardInv'
    <1> SUFFICES ASSUME BoardInv, [GameNext]_boardVars PROVE BoardInv'
        OBVIOUS
    <1>1. CASE board_new_game
        <2>1. PICK g \in NewGames : board' = g.board
            BY <1>1 DEF board_new_game
        <2>2. /\ board' \in Boards /\ (\E c \in Squares : board'[c] # 0) /\ board_has_move(board')
              /\ over2048' = 0
            BY <1>1, <2>1, NewGameOK DEF board_new_game
        <2>3. board_has_move(board)'
            BY <2>2 DEF board_has_move
        <2> QED
            BY <2>2, <2>3 DEF BoardInv, Boards
    <1>2. ASSUME NEW d \in Moves, game_2048_move(d) PROVE BoardInv'
        <2> DEFINE b == Shifted(board, d)
        <2>1. b \in Boards
            BY LinesOfBoard DEF BoardInv
        <2>2. /\ b = board => board' = b
              /\ b # board => \E t \in board_add_tile(b) : board' = t.board
              /\ over2048' = IF board_has_move(board') THEN 0 ELSE 1
            BY <1>2 DEF game_2048_move
        <2> HIDE DEF b
        <2>3. board' \in Boards /\ \E c \in Squares : board'[c] # 0
            <3>1. CASE b = board
                BY <2>1, <2>2, <3>1 DEF BoardInv
            <3>2. CASE b # board
                BY <2>1, <2>2, <3>2, TileAdded
            <3> QED
                BY <3>1, <3>2
        <2>4. over2048' \in {0, 1} /\ (over2048' = 1 <=> ~ board_has_move(board'))
            BY <2>2
        <2>5. board_has_move(board)' <=> board_has_move(board')
            BY DEF board_has_move
        <2> QED
            BY <2>3, <2>4, <2>5 DEF BoardInv, Boards
    <1>3. CASE UNCHANGED boardVars
        BY <1>3 DEF BoardInv, boardVars, Boards, board_has_move
    <1> QED
        BY <1>1, <1>2, <1>3 DEF GameNext

\* The inductive invariant, for every board size.
THEOREM GameInvariant == GameSpec => []BoardInv
    BY GameInitial, GameStep, PTL DEF GameSpec

\* The game is over exactly when no direction would change the board: the
\* end test, written apart from the moves, agrees with compress_line.
THEOREM GameOverMeansStuck == GameSpec => []OverMeansStuck
    <1>1. BoardInv => OverMeansStuck
        BY HasMoveIsRight DEF BoardInv, OverMeansStuck
    <1> QED
        BY <1>1, GameInvariant, PTL

-----------------------------------------------------------------------------
(***************************************************************************)
(* Sums                                                                    *)
(***************************************************************************)
Ints(f, n) == \A j \in 1..n : f[j] \in Int

\* The sums of the first terms: none is 0, and each adds its term.
LEMMA SumSteps ==
    ASSUME NEW n \in Nat, NEW f, Ints(f, n)
    PROVE  /\ \A i \in 0..n : Sum(f, i) \in Int
           /\ Sum(f, 0) = 0
           /\ \A i \in 1..n : Sum(f, i) = Sum(f, i - 1) + f[i]
    <1> DEFINE F == [q \in (1..n) \X Int |-> q[2] + f[q[1]]]
               Def(h, m) == h = [i \in 0..m |-> IF i = 0 THEN 0 ELSE h[i - 1] + f[i]]
    <1>1. F \in [(1..n) \X Int -> Int]
        BY DEF Ints
    <1>2. PICK g \in [0..n -> Int] : g[0] = 0 /\ \A i \in 1..n : g[i] = F[<<i, g[i - 1]>>]
        <2> HIDE DEF F
        <2>1. 0 \in Int
            OBVIOUS
        <2>2. \E g : Recursion(g, n, Int, 0, F)
            BY <1>1, <2>1, RecursionExists, Zenon
        <2> QED
            BY <2>2 DEF Recursion
    <1>3. \A i \in 1..n : g[i] = g[i - 1] + f[i]
        <2> TAKE i \in 1..n
        <2>1. i - 1 \in 0..n
            OBVIOUS
        <2> QED
            BY <1>2, <2>1
    <1> HIDE DEF F
    <1>4. ASSUME NEW m \in 0..n PROVE Sum(f, m) = g[m]
        <2> DEFINE s == CHOOSE h : Def(h, m)
        <2>1. Sum(f, m) = s[m]
            BY DEF Sum
        <2> DEFINE r == [i \in 0..m |-> g[i]]
        <2>2. Def(r, m)
            <3>1. \A i \in 0..m : r[i] = IF i = 0 THEN 0 ELSE r[i - 1] + f[i]
                BY <1>2, <1>3
            <3> QED
                BY <3>1
        <2>3. Def(s, m)
            <3> HIDE DEF Def, r
            <3> QED
                BY <2>2, Zenon
        <2> HIDE DEF s
        <2>4. s[0] = 0 /\ \A i \in 1..m : s[i] = s[i - 1] + f[i]
            BY <2>3
        <2> DEFINE T == {i \in 0..m : s[i] = g[i]}
        <2>5. 0 \in T
            BY <1>2, <2>4
        <2>6. ASSUME NEW i \in 1..m, i - 1 \in T PROVE i \in T
            <3>1. s[i] = s[i - 1] + f[i] /\ g[i] = g[i - 1] + f[i]
                BY <1>3, <2>4
            <3> QED
                BY <2>6, <3>1
        <2> HIDE DEF T
        <2>7. m \in T
            <3>1. m \in Nat /\ m \in 0..m
                OBVIOUS
            <3> QED
                BY <2>5, <2>6, <3>1, SetInduction
        <2> QED
            BY <2>1, <2>7 DEF T
    <1>5. ASSUME NEW i \in 1..n PROVE Sum(f, i) = Sum(f, i - 1) + f[i]
        <2>1. i \in 0..n /\ i - 1 \in 0..n
            OBVIOUS
        <2> QED
            BY <1>3, <1>4, <2>1
    <1> QED
        BY <1>2, <1>4, <1>5

\* Sums of terms that are no larger term by term, and no smaller.
LEMMA SumCompare ==
    ASSUME NEW n \in Nat, NEW f, NEW g, Ints(f, n), Ints(g, n)
    PROVE  /\ (\A j \in 1..n : f[j] <= g[j]) => Sum(f, n) <= Sum(g, n)
           /\ (\A j \in 1..n : f[j] = g[j]) => Sum(f, n) = Sum(g, n)
    <1>1. ASSUME \A j \in 1..n : f[j] <= g[j] PROVE Sum(f, n) <= Sum(g, n)
        <2> DEFINE T == {i \in 0..n : Sum(f, i) <= Sum(g, i)}
        <2>1. 0 \in T
            BY SumSteps
        <2>2. ASSUME NEW i \in 1..n, i - 1 \in T PROVE i \in T
            <3>1. Sum(f, i) = Sum(f, i - 1) + f[i] /\ Sum(g, i) = Sum(g, i - 1) + g[i]
                BY SumSteps
            <3>2. Sum(f, i - 1) \in Int /\ Sum(g, i - 1) \in Int /\ f[i] \in Int /\ g[i] \in Int /\ f[i] <= g[i]
                <4>1. i - 1 \in 0..n
                    OBVIOUS
                <4> QED
                    BY <1>1, <4>1, SumSteps DEF Ints
            <3>3. Sum(f, i - 1) <= Sum(g, i - 1)
                BY <2>2
            <3> QED
                BY <3>1, <3>2, <3>3
        <2> HIDE DEF T
        <2>3. n \in T
            BY <2>1, <2>2, SetInduction
        <2> QED
            BY <2>3 DEF T
    <1>2. ASSUME \A j \in 1..n : f[j] = g[j] PROVE Sum(f, n) = Sum(g, n)
        <2> DEFINE T == {i \in 0..n : Sum(f, i) = Sum(g, i)}
        <2>1. 0 \in T
            BY SumSteps
        <2>2. ASSUME NEW i \in 1..n, i - 1 \in T PROVE i \in T
            <3>1. Sum(f, i) = Sum(f, i - 1) + f[i] /\ Sum(g, i) = Sum(g, i - 1) + g[i]
                BY SumSteps
            <3>2. Sum(f, i - 1) = Sum(g, i - 1) /\ f[i] = g[i]
                BY <1>2, <2>2
            <3> QED
                BY <3>1, <3>2
        <2> HIDE DEF T
        <2>3. n \in T
            BY <2>1, <2>2, SetInduction
        <2> QED
            BY <2>3 DEF T
    <1> QED
        BY <1>1, <1>2

\* The sum of two functions.
LEMMA SumOfSums ==
    ASSUME NEW n \in Nat, NEW f, NEW g, NEW h, Ints(f, n), Ints(g, n),
           \A j \in 1..n : h[j] = f[j] + g[j]
    PROVE  Sum(h, n) = Sum(f, n) + Sum(g, n)
    <1> DEFINE T == {i \in 0..n : Sum(h, i) = Sum(f, i) + Sum(g, i)}
    <1>1. Ints(h, n)
        BY DEF Ints
    <1>2. 0 \in T
        BY <1>1, SumSteps
    <1>3. ASSUME NEW i \in 1..n, i - 1 \in T PROVE i \in T
        <2>1. /\ Sum(f, i) = Sum(f, i - 1) + f[i] /\ Sum(g, i) = Sum(g, i - 1) + g[i]
              /\ Sum(h, i) = Sum(h, i - 1) + h[i]
            BY <1>1, SumSteps
        <2>2. Sum(f, i - 1) \in Int /\ Sum(g, i - 1) \in Int /\ f[i] \in Int /\ g[i] \in Int
            <3>1. i - 1 \in 0..n
                OBVIOUS
            <3> QED
                BY <3>1, SumSteps DEF Ints
        <2>3. Sum(h, i - 1) = Sum(f, i - 1) + Sum(g, i - 1) /\ h[i] = f[i] + g[i]
            BY <1>3
        <2> QED
            BY <2>1, <2>2, <2>3
    <1> HIDE DEF T
    <1>4. n \in T
        BY <1>2, <1>3, SetInduction
    <1> QED
        BY <1>4 DEF T

\* The sum changes by what its one changed term changes by.
LEMMA SumUpdate ==
    ASSUME NEW n \in Nat, NEW f, NEW g, Ints(f, n), Ints(g, n),
           NEW i \in 1..n, \A j \in 1..n : j # i => g[j] = f[j]
    PROVE  Sum(g, n) = Sum(f, n) + g[i] - f[i]
    <1> DEFINE T == {k \in 0..n : Sum(g, k) = IF k < i THEN Sum(f, k) ELSE Sum(f, k) + g[i] - f[i]}
    <1>1. 0 \in T
        BY SumSteps
    <1>2. ASSUME NEW k \in 1..n, k - 1 \in T PROVE k \in T
        <2>1. Sum(f, k) = Sum(f, k - 1) + f[k] /\ Sum(g, k) = Sum(g, k - 1) + g[k]
            BY SumSteps
        <2>2. Sum(f, k - 1) \in Int /\ Sum(g, k - 1) \in Int /\ f[k] \in Int /\ g[k] \in Int
            <3>1. k - 1 \in 0..n
                OBVIOUS
            <3> QED
                BY <3>1, SumSteps DEF Ints
        <2>3. Sum(g, k - 1) = IF k - 1 < i THEN Sum(f, k - 1) ELSE Sum(f, k - 1) + g[i] - f[i]
            BY <1>2
        <2>4. f[i] \in Int /\ g[i] \in Int
            BY DEF Ints
        <2>5. CASE k = i
            BY <2>1, <2>2, <2>3, <2>5
        <2>6. CASE k # i
            <3>1. g[k] = f[k]
                BY <2>6
            <3> QED
                BY <2>1, <2>2, <2>3, <2>4, <2>6, <3>1
        <2> QED
            BY <2>5, <2>6
    <1> HIDE DEF T
    <1>3. n \in T
        BY <1>1, <1>2, SetInduction
    <1> QED
        BY <1>3 DEF T

\* No term after the m-th adds anything.
LEMMA SumPadded ==
    ASSUME NEW n \in Nat, NEW m \in 0..n, NEW f, Ints(f, n), \A j \in (m + 1)..n : f[j] = 0
    PROVE  Sum(f, n) = Sum(f, m)
    <1> DEFINE T == {k \in 0..n : k >= m => Sum(f, k) = Sum(f, m)}
    <1>1. 0 \in T
        OBVIOUS
    <1>2. ASSUME NEW k \in 1..n, k - 1 \in T PROVE k \in T
        <2>1. Sum(f, k) = Sum(f, k - 1) + f[k]
            BY SumSteps
        <2>2. Sum(f, k - 1) \in Int
            <3>1. k - 1 \in 0..n
                OBVIOUS
            <3> QED
                BY <3>1, SumSteps
        <2>3. CASE k > m
            <3>1. k - 1 >= m /\ k \in (m + 1)..n
                BY <2>3
            <3> QED
                BY <1>2, <2>1, <2>2, <3>1
        <2>4. CASE ~(k > m)
            BY <2>4
        <2> QED
            BY <2>3, <2>4
    <1> HIDE DEF T
    <1>3. n \in T
        BY <1>1, <1>2, SetInduction
    <1> QED
        BY <1>3 DEF T

\* n terms of at most c.
LEMMA SumBound ==
    ASSUME NEW n \in Nat, NEW f, NEW c \in Int, Ints(f, n), \A j \in 1..n : f[j] <= c
    PROVE  Sum(f, n) <= n * c
    <1> DEFINE T == {k \in 0..n : Sum(f, k) <= k * c}
    <1>1. 0 \in T
        BY SumSteps
    <1>2. ASSUME NEW k \in 1..n, k - 1 \in T PROVE k \in T
        <2>1. Sum(f, k) = Sum(f, k - 1) + f[k] /\ f[k] <= c /\ f[k] \in Int
            BY SumSteps DEF Ints
        <2>2. Sum(f, k - 1) \in Int
            <3>1. k - 1 \in 0..n
                OBVIOUS
            <3> QED
                BY <3>1, SumSteps
        <2>3. Sum(f, k - 1) <= (k - 1) * c
            BY <1>2
        <2>4. (k - 1) * c + c = k * c /\ (k - 1) * c \in Int
            OBVIOUS
        <2> HIDE DEF T
        <2>5. Sum(f, k) <= k * c
            BY <2>1, <2>2, <2>3, <2>4
        <2> QED
            BY <2>5 DEF T
    <1> HIDE DEF T
    <1>3. n \in T
        BY <1>1, <1>2, SetInduction
    <1> QED
        BY <1>3 DEF T

\* The terms in the opposite order.
LEMMA SumReversed ==
    ASSUME NEW n \in Nat, NEW f, NEW g, Ints(f, n), \A j \in 1..n : g[j] = f[n + 1 - j]
    PROVE  Sum(g, n) = Sum(f, n)
    <1> DEFINE T == {k \in 0..n : Sum(g, k) = Sum(f, n) - Sum(f, n - k)}
    <1>1. Ints(g, n)
        BY DEF Ints
    <1>2. 0 \in T
        BY <1>1, SumSteps
    <1>3. ASSUME NEW k \in 1..n, k - 1 \in T PROVE k \in T
        <2> DEFINE j == n + 1 - k
        <2>1. j \in 1..n /\ j - 1 = n - k /\ n - (k - 1) = j
            OBVIOUS
        <2>2. Sum(g, k) = Sum(g, k - 1) + f[j]
            BY <1>1, SumSteps
        <2> HIDE DEF j
        <2>3. Sum(f, j) = Sum(f, j - 1) + f[j]
            BY <2>1, SumSteps
        <2>4. Sum(f, j - 1) \in Int /\ f[j] \in Int /\ Sum(f, n) \in Int
            <3>1. j - 1 \in 0..n /\ n \in 0..n
                BY <2>1
            <3> QED
                BY <2>1, <3>1, SumSteps DEF Ints
        <2>5. Sum(g, k - 1) = Sum(f, n) - Sum(f, j)
            BY <1>3, <2>1
        <2>6. Sum(g, k) = Sum(f, n) - Sum(f, n - k)
            BY <2>1, <2>2, <2>3, <2>4, <2>5
        <2> QED
            BY <2>6
    <1> HIDE DEF T
    <1>4. n \in T
        BY <1>2, <1>3, SetInduction
    <1>5. n - n = 0 /\ Sum(f, 0) = 0 /\ Sum(f, n) \in Int
        BY SumSteps
    <1> QED
        BY <1>4, <1>5 DEF T

\* A sum of sums by rows or by columns.
LEMMA SumExchange ==
    ASSUME NEW n \in Nat, NEW a \in [1..n -> [1..n -> Int]]
    PROVE  Sum([i \in 1..n |-> Sum(a[i], n)], n) = Sum([j \in 1..n |-> Sum([i \in 1..n |-> a[i][j]], n)], n)
    <1> DEFINE row    == [i \in 1..n |-> Sum(a[i], n)]
               col(j) == [i \in 1..n |-> a[i][j]]
               cols(k) == [j \in 1..n |-> Sum(col(j), k)]
               T == {k \in 0..n : Sum(row, k) = Sum(cols(k), n)}
    <1>1. ASSUME NEW i \in 1..n PROVE Ints(a[i], n) /\ row[i] = Sum(a[i], n) /\ row[i] \in Int
        <2>1. Ints(a[i], n)
            BY DEF Ints
        <2>2. n \in 0..n
            OBVIOUS
        <2>3. Sum(a[i], n) \in Int
            BY <2>1, <2>2, SumSteps
        <2> QED
            BY <2>1, <2>3
    <1>2. Ints(row, n)
        BY <1>1 DEF Ints
    <1>3. ASSUME NEW j \in 1..n PROVE Ints(col(j), n) /\ \A i \in 1..n : col(j)[i] = a[i][j]
        BY DEF Ints
    <1>4. ASSUME NEW k \in 0..n PROVE Ints(cols(k), n) /\ \A j \in 1..n : cols(k)[j] = Sum(col(j), k)
        <2>1. ASSUME NEW j \in 1..n PROVE Sum(col(j), k) \in Int
            <3> HIDE DEF col
            <3> QED
                BY <1>3, SumSteps
        <2> QED
            BY <2>1 DEF Ints
    <1> HIDE DEF row, col, cols
    <1>5. 0 \in T
        <2>1. 0 \in 0..n /\ n \in 0..n
            OBVIOUS
        <2>2. \A j \in 1..n : cols(0)[j] = 0
            BY <1>3, <1>4, <2>1, SumSteps
        <2>3. Sum(cols(0), n) = Sum(cols(0), 0)
            BY <1>4, <2>1, <2>2, SumPadded
        <2>4. Sum(cols(0), 0) = 0 /\ Sum(row, 0) = 0
            BY <1>2, <1>4, <2>1, SumSteps
        <2> QED
            BY <2>3, <2>4
    <1>6. ASSUME NEW k \in 1..n, k - 1 \in T PROVE k \in T
        <2>1. k - 1 \in 0..n /\ k \in 0..n
            OBVIOUS
        <2>2. ASSUME NEW j \in 1..n PROVE cols(k)[j] = cols(k - 1)[j] + a[k][j]
            <3>1. Sum(col(j), k) = Sum(col(j), k - 1) + col(j)[k]
                BY <1>3, SumSteps
            <3>2. cols(k)[j] = Sum(col(j), k) /\ cols(k - 1)[j] = Sum(col(j), k - 1) /\ col(j)[k] = a[k][j]
                BY <1>3, <1>4, <2>1
            <3> QED
                BY <3>1, <3>2
        <2>3. Ints(cols(k - 1), n) /\ Ints(a[k], n)
            BY <1>1, <1>4, <2>1
        <2>4. Sum(cols(k), n) = Sum(cols(k - 1), n) + Sum(a[k], n)
            BY <2>2, <2>3, SumOfSums
        <2>5. Sum(row, k) = Sum(row, k - 1) + Sum(a[k], n)
            BY <1>1, <1>2, SumSteps
        <2> QED
            BY <1>6, <2>1, <2>4, <2>5
    <1>7. n \in T
        <2> HIDE DEF T
        <2>1. \A k \in 0..n : k \in T
            BY <1>5, <1>6, SetInduction
        <2> QED
            BY <2>1
    <1> QED
        BY <1>7 DEF row, cols, col

-----------------------------------------------------------------------------
(***************************************************************************)
(* Lines and boards weighed                                                *)
(***************************************************************************)
\* What the cells of a line weigh together when a cell of value v weighs w[v].
Weight(w, line, n) == Sum([j \in 1..n |-> w[line[j]]], n)

Weighs(w, line, n) == \A j \in 1..n : w[line[j]] \in Int

\* What the first i cells weigh.
LEMMA WeightSteps ==
    ASSUME NEW n \in Nat, NEW w, NEW line, Weighs(w, line, n)
    PROVE  /\ \A i \in 0..n : Weight(w, line, i) \in Int
           /\ Weight(w, line, 0) = 0
           /\ \A i \in 1..n : Weight(w, line, i) = Weight(w, line, i - 1) + w[line[i]]
    <1> DEFINE f(i) == [j \in 1..i |-> w[line[j]]]
    <1>1. ASSUME NEW i \in 0..n PROVE Ints(f(i), i) /\ \A j \in 1..i : f(i)[j] = w[line[j]]
        BY DEF Ints, Weighs
    <1>2. \A i \in 0..n : Weight(w, line, i) = Sum(f(i), i)
        BY DEF Weight
    <1> HIDE DEF f
    <1>3. ASSUME NEW i \in 0..n PROVE i \in Nat /\ i \in 0..i
        OBVIOUS
    <1>4. ASSUME NEW i \in 0..n PROVE Weight(w, line, i) \in Int
        BY <1>1, <1>2, <1>3, SumSteps
    <1>5. Weight(w, line, 0) = 0
        <2>1. 0 \in 0..n
            OBVIOUS
        <2> QED
            BY <1>1, <1>2, <1>3, <2>1, SumSteps
    <1>6. ASSUME NEW i \in 1..n PROVE Weight(w, line, i) = Weight(w, line, i - 1) + w[line[i]]
        <2>1. i \in 0..n /\ i - 1 \in 0..n /\ i \in Nat /\ i - 1 \in Nat /\ i \in 1..i
            OBVIOUS
        <2>2. Sum(f(i), i) = Sum(f(i), i - 1) + f(i)[i]
            BY <1>1, <2>1, SumSteps
        <2>3. Sum(f(i), i - 1) = Sum(f(i - 1), i - 1)
            <3>1. Ints(f(i), i - 1) /\ Ints(f(i - 1), i - 1)
                BY <1>1, <2>1 DEF Ints
            <3>2. \A j \in 1..(i - 1) : f(i)[j] = f(i - 1)[j]
                BY <1>1, <2>1
            <3> QED
                BY <2>1, <3>1, <3>2, SumCompare
        <2> QED
            BY <1>1, <1>2, <2>1, <2>2, <2>3
    <1> QED
        BY <1>4, <1>5, <1>6

\* Two lines compared cell by cell, a line reversed, and a line of which one
\* cell changes.
LEMMA WeightCompare ==
    ASSUME NEW n \in Nat, NEW w, NEW u, NEW line, NEW new, Weighs(w, line, n), Weighs(u, new, n)
    PROVE  /\ (\A j \in 1..n : w[line[j]] <= u[new[j]]) => Weight(w, line, n) <= Weight(u, new, n)
           /\ (\A j \in 1..n : w[line[j]] = u[new[j]]) => Weight(w, line, n) = Weight(u, new, n)
           /\ (\A j \in 1..n : u[new[j]] = w[line[n + 1 - j]]) => Weight(u, new, n) = Weight(w, line, n)
           /\ \A i \in 1..n : (\A j \in 1..n : j # i => u[new[j]] = w[line[j]])
                  => Weight(u, new, n) = Weight(w, line, n) + u[new[i]] - w[line[i]]
    <1> DEFINE f == [j \in 1..n |-> w[line[j]]]
               g == [j \in 1..n |-> u[new[j]]]
    <1>1. /\ Ints(f, n) /\ Ints(g, n)
          /\ \A j \in 1..n : f[j] = w[line[j]] /\ g[j] = u[new[j]]
        BY DEF Ints, Weighs
    <1>2. Weight(w, line, n) = Sum(f, n) /\ Weight(u, new, n) = Sum(g, n)
        BY DEF Weight
    <1> HIDE DEF f, g
    <1>3. ASSUME \A j \in 1..n : w[line[j]] <= u[new[j]] PROVE Sum(f, n) <= Sum(g, n)
        BY <1>1, <1>3, SumCompare
    <1>4. ASSUME \A j \in 1..n : w[line[j]] = u[new[j]] PROVE Sum(f, n) = Sum(g, n)
        BY <1>1, <1>4, SumCompare
    <1>5. ASSUME \A j \in 1..n : u[new[j]] = w[line[n + 1 - j]] PROVE Sum(g, n) = Sum(f, n)
        <2>1. \A j \in 1..n : g[j] = f[n + 1 - j]
            BY <1>1, <1>5
        <2> QED
            BY <1>1, <2>1, SumReversed
    <1>6. ASSUME NEW i \in 1..n, \A j \in 1..n : j # i => u[new[j]] = w[line[j]]
          PROVE  Sum(g, n) = Sum(f, n) + g[i] - f[i]
        BY <1>1, <1>6, SumUpdate
    <1> QED
        BY <1>1, <1>2, <1>3, <1>4, <1>5, <1>6

\* The values weigh something.
Scale(w, V) == \A v \in V : w[v] \in Int

\* Compacting a line adds no values and leaves its weight, if a gap weighs
\* nothing.
LEMMA CompactWeight ==
    ASSUME NEW n \in Nat, NEW V \in SUBSET Nat, 0 \in V, NEW line \in [1..n -> V],
           NEW w, Scale(w, V), w[0] = 0
    PROVE  Compact(line) \in [1..n -> V] /\ Weight(w, Compact(line), n) = Weight(w, line, n)
    <1> DEFINE p == Packed(line)
               In(i) == \A j \in 1..Len(p[i]) : p[i][j] \in V
               T == {i \in 0..n : In(i) /\ Weight(w, p[i], Len(p[i])) = Weight(w, line, i)}
    <1> USE DEF Scale
    <1>1. line \in [1..n -> Nat] /\ Len(line) = n
        BY FunctionIsSeq
    <1>2. (\A i \in 1..n : line[i] \in V) /\ Weighs(w, line, n)
        BY DEF Weighs
    <1>3. p[0] = <<>> /\ Len(p[0]) = 0
        BY <1>1, PackedRounds
    <1>4. ASSUME NEW i \in 1..n
          PROVE  /\ Len(p[i - 1]) \in Nat
                 /\ line[i] = 0 => p[i] = p[i - 1]
                 /\ line[i] # 0 => /\ Len(p[i]) = Len(p[i - 1]) + 1 /\ p[i][Len(p[i])] = line[i]
                                   /\ \A j \in 1..Len(p[i - 1]) : p[i][j] = p[i - 1][j]
        BY <1>1, PackedRound, Zenon
    <1>5. p[n] \in Seq(Tiles) /\ Len(p[n]) \in 0..n
        <2>1. n \in 0..n /\ p \in [0..n -> Seq(Tiles)]
            BY <1>1, PackedRounds
        <2>2. Len(p[n]) <= n
            BY <1>1, <2>1, PackedLength
        <2> HIDE DEF p
        <2>3. p[n] \in Seq(Tiles)
            BY <2>1
        <2> QED
            BY <2>2, <2>3, LenProperties
    <1> HIDE DEF p
    <1>6. 0 \in T
        <2>1. 0 \in Nat /\ Weighs(w, p[0], 0)
            BY DEF Weighs
        <2>2. Weight(w, p[0], 0) = 0
            BY <2>1, WeightSteps
        <2>3. Weight(w, line, 0) = 0
            BY <1>2, WeightSteps
        <2> QED
            BY <1>3, <2>2, <2>3
    <1>7. ASSUME NEW i \in 1..n, i - 1 \in T PROVE i \in T
        <2> DEFINE m == Len(p[i - 1])
        <2>1. In(i - 1) /\ Weight(w, p[i - 1], m) = Weight(w, line, i - 1)
            BY <1>7
        <2>2. Weight(w, line, i) = Weight(w, line, i - 1) + w[line[i]] /\ Weight(w, line, i - 1) \in Int
            <3>1. i - 1 \in 0..n
                OBVIOUS
            <3> HIDE DEF T, In, m
            <3>2. Weight(w, line, i - 1) \in Int
                BY <1>2, <3>1, WeightSteps
            <3>3. Weight(w, line, i) = Weight(w, line, i - 1) + w[line[i]]
                <4>1. Weighs(w, line, n)
                    BY <1>2
                <4>2. \A k \in 1..n : Weight(w, line, k) = Weight(w, line, k - 1) + w[line[k]]
                    BY <4>1, WeightSteps
                <4> QED
                    BY <4>2, Zenon
            <3> QED
                BY <3>2, <3>3
        <2>3. CASE line[i] = 0
            <3>1. p[i] = p[i - 1] /\ Weight(w, line, i) = Weight(w, line, i - 1)
                BY <1>4, <2>2, <2>3
            <3> QED
                BY <2>1, <3>1
        <2>4. CASE line[i] # 0
            <3>1. /\ m \in Nat /\ Len(p[i]) = m + 1 /\ p[i][m + 1] = line[i]
                  /\ \A j \in 1..m : p[i][j] = p[i - 1][j] /\ p[i - 1][j] \in V
                BY <1>4, <2>1, <2>4
            <3> HIDE DEF m
            <3>2. \A j \in 1..(m + 1) : p[i][j] \in V
                BY <1>2, <3>1
            <3>3. m + 1 \in Nat /\ m + 1 \in 1..(m + 1) /\ (m + 1) - 1 = m
                BY <3>1
            <3>4. Weight(w, p[i], m + 1) = Weight(w, p[i], m) + w[line[i]]
                <4>1. Weighs(w, p[i], m + 1)
                    BY <3>2 DEF Weighs
                <4>2. Weight(w, p[i], m + 1) = Weight(w, p[i], (m + 1) - 1) + w[p[i][m + 1]]
                    BY <3>3, <4>1, WeightSteps
                <4> QED
                    BY <3>1, <3>3, <4>2
            <3>5. Weight(w, p[i], m) = Weight(w, p[i - 1], m)
                <4>1. /\ Weighs(w, p[i], m) /\ Weighs(w, p[i - 1], m)
                      /\ \A j \in 1..m : w[p[i][j]] = w[p[i - 1][j]]
                    BY <3>1 DEF Weighs
                <4> HIDE DEF T, In
                <4>2. m \in Nat
                    BY <3>1
                <4> QED
                    BY <4>1, <4>2, WeightCompare
            <3>6. In(i)
                BY <3>1, <3>2
            <3> QED
                BY <2>1, <2>2, <3>1, <3>4, <3>5, <3>6 DEF m
        <2> QED
            BY <2>3, <2>4
    <1>8. n \in T
        <2> HIDE DEF T
        <2>1. \A i \in 0..n : i \in T
            BY <1>6, <1>7, SetInduction
        <2> QED
            BY <2>1
    <1> DEFINE t == p[n]
               m == Len(t)
               c == Compact(line)
    <1>9. c = [i \in 1..n |-> IF i <= m THEN t[i] ELSE 0]
        BY <1>1 DEF Compact, p
    <1>10. m \in 0..n /\ (\A j \in 1..m : t[j] \in V) /\ Weight(w, t, m) = Weight(w, line, n)
        BY <1>5, <1>8
    <1> HIDE DEF t, m, c
    <1>11. /\ c \in [1..n -> V] /\ \A j \in 1..n : c[j] = IF j <= m THEN t[j] ELSE 0
        BY <1>9, <1>10
    <1>12. Weight(w, c, m) = Weight(w, t, m)
        <2>1. m \in Nat /\ \A j \in 1..m : t[j] \in V /\ c[j] = t[j]
            BY <1>10, <1>11
        <2>2. Weighs(w, c, m) /\ Weighs(w, t, m) /\ \A j \in 1..m : w[c[j]] = w[t[j]]
            BY <2>1 DEF Weighs
        <2> QED
            BY <2>1, <2>2, WeightCompare
    <1>13. Weight(w, c, n) = Weight(w, c, m)
        <2> DEFINE U == {i \in 0..n : i >= m => Weight(w, c, i) = Weight(w, c, m)}
        <2>1. 0 \in U
            BY <1>10
        <2>2. ASSUME NEW i \in 1..n, i - 1 \in U PROVE i \in U
            <3>1. CASE i > m
                <4>1. i - 1 >= m /\ c[i] = 0 /\ i - 1 \in 0..n
                    BY <1>10, <1>11, <3>1
                <4>2. Weighs(w, c, n)
                    BY <1>11 DEF Weighs
                <4>3. Weight(w, c, i) = Weight(w, c, i - 1) + w[c[i]] /\ Weight(w, c, i - 1) \in Int
                    BY <4>1, <4>2, WeightSteps
                <4> QED
                    BY <2>2, <4>1, <4>3
            <3>2. CASE ~(i > m)
                BY <1>10, <3>2
            <3> QED
                BY <3>1, <3>2
        <2> HIDE DEF U
        <2>3. \A i \in 0..n : i \in U
            BY <2>1, <2>2, SetInduction
        <2>4. n \in U /\ n >= m
            BY <1>10, <2>3
        <2> QED
            BY <2>4 DEF U
    <1> QED
        BY <1>10, <1>11, <1>12, <1>13 DEF c

\* What a merge does to the weight.
LEMMA MergeWeight ==
    ASSUME NEW n \in Nat, NEW V \in SUBSET Nat, 0 \in V, NEW line \in [1..n -> V],
           NEW w, Scale(w, V), w[0] = 0,
           NEW i \in 1..(n - 1), Equal(line, i), 2 * line[i] \in V
    PROVE  /\ Pair(line, i, 2 * line[i], 0) \in [1..n -> V]
           /\ Weight(w, Pair(line, i, 2 * line[i], 0), n) = Weight(w, line, n) + w[2 * line[i]] - 2 * w[line[i]]
    <1> DEFINE v == line[i]
               d == 2 * v
               new == Pair(line, i, d, 0)
               mid == [j \in 1..n |-> IF j = i THEN d ELSE line[j]]
    <1> USE DEF Scale
    <1>1. Len(line) = n /\ i \in 1..n /\ i + 1 \in 1..n /\ v \in V /\ line[i + 1] = v /\ i + 1 # i
        BY FunctionIsSeq DEF Equal
    <1>2. new = [j \in 1..n |-> IF j = i THEN d ELSE IF j = i + 1 THEN 0 ELSE line[j]]
        BY <1>1 DEF Pair
    <1>3. d \in V /\ \A j \in 1..n : line[j] \in V
        OBVIOUS
    <1> HIDE DEF new, d
    <1>4. new \in [1..n -> V] /\ mid \in [1..n -> V]
        BY <1>2, <1>3
    <1>5. /\ mid[i] = d /\ mid[i + 1] = v /\ new[i + 1] = 0
          /\ \A j \in 1..n : j # i => mid[j] = line[j]
          /\ \A j \in 1..n : j # i + 1 => new[j] = mid[j]
        BY <1>1, <1>2
    <1> HIDE DEF mid, v
    <1>6. Weighs(w, line, n) /\ Weighs(w, mid, n) /\ Weighs(w, new, n)
        BY <1>3, <1>4 DEF Weighs
    <1>7. Weight(w, mid, n) = Weight(w, line, n) + w[d] - w[v]
        <2>1. \A j \in 1..n : j # i => w[mid[j]] = w[line[j]]
            BY <1>5
        <2>2. Weight(w, mid, n) = Weight(w, line, n) + w[mid[i]] - w[line[i]]
            <3>1. i \in 1..n
                BY <1>1
            <3> QED
                BY <1>6, <2>1, <3>1, WeightCompare
        <2> QED
            BY <1>5, <2>2 DEF v
    <1>8. Weight(w, new, n) = Weight(w, mid, n) + w[0] - w[v]
        <2>1. \A j \in 1..n : j # i + 1 => w[new[j]] = w[mid[j]]
            BY <1>5
        <2>2. Weight(w, new, n) = Weight(w, mid, n) + w[new[i + 1]] - w[mid[i + 1]]
            BY <1>1, <1>6, <2>1, WeightCompare
        <2> QED
            BY <1>5, <2>2
    <1>9. Weight(w, line, n) \in Int /\ w[d] \in Int /\ w[v] \in Int
        <2>1. n \in 0..n
            OBVIOUS
        <2> QED
            BY <1>1, <1>3, <1>6, <2>1, WeightSteps
    <1>10. Weight(w, new, n) = Weight(w, line, n) + w[d] - 2 * w[v]
        BY <1>7, <1>8, <1>9
    <1> QED
        BY <1>4, <1>10 DEF new, d, v

-----------------------------------------------------------------------------
(***************************************************************************)
(* Powers of two and what tiles are worth                                  *)
(***************************************************************************)
LEMMA MaxExpOK == MaxExp \in Nat /\ MaxExp >= 5 /\ MaxExp = N * N + 1
    <1>1. N \in Nat /\ N >= 2
        BY GameAssumption
    <1>2. N * N >= 4 /\ N * N \in Nat
        BY <1>1
    <1> QED
        BY <1>2 DEF MaxExp

\* The powers double, and so they grow.
LEMMA Powers ==
    /\ Power[0] = 1
    /\ \A k \in 0..(MaxExp + 1) : Power[k] \in Nat /\ Power[k] > 0
    /\ \A k \in 1..(MaxExp + 1) : Power[k] = 2 * Power[k - 1]
    /\ \A j, k \in 0..(MaxExp + 1) : j < k => Power[j] < Power[k]
    <1> DEFINE n == MaxExp + 1
               P == Nat \ {0}
               F == [q \in (1..n) \X P |-> 2 * q[2]]
               Def(h) == h = [k \in 0..n |-> IF k = 0 THEN 1 ELSE 2 * h[k - 1]]
    <1>1. n \in Nat
        BY MaxExpOK
    <1>2. F \in [(1..n) \X P -> P] /\ 1 \in P
        OBVIOUS
    <1>3. Power = CHOOSE h : Def(h)
        BY DEF Power
    <1> HIDE DEF n
    <1>4. PICK g \in [0..n -> P] : g[0] = 1 /\ \A i \in 1..n : g[i] = F[<<i, g[i - 1]>>]
        <2> HIDE DEF F, P
        <2>1. \E g : Recursion(g, n, P, 1, F)
            BY <1>1, <1>2, RecursionExists, Zenon
        <2> QED
            BY <2>1 DEF Recursion
    <1>5. \A i \in 1..n : g[i] = 2 * g[i - 1]
        <2> TAKE i \in 1..n
        <2>1. i - 1 \in 0..n
            BY <1>1
        <2> QED
            BY <1>4, <2>1
    <1>6. Def(g)
        <2>1. \A k \in 0..n : g[k] = IF k = 0 THEN 1 ELSE 2 * g[k - 1]
            BY <1>1, <1>4, <1>5
        <2> QED
            BY <1>4, <2>1
    <1>7. Def(Power)
        <2> HIDE DEF Def
        <2> QED
            BY <1>3, <1>6, Zenon
    <1>8. Power[0] = 1 /\ \A k \in 1..n : Power[k] = 2 * Power[k - 1]
        <2>1. \A k \in 0..n : Power[k] = IF k = 0 THEN 1 ELSE 2 * Power[k - 1]
            BY <1>7
        <2> QED
            BY <1>1, <2>1
    <1>9. \A k \in 0..n : Power[k] \in Nat /\ Power[k] > 0
        <2> DEFINE T == {k \in 0..n : Power[k] \in Nat /\ Power[k] > 0}
        <2>1. 0 \in T
            BY <1>1, <1>8
        <2>2. ASSUME NEW k \in 1..n, k - 1 \in T PROVE k \in T
            BY <1>1, <1>8, <2>2
        <2> HIDE DEF T
        <2>3. \A k \in 0..n : k \in T
            BY <1>1, <2>1, <2>2, SetInduction
        <2> QED
            BY <2>3 DEF T
    <1>10. ASSUME NEW j \in 0..n, NEW k \in 0..n, j < k PROVE Power[j] < Power[k]
        <2> DEFINE T == {i \in 0..n : j < i => Power[j] < Power[i]}
        <2>1. 0 \in T
            BY <1>1
        <2>2. ASSUME NEW i \in 1..n, i - 1 \in T PROVE i \in T
            <3>1. /\ Power[i] = 2 * Power[i - 1] /\ i - 1 \in 0..n
                  /\ Power[i - 1] \in Nat /\ Power[i - 1] > 0 /\ Power[j] \in Nat
                BY <1>1, <1>8, <1>9
            <3>2. j = i - 1 \/ j < i - 1 \/ ~(j < i)
                BY <1>1
            <3> QED
                BY <1>1, <2>2, <3>1, <3>2
        <2> HIDE DEF T
        <2>3. \A i \in 0..n : i \in T
            BY <1>1, <2>1, <2>2, SetInduction
        <2> QED
            BY <1>10, <2>3 DEF T
    <1> QED
        BY <1>8, <1>9, <1>10 DEF n

\* The least powers, and the tiles.
LEMMA ValuesOK ==
    /\ Power[1] = 2 /\ Power[2] = 4
    /\ 0 \in Values /\ 2 \in Values /\ 4 \in Values /\ Values \in SUBSET Nat
    /\ \A v \in Values : v # 0 => \E e \in 1..MaxExp : v = Power[e]
    /\ \A e \in 1..MaxExp : Power[e] \in Values /\ Power[e] \in Nat /\ Power[e] > 0 /\ Power[e + 1] = 2 * Power[e]
    <1>1. 1 \in 1..MaxExp /\ 2 \in 1..MaxExp /\ MaxExp \in Nat
        BY MaxExpOK
    <1>2. Power[1] = 2 * Power[0] /\ Power[2] = 2 * Power[1]
        BY <1>1, Powers
    <1>3. Power[1] = 2 /\ Power[2] = 4
        BY <1>2, Powers
    <1>4. \A e \in 1..MaxExp : Power[e] \in Nat /\ Power[e] > 0
        BY <1>1, Powers
    <1>5. \A e \in 1..MaxExp : Power[e + 1] = 2 * Power[e]
        <2> TAKE e \in 1..MaxExp
        <2>1. e + 1 \in 1..(MaxExp + 1) /\ (e + 1) - 1 = e
            BY <1>1
        <2>2. Power[e + 1] = 2 * Power[(e + 1) - 1]
            BY <2>1, Powers
        <2> QED
            BY <2>1, <2>2
    <1> QED
        BY <1>1, <1>3, <1>4, <1>5 DEF Values

\* What the tiles are worth, and what a merge adds to it.
LEMMA WorthOK ==
    /\ \A v \in Values : Worth(v) \in Nat
    /\ Worth(0) = 0 /\ Worth(2) = 0 /\ Worth(4) = 4
    /\ \A e \in 1..(MaxExp - 1) : Worth(Power[e + 1]) = 2 * Worth(Power[e]) + 2 * Power[e]
    <1>1. MaxExp \in Nat /\ MaxExp >= 5
        BY MaxExpOK
    <1>2. ASSUME NEW e \in 1..MaxExp PROVE Worth(Power[e]) = (e - 1) * Power[e]
        <2> DEFINE k == CHOOSE i \in 1..MaxExp : Power[i] = Power[e]
        <2>1. k \in 1..MaxExp /\ Power[k] = Power[e]
            OBVIOUS
        <2>2. Power[e] \in Nat /\ Power[e] > 0
            BY ValuesOK
        <2>3. Worth(Power[e]) = (k - 1) * Power[e]
            BY <2>2 DEF Worth
        <2> HIDE DEF k
        <2>4. k = e
            <3>1. k \in 0..(MaxExp + 1) /\ e \in 0..(MaxExp + 1)
                BY <1>1, <2>1
            <3>2. ~(k < e) /\ ~(e < k)
                BY <2>1, <2>2, <3>1, Powers
            <3> QED
                BY <1>1, <3>1, <3>2
        <2> QED
            BY <2>3, <2>4
    <1>3. ASSUME NEW v \in Values PROVE Worth(v) \in Nat
        <2>1. CASE v = 0
            BY <2>1 DEF Worth
        <2>2. CASE v # 0
            <3>1. PICK e \in 1..MaxExp : v = Power[e]
                BY <2>2, ValuesOK
            <3>2. Power[e] \in Nat /\ e - 1 \in Nat
                BY <1>1, ValuesOK
            <3>3. Worth(v) = (e - 1) * Power[e]
                BY <1>2, <3>1
            <3> QED
                BY <3>2, <3>3
        <2> QED
            BY <2>1, <2>2
    <1>4. Worth(0) = 0
        BY DEF Worth
    <1>5. Worth(2) = 0 /\ Worth(4) = 4
        <2>1. 1 \in 1..MaxExp /\ 2 \in 1..MaxExp
            BY <1>1
        <2>2. Worth(Power[1]) = (1 - 1) * Power[1] /\ Worth(Power[2]) = (2 - 1) * Power[2]
            BY <1>2, <2>1
        <2>3. Power[1] = 2 /\ Power[2] = 4
            BY ValuesOK
        <2> QED
            BY <2>2, <2>3
    <1>6. ASSUME NEW e \in 1..(MaxExp - 1) PROVE Worth(Power[e + 1]) = 2 * Worth(Power[e]) + 2 * Power[e]
        <2>1. e \in 1..MaxExp /\ e + 1 \in 1..MaxExp /\ e \in Nat /\ (e + 1) - 1 = e
            BY <1>1
        <2>2. Power[e] \in Nat /\ Power[e + 1] = 2 * Power[e]
            BY <2>1, ValuesOK
        <2>3. Worth(Power[e]) = (e - 1) * Power[e] /\ Worth(Power[e + 1]) = e * Power[e + 1]
            BY <1>2, <2>1
        <2>4. \A p \in Nat : e * (2 * p) = 2 * ((e - 1) * p) + 2 * p
            BY <2>1
        <2> QED
            BY <2>2, <2>3, <2>4
    <1> QED
        BY <1>3, <1>4, <1>5, <1>6

\* A sum of naturals is a natural.
LEMMA SumNat ==
    ASSUME NEW n \in Nat, NEW f, \A j \in 1..n : f[j] \in Nat
    PROVE  Sum(f, n) \in Nat
    <1> DEFINE T == {k \in 0..n : Sum(f, k) \in Nat}
    <1>1. Ints(f, n)
        BY DEF Ints
    <1>2. 0 \in T
        BY <1>1, SumSteps
    <1>3. ASSUME NEW k \in 1..n, k - 1 \in T PROVE k \in T
        <2>1. Sum(f, k) = Sum(f, k - 1) + f[k] /\ f[k] \in Nat
            BY <1>1, SumSteps
        <2> QED
            BY <1>3, <2>1
    <1> HIDE DEF T
    <1>4. n \in T
        BY <1>2, <1>3, SetInduction
    <1> QED
        BY <1>4 DEF T

-----------------------------------------------------------------------------
\* N lines weighed together.
Total(w, X)  == Sum([i \in 1..N |-> Weight(w, X[i], N)], N)
Totals(w, X) == \A i \in 1..N : Weighs(w, X[i], N)

\* Lines that weigh something weigh something together.
LEMMA TotalInt ==
    ASSUME NEW w, NEW X, Totals(w, X)
    PROVE  /\ Total(w, X) \in Int
           /\ \A i \in 1..N : Weight(w, X[i], N) \in Int
           /\ Ints([i \in 1..N |-> Weight(w, X[i], N)], N)
    <1>1. N \in Nat /\ N \in 0..N
        BY GameAssumption
    <1>2. ASSUME NEW i \in 1..N PROVE Weight(w, X[i], N) \in Int
        <2>1. Weighs(w, X[i], N)
            BY DEF Totals
        <2>2. \A k \in 0..N : Weight(w, X[i], k) \in Int
            BY <1>1, <2>1, WeightSteps
        <2> QED
            BY <1>1, <2>2
    <1> DEFINE f == [i \in 1..N |-> Weight(w, X[i], N)]
    <1>3. Ints(f, N)
        BY <1>2 DEF Ints
    <1>4. Total(w, X) = Sum(f, N)
        BY DEF Total
    <1> HIDE DEF f
    <1>5. Sum(f, N) \in Int
        BY <1>1, <1>3, SumSteps
    <1> QED
        BY <1>2, <1>3, <1>4, <1>5 DEF f

\* Lines compared one by one, and lines of which one changes.
LEMMA TotalCompare ==
    ASSUME NEW w, NEW u, NEW X, NEW Y, Totals(w, X), Totals(u, Y)
    PROVE  /\ (\A i \in 1..N : Weight(w, X[i], N) <= Weight(u, Y[i], N)) => Total(w, X) <= Total(u, Y)
           /\ (\A i \in 1..N : Weight(w, X[i], N) = Weight(u, Y[i], N)) => Total(w, X) = Total(u, Y)
           /\ \A i \in 1..N : (\A j \in 1..N : j # i => Weight(u, Y[j], N) = Weight(w, X[j], N))
                  => Total(u, Y) = Total(w, X) + Weight(u, Y[i], N) - Weight(w, X[i], N)
    <1> DEFINE f == [i \in 1..N |-> Weight(w, X[i], N)]
               g == [i \in 1..N |-> Weight(u, Y[i], N)]
    <1>1. N \in Nat
        BY GameAssumption
    <1>2. Ints(f, N) /\ Ints(g, N)
        BY TotalInt
    <1>3. \A i \in 1..N : f[i] = Weight(w, X[i], N) /\ g[i] = Weight(u, Y[i], N)
        OBVIOUS
    <1>4. Total(w, X) = Sum(f, N) /\ Total(u, Y) = Sum(g, N)
        BY DEF Total
    <1> HIDE DEF f, g
    <1>5. ASSUME \A i \in 1..N : Weight(w, X[i], N) <= Weight(u, Y[i], N) PROVE Sum(f, N) <= Sum(g, N)
        BY <1>1, <1>2, <1>3, <1>5, SumCompare
    <1>6. ASSUME \A i \in 1..N : Weight(w, X[i], N) = Weight(u, Y[i], N) PROVE Sum(f, N) = Sum(g, N)
        BY <1>1, <1>2, <1>3, <1>6, SumCompare
    <1>7. ASSUME NEW i \in 1..N, \A j \in 1..N : j # i => Weight(u, Y[j], N) = Weight(w, X[j], N)
          PROVE  Sum(g, N) = Sum(f, N) + g[i] - f[i]
        <2>1. \A j \in 1..N : j # i => g[j] = f[j]
            BY <1>3, <1>7
        <2> QED
            BY <1>1, <1>2, <2>1, SumUpdate
    <1> QED
        BY <1>3, <1>4, <1>5, <1>6, <1>7

\* A larger weight of every cell.
LEMMA TotalMonotone ==
    ASSUME NEW w, NEW u, NEW X, Totals(w, X), Totals(u, X),
           \A i, j \in 1..N : w[X[i][j]] <= u[X[i][j]]
    PROVE  Total(w, X) <= Total(u, X)
    <1>1. N \in Nat
        BY GameAssumption
    <1>2. ASSUME NEW i \in 1..N PROVE Weight(w, X[i], N) <= Weight(u, X[i], N)
        <2>1. Weighs(w, X[i], N) /\ Weighs(u, X[i], N) /\ \A j \in 1..N : w[X[i][j]] <= u[X[i][j]]
            BY DEF Totals
        <2> QED
            BY <1>1, <2>1, WeightCompare
    <1> QED
        BY <1>2, TotalCompare

\* Cells that weigh 0 or 1 weigh at most N * N, and weights that are not
\* negative do not make a negative total.
LEMMA TotalBound ==
    ASSUME NEW w, NEW X, \A i, j \in 1..N : w[X[i][j]] \in Nat
    PROVE  /\ Totals(w, X) /\ Total(w, X) \in Nat
           /\ (\A i, j \in 1..N : w[X[i][j]] <= 1) => Total(w, X) <= N * N
    <1>1. N \in Nat
        BY GameAssumption
    <1>2. Totals(w, X)
        BY DEF Totals, Weighs
    <1> DEFINE g(i) == [j \in 1..N |-> w[X[i][j]]]
               f == [i \in 1..N |-> Weight(w, X[i], N)]
    <1>3. ASSUME NEW i \in 1..N
          PROVE  /\ Ints(g(i), N) /\ (\A j \in 1..N : g(i)[j] \in Nat /\ g(i)[j] = w[X[i][j]])
                 /\ Weight(w, X[i], N) = Sum(g(i), N)
        BY DEF Ints, Weight
    <1> HIDE DEF g
    <1>4. ASSUME NEW i \in 1..N PROVE f[i] = Weight(w, X[i], N) /\ f[i] \in Nat
        <2>1. Sum(g(i), N) \in Nat
            BY <1>1, <1>3, SumNat
        <2> QED
            BY <1>3, <2>1
    <1>5. Total(w, X) = Sum(f, N) /\ Ints(f, N)
        BY <1>4 DEF Total, Ints
    <1> HIDE DEF f
    <1>6. Sum(f, N) \in Nat
        BY <1>1, <1>4, SumNat
    <1>7. ASSUME \A i, j \in 1..N : w[X[i][j]] <= 1 PROVE Sum(f, N) <= N * N
        <2>1. ASSUME NEW i \in 1..N PROVE f[i] <= N
            <3>1. \A j \in 1..N : g(i)[j] <= 1
                BY <1>3, <1>7
            <3>2. Sum(g(i), N) <= N * 1
                BY <1>1, <1>3, <3>1, SumBound
            <3> QED
                BY <1>1, <1>3, <1>4, <3>2
        <2>2. N \in Int
            BY <1>1
        <2> QED
            BY <1>1, <1>5, <2>1, <2>2, SumBound
    <1> QED
        BY <1>2, <1>5, <1>6, <1>7

-----------------------------------------------------------------------------
\* The lines of a board in a direction.
LinesIn(b, d) == [i \in 1..N |-> Line(b, d, i - 1)]

\* A line in a direction, cell by cell.
LEMMA LinesInCells ==
    ASSUME NEW b, NEW d \in Moves
    PROVE  /\ \A i \in 1..N : /\ LinesIn(b, d)[i] = Line(b, d, i - 1)
                              /\ LinesIn(b, d)[i] = [j \in 1..N |-> b[CellAt(d, i - 1, j - 1)]]
           /\ \A i, j \in 1..N : /\ LinesIn(b, d)[i][j] = b[CellAt(d, i - 1, j - 1)]
                                 /\ CellAt(d, i - 1, j - 1) \in Squares
    <1>1. N \in Nat
        BY GameAssumption
    <1>2. \A i \in 1..N : i - 1 \in Idx
        BY <1>1 DEF Idx
    <1>3. \A i, j \in 1..N : CellAt(d, i - 1, j - 1) \in Squares
        BY <1>2, LinesNumberCells
    <1>4. ASSUME NEW i \in 1..N
          PROVE  /\ LinesIn(b, d)[i] = Line(b, d, i - 1)
                 /\ LinesIn(b, d)[i] = [j \in 1..N |-> b[CellAt(d, i - 1, j - 1)]]
        BY DEF LinesIn, Line
    <1> QED
        BY <1>3, <1>4

\* The lines of a board have the values of the board.
LEMMA LinesInOK ==
    ASSUME NEW V, NEW b \in [Squares -> V], NEW d \in Moves
    PROVE  LinesIn(b, d) \in [1..N -> [1..N -> V]]
    <1> DEFINE R == LinesIn(b, d)
    <1>1. ASSUME NEW i \in 1..N PROVE R[i] \in [1..N -> V]
        <2>1. /\ R[i] = [j \in 1..N |-> b[CellAt(d, i - 1, j - 1)]]
              /\ \A j \in 1..N : CellAt(d, i - 1, j - 1) \in Squares
            BY LinesInCells
        <2> HIDE DEF R
        <2>2. \A j \in 1..N : b[CellAt(d, i - 1, j - 1)] \in V
            BY <2>1
        <2> QED
            BY <2>1, <2>2
    <1>2. R = [i \in 1..N |-> R[i]]
        BY DEF LinesIn
    <1> HIDE DEF R
    <1>3. R \in [1..N -> [1..N -> V]]
        BY <1>1, <1>2
    <1> QED
        BY <1>3 DEF R

\* A board weighs the same whichever way it is read.
LEMMA DirectionsWeighTheSame ==
    ASSUME NEW V, NEW b \in [Squares -> V], NEW w, Scale(w, V), NEW d \in Moves
    PROVE  Totals(w, LinesIn(b, d)) /\ Total(w, LinesIn(b, d)) = Total(w, LinesIn(b, 3))
    <1> USE DEF Scale
    <1>1. N \in Nat /\ (d = 0 \/ d = 1 \/ d = 2 \/ d = 3) /\ \A k \in {0, 1, 2, 3} : k \in Moves
        BY GameAssumption DEF Moves
    <1> DEFINE R(k) == LinesIn(b, k)
    <1>2. ASSUME NEW k \in Moves
          PROVE  /\ Totals(w, R(k))
                 /\ \A i, j \in 1..N : R(k)[i][j] = b[CellAt(k, i - 1, j - 1)]
        <2>1. \A i, j \in 1..N : R(k)[i][j] = b[CellAt(k, i - 1, j - 1)] /\ CellAt(k, i - 1, j - 1) \in Squares
            BY LinesInCells
        <2> HIDE DEF R
        <2>2. \A i, j \in 1..N : w[R(k)[i][j]] \in Int
            BY <2>1
        <2> QED
            BY <2>1, <2>2 DEF Totals, Weighs
    <1>3. ASSUME NEW i \in 1..N, NEW j \in 1..N
          PROVE  /\ R(0)[i][j] = b[<<j - 1, i - 1>>] /\ R(3)[i][j] = b[<<i - 1, j - 1>>]
                 /\ R(1)[i][j] = b[<<i - 1, N - 1 - (j - 1)>>] /\ R(2)[i][j] = b[<<N - 1 - (j - 1), i - 1>>]
        BY <1>1, <1>2 DEF CellAt
    <1> HIDE DEF R
    <1>4. ASSUME NEW j \in 1..N PROVE N + 1 - j \in 1..N /\ N - 1 - (j - 1) = (N + 1 - j) - 1
        BY <1>1
    <1>5. Total(w, R(1)) = Total(w, R(3))
        <2>1. ASSUME NEW i \in 1..N PROVE Weight(w, R(1)[i], N) = Weight(w, R(3)[i], N)
            <3>1. ASSUME NEW j \in 1..N PROVE w[R(1)[i][j]] = w[R(3)[i][N + 1 - j]]
                <4> DEFINE k == N + 1 - j
                <4>1. k \in 1..N /\ N - 1 - (j - 1) = k - 1
                    BY <1>4
                <4> HIDE DEF k
                <4>2. R(1)[i][j] = b[<<i - 1, N - 1 - (j - 1)>>] /\ R(3)[i][k] = b[<<i - 1, k - 1>>]
                    BY <1>3, <4>1, Zenon
                <4> QED
                    BY <4>1, <4>2 DEF k
            <3>2. Weighs(w, R(1)[i], N) /\ Weighs(w, R(3)[i], N)
                BY <1>1, <1>2 DEF Totals
            <3> QED
                BY <1>1, <3>1, <3>2, WeightCompare
        <2>2. Totals(w, R(1)) /\ Totals(w, R(3))
            BY <1>1, <1>2
        <2> QED
            BY <2>1, <2>2, TotalCompare
    <1>6. Total(w, R(2)) = Total(w, R(0))
        <2>1. ASSUME NEW i \in 1..N PROVE Weight(w, R(2)[i], N) = Weight(w, R(0)[i], N)
            <3>1. ASSUME NEW j \in 1..N PROVE w[R(2)[i][j]] = w[R(0)[i][N + 1 - j]]
                <4> DEFINE k == N + 1 - j
                <4>1. k \in 1..N /\ N - 1 - (j - 1) = k - 1
                    BY <1>4
                <4> HIDE DEF k
                <4>2. R(2)[i][j] = b[<<N - 1 - (j - 1), i - 1>>] /\ R(0)[i][k] = b[<<k - 1, i - 1>>]
                    BY <1>3, <4>1, Zenon
                <4> QED
                    BY <4>1, <4>2 DEF k
            <3>2. Weighs(w, R(2)[i], N) /\ Weighs(w, R(0)[i], N)
                BY <1>1, <1>2 DEF Totals
            <3> QED
                BY <1>1, <3>1, <3>2, WeightCompare
        <2>2. Totals(w, R(2)) /\ Totals(w, R(0))
            BY <1>1, <1>2
        <2> QED
            BY <2>1, <2>2, TotalCompare
    <1>7. Total(w, R(0)) = Total(w, R(3))
        <2> DEFINE a == [i \in 1..N |-> [j \in 1..N |-> w[R(3)[i][j]]]]
        <2>1. a \in [1..N -> [1..N -> Int]]
            BY <1>1, <1>2 DEF Totals, Weighs
        <2>2. Sum([i \in 1..N |-> Sum(a[i], N)], N) = Total(w, R(3))
            BY DEF Total, Weight
        <2>3. Sum([j \in 1..N |-> Sum([i \in 1..N |-> a[i][j]], N)], N) = Total(w, R(0))
            <3>1. ASSUME NEW j \in 1..N PROVE [i \in 1..N |-> a[i][j]] = [i \in 1..N |-> w[R(0)[j][i]]]
                BY <1>3
            <3> HIDE DEF a
            <3>2. ASSUME NEW j \in 1..N PROVE Sum([i \in 1..N |-> a[i][j]], N) = Weight(w, R(0)[j], N)
                BY <3>1 DEF Weight
            <3>3. [j \in 1..N |-> Sum([i \in 1..N |-> a[i][j]], N)] = [j \in 1..N |-> Weight(w, R(0)[j], N)]
                BY <3>2
            <3> QED
                BY <3>3 DEF Total
        <2> HIDE DEF a
        <2> QED
            BY <1>1, <2>1, <2>2, <2>3, SumExchange
    <1> QED
        BY <1>1, <1>2, <1>5, <1>6, <1>7 DEF R

\* A board of which one cell changes.
LEMMA OneCellWeighs ==
    ASSUME NEW V, NEW b \in [Squares -> V], NEW new \in [Squares -> V], NEW w, Scale(w, V),
           NEW c \in Squares, \A x \in Squares : x # c => new[x] = b[x]
    PROVE  Total(w, LinesIn(new, 3)) = Total(w, LinesIn(b, 3)) + w[new[c]] - w[b[c]]
    <1>1. N \in Nat /\ 3 \in Moves
        BY GameAssumption DEF Moves
    <1>2. PICK y \in Idx, x \in Idx : c = <<y, x>>
        BY DEF Squares
    <1> DEFINE R == LinesIn(b, 3)
               S == LinesIn(new, 3)
    <1> USE DEF Scale
    <1>3. Totals(w, R) /\ Totals(w, S)
        BY <1>1, DirectionsWeighTheSame
    <1>4. ASSUME NEW i \in 1..N, NEW j \in 1..N
          PROVE  R[i][j] = b[<<i - 1, j - 1>>] /\ S[i][j] = new[<<i - 1, j - 1>>] /\ <<i - 1, j - 1>> \in Squares
        <2>1. /\ R[i][j] = b[CellAt(3, i - 1, j - 1)] /\ S[i][j] = new[CellAt(3, i - 1, j - 1)]
              /\ CellAt(3, i - 1, j - 1) \in Squares
            BY <1>1, LinesInCells
        <2>2. CellAt(3, i - 1, j - 1) = <<i - 1, j - 1>>
            BY DEF CellAt
        <2> QED
            BY <2>1, <2>2
    <1> HIDE DEF R, S
    <1>5. y + 1 \in 1..N /\ x + 1 \in 1..N /\ (y + 1) - 1 = y /\ (x + 1) - 1 = x
        BY <1>1 DEF Idx
    <1>6. ASSUME NEW i \in 1..N, NEW j \in 1..N, i # y + 1 \/ j # x + 1 PROVE S[i][j] = R[i][j]
        <2>1. <<i - 1, j - 1>> # c
            <3>1. i - 1 # y \/ j - 1 # x
                BY <1>1, <1>5, <1>6
            <3> QED
                BY <1>2, <3>1
        <2> QED
            BY <1>4, <2>1
    <1>7. S[y + 1][x + 1] = new[c] /\ R[y + 1][x + 1] = b[c]
        BY <1>2, <1>4, <1>5
    <1> DEFINE yy == y + 1
               xx == x + 1
    <1> HIDE DEF yy, xx
    <1>8. yy \in 1..N /\ xx \in 1..N
        BY <1>5 DEF yy, xx
    <1>9. Weight(w, S[yy], N) = Weight(w, R[yy], N) + w[new[c]] - w[b[c]]
        <2>1. \A j \in 1..N : j # xx => w[S[yy][j]] = w[R[yy][j]]
            BY <1>6, <1>8 DEF yy, xx
        <2>2. Weighs(w, S[yy], N) /\ Weighs(w, R[yy], N)
            BY <1>3, <1>8 DEF Totals
        <2>3. Weight(w, S[yy], N) = Weight(w, R[yy], N) + w[S[yy][xx]] - w[R[yy][xx]]
            BY <1>1, <1>8, <2>1, <2>2, WeightCompare
        <2> QED
            BY <1>7, <2>3 DEF yy, xx
    <1>10. ASSUME NEW i \in 1..N, i # yy PROVE Weight(w, S[i], N) = Weight(w, R[i], N)
        <2>1. \A j \in 1..N : w[S[i][j]] = w[R[i][j]]
            BY <1>6, <1>8, <1>10 DEF yy
        <2>2. Weighs(w, S[i], N) /\ Weighs(w, R[i], N)
            BY <1>3 DEF Totals
        <2> QED
            BY <1>1, <2>1, <2>2, WeightCompare
    <1>11. Total(w, S) = Total(w, R) + Weight(w, S[yy], N) - Weight(w, R[yy], N)
        BY <1>3, <1>8, <1>10, TotalCompare
    <1>12. Total(w, R) \in Int /\ Weight(w, R[yy], N) \in Int /\ w[new[c]] \in Int /\ w[b[c]] \in Int
        BY <1>3, <1>8, TotalInt
    <1>13. Total(w, S) = Total(w, R) + w[new[c]] - w[b[c]]
        BY <1>9, <1>11, <1>12
    <1> QED
        BY <1>13 DEF R, S

-----------------------------------------------------------------------------
(***************************************************************************)
(* Room for the tiles                                                      *)
(***************************************************************************)
\* Whether a cell has at least 2^k, and the worth of a cell.
Big(k)  == [v \in Nat |-> IF v >= Power[k] THEN 1 ELSE 0]
WorthOf == [v \in Values |-> Worth(v)]

\* Big counts a cell or not; the next power of two counts no more cells.
LEMMA BigOK ==
    ASSUME NEW k \in 1..(MaxExp + 1)
    PROVE  /\ \A v \in Nat : Big(k)[v] \in Nat /\ Big(k)[v] \in Int /\ Big(k)[v] <= 1
           /\ Big(k)[0] = 0
           /\ \A e \in 1..MaxExp : /\ Big(k)[Power[e]] = IF k <= e THEN 1 ELSE 0
                                   /\ Big(k)[2 * Power[e]] = IF k <= e + 1 THEN 1 ELSE 0
           /\ k <= MaxExp => \A v \in Nat : Big(k + 1)[v] <= Big(k)[v]
    <1>1. MaxExp \in Nat /\ Power[k] \in Nat /\ Power[k] > 0
        BY MaxExpOK, Powers
    <1>2. (\A v \in Nat : Big(k)[v] \in Nat /\ Big(k)[v] \in Int /\ Big(k)[v] <= 1) /\ Big(k)[0] = 0
        BY <1>1 DEF Big
    <1>3. ASSUME NEW e \in 1..(MaxExp + 1) PROVE Big(k)[Power[e]] = IF k <= e THEN 1 ELSE 0
        <2>1. /\ e \in 0..(MaxExp + 1) /\ k \in 0..(MaxExp + 1) /\ Power[e] \in Nat
            BY <1>1, Powers
        <2>2. (k < e => Power[k] < Power[e]) /\ (e < k => Power[e] < Power[k])
            BY <2>1, Powers
        <2>3. Power[e] >= Power[k] <=> k <= e
            BY <1>1, <2>1, <2>2
        <2> QED
            BY <2>1, <2>3 DEF Big
    <1>4. ASSUME NEW e \in 1..MaxExp
          PROVE  /\ Big(k)[Power[e]] = IF k <= e THEN 1 ELSE 0
                 /\ Big(k)[2 * Power[e]] = IF k <= e + 1 THEN 1 ELSE 0
        <2>1. e \in 1..(MaxExp + 1) /\ e + 1 \in 1..(MaxExp + 1)
            BY <1>1
        <2>2. 2 * Power[e] = Power[e + 1]
            BY ValuesOK
        <2> QED
            BY <1>3, <2>1, <2>2
    <1>5. ASSUME k <= MaxExp, NEW v \in Nat PROVE Big(k + 1)[v] <= Big(k)[v]
        <2>1. Power[k] < Power[k + 1] /\ Power[k + 1] \in Nat
            <3>1. k \in 0..(MaxExp + 1) /\ k + 1 \in 0..(MaxExp + 1) /\ k < k + 1
                BY <1>1, <1>5
            <3> QED
                BY <3>1, Powers
        <2> QED
            BY <1>1, <2>1 DEF Big
    <1> QED
        BY <1>2, <1>4, <1>5

\* A sum is worth what its two tiles were, and the points scored for it.
LEMMA WorthOfOK ==
    /\ \A v \in Values : WorthOf[v] \in Nat /\ WorthOf[v] \in Int
    /\ WorthOf[0] = 0 /\ WorthOf[2] = 0 /\ WorthOf[4] = 4
    /\ \A e \in 1..(MaxExp - 1) : WorthOf[2 * Power[e]] = 2 * WorthOf[Power[e]] + 2 * Power[e]
    <1>1. ASSUME NEW v \in Values PROVE WorthOf[v] = Worth(v)
        BY DEF WorthOf
    <1>2. 0 \in Values /\ 2 \in Values /\ 4 \in Values
        BY ValuesOK
    <1>3. ASSUME NEW e \in 1..(MaxExp - 1) PROVE WorthOf[2 * Power[e]] = 2 * WorthOf[Power[e]] + 2 * Power[e]
        <2>1. e \in 1..MaxExp /\ e + 1 \in 1..MaxExp
            BY MaxExpOK
        <2>2. Power[e] \in Values /\ Power[e + 1] \in Values /\ 2 * Power[e] = Power[e + 1]
            BY <2>1, ValuesOK
        <2>3. Worth(Power[e + 1]) = 2 * Worth(Power[e]) + 2 * Power[e]
            BY WorthOK
        <2> QED
            BY <1>1, <2>2, <2>3
    <1>4. \A v \in Values : WorthOf[v] \in Nat
        BY <1>1, WorthOK
    <1> QED
        BY <1>1, <1>2, <1>3, <1>4, WorthOK

-----------------------------------------------------------------------------
\* N lines of N cells.
Grid(V) == [1..N -> [1..N -> V]]

\* Line i replaced.
With(X, i, line) == [h \in 1..N |-> IF h = i THEN line ELSE X[h]]

\* The other lines stay.
LEMMA WithOK ==
    ASSUME NEW V, NEW X \in Grid(V), NEW i \in 1..N, NEW line \in [1..N -> V]
    PROVE  /\ With(X, i, line) \in Grid(V) /\ With(X, i, line)[i] = line
           /\ \A h \in 1..N : h # i => With(X, i, line)[h] = X[h]
    BY DEF With, Grid

\* Replacing a line changes the total by the difference of the two lines.
LEMMA WithWeighs ==
    ASSUME NEW V, NEW X \in Grid(V), NEW i \in 1..N, NEW line \in [1..N -> V],
           NEW w, Scale(w, V)
    PROVE  /\ Totals(w, X) /\ Totals(w, With(X, i, line))
           /\ Total(w, With(X, i, line)) = Total(w, X) + Weight(w, line, N) - Weight(w, X[i], N)
           /\ Weight(w, line, N) \in Int /\ Weight(w, X[i], N) \in Int /\ Total(w, X) \in Int
    <1> DEFINE Y == With(X, i, line)
    <1>1. Y \in Grid(V) /\ Y[i] = line /\ \A h \in 1..N : h # i => Y[h] = X[h]
        BY WithOK
    <1> HIDE DEF Y
    <1>2. Totals(w, X) /\ Totals(w, Y)
        BY <1>1 DEF Grid, Totals, Weighs, Scale
    <1>3. \A h \in 1..N : h # i => Weight(w, Y[h], N) = Weight(w, X[h], N)
        BY <1>1
    <1>4. Total(w, Y) = Total(w, X) + Weight(w, Y[i], N) - Weight(w, X[i], N)
        BY <1>2, <1>3, TotalCompare
    <1>5. Weight(w, Y[i], N) \in Int /\ Weight(w, X[i], N) \in Int /\ Total(w, X) \in Int
        BY <1>2, TotalInt
    <1> QED
        BY <1>1, <1>2, <1>4, <1>5 DEF Y

\* The cells with at least 2^k are few enough.  A tile 2^k can only be made
\* when two of 2^(k-1) are there: what the tiles are made of needs cells.
Room(X)  == \A k \in 1..(MaxExp + 1) : Total(Big(k), X) <= MaxExp + 1 - k
Sound(X) == X \in Grid(Values) /\ Room(X)

\* A merge leaves room, makes a tile that is a value, and adds to the worth
\* what it scores.
LEMMA MergeSound ==
    ASSUME NEW X, Sound(X), NEW i \in 1..N, NEW j \in 1..(N - 1), Equal(X[i], j)
    PROVE  LET Y == With(X, i, Pair(X[i], j, 2 * X[i][j], 0))
           IN  Sound(Y) /\ Total(WorthOf, Y) = Total(WorthOf, X) + 2 * X[i][j]
    <1> DEFINE p == X[i][j]
               new == Pair(X[i], j, 2 * p, 0)
               Y == With(X, i, new)
               M == MaxExp
    <1>1. N \in Nat /\ j \in 1..N /\ M \in Nat
        BY GameAssumption, MaxExpOK
    <1>2. Values \in SUBSET Nat /\ 0 \in Values /\ 0 \in Nat /\ Nat \in SUBSET Nat
        BY ValuesOK
    <1>3. X \in Grid(Values) /\ X \in Grid(Nat) /\ X[i] \in [1..N -> Values] /\ X[i] \in [1..N -> Nat] /\ p \in Values
        BY <1>1, <1>2 DEF Sound, Grid
    <1>4. PICK e \in 1..M : p = Power[e]
        <2>1. p # 0
            BY DEF Equal
        <2> QED
            BY <1>3, <2>1, ValuesOK
    <1>5. p \in Nat /\ p > 0 /\ 2 * p \in Nat
        BY <1>4, ValuesOK
    <1>6. ASSUME NEW k \in 1..(M + 1)
          PROVE  /\ new \in [1..N -> Nat]
                 /\ Weight(Big(k), new, N) = Weight(Big(k), X[i], N) + Big(k)[2 * p] - 2 * Big(k)[p]
        <2> DEFINE w == Big(k)
        <2>1. Scale(w, Nat) /\ w[0] = 0
            BY BigOK DEF Scale
        <2> DEFINE line == X[i]
                   V == Nat
        <2>2. /\ line \in [1..N -> V] /\ 2 * line[j] \in V /\ Equal(line, j) /\ N \in Nat
              /\ V \in SUBSET Nat /\ 0 \in V /\ Scale(w, V) /\ w[0] = 0 /\ j \in 1..(N - 1)
            BY <1>1, <1>3, <1>5, <2>1
        <2> HIDE DEF w, M, line, V, p, new, Y
        <2>3. /\ Pair(line, j, 2 * line[j], 0) \in [1..N -> V]
              /\ Weight(w, Pair(line, j, 2 * line[j], 0), N) = Weight(w, line, N) + w[2 * line[j]] - 2 * w[line[j]]
            BY <2>2, MergeWeight, SMTT(60)
        <2> QED
            BY <2>3 DEF w, line, V, p, new
    <1> HIDE DEF p, new, Y, M
    <1>7. new \in [1..N -> Nat] /\ Y \in Grid(Nat)
        <2>1. 1 \in 1..(M + 1)
            BY <1>1
        <2>2. new \in [1..N -> Nat]
            BY <1>6, <2>1
        <2> QED
            BY <1>3, <2>2, WithOK DEF Y
    <1>8. ASSUME NEW k \in 1..(M + 1)
          PROVE  /\ Totals(Big(k), Y) /\ Total(Big(k), Y) = Total(Big(k), X) + Big(k)[2 * p] - 2 * Big(k)[p]
                 /\ Total(Big(k), X) \in Nat /\ Total(Big(k), X) <= M + 1 - k
        <2> DEFINE w == Big(k)
        <2>1. Scale(w, Nat) /\ \A v \in Nat : w[v] \in Int /\ w[v] \in Nat
            BY BigOK DEF M, Scale
        <2> HIDE DEF w
        <2>2. /\ Totals(w, Y) /\ Weight(w, new, N) \in Int /\ Weight(w, X[i], N) \in Int /\ Total(w, X) \in Int
              /\ Total(w, Y) = Total(w, X) + Weight(w, new, N) - Weight(w, X[i], N)
            BY <1>3, <1>7, <2>1, WithWeighs DEF Y
        <2>3. Weight(w, new, N) = Weight(w, X[i], N) + w[2 * p] - 2 * w[p]
            BY <1>6 DEF w
        <2>4. Total(w, X) \in Nat
            BY <1>3, <2>1, TotalBound DEF Grid
        <2>5. Total(w, X) <= M + 1 - k
            BY DEF Sound, Room, w, M
        <2>6. w[2 * p] \in Int /\ w[p] \in Int
            BY <1>5, <2>1
        <2> QED
            BY <2>2, <2>3, <2>4, <2>5, <2>6 DEF w
    <1>9. Total(Big(e + 1), Y) <= Total(Big(e), Y)
        <2>1. e \in 1..(M + 1) /\ e + 1 \in 1..(M + 1) /\ e <= M
            BY <1>1, <1>4
        <2>2. \A v \in Nat : Big(e + 1)[v] <= Big(e)[v]
            BY <2>1, BigOK DEF M
        <2>3. Totals(Big(e + 1), Y) /\ Totals(Big(e), Y)
            BY <1>8, <2>1
        <2>4. \A h, l \in 1..N : Big(e + 1)[Y[h][l]] <= Big(e)[Y[h][l]]
            BY <1>7, <2>2 DEF Grid
        <2> QED
            BY <2>3, <2>4, TotalMonotone
    <1>10. ASSUME NEW k \in 1..(M + 1)
           PROVE  Big(k)[p] = (IF k <= e THEN 1 ELSE 0) /\ Big(k)[2 * p] = (IF k <= e + 1 THEN 1 ELSE 0)
        BY <1>4, BigOK DEF M
    <1>11. ASSUME NEW k \in 1..(M + 1)
           PROVE  /\ k <= e => Total(Big(k), Y) = Total(Big(k), X) - 1
                  /\ k = e + 1 => Total(Big(k), Y) = Total(Big(k), X) + 1
                  /\ k > e + 1 => Total(Big(k), Y) = Total(Big(k), X)
        <2>1. e \in Nat /\ k \in Nat
            BY <1>1, <1>4
        <2> QED
            BY <1>8, <1>10, <2>1
    <1>12. Total(Big(e + 1), Y) <= M + 1 - (e + 1) /\ e <= M - 1
        <2>1. e \in 1..(M + 1) /\ e + 1 \in 1..(M + 1) /\ e <= e /\ e \in Nat
            BY <1>1, <1>4
        <2>2. Total(Big(e), Y) = Total(Big(e), X) - 1 /\ Total(Big(e), X) \in Nat /\ Total(Big(e), X) <= M + 1 - e
            BY <1>8, <1>11, <2>1
        <2>3. Total(Big(e + 1), Y) = Total(Big(e + 1), X) + 1 /\ Total(Big(e + 1), X) \in Nat
            BY <1>8, <1>11, <2>1
        <2> QED
            BY <1>1, <1>9, <2>1, <2>2, <2>3
    <1>13. Room(Y)
        <2>1. ASSUME NEW k \in 1..(M + 1) PROVE Total(Big(k), Y) <= M + 1 - k
            <3>1. Total(Big(k), X) \in Nat /\ Total(Big(k), X) <= M + 1 - k
                BY <1>8
            <3>2. k <= e \/ k = e + 1 \/ k > e + 1
                BY <1>1, <1>4
            <3> QED
                BY <1>1, <1>11, <1>12, <3>1, <3>2
        <2> QED
            BY <2>1 DEF Room, M
    <1>14. e \in 1..(M - 1) /\ 2 * p \in Values
        <2>1. e \in 1..(M - 1) /\ e + 1 \in 1..M
            BY <1>1, <1>4, <1>12
        <2>2. Power[e + 1] \in Values /\ Power[e + 1] = 2 * Power[e]
            BY <1>4, <2>1, ValuesOK DEF M
        <2> QED
            BY <1>4, <2>1, <2>2
    <1>15. /\ new \in [1..N -> Values]
           /\ Weight(WorthOf, new, N) = Weight(WorthOf, X[i], N) + WorthOf[2 * p] - 2 * WorthOf[p]
        <2> DEFINE w == WorthOf
        <2>1. Scale(w, Values) /\ w[0] = 0
            BY WorthOfOK DEF Scale
        <2> DEFINE line == X[i]
                   V == Values
        <2>2. /\ line \in [1..N -> V] /\ 2 * line[j] \in V /\ Equal(line, j) /\ N \in Nat
              /\ V \in SUBSET Nat /\ 0 \in V /\ Scale(w, V) /\ w[0] = 0 /\ j \in 1..(N - 1)
            BY <1>1, <1>2, <1>3, <1>14, <2>1 DEF p
        <2> HIDE DEF w, line, V
        <2>3. /\ Pair(line, j, 2 * line[j], 0) \in [1..N -> V]
              /\ Weight(w, Pair(line, j, 2 * line[j], 0), N) = Weight(w, line, N) + w[2 * line[j]] - 2 * w[line[j]]
            BY <2>2, MergeWeight, SMTT(60)
        <2> QED
            BY <2>3 DEF w, p, new, line, V
    <1>16. Y \in Grid(Values)
        BY <1>3, <1>15, WithOK DEF Y
    <1>17. Total(WorthOf, Y) = Total(WorthOf, X) + 2 * p
        <2>1. Scale(WorthOf, Values) /\ \A v \in Values : WorthOf[v] \in Int
            BY WorthOfOK DEF Scale
        <2>2. /\ Weight(WorthOf, new, N) \in Int /\ Weight(WorthOf, X[i], N) \in Int /\ Total(WorthOf, X) \in Int
              /\ Total(WorthOf, Y) = Total(WorthOf, X) + Weight(WorthOf, new, N) - Weight(WorthOf, X[i], N)
            BY <1>3, <1>15, <2>1, WithWeighs DEF Y
        <2>3. WorthOf[2 * p] = 2 * WorthOf[p] + 2 * p
            BY <1>4, <1>14, WorthOfOK DEF M
        <2>4. WorthOf[2 * p] \in Int /\ WorthOf[p] \in Int
            BY <1>3, <1>14, <2>1
        <2>5. Weight(WorthOf, new, N) = Weight(WorthOf, X[i], N) + WorthOf[2 * p] - 2 * WorthOf[p]
            BY <1>15
        <2>6. 2 * p \in Int
            BY <1>5
        <2>7. Weight(WorthOf, new, N) = Weight(WorthOf, X[i], N) + 2 * p
            BY <2>2, <2>3, <2>4, <2>5, <2>6
        <2> QED
            BY <2>2, <2>6, <2>7
    <1> QED
        BY <1>13, <1>16, <1>17 DEF Sound, Y, new, p

\* Compacting a line changes neither room nor worth.
LEMMA CompactSound ==
    ASSUME NEW X, Sound(X), NEW i \in 1..N
    PROVE  LET Y == With(X, i, Compact(X[i]))
           IN  /\ Compact(X[i]) \in [1..N -> Values]
               /\ Sound(Y) /\ Total(WorthOf, Y) = Total(WorthOf, X)
    <1> DEFINE line == X[i]
               new == Compact(line)
               Y == With(X, i, new)
    <1>1. N \in Nat /\ Values \in SUBSET Nat /\ 0 \in Values
        BY GameAssumption, ValuesOK
    <1>2. X \in Grid(Values) /\ line \in [1..N -> Values]
        BY DEF Sound, Grid
    <1> HIDE DEF line, new, Y
    <1>3. ASSUME NEW w, Scale(w, Values), w[0] = 0
          PROVE  new \in [1..N -> Values] /\ Total(w, Y) = Total(w, X)
        <2>1. new \in [1..N -> Values] /\ Weight(w, new, N) = Weight(w, line, N)
            BY <1>1, <1>2, <1>3, CompactWeight DEF new
        <2>2. /\ Total(w, Y) = Total(w, X) + Weight(w, new, N) - Weight(w, line, N)
              /\ Weight(w, line, N) \in Int /\ Total(w, X) \in Int
            BY <1>2, <1>3, <2>1, WithWeighs DEF Y, line
        <2> QED
            BY <2>1, <2>2
    <1>4. new \in [1..N -> Values] /\ Total(WorthOf, Y) = Total(WorthOf, X)
        <2>1. Scale(WorthOf, Values) /\ WorthOf[0] = 0
            BY WorthOfOK DEF Scale
        <2> QED
            BY <1>3, <2>1
    <1>5. Y \in Grid(Values)
        BY <1>2, <1>4, WithOK DEF Y
    <1>6. Room(Y)
        <2>1. ASSUME NEW k \in 1..(MaxExp + 1) PROVE Total(Big(k), Y) <= MaxExp + 1 - k
            <3>1. Scale(Big(k), Values) /\ Big(k)[0] = 0
                BY <1>1, BigOK DEF Scale
            <3>2. Total(Big(k), Y) = Total(Big(k), X)
                BY <1>3, <3>1
            <3> QED
                BY <3>2 DEF Sound, Room
        <2> QED
            BY <2>1 DEF Room
    <1> QED
        BY <1>4, <1>5, <1>6 DEF Sound, Y, new, line

\* A line of the grid goes through compress_line: there is room for the
\* tiles, and what the line scores is what its worth grows by.
LEMMA LineSound ==
    ASSUME NEW X, Sound(X), NEW i \in 1..N
    PROVE  LET res == compress_line(X[i])
               Y == With(X, i, res.line)
           IN  /\ Sound(Y) /\ res.gain \in Nat
               /\ Total(WorthOf, Y) = Total(WorthOf, X) + res.gain
    <1> DEFINE c == Compact(X[i])
               m == Merging(c)
               K == N - 1
               Y(r) == With(X, i, m[r].line)
    <1>1. N \in Nat \ {0} /\ K \in Nat /\ N \in Nat /\ K \in 0..K
        BY GameAssumption
    <1>2. X \in Grid(Values) /\ X[i] \in [1..N -> Values] /\ Values \in SUBSET Nat
        BY ValuesOK DEF Sound, Grid
    <1>3. Len(X[i]) = N
        BY <1>1, <1>2, FunctionIsSeq
    <1>4. /\ compress_line(X[i]).line = Compact(m[K].line) /\ compress_line(X[i]).gain = m[K].gain
        BY <1>3 DEF compress_line
    <1>5. /\ c \in [1..N -> Values] /\ c \in [1..N -> Nat]
          /\ Sound(With(X, i, c)) /\ Total(WorthOf, With(X, i, c)) = Total(WorthOf, X)
        BY <1>2, CompactSound
    <1> HIDE DEF c
    <1>6. /\ m \in [0..K -> Rounds(N)] /\ m[0] = [line |-> c, gain |-> 0, skip |-> FALSE]
          /\ \A r \in 1..K : m[r] = MergeAt(m[r - 1], r)
        BY <1>1, <1>5, MergingRounds
    <1>7. Total(WorthOf, X) \in Int
        <2>1. Totals(WorthOf, X)
            BY <1>2, WorthOfOK DEF Grid, Totals, Weighs
        <2> QED
            BY <2>1, TotalInt
    <1> HIDE DEF m, K
    <1> DEFINE T == {r \in 0..K : Sound(Y(r)) /\ m[r].line \in [1..N -> Values] /\ m[r].gain \in Nat
                                     /\ Total(WorthOf, Y(r)) = Total(WorthOf, X) + m[r].gain}
    <1>8. 0 \in T
        <2>1. m[0].line = c /\ m[0].gain = 0
            BY <1>6
        <2> QED
            BY <1>1, <1>5, <1>7, <2>1
    <1>9. ASSUME NEW r \in 1..K, r - 1 \in T PROVE r \in T
        <2> DEFINE a == m[r - 1]
                   Z == Y(r - 1)
        <2>1. r - 1 \in 0..K /\ a \in Rounds(N) /\ m[r] = MergeAt(a, r) /\ r \in 1..(N - 1) /\ r \in 0..K
            BY <1>1, <1>6 DEF K
        <2>2. /\ Sound(Z) /\ a.line \in [1..N -> Values] /\ a.gain \in Nat
              /\ Total(WorthOf, Z) = Total(WorthOf, X) + a.gain
            BY <1>9
        <2>3. Z[i] = a.line /\ \A line : With(Z, i, line) = With(X, i, line)
            <3>1. Z = With(X, i, a.line)
                OBVIOUS
            <3> HIDE DEF Z, a
            <3> QED
                BY <3>1 DEF With
        <2> HIDE DEF a, Z
        <2>4. CASE a.skip \/ ~ Equal(a.line, r)
            <3>1. MergeAt(a, r).line = a.line /\ MergeAt(a, r).gain = a.gain
                BY <2>1, <2>4 DEF MergeAt, Rounds
            <3>2. Y(r) = Z
                BY <2>1, <3>1 DEF Z, a
            <3> QED
                BY <2>1, <2>2, <3>1, <3>2
        <2>5. CASE ~ a.skip /\ Equal(a.line, r)
            <3> DEFINE line == Pair(a.line, r, 2 * a.line[r], 0)
            <3>1. MergeAt(a, r).line = line /\ MergeAt(a, r).gain = a.gain + 2 * a.line[r]
                BY <2>5 DEF MergeAt
            <3>2. Sound(With(Z, i, line)) /\ Total(WorthOf, With(Z, i, line)) = Total(WorthOf, Z) + 2 * a.line[r]
                <4>1. Equal(Z[i], r)
                    BY <2>3, <2>5
                <4>2. LET W == With(Z, i, Pair(Z[i], r, 2 * Z[i][r], 0))
                      IN  Sound(W) /\ Total(WorthOf, W) = Total(WorthOf, Z) + 2 * Z[i][r]
                    BY <2>1, <2>2, <4>1, MergeSound
                <4> QED
                    BY <2>3, <4>2
            <3>3. With(Z, i, line) = Y(r)
                <4>1. m[r].line = line
                    BY <2>1, <3>1
                <4> HIDE DEF line
                <4> QED
                    BY <2>3, <4>1
            <3>4. 2 * a.line[r] \in Nat
                <4>1. r \in 1..N
                    BY <1>1, <2>1
                <4>2. a.line[r] \in Values
                    BY <2>2, <4>1
                <4>3. a.line[r] \in Nat
                    BY <1>2, <4>2
                <4> HIDE DEF T, line
                <4> QED
                    BY <4>3
            <3>5. line \in [1..N -> Values]
                <4> HIDE DEF line
                <4>1. With(Z, i, line) \in Grid(Values)
                    BY <3>2 DEF Sound
                <4>2. With(Z, i, line)[i] = line
                    BY DEF With
                <4> QED
                    BY <4>1, <4>2 DEF Grid
            <3> HIDE DEF line
            <3>6. m[r].line = line /\ m[r].gain = a.gain + 2 * a.line[r]
                BY <2>1, <3>1
            <3>7. Total(WorthOf, Y(r)) = Total(WorthOf, X) + m[r].gain /\ m[r].gain \in Nat
                <4> HIDE DEF Y
                <4> QED
                    BY <1>7, <2>2, <3>2, <3>3, <3>4, <3>6
            <3>8. Sound(Y(r))
                BY <3>2, <3>3
            <3> QED
                BY <2>1, <3>5, <3>6, <3>7, <3>8
        <2> QED
            BY <2>4, <2>5
    <1>10. K \in T
        <2> HIDE DEF T
        <2> QED
            BY <1>1, <1>8, <1>9, SetInduction
    <1> DEFINE Z == Y(K)
               line == m[K].line
    <1>11. /\ Sound(Z) /\ m[K].gain \in Nat /\ Total(WorthOf, Z) = Total(WorthOf, X) + m[K].gain
        BY <1>10
    <1>12. Z[i] = line /\ \A l : With(Z, i, l) = With(X, i, l)
        <2>1. Z = With(X, i, line)
            OBVIOUS
        <2> HIDE DEF Z, line
        <2> QED
            BY <2>1 DEF With
    <1> HIDE DEF Z, line
    <1>13. /\ Sound(With(Z, i, Compact(Z[i]))) /\ Total(WorthOf, With(Z, i, Compact(Z[i]))) = Total(WorthOf, Z)
        BY <1>11, CompactSound
    <1>14. Sound(With(X, i, Compact(line))) /\ Total(WorthOf, With(X, i, Compact(line))) = Total(WorthOf, Z)
        BY <1>12, <1>13
    <1> QED
        BY <1>4, <1>11, <1>14 DEF line

\* All the lines, one after the other.
LEMMA GridSound ==
    ASSUME NEW X, Sound(X)
    PROVE  LET Y == [i \in 1..N |-> compress_line(X[i]).line]
               g == [i \in 1..N |-> compress_line(X[i]).gain]
           IN  /\ Sound(Y) /\ Sum(g, N) \in Nat
               /\ Total(WorthOf, Y) = Total(WorthOf, X) + Sum(g, N)
    <1> DEFINE g == [i \in 1..N |-> compress_line(X[i]).gain]
               Y(r) == [i \in 1..N |-> IF i <= r THEN compress_line(X[i]).line ELSE X[i]]
               T == {r \in 0..N : Sound(Y(r)) /\ Total(WorthOf, Y(r)) = Total(WorthOf, X) + Sum(g, r)}
    <1>1. N \in Nat /\ N \in 0..N
        BY GameAssumption
    <1>2. ASSUME NEW i \in 1..N PROVE g[i] \in Nat /\ g[i] = compress_line(X[i]).gain
        <2>1. compress_line(X[i]).gain \in Nat
            BY LineSound
        <2> QED
            BY <2>1
    <1>3. Ints(g, N) /\ Sum(g, N) \in Nat
        <2> HIDE DEF g
        <2> QED
            BY <1>1, <1>2, SumNat DEF Ints
    <1> HIDE DEF g
    <1>4. X \in Grid(Values) /\ Total(WorthOf, X) \in Int
        <2>1. X \in Grid(Values)
            BY DEF Sound
        <2>2. Totals(WorthOf, X)
            BY <2>1, WorthOfOK DEF Grid, Totals, Weighs
        <2> QED
            BY <2>1, <2>2, TotalInt
    <1>5. 0 \in T
        <2>1. Y(0) = X
            BY <1>1, <1>4 DEF Grid
        <2>2. Sum(g, 0) = 0
            BY <1>1, <1>3, SumSteps
        <2> QED
            BY <1>1, <1>4, <2>1, <2>2
    <1>6. ASSUME NEW r \in 1..N, r - 1 \in T PROVE r \in T
        <2> DEFINE Z == Y(r - 1)
        <2>1. Sound(Z) /\ Total(WorthOf, Z) = Total(WorthOf, X) + Sum(g, r - 1) /\ r - 1 \in 0..N /\ r \in 0..N
            BY <1>1, <1>6
        <2>2. Z[r] = X[r]
            BY <1>1
        <2>3. With(Z, r, compress_line(X[r]).line) = Y(r)
            BY <1>1 DEF With
        <2> HIDE DEF Z, Y
        <2>4. /\ Sound(With(Z, r, compress_line(Z[r]).line))
              /\ Total(WorthOf, With(Z, r, compress_line(Z[r]).line)) = Total(WorthOf, Z) + compress_line(Z[r]).gain
            BY <2>1, LineSound
        <2>5. Sound(Y(r)) /\ Total(WorthOf, Y(r)) = Total(WorthOf, Z) + g[r]
            BY <1>2, <2>2, <2>3, <2>4
        <2>6. Sum(g, r) = Sum(g, r - 1) + g[r] /\ Sum(g, r - 1) \in Int /\ g[r] \in Int
            <3>1. \A k \in 1..N : Sum(g, k) = Sum(g, k - 1) + g[k]
                BY <1>1, <1>3, SumSteps
            <3>2. \A k \in 0..N : Sum(g, k) \in Int
                BY <1>1, <1>3, SumSteps
            <3> QED
                BY <1>2, <2>1, <3>1, <3>2
        <2>7. Total(WorthOf, Y(r)) = Total(WorthOf, X) + Sum(g, r)
            BY <1>4, <2>1, <2>5, <2>6
        <2> QED
            BY <2>1, <2>5, <2>7
    <1>7. N \in T
        <2> HIDE DEF T
        <2> QED
            BY <1>1, <1>5, <1>6, SetInduction
    <1>8. Y(N) = [i \in 1..N |-> compress_line(X[i]).line]
        BY <1>1
    <1> QED
        BY <1>3, <1>7, <1>8 DEF g

-----------------------------------------------------------------------------
(***************************************************************************)
(* The score                                                               *)
(***************************************************************************)
ValueBoards == [Squares -> Values]

\* The worth of a board is that of its lines.
LEMMA WorthOfBoard ==
    ASSUME NEW b \in ValueBoards
    PROVE  BoardWorth(b) = Total(WorthOf, LinesIn(b, 3))
    <1> DEFINE L == LinesIn(b, 3)
    <1>1. N \in Nat /\ 3 \in Moves
        BY GameAssumption DEF Moves
    <1>2. ASSUME NEW i \in 1..N, NEW j \in 1..N
          PROVE  L[i][j] = b[<<i - 1, j - 1>>] /\ b[<<i - 1, j - 1>>] \in Values
        <2>1. CellAt(3, i - 1, j - 1) = <<i - 1, j - 1>>
            BY DEF CellAt
        <2>2. \A h, l \in 1..N : L[h][l] = b[CellAt(3, h - 1, l - 1)] /\ CellAt(3, h - 1, l - 1) \in Squares
            BY <1>1, LinesInCells
        <2> HIDE DEF L
        <2> QED
            BY <2>1, <2>2 DEF ValueBoards
    <1> HIDE DEF L
    <1>3. ASSUME NEW i \in 1..N PROVE RowWorth(b, i - 1) = Weight(WorthOf, L[i], N)
        <2>1. ASSUME NEW j \in 1..N PROVE Worth(b[<<i - 1, j - 1>>]) = WorthOf[L[i][j]]
            BY <1>2 DEF WorthOf
        <2>2. [j \in 1..N |-> Worth(b[<<i - 1, j - 1>>])] = [j \in 1..N |-> WorthOf[L[i][j]]]
            BY <2>1
        <2> QED
            BY <2>2 DEF RowWorth, Weight
    <1>4. [i \in 1..N |-> RowWorth(b, i - 1)] = [i \in 1..N |-> Weight(WorthOf, L[i], N)]
        BY <1>3
    <1> QED
        BY <1>4 DEF BoardWorth, Total, L

\* Room and worth do not depend on the direction a board is read in.
LEMMA SoundAnyWay ==
    ASSUME NEW b \in ValueBoards, NEW d \in Moves
    PROVE  /\ Sound(LinesIn(b, d)) <=> Sound(LinesIn(b, 3))
           /\ Total(WorthOf, LinesIn(b, d)) = Total(WorthOf, LinesIn(b, 3))
    <1>1. 3 \in Moves /\ b \in [Squares -> Values] /\ Values \in SUBSET Nat
        BY ValuesOK DEF Moves, ValueBoards
    <1>2. LinesIn(b, d) \in Grid(Values) /\ LinesIn(b, 3) \in Grid(Values)
        BY <1>1, LinesInOK DEF Grid
    <1>3. ASSUME NEW w, Scale(w, Values) PROVE Total(w, LinesIn(b, d)) = Total(w, LinesIn(b, 3))
        BY <1>1, <1>3, DirectionsWeighTheSame
    <1>4. Scale(WorthOf, Values)
        BY WorthOfOK DEF Scale
    <1>5. ASSUME NEW k \in 1..(MaxExp + 1) PROVE Total(Big(k), LinesIn(b, d)) = Total(Big(k), LinesIn(b, 3))
        <2>1. Scale(Big(k), Values)
            BY <1>1, BigOK DEF Scale
        <2> QED
            BY <1>3, <2>1
    <1> QED
        BY <1>2, <1>3, <1>4, <1>5 DEF Sound, Room

\* A move leaves room for its tiles and scores what the worth grows by.
LEMMA ShiftedSound ==
    ASSUME NEW b \in ValueBoards, Sound(LinesIn(b, 3)), NEW d \in Moves
    PROVE  /\ Shifted(b, d) \in ValueBoards /\ Sound(LinesIn(Shifted(b, d), 3)) /\ Gain(b, d) \in Nat
           /\ Total(WorthOf, LinesIn(Shifted(b, d), 3)) = Total(WorthOf, LinesIn(b, 3)) + Gain(b, d)
    <1> DEFINE X == LinesIn(b, d)
               Y == [i \in 1..N |-> compress_line(X[i]).line]
               g == [i \in 1..N |-> compress_line(X[i]).gain]
               s == Shifted(b, d)
               new == [i \in Idx |-> compress_line(Line(b, d, i)).line]
    <1>1. N \in Nat
        BY GameAssumption
    <1>2. Sound(X) /\ Total(WorthOf, X) = Total(WorthOf, LinesIn(b, 3))
        BY SoundAnyWay
    <1>3. \A i \in 1..N : X[i] = Line(b, d, i - 1)
        BY LinesInCells
    <1>4. s = [c \in Squares |-> new[LineOf(d, c)][PosOf(d, c) + 1]]
        BY DEF Shifted
    <1> HIDE DEF X
    <1>5. Sound(Y) /\ Sum(g, N) \in Nat /\ Total(WorthOf, Y) = Total(WorthOf, X) + Sum(g, N)
        BY <1>2, GridSound
    <1>6. Sum(g, N) = Gain(b, d)
        <2>1. g = [i \in 1..N |-> compress_line(Line(b, d, i - 1)).gain]
            BY <1>3
        <2> HIDE DEF g
        <2> QED
            BY <2>1 DEF Gain
    <1>7. \A i \in 1..N : i - 1 \in Idx /\ Y[i] = new[i - 1]
        BY <1>1, <1>3 DEF Idx
    <1>8. Y = [i \in 1..N |-> Y[i]] /\ DOMAIN Y = 1..N
        OBVIOUS
    <1> HIDE DEF Y, g, new, s
    <1>9. Y \in [1..N -> [1..N -> Values]]
        BY <1>5 DEF Sound, Grid
    <1>10. s \in ValueBoards
        <2>1. ASSUME NEW c \in Squares PROVE new[LineOf(d, c)][PosOf(d, c) + 1] \in Values
            <3> DEFINE i == LineOf(d, c) + 1
                       j == PosOf(d, c) + 1
            <3>1. LineOf(d, c) \in Idx /\ PosOf(d, c) \in Idx
                BY LinesNumberCells
            <3>2. i \in 1..N /\ j \in 1..N /\ i - 1 = LineOf(d, c)
                BY <1>1, <3>1 DEF Idx
            <3> HIDE DEF i, j
            <3>3. new[i - 1] = Y[i] /\ Y[i][j] \in Values
                BY <1>7, <1>9, <3>2
            <3> QED
                BY <3>2, <3>3 DEF j
        <2> QED
            BY <1>4, <2>1 DEF ValueBoards
    <1>11. LinesIn(s, d) = Y
        <2>1. ASSUME NEW i \in 1..N, NEW j \in 1..N PROVE LinesIn(s, d)[i][j] = Y[i][j]
            <3> DEFINE c == CellAt(d, i - 1, j - 1)
            <3>1. i - 1 \in Idx /\ j - 1 \in Idx /\ (j - 1) + 1 = j
                BY <1>1 DEF Idx
            <3>2. c \in Squares /\ LineOf(d, c) = i - 1 /\ PosOf(d, c) = j - 1
                BY <3>1, LinesNumberCells
            <3>3. LinesIn(s, d)[i][j] = s[c]
                BY LinesInCells
            <3> HIDE DEF c
            <3>4. s[c] = new[i - 1][j]
                BY <1>4, <3>1, <3>2
            <3> QED
                BY <1>7, <3>3, <3>4
        <2>2. LinesIn(s, d) \in [1..N -> [1..N -> Values]]
            BY <1>10, LinesInOK DEF ValueBoards
        <2> DEFINE Z == LinesIn(s, d)
        <2> HIDE DEF Z
        <2>3. Z \in [1..N -> [1..N -> Values]] /\ \A i, j \in 1..N : Z[i][j] = Y[i][j]
            BY <2>1, <2>2 DEF Z
        <2>4. ASSUME NEW i \in 1..N PROVE Z[i] = Y[i]
            <3>1. Z[i] \in [1..N -> Values] /\ Y[i] \in [1..N -> Values] /\ \A j \in 1..N : Z[i][j] = Y[i][j]
                BY <1>9, <2>3
            <3> DEFINE p == Z[i]
                       q == Y[i]
            <3> HIDE DEF p, q
            <3>2. p \in [1..N -> Values] /\ q \in [1..N -> Values] /\ \A j \in 1..N : p[j] = q[j]
                BY <3>1 DEF p, q
            <3>3. p = [j \in 1..N |-> p[j]] /\ q = [j \in 1..N |-> q[j]]
                BY <3>2, Zenon
            <3>4. [j \in 1..N |-> p[j]] = [j \in 1..N |-> q[j]]
                BY <3>2
            <3>5. p = q
                BY <3>3, <3>4, Zenon
            <3> QED
                BY <3>5 DEF p, q
        <2>5. Z = Y
            <3>1. Z = [i \in 1..N |-> Z[i]] /\ Y = [i \in 1..N |-> Y[i]]
                BY <1>9, <2>3, Zenon
            <3>2. [i \in 1..N |-> Z[i]] = [i \in 1..N |-> Y[i]]
                BY <2>4
            <3> QED
                BY <3>1, <3>2, Zenon
        <2> QED
            BY <2>5 DEF Z
    <1>12. Sound(LinesIn(s, 3)) /\ Total(WorthOf, LinesIn(s, 3)) = Total(WorthOf, Y)
        BY <1>5, <1>10, <1>11, SoundAnyWay
    <1> QED
        BY <1>2, <1>5, <1>6, <1>10, <1>12 DEF s

\* A tile of 2 or 4 always has room, a tile of 2 is worth nothing and one of 4
\* is worth 4.
LEMMA TileSound ==
    ASSUME NEW b \in ValueBoards, Sound(LinesIn(b, 3)), NEW t \in board_add_tile(b)
    PROVE  /\ t.board \in ValueBoards /\ Sound(LinesIn(t.board, 3)) /\ Four(t) \in Nat
           /\ Total(WorthOf, LinesIn(t.board, 3)) = Total(WorthOf, LinesIn(b, 3)) + 4 * Four(t)
    <1> DEFINE L(x) == LinesIn(x, 3)
    <1>1. 3 \in Moves /\ N \in Nat /\ b \in [Squares -> Values] /\ Values \in SUBSET Nat
        BY GameAssumption, ValuesOK DEF Moves, ValueBoards
    <1>2. Total(WorthOf, L(b)) \in Int
        <2>1. Scale(WorthOf, Values)
            BY WorthOfOK DEF Scale
        <2>2. Totals(WorthOf, L(b))
            BY <1>1, <2>1, DirectionsWeighTheSame
        <2> QED
            BY <2>2, TotalInt
    <1>3. CASE Empty(b) = {}
        <2>1. t = [board |-> b, tile |-> 0]
            BY <1>3 DEF board_add_tile
        <2>2. t.board = b /\ Four(t) = 0
            BY <2>1 DEF Four
        <2> QED
            BY <1>2, <2>2
    <1>4. CASE Empty(b) # {}
        <2>1. PICK c \in Empty(b), v \in {2, 4} :
                  t = [board |-> [x \in Squares |-> IF x = c THEN v ELSE b[x]], tile |-> v]
            BY <1>4 DEF board_add_tile
        <2> DEFINE new == t.board
        <2>2. new = [x \in Squares |-> IF x = c THEN v ELSE b[x]] /\ t.tile = v
            BY <2>1
        <2>3. c \in Squares /\ b[c] = 0 /\ v \in Values /\ (v = 2 \/ v = 4)
            BY <2>1, ValuesOK DEF Empty
        <2> HIDE DEF new
        <2>4. new \in [Squares -> Values] /\ new[c] = v /\ \A x \in Squares : x # c => new[x] = b[x]
            BY <1>1, <2>2, <2>3
        <2>5. ASSUME NEW w, Scale(w, Values) PROVE Total(w, L(new)) = Total(w, L(b)) + w[v] - w[0]
            <3>1. Total(w, L(new)) = Total(w, L(b)) + w[new[c]] - w[b[c]]
                BY <1>1, <2>3, <2>4, <2>5, OneCellWeighs
            <3> QED
                BY <2>3, <2>4, <3>1
        <2>6. Total(WorthOf, L(new)) = Total(WorthOf, L(b)) + 4 * Four(t) /\ Four(t) \in Nat
            <3>1. Scale(WorthOf, Values)
                BY WorthOfOK DEF Scale
            <3>2. Total(WorthOf, L(new)) = Total(WorthOf, L(b)) + WorthOf[v] - WorthOf[0]
                BY <2>5, <3>1
            <3>3. WorthOf[v] = 4 * Four(t) /\ WorthOf[0] = 0 /\ Four(t) \in Nat
                BY <2>2, <2>3, WorthOfOK DEF Four
            <3> QED
                BY <1>2, <3>2, <3>3
        <2>7. ASSUME NEW k \in 1..(MaxExp + 1) PROVE Total(Big(k), L(new)) <= MaxExp + 1 - k
            <3> DEFINE w == Big(k)
            <3>1. /\ \A x \in Nat : w[x] \in Nat /\ w[x] \in Int /\ w[x] <= 1
                  /\ w[0] = 0
                BY BigOK
            <3>2. k > 2 => w[v] = 0
                <4>1. 1 \in 1..MaxExp /\ 2 \in 1..MaxExp /\ k \in Nat
                    BY MaxExpOK
                <4>2. w[Power[1]] = (IF k <= 1 THEN 1 ELSE 0) /\ w[Power[2]] = (IF k <= 2 THEN 1 ELSE 0)
                    BY <4>1, BigOK
                <4>3. Power[1] = 2 /\ Power[2] = 4
                    BY ValuesOK
                <4> HIDE DEF w
                <4> QED
                    BY <2>3, <4>1, <4>2, <4>3
            <3>3. Total(w, L(b)) <= MaxExp + 1 - k
                BY DEF Sound, Room
            <3> HIDE DEF w
            <3>4. Scale(w, Values)
                BY <1>1, <3>1 DEF Scale
            <3>5. LinesIn(new, 3) \in [1..N -> [1..N -> Values]] /\ LinesIn(b, 3) \in [1..N -> [1..N -> Values]]
                BY <1>1, <2>4, LinesInOK
            <3>6. \A i, j \in 1..N : w[L(new)[i][j]] \in Nat /\ w[L(new)[i][j]] <= 1 /\ w[L(b)[i][j]] \in Nat
                <4> HIDE DEF L
                <4>1. \A i, j \in 1..N : L(new)[i][j] \in Nat /\ L(b)[i][j] \in Nat
                    BY <1>1, <3>5 DEF L
                <4> QED
                    BY <3>1, <4>1
            <3> HIDE DEF L
            <3>7. Total(w, L(new)) \in Nat /\ Total(w, L(new)) <= N * N /\ Total(w, L(b)) \in Nat
                BY <3>6, TotalBound
            <3>8. CASE k <= 2
                <4>1. MaxExp = N * N + 1 /\ N * N \in Nat
                    BY <1>1, MaxExpOK
                <4> DEFINE sq == N * N
                <4> HIDE DEF sq
                <4>2. Total(w, L(new)) <= sq /\ MaxExp = sq + 1 /\ sq \in Nat
                    BY <3>7, <4>1 DEF sq
                <4>3. k = 1 \/ k = 2
                    BY <3>8, MaxExpOK
                <4>4. Total(w, L(new)) <= MaxExp + 1 - k
                    BY <3>7, <4>2, <4>3
                <4> QED
                    BY <4>4 DEF w
            <3>9. CASE k > 2
                <4>1. Total(w, L(new)) = Total(w, L(b)) + w[v] - w[0]
                    BY <2>5, <3>4
                <4>2. Total(w, L(new)) = Total(w, L(b))
                    BY <3>1, <3>2, <3>7, <3>9, <4>1
                <4> QED
                    BY <3>3, <4>2 DEF w
            <3> QED
                BY <3>8, <3>9, MaxExpOK
        <2>8. Sound(L(new))
            <3>1. L(new) \in Grid(Values)
                BY <1>1, <2>4, LinesInOK DEF Grid
            <3> QED
                BY <2>7, <3>1 DEF Sound, Room
        <2> QED
            BY <2>4, <2>6, <2>8 DEF new, ValueBoards
    <1> QED
        BY <1>3, <1>4

\* An empty board has room and is worth nothing.
LEMMA EmptySound ==
    LET b == [c \in Squares |-> 0]
    IN  b \in ValueBoards /\ Sound(LinesIn(b, 3)) /\ Total(WorthOf, LinesIn(b, 3)) = 0
    <1> DEFINE b == [c \in Squares |-> 0]
               L == LinesIn(b, 3)
    <1>1. 3 \in Moves /\ N \in Nat /\ 0 \in Values
        BY GameAssumption, ValuesOK DEF Moves
    <1>2. b \in [Squares -> Values] /\ \A c \in Squares : b[c] = 0
        BY <1>1
    <1> HIDE DEF b
    <1>3. L \in [1..N -> [1..N -> Values]] /\ \A i, j \in 1..N : L[i][j] = 0
        <2>1. L \in [1..N -> [1..N -> Values]]
            BY <1>1, <1>2, LinesInOK
        <2>2. \A i, j \in 1..N : L[i][j] = b[CellAt(3, i - 1, j - 1)] /\ CellAt(3, i - 1, j - 1) \in Squares
            BY <1>1, LinesInCells
        <2> QED
            BY <1>2, <2>1, <2>2
    <1> HIDE DEF L
    <1>4. ASSUME NEW w, w[0] = 0 PROVE Total(w, L) = 0
        <2>1. \A i, j \in 1..N : w[L[i][j]] = 0
            BY <1>3, <1>4
        <2>2. ASSUME NEW i \in 1..N PROVE Weight(w, L[i], N) = 0
            <3> DEFINE f == [j \in 1..N |-> w[L[i][j]]]
            <3>1. Weight(w, L[i], N) = Sum(f, N)
                BY DEF Weight
            <3>2. Ints(f, N) /\ \A j \in (0 + 1)..N : f[j] = 0
                BY <1>1, <2>1 DEF Ints
            <3> HIDE DEF f
            <3>3. Sum(f, N) = Sum(f, 0) /\ Sum(f, 0) = 0
                <4>1. 0 \in 0..N
                    BY <1>1
                <4> QED
                    BY <1>1, <3>2, <4>1, SumPadded, SumSteps
            <3> QED
                BY <3>1, <3>3
        <2> DEFINE f == [i \in 1..N |-> Weight(w, L[i], N)]
        <2>3. Total(w, L) = Sum(f, N)
            BY DEF Total
        <2>4. Ints(f, N) /\ \A j \in (0 + 1)..N : f[j] = 0
            BY <1>1, <2>2 DEF Ints
        <2> HIDE DEF f
        <2>5. Sum(f, N) = Sum(f, 0) /\ Sum(f, 0) = 0
            <3>1. 0 \in 0..N
                BY <1>1
            <3> QED
                BY <1>1, <2>4, <3>1, SumPadded, SumSteps
        <2> QED
            BY <2>3, <2>5
    <1>5. Total(WorthOf, L) = 0
        BY <1>4, WorthOfOK
    <1>6. Sound(L)
        <2>1. ASSUME NEW k \in 1..(MaxExp + 1) PROVE Total(Big(k), L) <= MaxExp + 1 - k
            <3>1. Total(Big(k), L) = 0
                BY <1>4, BigOK
            <3> QED
                BY <3>1, MaxExpOK
        <2> QED
            BY <1>3, <2>1 DEF Sound, Room, Grid
    <1> QED
        BY <1>2, <1>5, <1>6 DEF b, L, ValueBoards

\* Why the score is right: the worth of the board is what was scored and what
\* was given, and the board has room for all that its tiles are made of.
ScoreInv == /\ GameTypeOK
            /\ Sound(LinesIn(board, 3))
            /\ score2048 + 4 * fours = Total(WorthOf, LinesIn(board, 3))

\* A new game: its tiles are worth 4 for every 4.
LEMMA NewGameSound ==
    ASSUME NEW g \in NewGames
    PROVE  /\ g.board \in ValueBoards /\ Sound(LinesIn(g.board, 3)) /\ g.fours \in Nat
           /\ 4 * g.fours = Total(WorthOf, LinesIn(g.board, 3))
    <1> DEFINE empty == [c \in Squares |-> 0]
    <1>1. PICK t \in board_add_tile(empty) :
              \E u \in board_add_tile(t.board) : g = [board |-> u.board, fours |-> Four(t) + Four(u)]
        BY DEF NewGames
    <1>2. PICK u \in board_add_tile(t.board) : g = [board |-> u.board, fours |-> Four(t) + Four(u)]
        BY <1>1
    <1>3. empty \in ValueBoards /\ Sound(LinesIn(empty, 3)) /\ Total(WorthOf, LinesIn(empty, 3)) = 0
        BY EmptySound
    <1> HIDE DEF empty
    <1>4. /\ t.board \in ValueBoards /\ Sound(LinesIn(t.board, 3)) /\ Four(t) \in Nat
          /\ Total(WorthOf, LinesIn(t.board, 3)) = 0 + 4 * Four(t)
        BY <1>3, TileSound
    <1>5. /\ u.board \in ValueBoards /\ Sound(LinesIn(u.board, 3)) /\ Four(u) \in Nat
          /\ Total(WorthOf, LinesIn(u.board, 3)) = Total(WorthOf, LinesIn(t.board, 3)) + 4 * Four(u)
        BY <1>4, TileSound
    <1>6. g.board = u.board /\ g.fours = Four(t) + Four(u)
        BY <1>2
    <1>7. 4 * (Four(t) + Four(u)) = Total(WorthOf, LinesIn(u.board, 3))
        BY <1>4, <1>5
    <1> QED
        BY <1>4, <1>5, <1>6, <1>7

\* A new game has scored nothing: its tiles are worth the fours among them.
LEMMA ScoreInitial == GameInit => ScoreInv
    <1> SUFFICES ASSUME GameInit PROVE ScoreInv
        OBVIOUS
    <1>1. PICK g \in NewGames : board = g.board /\ fours = g.fours /\ score2048 = 0 /\ over2048 = 0
        BY DEF GameInit
    <1>2. /\ board \in ValueBoards /\ Sound(LinesIn(board, 3)) /\ fours \in Nat
          /\ 4 * fours = Total(WorthOf, LinesIn(board, 3))
        BY <1>1, NewGameSound
    <1>3. GameTypeOK
        BY <1>1, <1>2 DEF GameTypeOK, ValueBoards
    <1> QED
        BY <1>1, <1>2, <1>3 DEF ScoreInv

\* A move scores what the tiles gain in worth.
LEMMA ScoreStep == ScoreInv /\ [GameNext]_boardVars => ScoreInv'
    <1> SUFFICES ASSUME ScoreInv, [GameNext]_boardVars PROVE ScoreInv'
        OBVIOUS
    <1>1. /\ board \in ValueBoards /\ Sound(LinesIn(board, 3)) /\ over2048 \in 0..1
          /\ score2048 \in Nat /\ fours \in Nat /\ score2048 + 4 * fours = Total(WorthOf, LinesIn(board, 3))
        BY DEF ScoreInv, GameTypeOK, ValueBoards
    <1>2. SUFFICES /\ board' \in ValueBoards /\ Sound(LinesIn(board', 3)) /\ over2048' \in 0..1
                   /\ score2048' \in Nat /\ fours' \in Nat
                   /\ score2048' + 4 * fours' = Total(WorthOf, LinesIn(board', 3))
        <2>1. LinesIn(board', 3) = LinesIn(board, 3)'
            BY DEF LinesIn, Line, CellAt
        <2>2. Sound(LinesIn(board, 3))' <=> Sound(LinesIn(board, 3)')
            BY DEF Sound, Room
        <2>3. Total(WorthOf, LinesIn(board, 3))' = Total(WorthOf, LinesIn(board, 3)')
            BY DEF Total
        <2>4. GameTypeOK'
            BY <1>2 DEF GameTypeOK, ValueBoards
        <2> QED
            BY <1>2, <2>1, <2>2, <2>3, <2>4 DEF ScoreInv
    <1>3. CASE board_new_game
        <2>1. PICK g \in NewGames : board' = g.board /\ fours' = g.fours
            BY <1>3 DEF board_new_game
        <2>2. /\ board' \in ValueBoards /\ Sound(LinesIn(board', 3)) /\ fours' \in Nat
              /\ 4 * fours' = Total(WorthOf, LinesIn(board', 3))
            BY <2>1, NewGameSound
        <2>3. score2048' = 0 /\ over2048' = 0
            BY <1>3 DEF board_new_game
        <2> QED
            BY <2>2, <2>3
    <1>4. ASSUME NEW d \in Moves, game_2048_move(d)
          PROVE  /\ board' \in ValueBoards /\ Sound(LinesIn(board', 3)) /\ over2048' \in 0..1
                 /\ score2048' \in Nat /\ fours' \in Nat
                 /\ score2048' + 4 * fours' = Total(WorthOf, LinesIn(board', 3))
        <2> DEFINE b == Shifted(board, d)
                   G == Gain(board, d)
        <2>1. /\ b = board => board' = b /\ fours' = fours
              /\ b # board => \E t \in board_add_tile(b) : board' = t.board /\ fours' = fours + Four(t)
              /\ over2048' \in 0..1 /\ score2048' = score2048 + G
            BY <1>4 DEF game_2048_move
        <2>2. /\ b \in ValueBoards /\ Sound(LinesIn(b, 3)) /\ G \in Nat
              /\ Total(WorthOf, LinesIn(b, 3)) = Total(WorthOf, LinesIn(board, 3)) + G
            BY <1>1, ShiftedSound
        <2> HIDE DEF b, G
        <2>3. CASE b = board
            BY <1>1, <2>1, <2>2, <2>3
        <2>4. CASE b # board
            <3>1. PICK t \in board_add_tile(b) : board' = t.board /\ fours' = fours + Four(t)
                BY <2>1, <2>4
            <3>2. /\ board' \in ValueBoards /\ Sound(LinesIn(board', 3)) /\ Four(t) \in Nat
                  /\ Total(WorthOf, LinesIn(board', 3)) = Total(WorthOf, LinesIn(b, 3)) + 4 * Four(t)
                BY <2>2, <3>1, TileSound
            <3>3. score2048' \in Nat /\ fours' \in Nat
                BY <1>1, <2>1, <2>2, <3>1, <3>2
            <3>4. score2048' + 4 * fours' = Total(WorthOf, LinesIn(board', 3))
                BY <1>1, <2>1, <2>2, <3>1, <3>2
            <3> QED
                BY <2>1, <3>2, <3>3, <3>4
        <2> QED
            BY <2>3, <2>4
    <1>5. CASE UNCHANGED boardVars
        BY <1>1, <1>5 DEF boardVars
    <1> QED
        BY <1>3, <1>4, <1>5 DEF GameNext

\* The inductive invariant of the score, for every board size.
THEOREM GameScoreInvariant == GameSpec => []ScoreInv
    BY ScoreInitial, ScoreStep, PTL DEF GameSpec

\* The score is always the worth of the tiles on the board less the tiles
\* that were given, and every tile is a power of two that fits the board.
THEOREM GameScoreAccounts == GameSpec => []ScoreAccountsForTiles
    <1>1. ScoreInv => ScoreAccountsForTiles
        BY WorthOfBoard DEF ScoreInv, ScoreAccountsForTiles, GameTypeOK, ValueBoards
    <1> QED
        BY <1>1, GameScoreInvariant, PTL

-----------------------------------------------------------------------------
(***************************************************************************)
(* The rules                                                               *)
(***************************************************************************)
\* How many of the first cells are filled, cell by cell.
LEMMA FilledSteps ==
    ASSUME NEW n \in Nat, NEW line
    PROVE  /\ Filled(line, 0) = 0
           /\ \A i \in 0..n : Filled(line, i) \in Nat
           /\ \A i \in 1..n : Filled(line, i) = Filled(line, i - 1) + (IF line[i] # 0 THEN 1 ELSE 0)
    <1> DEFINE S(i) == {j \in 1..i : line[j] # 0}
               T == {i \in 0..n : IsFiniteSet(S(i))}
    <1>1. S(0) = {}
        OBVIOUS
    <1>2. ASSUME NEW i \in 1..n PROVE S(i) = IF line[i] # 0 THEN S(i - 1) \cup {i} ELSE S(i - 1)
        OBVIOUS
    <1>3. ASSUME NEW i \in 1..n PROVE i \notin S(i - 1)
        OBVIOUS
    <1>4. \A i : Filled(line, i) = Cardinality(S(i))
        BY DEF Filled
    <1> HIDE DEF S
    <1>5. 0 \in T
        BY <1>1, FS_EmptySet
    <1>6. ASSUME NEW i \in 1..n, i - 1 \in T PROVE i \in T
        BY <1>2, <1>6, FS_AddElement
    <1>7. \A i \in 0..n : IsFiniteSet(S(i))
        <2> HIDE DEF T
        <2>1. \A i \in 0..n : i \in T
            BY <1>5, <1>6, SetInduction
        <2> QED
            BY <2>1 DEF T
    <1>8. ASSUME NEW i \in 0..n PROVE Filled(line, i) \in Nat
        BY <1>4, <1>7, FS_CardinalityType
    <1>9. ASSUME NEW i \in 1..n PROVE Filled(line, i) = Filled(line, i - 1) + (IF line[i] # 0 THEN 1 ELSE 0)
        <2>1. i - 1 \in 0..n /\ IsFiniteSet(S(i - 1)) /\ Filled(line, i - 1) \in Nat
            BY <1>7, <1>8
        <2>2. Cardinality(S(i - 1) \cup {i}) = Cardinality(S(i - 1)) + 1
            BY <1>3, <2>1, FS_AddElement
        <2>3. CASE line[i] # 0
            <3>1. S(i) = S(i - 1) \cup {i}
                BY <1>2, <2>3
            <3>2. Filled(line, i) = Filled(line, i - 1) + 1
                BY <1>4, <2>2, <3>1, Zenon
            <3> QED
                BY <2>3, <3>2
        <2>4. CASE line[i] = 0
            <3>1. S(i) = S(i - 1)
                BY <1>2, <2>4
            <3>2. Filled(line, i) = Filled(line, i - 1)
                BY <1>4, <3>1, Zenon
            <3> QED
                BY <2>1, <2>4, <3>2
        <2> QED
            BY <2>3, <2>4
    <1>10. Filled(line, 0) = 0
        BY <1>1, <1>4, FS_EmptySet
    <1> QED
        BY <1>8, <1>9, <1>10

\* Packing leaves the tiles of the line.
LEMMA PackedIsTiles ==
    ASSUME NEW n \in Nat, NEW line \in [1..n -> Nat]
    PROVE  TilesOf(line) = Packed(line)[n] /\ TilesOf(line) \in Seq(Tiles) /\ Len(TilesOf(line)) \in 0..n
    <1> DEFINE p == Packed(line)
               F(i) == Filled(line, i)
    <1>1. Len(line) = n
        BY FunctionIsSeq
    <1>2. p \in [0..n -> Seq(Tiles)] /\ p[0] = <<>> /\ Len(p[0]) = 0 /\ \A i \in 0..n : Len(p[i]) <= i
        <2>1. p \in [0..n -> Seq(Tiles)] /\ p[0] = <<>>
            BY <1>1, PackedRounds
        <2>2. \A i \in 0..n : Len(p[i]) <= i
            BY <1>1, PackedLength
        <2> QED
            BY <2>1, <2>2
    <1>3. ASSUME NEW i \in 1..n
          PROVE  /\ Len(p[i - 1]) \in Nat
                 /\ line[i] = 0 => p[i] = p[i - 1]
                 /\ line[i] # 0 => /\ Len(p[i]) = Len(p[i - 1]) + 1 /\ p[i][Len(p[i])] = line[i]
                                   /\ \A j \in 1..Len(p[i - 1]) : p[i][j] = p[i - 1][j]
        BY <1>1, PackedRound, Zenon
    <1>4. /\ F(0) = 0 /\ \A i \in 0..n : F(i) \in Nat
          /\ \A i \in 1..n : F(i) = F(i - 1) + (IF line[i] # 0 THEN 1 ELSE 0)
        BY FilledSteps
    <1>5. TilesOf(line) = [k \in 1..F(n) |-> line[CHOOSE i \in 1..n : line[i] # 0 /\ F(i) = k]]
        BY <1>1 DEF TilesOf
    <1> HIDE DEF p, F
    <1>6. \A i \in 0..n : Len(p[i]) = F(i)
        <2> DEFINE T == {i \in 0..n : Len(p[i]) = F(i)}
        <2>1. 0 \in T
            BY <1>2, <1>4
        <2>2. ASSUME NEW i \in 1..n, i - 1 \in T PROVE i \in T
            <3>1. Len(p[i - 1]) = F(i - 1)
                BY <2>2
            <3>2. Len(p[i - 1]) \in Nat /\ F(i) = F(i - 1) + (IF line[i] # 0 THEN 1 ELSE 0)
                BY <1>3, <1>4
            <3>3. CASE line[i] = 0
                BY <1>3, <3>1, <3>2, <3>3
            <3>4. CASE line[i] # 0
                BY <1>3, <3>1, <3>2, <3>4
            <3> QED
                BY <3>3, <3>4
        <2> HIDE DEF T
        <2>3. \A i \in 0..n : i \in T
            BY <2>1, <2>2, SetInduction
        <2> QED
            BY <2>3 DEF T
    <1> DEFINE U(m) == /\ \A i \in 1..m : line[i] # 0 => F(i) \in 1..F(m) /\ p[m][F(i)] = line[i]
                       /\ \A k \in 1..F(m) : \E i \in 1..m : line[i] # 0 /\ F(i) = k
               T == {m \in 0..n : U(m)}
    <1>7. 0 \in T
        BY <1>4
    <1>8. ASSUME NEW m \in 1..n, m - 1 \in T PROVE m \in T
        <2>1. U(m - 1) /\ m - 1 \in 0..n /\ F(m - 1) \in Nat /\ F(m) \in Nat
            BY <1>4, <1>8
        <2>2. \A i \in 1..m : i = m \/ i \in 1..(m - 1)
            OBVIOUS
        <2>3. CASE line[m] = 0
            <3>1. F(m) = F(m - 1) /\ p[m] = p[m - 1]
                BY <1>3, <1>4, <2>1, <2>3
            <3>2. \A i \in 1..m : line[i] # 0 => i \in 1..(m - 1)
                BY <2>2, <2>3
            <3>3. U(m)
                BY <2>1, <3>1, <3>2
            <3> QED
                BY <3>3
        <2>4. CASE line[m] # 0
            <3>1. F(m) = F(m - 1) + 1 /\ F(m - 1) = Len(p[m - 1]) /\ F(m) = Len(p[m])
                BY <1>4, <1>6, <2>1, <2>4
            <3>2. p[m][F(m)] = line[m] /\ \A j \in 1..F(m - 1) : p[m][j] = p[m - 1][j]
                BY <1>3, <2>4, <3>1
            <3>3. ASSUME NEW i \in 1..m, line[i] # 0 PROVE F(i) \in 1..F(m) /\ p[m][F(i)] = line[i]
                <4>1. CASE i = m
                    BY <2>1, <3>1, <3>2, <4>1
                <4>2. CASE i \in 1..(m - 1)
                    <5>1. F(i) \in 1..F(m - 1) /\ p[m - 1][F(i)] = line[i]
                        BY <2>1, <3>3, <4>2, Zenon
                    <5>2. p[m][F(i)] = p[m - 1][F(i)]
                        BY <3>2, <5>1, Zenon
                    <5>3. F(m - 1) \in Nat /\ F(m) = F(m - 1) + 1
                        BY <2>1, <3>1
                    <5>4. F(i) \in 1..F(m)
                        BY <5>1, <5>3
                    <5> QED
                        BY <5>1, <5>2, <5>4
                <4> QED
                    BY <2>2, <4>1, <4>2
            <3>4. ASSUME NEW k \in 1..F(m) PROVE \E i \in 1..m : line[i] # 0 /\ F(i) = k
                <4>1. CASE k = F(m)
                    BY <2>4, <4>1
                <4>2. CASE k # F(m)
                    <5>1. k \in 1..F(m - 1)
                        BY <2>1, <3>1, <4>2
                    <5>2. PICK i \in 1..(m - 1) : line[i] # 0 /\ F(i) = k
                        BY <2>1, <5>1
                    <5> QED
                        BY <5>2
                <4> QED
                    BY <4>1, <4>2
            <3>5. U(m)
                BY <3>3, <3>4
            <3> QED
                BY <3>5
        <2> QED
            BY <2>3, <2>4
    <1>9. U(n)
        <2> HIDE DEF T, U
        <2>1. \A m \in 0..n : m \in T
            BY <1>7, <1>8, SetInduction
        <2>2. n \in 0..n
            OBVIOUS
        <2> QED
            BY <2>1, <2>2 DEF T
    <1> DEFINE t == p[n]
    <1>10. t \in Seq(Tiles) /\ Len(t) = F(n) /\ Len(t) \in 0..n /\ t \in [1..F(n) -> Tiles]
        <2>1. n \in 0..n
            OBVIOUS
        <2>2. t \in Seq(Tiles) /\ Len(t) = F(n) /\ Len(t) <= n
            BY <1>2, <1>6, <2>1
        <2> HIDE DEF t
        <2>3. Len(t) \in Nat /\ t \in [1..Len(t) -> Tiles]
            BY <2>2, LenProperties
        <2> QED
            BY <2>2, <2>3
    <1>11. ASSUME NEW k \in 1..F(n) PROVE line[CHOOSE i \in 1..n : line[i] # 0 /\ F(i) = k] = t[k]
        <2> DEFINE c == CHOOSE i \in 1..n : line[i] # 0 /\ F(i) = k
        <2>1. c \in 1..n /\ line[c] # 0 /\ F(c) = k
            BY <1>9
        <2> HIDE DEF c
        <2>2. t[k] = line[c]
            BY <1>9, <2>1
        <2> QED
            BY <2>2 DEF c
    <1>12. TilesOf(line) = t
        <2> HIDE DEF t, U
        <2>1. t = [k \in 1..F(n) |-> t[k]]
            BY <1>10
        <2>2. [k \in 1..F(n) |-> line[CHOOSE i \in 1..n : line[i] # 0 /\ F(i) = k]] = [k \in 1..F(n) |-> t[k]]
            BY <1>11
        <2> QED
            BY <1>5, <2>1, <2>2, Zenon
    <1> QED
        BY <1>10, <1>12 DEF p

\* Cells without tiles at the end of a line make no difference.
Padded(f, n, g, L) == /\ L \in 0..n /\ f \in [1..n -> Nat] /\ g \in [1..L -> Nat]
                      /\ (\A j \in 1..L : f[j] = g[j]) /\ \A j \in (L + 1)..n : f[j] = 0

\* They are the same tiles.
LEMMA PackedPadded ==
    ASSUME NEW n \in Nat, NEW L, NEW f, NEW g, Padded(f, n, g, L)
    PROVE  TilesOf(f) = TilesOf(g)
    <1> USE DEF Padded
    <1> DEFINE p == Packed(f)
               q == Packed(g)
               T == {i \in 0..n : p[i] = q[IF i <= L THEN i ELSE L]}
    <1>1. L \in Nat /\ Len(f) = n /\ Len(g) = L
        BY FunctionIsSeq
    <1>2. p[0] = <<>> /\ \A i \in 1..n : p[i] = Pack(p[i - 1], f[i])
        BY <1>1, PackedRounds
    <1>3. q[0] = <<>> /\ \A i \in 1..L : q[i] = Pack(q[i - 1], g[i])
        BY <1>1, PackedRounds
    <1>4. TilesOf(f) = p[n] /\ TilesOf(g) = q[L]
        BY <1>1, PackedIsTiles
    <1> HIDE DEF p, q
    <1>5. 0 \in T
        BY <1>2, <1>3
    <1>6. ASSUME NEW i \in 1..n, i - 1 \in T PROVE i \in T
        <2>1. p[i] = Pack(p[i - 1], f[i]) /\ p[i - 1] = q[IF i - 1 <= L THEN i - 1 ELSE L]
            BY <1>2, <1>6
        <2>2. CASE i <= L
            <3>1. i \in 1..L /\ f[i] = g[i] /\ i - 1 <= L
                BY <2>2
            <3>2. p[i] = q[i]
                BY <1>3, <2>1, <3>1
            <3> QED
                BY <2>2, <3>2
        <2>3. CASE ~(i <= L)
            <3>1. f[i] = 0 /\ p[i - 1] = q[L]
                BY <2>1, <2>3
            <3>2. p[i] = p[i - 1]
                BY <2>1, <3>1 DEF Pack
            <3> QED
                BY <2>3, <3>1, <3>2
        <2> QED
            BY <2>2, <2>3
    <1>7. n \in T
        <2> HIDE DEF T
        <2>1. \A i \in 0..n : i \in T
            BY <1>5, <1>6, SetInduction
        <2> QED
            BY <2>1
    <1>8. p[n] = q[L]
        <2>1. n <= L => n = L
            OBVIOUS
        <2> QED
            BY <1>7, <2>1
    <1> QED
        BY <1>4, <1>8

\* A compacted line has the same tiles, in front.
LEMMA CompactTiles ==
    ASSUME NEW n \in Nat, NEW line \in [1..n -> Nat]
    PROVE  /\ TilesOf(Compact(line)) = TilesOf(line)
           /\ Compact(line) = [j \in 1..n |-> IF j <= Len(TilesOf(line)) THEN TilesOf(line)[j] ELSE 0]
    <1> DEFINE t == TilesOf(line)
               c == Compact(line)
               L == Len(t)
    <1>1. Len(line) = n
        BY FunctionIsSeq
    <1>2. t = Packed(line)[n] /\ t \in Seq(Tiles) /\ L \in 0..n
        BY PackedIsTiles
    <1> HIDE DEF t
    <1>3. c = [j \in 1..n |-> IF j <= L THEN t[j] ELSE 0]
        BY <1>1, <1>2 DEF Compact
    <1>4. t \in [1..L -> Tiles] /\ L \in Nat
        BY <1>2, LenProperties
    <1>5. t \in [1..L -> Nat] /\ \A j \in 1..L : t[j] # 0
        BY <1>4 DEF Tiles
    <1> HIDE DEF c
    <1>6. TilesOf(c) = TilesOf(t)
        <2>1. c \in [1..n -> Nat] /\ (\A j \in 1..L : c[j] = t[j]) /\ \A j \in (L + 1)..n : c[j] = 0
            BY <1>2, <1>3, <1>5
        <2> HIDE DEF L
        <2>2. L \in 0..n /\ t \in [1..L -> Nat]
            BY <1>2, <1>5 DEF L
        <2>3. Padded(c, n, t, L)
            BY <2>1, <2>2 DEF Padded
        <2> QED
            BY <2>3, PackedPadded
    <1>7. TilesOf(t) = t
        <2> DEFINE q == Packed(t)[L]
        <2>1. TilesOf(t) = q /\ q \in Seq(Tiles)
            BY <1>4, <1>5, PackedIsTiles
        <2>2. Len(q) = L /\ \A j \in 1..L : q[j] = t[j]
            <3>1. L \in 0..L /\ L \in Nat /\ Len(t) = L /\ t \in [1..L -> Nat] /\ \A j \in 1..L : t[j] # 0
                BY <1>4, <1>5
            <3> HIDE DEF L
            <3>2. \A i \in 0..L : Len(Packed(t)[i]) = i /\ \A j \in 1..i : Packed(t)[i][j] = t[j]
                BY <3>1, PackedLength
            <3> QED
                BY <3>1, <3>2
        <2> HIDE DEF q, L
        <2>3. q \in [1..L -> Tiles]
            BY <2>1, <2>2, LenProperties
        <2>4. q = [j \in 1..L |-> q[j]] /\ t = [j \in 1..L |-> t[j]]
            BY <1>4, <2>3, Zenon
        <2>5. [j \in 1..L |-> q[j]] = [j \in 1..L |-> t[j]]
            BY <2>2
        <2> QED
            BY <2>1, <2>4, <2>5, Zenon
    <1> QED
        BY <1>3, <1>6, <1>7 DEF c, t, L

\* Where a run begins.
IsRun(s, i, j) == j \in 1..i /\ (\A h \in j..i : s[h] = s[i]) /\ (j = 1 \/ s[j - 1] # s[i])

\* Every tile is in a run, and the run begins at one place.
LEMMA RunExists ==
    ASSUME NEW s, NEW i \in Nat \ {0}
    PROVE  IsRun(s, i, RunFrom(s, i)) /\ \A j : IsRun(s, i, j) => j = RunFrom(s, i)
    <1> DEFINE S == {j \in 1..i : \A h \in j..i : s[h] = s[i]}
               r == RunFrom(s, i)
    <1>1. i \in S /\ S \in SUBSET Nat
        OBVIOUS
    <1>2. PICK j \in S : \A k \in S : j <= k
        <2> HIDE DEF S
        <2> QED
            BY <1>1, LeastMember
    <1>3. j = 1 \/ s[j - 1] # s[i]
        <2>1. SUFFICES ASSUME j # 1, s[j - 1] = s[i] PROVE FALSE
            OBVIOUS
        <2>2. \A h \in (j - 1)..i : h = j - 1 \/ h \in j..i
            OBVIOUS
        <2>3. j - 1 \in S
            BY <2>1, <2>2
        <2> QED
            BY <1>2, <2>3
    <1>4. IsRun(s, i, j)
        BY <1>3 DEF IsRun
    <1>5. RunFrom(s, i) = CHOOSE k \in 1..i : (\A h \in k..i : s[h] = s[i]) /\ (k = 1 \/ s[k - 1] # s[i])
        BY DEF RunFrom
    <1>6. IsRun(s, i, r)
        BY <1>4, <1>5 DEF IsRun
    <1>7. ASSUME NEW k, IsRun(s, i, k) PROVE k = r
        <2> HIDE DEF r
        <2>1. k \in 1..i /\ r \in 1..i
            BY <1>6, <1>7 DEF IsRun
        <2>2. ~(k < r)
            <3>1. SUFFICES ASSUME k < r PROVE FALSE
                OBVIOUS
            <3>2. r - 1 \in k..i /\ r # 1
                BY <2>1, <3>1
            <3> QED
                BY <1>6, <1>7, <3>2 DEF IsRun
        <2>3. ~(r < k)
            <3>1. SUFFICES ASSUME r < k PROVE FALSE
                OBVIOUS
            <3>2. k - 1 \in r..i /\ k # 1
                BY <2>1, <3>1
            <3> QED
                BY <1>6, <1>7, <3>2 DEF IsRun
        <2> QED
            BY <2>1, <2>2, <2>3
    <1> QED
        BY <1>6, <1>7

\* A tile is taken up when it equals the one before it and that is not taken.
LEMMA TakenSteps ==
    ASSUME NEW s, NEW L \in Nat, Len(s) = L
    PROVE  /\ ~ Taken(s, 1)
           /\ \A i : i \notin 1..L => ~ Taken(s, i)
           /\ \A i \in 1..(L - 1) : Taken(s, i + 1) <=> s[i] = s[i + 1] /\ ~ Taken(s, i)
    <1>1. ~ Taken(s, 1)
        <2>1. RunFrom(s, 1) \in 1..1
            BY RunExists DEF IsRun
        <2>2. RunFrom(s, 1) = 1
            BY <2>1
        <2> QED
            BY <2>2 DEF Taken
    <1>2. \A i : i \notin 1..L => ~ Taken(s, i)
        BY DEF Taken
    <1>3. ASSUME NEW i \in 1..(L - 1) PROVE Taken(s, i + 1) <=> s[i] = s[i + 1] /\ ~ Taken(s, i)
        <2> DEFINE r == RunFrom(s, i)
                   q == RunFrom(s, i + 1)
        <2>1. i \in Nat \ {0} /\ i + 1 \in Nat \ {0} /\ i \in 1..L /\ i + 1 \in 1..L
            OBVIOUS
        <2>2. IsRun(s, i, r) /\ IsRun(s, i + 1, q) /\ \A k : IsRun(s, i + 1, k) => k = q
            BY <2>1, RunExists
        <2>3. (Taken(s, i) <=> (i - r) % 2 = 1) /\ (Taken(s, i + 1) <=> ((i + 1) - q) % 2 = 1)
            <3>1. \A k \in 1..L : Taken(s, k) <=> (k - RunFrom(s, k)) % 2 = 1
                BY Zenon DEF Taken
            <3>2. Taken(s, i) <=> (i - r) % 2 = 1
                BY <2>1, <3>1, Zenon
            <3> DEFINE h == i + 1
            <3>3. h \in 1..L
                BY <2>1
            <3> HIDE DEF h
            <3>4. Taken(s, h) <=> (h - RunFrom(s, h)) % 2 = 1
                BY <3>1, <3>3, Zenon
            <3> QED
                BY <3>2, <3>4, Zenon DEF h
        <2> HIDE DEF r, q
        <2>4. r \in 1..i /\ i - r \in Nat
            BY <2>2 DEF IsRun
        <2>5. CASE s[i] = s[i + 1]
            <3>1. IsRun(s, i + 1, r)
                <4>1. \A h \in r..(i + 1) : h = i + 1 \/ h \in r..i
                    BY <2>4
                <4> QED
                    BY <2>2, <2>4, <2>5, <4>1 DEF IsRun
            <3>2. q = r
                BY <2>2, <3>1
            <3>3. (i + 1) - r = (i - r) + 1
                BY <2>4
            <3>4. \A m \in Nat : (m + 1) % 2 = 1 <=> m % 2 # 1
                OBVIOUS
            <3> QED
                BY <2>3, <2>4, <2>5, <3>2, <3>3, <3>4
        <2>6. CASE s[i] # s[i + 1]
            <3>1. IsRun(s, i + 1, i + 1)
                <4>1. (i + 1) - 1 = i /\ \A h \in (i + 1)..(i + 1) : h = i + 1
                    OBVIOUS
                <4> QED
                    BY <2>1, <2>6, <4>1 DEF IsRun
            <3>2. q = i + 1
                BY <2>2, <3>1
            <3>3. ((i + 1) - q) % 2 = 0
                BY <3>2
            <3> QED
                BY <2>3, <2>6, <3>3
        <2> QED
            BY <2>5, <2>6
    <1> QED
        BY <1>1, <1>2, <1>3

-----------------------------------------------------------------------------
\* What the second loop has done after i rounds, for the tiles s of the line.
\* The cells up to i are as the rules say, the next one is already empty if it
\* was taken up, and skip says so.
Front(s, j)  == IF j <= Len(s) THEN ByRules(s)[j] ELSE 0
Earned(s)    == [j \in Nat |-> IF j \in 1..Len(s) THEN Made(s)[j] ELSE 0]
AfterRound(m, s, c, i, n) ==
    /\ m.skip <=> Taken(s, i + 1)
    /\ m.gain = Sum(Earned(s), i)
    /\ \A j \in 1..n : m.line[j] = IF j <= i THEN Front(s, j) ELSE
                                   IF j = i + 1 /\ Taken(s, i + 1) THEN 0 ELSE c[j]

\* The tiles that are made, and the cells that the rules leave.
CellByCell(s, L) ==
    /\ \A j \in Nat : Earned(s)[j] \in Nat
    /\ \A j \in 1..L : /\ Earned(s)[j] = Made(s)[j] /\ Front(s, j) = ByRules(s)[j]
                       /\ Made(s)[j] = (IF Taken(s, j + 1) THEN s[j] + s[j + 1] ELSE 0)
                       /\ ByRules(s)[j] = (IF Taken(s, j) THEN 0 ELSE IF Taken(s, j + 1) THEN Made(s)[j] ELSE s[j])
    /\ \A j \in Nat : j > L => Earned(s)[j] = 0 /\ Front(s, j) = 0
    /\ ByRules(s) \in [1..L -> Nat] /\ Made(s) \in [1..L -> Nat]

\* The definitions of the rules, cell by cell.
LEMMA RulesOK ==
    ASSUME NEW L \in Nat, NEW s \in [1..L -> Tiles], Len(s) = L
    PROVE  CellByCell(s, L)
    <1>1. \A j \in 1..L : s[j] \in Nat
        BY DEF Tiles
    <1>2. ASSUME NEW j \in 1..L
          PROVE  Made(s)[j] \in Nat /\ Made(s)[j] = (IF Taken(s, j + 1) THEN s[j] + s[j + 1] ELSE 0)
        <2>1. Made(s)[j] = (IF Taken(s, j + 1) THEN s[j] + s[j + 1] ELSE 0)
            BY DEF Made
        <2>2. Taken(s, j + 1) => j + 1 \in 1..L
            BY DEF Taken
        <2> QED
            BY <1>1, <2>1, <2>2
    <1>3. ASSUME NEW j \in 1..L
          PROVE  /\ ByRules(s)[j] \in Nat
                 /\ ByRules(s)[j] = (IF Taken(s, j) THEN 0 ELSE IF Taken(s, j + 1) THEN Made(s)[j] ELSE s[j])
        <2>1. ByRules(s)[j] = (IF Taken(s, j) THEN 0 ELSE IF Taken(s, j + 1) THEN Made(s)[j] ELSE s[j])
            BY DEF ByRules
        <2> QED
            BY <1>1, <1>2, <2>1
    <1>4. ByRules(s) \in [1..L -> Nat]
        <2>1. ByRules(s) = [j \in 1..L |-> ByRules(s)[j]]
            BY DEF ByRules
        <2> QED
            BY <1>3, <2>1
    <1>5. Made(s) \in [1..L -> Nat]
        <2>1. Made(s) = [j \in 1..L |-> Made(s)[j]]
            BY DEF Made
        <2> QED
            BY <1>2, <2>1
    <1>6. \A j \in Nat : Earned(s)[j] = IF j \in 1..L THEN Made(s)[j] ELSE 0
        BY DEF Earned
    <1>7. \A j \in 1..L : Front(s, j) = ByRules(s)[j] /\ Earned(s)[j] = Made(s)[j]
        BY <1>6 DEF Front
    <1>8. \A j \in Nat : j > L => Earned(s)[j] = 0 /\ Front(s, j) = 0
        BY <1>6 DEF Front
    <1>9. \A j \in Nat : Earned(s)[j] \in Nat
        BY <1>2, <1>6
    <1> QED
        BY <1>2, <1>3, <1>4, <1>5, <1>7, <1>8, <1>9 DEF CellByCell

\* The rounds of the second loop.
LEMMA RoundsByRules ==
    ASSUME NEW n \in Nat \ {0}, NEW L \in 0..n, NEW s \in [1..L -> Tiles], Len(s) = L,
           NEW c \in [1..n -> Nat], \A j \in 1..n : c[j] = IF j <= L THEN s[j] ELSE 0
    PROVE  \A i \in 0..(n - 1) : AfterRound(Merging(c)[i], s, c, i, n)
    <1> DEFINE m == Merging(c)
               k == n - 1
               E == Earned(s)
    <1>1. k \in Nat /\ k = n - 1 /\ L \in Nat
        OBVIOUS
    <1>2. /\ m \in [0..k -> Rounds(n)] /\ m[0] = [line |-> c, gain |-> 0, skip |-> FALSE]
          /\ \A i \in 1..k : m[i] = MergeAt(m[i - 1], i)
        BY MergingRounds
    <1>3. /\ ~ Taken(s, 1)
          /\ \A i : i \notin 1..L => ~ Taken(s, i)
          /\ \A i \in 1..(L - 1) : Taken(s, i + 1) <=> s[i] = s[i + 1] /\ ~ Taken(s, i)
        BY <1>1, TakenSteps
    <1>4. /\ \A j \in Nat : E[j] \in Nat
          /\ \A j \in 1..L : /\ E[j] = (IF Taken(s, j + 1) THEN s[j] + s[j + 1] ELSE 0)
                             /\ Front(s, j) = (IF Taken(s, j) THEN 0 ELSE IF Taken(s, j + 1) THEN s[j] + s[j + 1] ELSE s[j])
          /\ \A j \in Nat : j > L => E[j] = 0 /\ Front(s, j) = 0
        <2>1. CellByCell(s, L)
            BY <1>1, RulesOK
        <2>2. ASSUME NEW j \in 1..L
              PROVE  /\ E[j] = (IF Taken(s, j + 1) THEN s[j] + s[j + 1] ELSE 0)
                     /\ Front(s, j) = (IF Taken(s, j) THEN 0 ELSE IF Taken(s, j + 1) THEN s[j] + s[j + 1] ELSE s[j])
            BY <2>1 DEF CellByCell
        <2> QED
            BY <2>1, <2>2 DEF CellByCell
    <1> HIDE DEF m, k, E
    <1>5. /\ Sum(E, 0) = 0 /\ (\A i \in 0..n : Sum(E, i) \in Int)
          /\ \A i \in 1..n : Sum(E, i) = Sum(E, i - 1) + E[i]
        <2>1. Ints(E, n) /\ n \in Nat
            BY <1>4 DEF Ints
        <2> QED
            BY <2>1, SumSteps
    <1>6. \A j \in 1..L : s[j] \in Nat /\ s[j] # 0
        BY DEF Tiles
    <1> DEFINE T == {i \in 0..k : AfterRound(m[i], s, c, i, n)}
    <1>7. 0 \in T
        <2>1. m[0].line = c /\ m[0].gain = 0 /\ m[0].skip = FALSE
            BY <1>2
        <2>2. 0 + 1 = 1 /\ ~ Taken(s, 0 + 1) /\ \A j \in 1..n : ~(j <= 0)
            BY <1>3
        <2>3. AfterRound(m[0], s, c, 0, n)
            BY <1>5, <2>1, <2>2 DEF AfterRound, E
        <2> QED
            BY <1>1, <2>3
    <1>8. ASSUME NEW i \in 1..k, i - 1 \in T PROVE i \in T
        <2> DEFINE a == m[i - 1]
        <2>1. /\ i \in 1..n /\ i + 1 \in 1..n /\ i - 1 \in 0..k /\ i \in 0..k /\ (i - 1) + 1 = i
              /\ i \in Nat /\ i + 1 \in Nat /\ i \in Int
            BY <1>1
        <2>2. a \in Rounds(n) /\ m[i] = MergeAt(a, i)
            BY <1>2, <2>1
        <2>3. AfterRound(a, s, c, i - 1, n)
            BY <1>8
        <2> HIDE DEF a
        <2>4. /\ a.line \in [1..n -> Nat] /\ a.gain \in Nat /\ a.skip \in BOOLEAN
            BY <2>2 DEF Rounds
        <2>5. /\ a.skip <=> Taken(s, i)
              /\ a.gain = Sum(E, i - 1)
              /\ \A j \in 1..n : a.line[j] = IF j <= i - 1 THEN Front(s, j) ELSE
                                             IF j = i /\ Taken(s, i) THEN 0 ELSE c[j]
            BY <2>1, <2>3 DEF AfterRound, E
        <2>6. a.line[i] = (IF Taken(s, i) THEN 0 ELSE c[i]) /\ a.line[i + 1] = c[i + 1]
            BY <2>1, <2>5
        <2>7. Sum(E, i) = Sum(E, i - 1) + E[i] /\ Sum(E, i - 1) \in Int
            BY <1>5, <2>1
        <2>8. Taken(s, i + 1) => i \in 1..L /\ i + 1 \in 1..L
            BY <1>1, <1>3, <2>1
        <2>9. i \in 1..L \/ i > L
            BY <1>1, <2>1
        <2>10. /\ Front(s, i) = (IF Taken(s, i) THEN 0 ELSE IF Taken(s, i + 1) THEN s[i] + s[i + 1] ELSE c[i])
               /\ E[i] = (IF Taken(s, i + 1) THEN s[i] + s[i + 1] ELSE 0)
            <3>1. CASE i \in 1..L
                <4>1. c[i] = s[i]
                    BY <1>1, <2>1, <3>1
                <4> QED
                    BY <1>4, <3>1, <4>1
            <3>2. CASE i > L
                <4>1. ~ Taken(s, i) /\ ~ Taken(s, i + 1) /\ c[i] = 0
                    BY <1>1, <1>3, <2>1, <3>2
                <4> QED
                    BY <1>4, <2>1, <3>2, <4>1
            <3> QED
                BY <2>9, <3>1, <3>2
        <2>11. Taken(s, i + 1) <=> /\ ~ Taken(s, i) /\ c[i] # 0 /\ c[i] = c[i + 1]
            <3>1. CASE i + 1 \in 1..L
                <4>1. i \in 1..(L - 1) /\ i \in 1..L
                    BY <1>1, <2>1, <3>1
                <4>2. c[i] = s[i] /\ c[i + 1] = s[i + 1] /\ s[i] # 0
                    BY <1>1, <1>6, <2>1, <3>1, <4>1
                <4> QED
                    BY <1>3, <4>1, <4>2
            <3>2. CASE i + 1 \notin 1..L
                <4>1. ~ Taken(s, i + 1)
                    BY <1>3, <3>2
                <4>2. c[i + 1] = 0
                    BY <1>1, <2>1, <3>2
                <4> QED
                    BY <4>1, <4>2
            <3> QED
                BY <3>1, <3>2
        <2>12. SUFFICES /\ m[i].skip <=> Taken(s, i + 1)
                        /\ m[i].gain = Sum(E, i)
                        /\ \A j \in 1..n : m[i].line[j] = IF j <= i THEN Front(s, j) ELSE
                                                          IF j = i + 1 /\ Taken(s, i + 1) THEN 0 ELSE c[j]
            BY <2>1 DEF AfterRound, E
        <2>13. CASE Taken(s, i)
            <3>1. m[i].line = a.line /\ m[i].gain = a.gain /\ m[i].skip = FALSE
                BY <2>2, <2>4, <2>5, <2>13 DEF MergeAt, Rounds
            <3>2. ~ Taken(s, i + 1) /\ Front(s, i) = 0 /\ E[i] = 0 /\ a.line[i] = 0
                BY <2>6, <2>10, <2>11, <2>13
            <3>3. \A j \in 1..n : a.line[j] = IF j <= i THEN Front(s, j) ELSE c[j]
                <4> TAKE j \in 1..n
                <4>1. j <= i - 1 \/ j = i \/ j > i
                    BY <2>1
                <4> QED
                    BY <2>1, <2>5, <3>2, <4>1
            <3> QED
                BY <2>5, <2>7, <3>1, <3>2, <3>3
        <2>14. CASE ~ Taken(s, i) /\ ~ Taken(s, i + 1)
            <3>1. ~ a.skip /\ ~ Equal(a.line, i)
                BY <2>5, <2>6, <2>11, <2>14 DEF Equal
            <3>2. m[i] = a
                BY <2>2, <3>1 DEF MergeAt
            <3>3. Front(s, i) = c[i] /\ E[i] = 0 /\ a.line[i] = c[i]
                BY <2>6, <2>10, <2>14
            <3>4. \A j \in 1..n : a.line[j] = IF j <= i THEN Front(s, j) ELSE c[j]
                <4> TAKE j \in 1..n
                <4>1. j <= i - 1 \/ j = i \/ j > i
                    BY <2>1
                <4> QED
                    BY <2>1, <2>5, <3>3, <4>1
            <3> QED
                BY <2>5, <2>7, <2>14, <3>1, <3>2, <3>3, <3>4
        <2>15. CASE ~ Taken(s, i) /\ Taken(s, i + 1)
            <3>1. a.line[i] = c[i] /\ a.line[i + 1] = c[i + 1] /\ c[i] # 0 /\ c[i] = c[i + 1]
                BY <2>6, <2>11, <2>15
            <3>2. ~ a.skip /\ Equal(a.line, i)
                BY <2>5, <2>15, <3>1 DEF Equal
            <3> DEFINE new == Pair(a.line, i, 2 * a.line[i], 0)
            <3>3. m[i] = [line |-> new, gain |-> a.gain + 2 * a.line[i], skip |-> TRUE]
                BY <2>2, <3>2 DEF MergeAt
            <3>4. Len(a.line) = n
                BY <2>4, FunctionIsSeq
            <3>5. \A j \in 1..n : new[j] = IF j = i THEN 2 * a.line[i] ELSE IF j = i + 1 THEN 0 ELSE a.line[j]
                BY <3>4 DEF Pair
            <3> HIDE DEF new
            <3>6. m[i].line = new /\ m[i].gain = a.gain + 2 * a.line[i] /\ m[i].skip = TRUE
                BY <3>3
            <3>7. i \in 1..L /\ i + 1 \in 1..L
                BY <2>8, <2>15
            <3>8. s[i] = c[i] /\ s[i + 1] = c[i] /\ c[i] \in Nat
                BY <1>1, <2>1, <3>1, <3>7
            <3>9. Front(s, i) = 2 * c[i] /\ E[i] = 2 * c[i] /\ a.line[i] = c[i]
                <4>1. s[i] + s[i + 1] = 2 * c[i]
                    BY <3>8
                <4> QED
                    BY <2>10, <2>15, <3>1, <4>1
            <3>10. \A j \in 1..n : new[j] = IF j <= i THEN Front(s, j) ELSE IF j = i + 1 THEN 0 ELSE c[j]
                <4> TAKE j \in 1..n
                <4>1. CASE j <= i - 1
                    <5>1. j # i /\ j # i + 1 /\ j <= i
                        BY <2>1, <4>1
                    <5>2. new[j] = a.line[j] /\ a.line[j] = Front(s, j)
                        BY <2>5, <3>5, <4>1, <5>1
                    <5> QED
                        BY <5>1, <5>2
                <4>2. CASE j = i
                    <5>1. new[j] = 2 * c[i]
                        BY <3>5, <3>9, <4>2
                    <5> QED
                        BY <2>1, <3>9, <4>2, <5>1
                <4>3. CASE j = i + 1
                    <5>1. new[j] = 0 /\ ~(j <= i)
                        BY <2>1, <3>5, <4>3
                    <5> QED
                        BY <4>3, <5>1
                <4>4. CASE j > i + 1
                    <5>1. j # i /\ j # i + 1 /\ ~(j <= i) /\ ~(j <= i - 1)
                        BY <2>1, <4>4
                    <5>2. new[j] = a.line[j] /\ a.line[j] = c[j]
                        BY <2>5, <3>5, <5>1
                    <5> QED
                        BY <5>1, <5>2
                <4> QED
                    BY <2>1, <4>1, <4>2, <4>3, <4>4
            <3>11. a.gain + 2 * a.line[i] = Sum(E, i)
                BY <2>5, <2>7, <3>9
            <3> QED
                BY <2>15, <3>6, <3>10, <3>11
        <2> QED
            BY <2>13, <2>14, <2>15
    <1>9. \A i \in 0..k : i \in T
        <2> HIDE DEF T
        <2> QED
            BY <1>1, <1>7, <1>8, SetInduction
    <1> QED
        BY <1>9 DEF m, k

\* A cell weighs its value.
Face == [v \in Nat |-> v]

\* compress_line keeps the sum of the tiles.
LEMMA SumKept ==
    ASSUME NEW n \in Nat \ {0}, NEW line \in [1..n -> Nat]
    PROVE  Sum(compress_line(line).line, n) = Sum(line, n)
    <1> DEFINE c == Compact(line)
               m == Merging(c)
               k == n - 1
               V == Nat
               w == Face
    <1>1. n \in Nat /\ k \in Nat /\ k = n - 1 /\ k \in 0..k /\ Len(line) = n
        BY FunctionIsSeq
    <1>2. V \in SUBSET Nat /\ 0 \in V /\ Scale(w, V) /\ w[0] = 0 /\ \A v \in V : w[v] = v
        BY DEF Scale, Face
    <1>3. compress_line(line).line = Compact(m[k].line)
        BY <1>1 DEF compress_line
    <1>4. ASSUME NEW f \in [1..n -> V] PROVE Weight(w, f, n) = Sum(f, n)
        <2> DEFINE g == [j \in 1..n |-> w[f[j]]]
        <2>1. \A j \in 1..n : f[j] \in Nat /\ g[j] = f[j]
            BY <1>2
        <2>2. Ints(f, n) /\ Ints(g, n)
            BY <2>1 DEF Ints
        <2>3. Weight(w, f, n) = Sum(g, n)
            BY DEF Weight
        <2> HIDE DEF g
        <2> QED
            BY <1>1, <2>1, <2>2, <2>3, SumCompare
    <1>5. line \in [1..n -> V]
        OBVIOUS
    <1> HIDE DEF V, w
    <1>6. ASSUME NEW f \in [1..n -> V] PROVE Compact(f) \in [1..n -> V] /\ Weight(w, Compact(f), n) = Weight(w, f, n)
        BY <1>1, <1>2, CompactWeight
    <1>7. c \in [1..n -> V] /\ Weight(w, c, n) = Weight(w, line, n)
        BY <1>5, <1>6
    <1> HIDE DEF c
    <1>8. /\ m \in [0..k -> Rounds(n)] /\ m[0] = [line |-> c, gain |-> 0, skip |-> FALSE]
          /\ \A i \in 1..k : m[i] = MergeAt(m[i - 1], i)
        BY <1>7, MergingRounds DEF V
    <1> HIDE DEF m, k
    <1>9. Weight(w, line, n) \in Int
        <2>1. Weighs(w, line, n)
            BY <1>2, <1>5 DEF Weighs, Scale
        <2>2. \A i \in 0..n : Weight(w, line, i) \in Int
            BY <1>1, <2>1, WeightSteps
        <2> QED
            BY <1>1, <2>2
    <1> DEFINE T == {i \in 0..k : m[i].line \in [1..n -> V] /\ Weight(w, m[i].line, n) = Weight(w, line, n)}
    <1>10. 0 \in T
        <2>1. m[0].line = c
            BY <1>8
        <2> QED
            BY <1>1, <1>7, <2>1
    <1>11. ASSUME NEW i \in 1..k, i - 1 \in T PROVE i \in T
        <2> DEFINE a == m[i - 1]
                   l == a.line
        <2>1. i - 1 \in 0..k /\ i \in 0..k /\ i \in 1..(n - 1) /\ i \in 1..n
            BY <1>1
        <2>2. m[i] = MergeAt(a, i) /\ l \in [1..n -> V] /\ Weight(w, l, n) = Weight(w, line, n) /\ a \in Rounds(n)
            BY <1>8, <1>11, <2>1
        <2>3. CASE a.skip \/ ~ Equal(a.line, i)
            <3>1. MergeAt(a, i).line = l
                <4> HIDE DEF a
                <4> QED
                    BY <2>2, <2>3 DEF MergeAt, Rounds
            <3> QED
                BY <2>1, <2>2, <3>1
        <2>4. CASE ~ a.skip /\ Equal(a.line, i)
            <3> DEFINE d == 2 * l[i]
                       new == Pair(l, i, d, 0)
            <3>1. m[i].line = new
                <4> HIDE DEF a
                <4> QED
                    BY <2>2, <2>4 DEF MergeAt
            <3>2. Equal(l, i)
                BY <2>4
            <3> HIDE DEF l, a, T
            <3>3. l[i] \in V /\ d \in V /\ l[i] \in Nat
                BY <2>1, <2>2 DEF V
            <3>4. new \in [1..n -> V] /\ Weight(w, new, n) = Weight(w, l, n) + w[d] - 2 * w[l[i]]
                <4>1. /\ n \in Nat /\ V \in SUBSET Nat /\ 0 \in V /\ l \in [1..n -> V] /\ Scale(w, V) /\ w[0] = 0
                      /\ i \in 1..(n - 1) /\ Equal(l, i) /\ 2 * l[i] \in V
                    BY <1>1, <1>2, <2>1, <2>2, <3>2, <3>3
                <4> QED
                    BY <4>1, MergeWeight, SMTT(60)
            <3>5. w[d] = 2 * l[i] /\ w[l[i]] = l[i]
                BY <1>2, <3>3
            <3> HIDE DEF new, d
            <3>6. Weight(w, new, n) = Weight(w, line, n)
                BY <1>9, <2>2, <3>3, <3>4, <3>5
            <3> QED
                BY <2>1, <3>1, <3>4, <3>6 DEF T
        <2> QED
            BY <2>3, <2>4
    <1>12. k \in T
        <2> HIDE DEF T
        <2> QED
            BY <1>1, <1>10, <1>11, SetInduction
    <1> DEFINE f == m[k].line
    <1> HIDE DEF f
    <1>13. f \in [1..n -> V] /\ Weight(w, f, n) = Weight(w, line, n)
        BY <1>12 DEF f
    <1>14. Compact(f) \in [1..n -> V] /\ Weight(w, Compact(f), n) = Weight(w, f, n)
        BY <1>6, <1>13
    <1>15. Sum(Compact(f), n) = Sum(line, n)
        BY <1>4, <1>5, <1>13, <1>14
    <1> QED
        BY <1>3, <1>15 DEF f

\* compress_line follows the rules, for a line of any length and any tiles.
THEOREM CompressByRules ==
    ASSUME NEW n \in Nat \ {0}, NEW line \in [1..n -> Nat]
    PROVE  FollowsRules(line)
    <1> DEFINE s == TilesOf(line)
               L == Len(s)
               c == Compact(line)
               m == Merging(c)[n - 1]
               res == compress_line(line)
               E == Earned(s)
    <1>1. n \in Nat /\ Len(line) = n /\ n - 1 \in 0..(n - 1) /\ (n - 1) + 1 = n /\ n \in 1..n
        BY FunctionIsSeq
    <1>2. res.line = Compact(m.line) /\ res.gain = m.gain
        BY <1>1 DEF compress_line
    <1>3. s \in Seq(Tiles) /\ L \in 0..n
        BY <1>1, PackedIsTiles
    <1>4. c \in [1..n -> Nat] /\ \A j \in 1..n : c[j] = IF j <= L THEN s[j] ELSE 0
        <2>1. c = [j \in 1..n |-> IF j <= L THEN s[j] ELSE 0]
            BY <1>1, CompactTiles
        <2>2. c \in [1..n -> Nat]
            BY <1>1, Compacted
        <2> HIDE DEF c, s
        <2> QED
            BY <2>1, <2>2
    <1>5. res.line \in [1..n -> Nat] /\ ZerosLast(res.line, n)
        BY CompressedLine
    <1>6. Sum(res.line, n) = Sum(line, n)
        BY SumKept
    <1>7. m.line \in [1..n -> Nat]
        <2>1. Merging(c) \in [0..(n - 1) -> Rounds(n)]
            BY <1>4, MergingRounds
        <2>2. m \in Rounds(n)
            BY <1>1, <2>1
        <2> HIDE DEF m
        <2> QED
            BY <2>2 DEF Rounds
    <1> HIDE DEF c, s, res
    <1>8. s \in [1..L -> Tiles] /\ L \in Nat /\ L <= n
        BY <1>1, <1>3, LenProperties
    <1>9. CellByCell(s, L) /\ ~ Taken(s, L + 1) /\ \A i : i \notin 1..L => ~ Taken(s, i)
        <2>1. L + 1 \notin 1..L
            BY <1>8
        <2> QED
            BY <1>8, <2>1, RulesOK, TakenSteps
    <1>10. AfterRound(m, s, c, n - 1, n)
        <2>1. \A i \in 0..(n - 1) : AfterRound(Merging(c)[i], s, c, i, n)
            <3>1. Len(s) = L
                OBVIOUS
            <3> HIDE DEF L
            <3> QED
                BY <1>3, <1>4, <1>8, <3>1, RoundsByRules
        <2> QED
            BY <1>1, <2>1
    <1> HIDE DEF L, m, E
    <1>11. ~ Taken(s, n + 1) /\ n + 1 \notin 1..L
        BY <1>1, <1>8, <1>9
    <1>12. ASSUME NEW j \in 1..n PROVE m.line[j] = Front(s, j)
        <2>1. CASE j <= n - 1
            BY <1>10, <2>1 DEF AfterRound
        <2>2. CASE ~(j <= n - 1)
            <3>1. j = n
                BY <2>2
            <3>2. m.line[n] = IF Taken(s, n) THEN 0 ELSE c[n]
                BY <1>1, <1>10 DEF AfterRound
            <3>3. CASE n <= L
                <4>1. n \in 1..L /\ c[n] = s[n]
                    BY <1>1, <1>4, <1>8, <3>3
                <4>2. Front(s, n) = IF Taken(s, n) THEN 0 ELSE s[n]
                    BY <1>9, <1>11, <4>1 DEF CellByCell
                <4> QED
                    BY <3>1, <3>2, <4>1, <4>2
            <3>4. CASE ~(n <= L)
                <4>1. n \notin 1..L /\ n > L
                    BY <1>1, <1>8, <3>4
                <4>2. ~ Taken(s, n) /\ c[n] = 0 /\ Front(s, n) = 0
                    BY <1>1, <1>4, <1>9, <3>4, <4>1 DEF CellByCell
                <4> QED
                    BY <3>1, <3>2, <4>2
            <3> QED
                BY <3>3, <3>4
        <2> QED
            BY <2>1, <2>2
    <1>13. TilesOf(res.line) = TilesOf(ByRules(s))
        <2>1. TilesOf(Compact(m.line)) = TilesOf(m.line)
            BY <1>1, <1>7, CompactTiles
        <2>2. Padded(m.line, n, ByRules(s), L)
            <3>1. ByRules(s) \in [1..L -> Nat]
                BY <1>9 DEF CellByCell
            <3>2. ASSUME NEW j \in 1..L PROVE m.line[j] = ByRules(s)[j]
                <4>1. j \in 1..n
                    BY <1>8
                <4>2. Front(s, j) = ByRules(s)[j]
                    BY <1>9 DEF CellByCell
                <4> QED
                    BY <1>12, <4>1, <4>2
            <3>3. ASSUME NEW j \in (L + 1)..n PROVE m.line[j] = 0
                <4>1. j \in 1..n /\ j \in Nat /\ j > L
                    BY <1>1, <1>8
                <4>2. Front(s, j) = 0
                    BY <1>9, <4>1 DEF CellByCell
                <4> QED
                    BY <1>12, <4>1, <4>2
            <3> QED
                BY <1>3, <1>7, <3>1, <3>2, <3>3 DEF Padded
        <2>3. TilesOf(m.line) = TilesOf(ByRules(s))
            BY <1>1, <2>2, PackedPadded
        <2> QED
            BY <1>2, <2>1, <2>3
    <1>14. res.gain = Sum(Made(s), L)
        <2>1. m.gain = Sum(E, n - 1)
            BY <1>10 DEF AfterRound, E
        <2>2. /\ \A j \in Nat : E[j] \in Nat
              /\ \A j \in 1..L : E[j] = Made(s)[j]
              /\ \A j \in Nat : j > L => E[j] = 0
            BY <1>9 DEF CellByCell, E
        <2>3. E[n] = 0
            <3>1. CASE n \in 1..L
                <4>1. Made(s)[n] = 0
                    BY <1>9, <1>11, <3>1 DEF CellByCell
                <4> QED
                    BY <2>2, <3>1, <4>1
            <3>2. CASE n \notin 1..L
                BY <1>1, <1>8, <2>2, <3>2
            <3> QED
                BY <3>1, <3>2
        <2>4. Ints(E, n) /\ Ints(E, L) /\ Ints(Made(s), L)
            <3>1. Made(s) \in [1..L -> Nat]
                BY <1>9 DEF CellByCell
            <3>2. \A j \in 1..L : Made(s)[j] \in Int
                BY <3>1
            <3> QED
                BY <2>2, <3>2 DEF Ints
        <2>5. Sum(E, n) = Sum(E, n - 1)
            <3>1. \A i \in 1..n : Sum(E, i) = Sum(E, i - 1) + E[i]
                BY <1>1, <2>4, SumSteps
            <3>2. \A i \in 0..n : Sum(E, i) \in Int
                BY <1>1, <2>4, SumSteps
            <3> QED
                BY <1>1, <2>3, <3>1, <3>2
        <2>6. Sum(E, n) = Sum(E, L)
            <3>1. \A j \in (L + 1)..n : E[j] = 0
                BY <1>8, <2>2
            <3> QED
                BY <1>1, <1>3, <2>4, <3>1, SumPadded
        <2>7. Sum(E, L) = Sum(Made(s), L)
            BY <1>8, <2>2, <2>4, SumCompare
        <2> QED
            BY <1>2, <2>1, <2>5, <2>6, <2>7
    <1>15. Len(res.line) = n /\ \A i, j \in 1..n : i < j /\ res.line[i] = 0 => res.line[j] = 0
        <2>1. Len(res.line) = n
            BY <1>1, <1>5, FunctionIsSeq
        <2> QED
            BY <1>5, <2>1 DEF ZerosLast
    <1> QED
        BY <1>1, <1>6, <1>13, <1>14, <1>15 DEF FollowsRules, res, s, L

\* Every move of the game is by the rules: the three passes of compress_line
\* over every line of every board a game can reach.
THEOREM GameLineByRules == GameSpec => []LineByRules
    <1>1. BoardInv => LineByRules
        <2> SUFFICES ASSUME BoardInv PROVE LineByRules
            OBVIOUS
        <2>1. board \in Boards /\ N \in Nat \ {0} /\ 3 \in Moves /\ 0 \in Idx /\ 1 \in Idx
            BY GameAssumption DEF BoardInv, Moves, Idx
        <2>2. ASSUME NEW d \in Moves, NEW i \in Idx PROVE Line(board, d, i) \in [1..N -> Nat]
            BY <2>1, LinesOfBoard
        <2>3. ASSUME NEW d \in Moves, NEW i \in Idx PROVE FollowsRules(Line(board, d, i))
            BY <2>1, <2>2, CompressByRules
        <2>4. FollowsRules(Line(board, 3, 0) \o Line(board, 3, 1))
            <3> DEFINE p == Line(board, 3, 0)
                       q == Line(board, 3, 1)
            <3>1. p \in [1..N -> Nat] /\ q \in [1..N -> Nat] /\ N \in Nat
                BY <2>1, <2>2
            <3> HIDE DEF p, q
            <3>2. p \in Seq(Nat) /\ q \in Seq(Nat) /\ Len(p) = N /\ Len(q) = N
                BY <3>1, FunctionIsSeq
            <3>3. p \o q \in Seq(Nat) /\ Len(p \o q) = N + N
                BY <3>2, ConcatProperties
            <3>4. p \o q \in [1..(N + N) -> Nat]
                BY <3>3, LenProperties
            <3>5. N + N \in Nat \ {0}
                BY <2>1
            <3>6. FollowsRules(p \o q)
                BY <3>4, <3>5, CompressByRules
            <3> QED
                BY <3>6 DEF p, q
        <2> QED
            BY <2>3, <2>4 DEF LineByRules
    <1> QED
        BY <1>1, GameInvariant, PTL
=============================================================================
