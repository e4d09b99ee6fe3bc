------------------------------ MODULE Game2048 ------------------------------
(***************************************************************************)
(* The 2048 game of lvgl/user_events/events_quweidonghua.c.  Entering the  *)
(* mode and the restart button begin a new game; a direction button or a   *)
(* swipe is a move.  The board is N by N (4 by 4 in the code), a cell is   *)
(* <<y, x>>, and 0 is an empty cell.                                       *)
(***************************************************************************)
EXTENDS Integers, Sequences, FiniteSets

CONSTANT N  \* side of the board

ASSUME GameAssumption == N \in Nat \ {0, 1}

VARIABLES
    board,      \* g_2048_board
    score2048,  \* g_2048_score
    over2048,   \* g_2048_over
    fours       \* history: tiles of 4 that were added in this game

boardVars == <<board, score2048, over2048, fours>>

Idx     == 0..(N - 1)
Squares == Idx \X Idx
Moves   == 0..3

-----------------------------------------------------------------------------
(* compress_line, for a line of any length.                                *)

\* f[1] + ... + f[n].
Sum(f, n) ==
    LET s[i \in 0..n] == IF i = 0 THEN 0 ELSE s[i - 1] + f[i]
    IN  s[n]

\* The body of the first and the third loop: a cell after the tiles so far.
Pack(tiles, v) == IF v # 0 THEN Append(tiles, v) ELSE tiles

\* tmp up to pos, after each round of the loop.
Packed(line) ==
    LET tmp[i \in 0..Len(line)] == IF i = 0 THEN <<>> ELSE Pack(tmp[i - 1], line[i])
    IN  tmp

\* The first and the third loop: the tiles in order, then zeros.
Compact(line) ==
    LET tiles == Packed(line)[Len(line)]
    IN  [i \in 1..Len(line) |-> IF i <= Len(tiles) THEN tiles[i] ELSE 0]

\* The line with a and b at positions i and i + 1.
Pair(line, i, a, b) ==
    [j \in 1..Len(line) |-> IF j = i THEN a ELSE IF j = i + 1 THEN b ELSE line[j]]

\* The test of the second loop: a tile equal to the next one.
Equal(line, i) == line[i] # 0 /\ line[i] = line[i + 1]

\* Mutant of MergeAt: the sum goes to the second tile, where it merges again.
MergeAtSecond(m, i) ==
    IF Equal(m.line, i)
    THEN [line |-> Pair(m.line, i, 0, 2 * m.line[i]),
          gain |-> m.gain + 2 * m.line[i], skip |-> FALSE]
    ELSE m

\* Mutant of MergeAt: the score is counted before the tile is doubled.
MergeAtScoreFirst(m, i) ==
    IF m.skip THEN [m EXCEPT !.skip = FALSE]
    ELSE IF Equal(m.line, i)
    THEN [line |-> Pair(m.line, i, 2 * m.line[i], 0),
          gain |-> m.gain + m.line[i], skip |-> TRUE]
    ELSE m

\* The body of the second loop at i: merge with the next tile and skip it.
MergeAt(m, i) ==
    IF m.skip THEN [m EXCEPT !.skip = FALSE]
    ELSE IF Equal(m.line, i)
    THEN [line |-> Pair(m.line, i, 2 * m.line[i], 0),
          gain |-> m.gain + 2 * m.line[i], skip |-> TRUE]
    ELSE m

\* The second loop, after each round.
Merging(line) ==
    LET m[i \in 0..(Len(line) - 1)] ==
            IF i = 0 THEN [line |-> line, gain |-> 0, skip |-> FALSE] ELSE MergeAt(m[i - 1], i)
    IN  m

\* The new line and what it adds to the score.
compress_line(line) ==
    LET merged == Merging(Compact(line))[Len(line) - 1]
    IN  [line |-> Compact(merged.line), gain |-> merged.gain]

-----------------------------------------------------------------------------
(* The board.                                                              *)

\* Position j of line i for a move in direction d: 0 up, 1 right, 2 down,
\* 3 left; and the line and the position of a cell.
CellAt(d, i, j) ==
    CASE d = 0 -> <<j, i>>
      [] d = 1 -> <<i, N - 1 - j>>
      [] d = 2 -> <<N - 1 - j, i>>
      [] d = 3 -> <<i, j>>
LineOf(d, c) == IF d \in {0, 2} THEN c[2] ELSE c[1]
PosOf(d, c)  == LET k == IF d \in {0, 2} THEN c[1] ELSE c[2]
                IN  IF d \in {1, 2} THEN N - 1 - k ELSE k

Line(b, d, i) == [j \in 1..N |-> b[CellAt(d, i, j - 1)]]
Shifted(b, d) ==
    LET new == [i \in Idx |-> compress_line(Line(b, d, i)).line]
    IN  [c \in Squares |-> new[LineOf(d, c)][PosOf(d, c) + 1]]
Gain(b, d) == Sum([i \in 1..N |-> compress_line(Line(b, d, i - 1)).gain], N)

Empty(b) == {c \in Squares : b[c] = 0}

\* Mutant of board_has_move: the last column is not compared downwards.
board_has_move_short(b) ==
    \E y, x \in Idx :
        \/ b[<<y, x>>] = 0
        \/ x < N - 1 /\ b[<<y, x>>] = b[<<y, x + 1>>]
        \/ x < N - 1 /\ y < N - 1 /\ b[<<y, x>>] = b[<<y + 1, x>>]

board_has_move(b) ==
    \E y, x \in Idx :
        \/ b[<<y, x>>] = 0
        \/ x < N - 1 /\ b[<<y, x>>] = b[<<y, x + 1>>]
        \/ y < N - 1 /\ b[<<y, x>>] = b[<<y + 1, x>>]

\* board_add_tile: the boards it may leave, with the tile it added (0: none).
board_add_tile(b) ==
    IF Empty(b) = {} THEN {[board |-> b, tile |-> 0]}
    ELSE {[board |-> [x \in Squares |-> IF x = c THEN v ELSE b[x]], tile |-> v] :
              c \in Empty(b), v \in {2, 4}}

Four(t) == IF t.tile = 4 THEN 1 ELSE 0

\* The boards of a new game: two tiles on an empty board.
NewGames ==
    LET empty == [c \in Squares |-> 0]
    IN  UNION {{[board |-> u.board, fours |-> Four(t) + Four(u)] :
                   u \in board_add_tile(t.board)} : t \in board_add_tile(empty)}

\* Entering the mode begins a game.
GameInit ==
    \E g \in NewGames :
        board = g.board /\ fours = g.fours /\ score2048 = 0 /\ over2048 = 0

board_new_game ==
    /\ \E g \in NewGames : board' = g.board /\ fours' = g.fours
    /\ score2048' = 0 /\ over2048' = 0

\* A move: every line, then a tile if anything moved, then the end test.
game_2048_move(d) ==
    /\ over2048 = 0
    /\ score2048' = score2048 + Gain(board, d)
    /\ LET b == Shifted(board, d)
       IN  IF b = board
           THEN board' = b /\ fours' = fours
           ELSE \E t \in board_add_tile(b) :
                    board' = t.board /\ fours' = fours + Four(t)
    /\ over2048' = IF board_has_move(board') THEN 0 ELSE 1

GameNext == board_new_game \/ \E d \in Moves : game_2048_move(d)
GameSpec == GameInit /\ [][GameNext]_boardVars

-----------------------------------------------------------------------------
(* Properties.                                                             *)

\* A tile is a power of two, and its exponent is at most one more than the
\* number of cells: the tiles it is made of need cells to wait in.
MaxExp == N * N + 1
Power  == LET p[k \in 0..(MaxExp + 1)] == IF k = 0 THEN 1 ELSE 2 * p[k - 1]
          IN  p
Values == {0} \cup {Power[k] : k \in 1..MaxExp}

\* Every variable has its type.
GameTypeOK ==
    /\ board \in [Squares -> Values]
    /\ score2048 \in Nat /\ over2048 \in 0..1 /\ fours \in Nat

\* What a tile is worth: a tile 2^k put together from tiles of 2 has scored
\* (k - 1) * 2^k in all its merges.
Worth(v) == IF v = 0 THEN 0 ELSE ((CHOOSE k \in 1..MaxExp : Power[k] = v) - 1) * v

\* The worth of the tiles in a row, and of all of them.
RowWorth(b, y) == Sum([x \in 1..N |-> Worth(b[<<y, x - 1>>])], N)
BoardWorth(b)  == Sum([y \in 1..N |-> RowWorth(b, y - 1)], N)

\* The books balance: every tile is a power of two that the board has room
\* for, and the score is the worth of all the tiles on the board, less 4 for
\* each tile that was added as a 4.  No merge is forgotten, scored twice or
\* scored for a tile that is not there.
ScoreAccountsForTiles ==
    /\ GameTypeOK
    /\ score2048 + 4 * fours = BoardWorth(board)

\* The end test of board_has_move agrees with the moves of compress_line:
\* the game is over exactly when no direction would change the board.
OverMeansStuck == over2048 = 1 <=> \A d \in Moves : Shifted(board, d) = board

\* How many of the first i cells have a tile.
Filled(line, i) == Cardinality({j \in 1..i : line[j] # 0})

\* The tiles of a line in their order: the k-th is where k cells are filled.
TilesOf(line) ==
    [k \in 1..Filled(line, Len(line)) |->
        line[CHOOSE i \in 1..Len(line) : line[i] # 0 /\ Filled(line, i) = k]]

\* The rules of 2048, for tiles without gaps.  In a run of equal tiles every
\* second one, counted from the front, is taken up by the one before it; the
\* sum does not merge again.
RunFrom(s, i) == CHOOSE j \in 1..i : /\ \A h \in j..i : s[h] = s[i]
                                     /\ j = 1 \/ s[j - 1] # s[i]
Taken(s, i)   == i \in 1..Len(s) /\ (i - RunFrom(s, i)) % 2 = 1
Made(s)       == [i \in 1..Len(s) |-> IF Taken(s, i + 1) THEN s[i] + s[i + 1] ELSE 0]
ByRules(s)    == [i \in 1..Len(s) |-> IF Taken(s, i) THEN 0 ELSE
                                      IF Taken(s, i + 1) THEN Made(s)[i] ELSE s[i]]

\* compress_line, with its three passes over an array, leaves the tiles that
\* the rules say followed by zeros, keeps their sum, and scores the tiles that
\* were made.
FollowsRules(line) ==
    LET tiles == TilesOf(line)
        res   == compress_line(line)
    IN  /\ Len(res.line) = Len(line)
        /\ TilesOf(res.line) = TilesOf(ByRules(tiles))
        /\ \A i, j \in 1..Len(line) : i < j /\ res.line[i] = 0 => res.line[j] = 0
        /\ Sum(res.line, Len(line)) = Sum(line, Len(line))
        /\ res.gain = Sum(Made(tiles), Len(tiles))

\* Every move of the game is by the rules, and so would be one of a line of two
\* rows: on a board of 2 by 2, a line of the firmware's length.
LineByRules ==
    /\ \A d \in Moves, i \in Idx : FollowsRules(Line(board, d, i))
    /\ FollowsRules(Line(board, 3, 0) \o Line(board, 3, 1))
=============================================================================
