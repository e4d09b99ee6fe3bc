------------------------------- MODULE Snake -------------------------------
(***************************************************************************)
(* The snake of the game screen, lvgl/user_events/events_quweidonghua.c,   *)
(* with the LVGL timer that drives it and the screen changes of            *)
(* ui_mainscreen.c and ui.c that start, hide and resume it.                *)
(*                                                                         *)
(* Everything runs in the LVGL thread, one callback at a time.  What is    *)
(* not fixed is the order of callbacks: a screen change only becomes       *)
(* effective when LVGL's animation timer runs, and the snake's own timer   *)
(* may run before it; several buttons may be pressed between two ticks.    *)
(* A second click needs a release and a press, longer than the wait for    *)
(* the animation timer, so no click is handled while a change is pending.  *)
(*                                                                         *)
(* The array g_snake up to g_snake_len is a sequence.  In 2048 mode the    *)
(* buttons act on the other game (module Game2048).                        *)
(***************************************************************************)
EXTENDS Integers, Sequences

CONSTANTS Cols, Rows,   \* SNAKE_COLS (15), SNAKE_ROWS (13)
          HeadX, HeadY  \* where a new snake's head is (7, 6)

ASSUME SnakeAssumption ==
    /\ Cols \in Nat /\ Rows \in Nat
    /\ HeadX \in 3..(Cols - 1) /\ HeadY \in 0..(Rows - 1)

VARIABLES
    mode,     \* g_game_mode: "snake" or "2048"
    act,      \* lv_scr_act: "main" or "game"
    loading,  \* the screen whose load animation has not started, or "none"
    timer,    \* g_snake_timer: "none", "run" or "paused"
    snake,    \* g_snake[0 .. g_snake_len - 1], head first
    food,     \* g_food
    dir,      \* g_snake_dir: 0 up, 1 right, 2 down, 3 left
    nextDir,  \* g_snake_next_dir
    score,    \* g_snake_score
    over      \* g_snake_over

screenVars == <<mode, act, loading, timer>>
gameVars   == <<snake, food, dir, nextDir, score, over>>
vars       == <<screenVars, gameVars>>

Cells  == (0..(Cols - 1)) \X (0..(Rows - 1))
Dirs   == 0..3
Corner == <<0, 0>>
StartLen == 4

\* Mutant of MaxLen: one cell short.
MaxLenShort == Cols * Rows - 1

MaxLen == Cols * Rows
Body(s) == {s[i] : i \in DOMAIN s}

\* The static initialisers, before the game screen was ever entered.
Init ==
    /\ mode = "snake" /\ act = "main" /\ loading = "none" /\ timer = "none"
    /\ snake = <<>> /\ food = Corner /\ dir = 1 /\ nextDir = 1
    /\ score = 0 /\ over = 0

-----------------------------------------------------------------------------
\* Mutant of FoodPlaces: the free cells are found before the snake has moved.
FoodPlacesEarly(s) == (Cells \ Body(Tail(s))) \cup {Corner}

\* snake_place_food: a cell off the snake, or after 200 tries the corner.
FoodPlaces(s) == (Cells \ Body(s)) \cup {Corner}

NewSnake == [i \in 1..StartLen |-> <<HeadX - i + 1, HeadY>>]

snake_new_game ==
    /\ snake' = NewSnake
    /\ dir' = 1 /\ nextDir' = 1 /\ score' = 0 /\ over' = 0
    /\ food' \in FoodPlaces(snake')

\* snake_timer_stop does nothing before the timer exists; snake_timer_start
\* creates or resumes it.
Stopped(t) == IF t = "none" THEN "none" ELSE "paused"
TimerFor(m, t) == IF m = "snake" THEN "run" ELSE Stopped(t)

\* Mutant of Turned: the opposite direction is not refused.
TurnedFreely(d, next) == next

\* The direction of a step: the one asked for, unless it is the opposite.
Turned(d, next) == IF next = (d + 2) % 4 THEN d ELSE next

\* The cell one step from c.
Ahead(c, d) ==
    <<c[1] + (IF d = 1 THEN 1 ELSE IF d = 3 THEN -1 ELSE 0),
      c[2] + (IF d = 2 THEN 1 ELSE IF d = 0 THEN -1 ELSE 0)>>

\* The snake moved to head, one cell longer if it grows and the array allows.
Moved(s, head, grow) ==
    [i \in 1..(IF grow /\ Len(s) < MaxLen THEN Len(s) + 1 ELSE Len(s)) |->
        IF i = 1 THEN head ELSE s[i - 1]]

Inside(head) == head \in Cells

\* Mutant of Hits: only the cells of a new snake are looked at.
HitsStart(head) == \E i \in 1..StartLen : snake[i] = head

Hits(head) == head \in Body(snake)

\* The rest of snake_step, for the cell the head would enter.
Crash(head) ==
    /\ ~Inside(head) \/ Hits(head)
    /\ over' = 1
    /\ UNCHANGED <<snake, food, score>>

Advance(head) ==
    /\ Inside(head) /\ ~Hits(head)
    /\ snake' = Moved(snake, head, head = food)
    /\ IF head = food THEN score' = score + 10 /\ food' \in FoodPlaces(snake')
                      ELSE UNCHANGED <<score, food>>
    /\ over' = over

snake_step ==
    /\ dir' = Turned(dir, nextDir)
    /\ LET head == Ahead(snake[1], dir')
       IN  Crash(head) \/ Advance(head)
    /\ UNCHANGED nextDir

\* Mutant of Tick: off the screen the timer is left running.
TickOffScreen ==
    /\ timer = "run"
    /\ IF act = "game" /\ mode = "snake" /\ over = 0
       THEN snake_step ELSE UNCHANGED gameVars
    /\ UNCHANGED screenVars

\* snake_timer_cb: pause off the screen, otherwise step.
Tick ==
    /\ timer = "run"
    /\ IF act # "game"
       THEN timer' = Stopped(timer) /\ UNCHANGED gameVars
       ELSE /\ IF mode = "snake" /\ over = 0 THEN snake_step ELSE UNCHANGED gameVars
            /\ UNCHANGED timer
    /\ UNCHANGED <<mode, act, loading>>

-----------------------------------------------------------------------------
(* Callbacks of the buttons and of LVGL.                                   *)

\* A click of the main screen's menu (enter_topic_cb): the load is started,
\* screen_quweidonghua_pre_init switches to the last mode, and the handler
\* of the entry then to m.
Enter(m) ==
    /\ act = "main" /\ loading = "none"
    /\ loading' = "game" /\ mode' = m
    /\ timer' = TimerFor(m, TimerFor(mode, timer))
    /\ IF mode = "snake" \/ m = "snake" THEN snake_new_game ELSE UNCHANGED gameVars
    /\ UNCHANGED act

\* The back button.
Back ==
    /\ act = "game" /\ loading = "none"
    /\ loading' = "main"
    /\ UNCHANGED <<mode, act, timer, gameVars>>

\* The animation starts: the pending screen becomes the active one.
LoadStart ==
    /\ loading # "none"
    /\ act' = loading /\ loading' = "none"
    /\ UNCHANGED <<mode, timer, gameVars>>

\* A mode button of the game screen.
switch_game(m) ==
    /\ act = "game" /\ loading = "none"
    /\ mode' = m /\ timer' = TimerFor(m, timer)
    /\ IF m = "snake" THEN snake_new_game ELSE UNCHANGED gameVars
    /\ UNCHANGED <<act, loading>>

\* A direction button.
Turn(d) ==
    /\ act = "game" /\ loading = "none" /\ mode = "snake"
    /\ nextDir' = d
    /\ UNCHANGED <<screenVars, snake, food, dir, score, over>>

\* A swipe to the left asks for direction 1, one to the right for 3.
Swipe == Turn(1) \/ Turn(3)

Restart ==
    /\ act = "game" /\ loading = "none" /\ mode = "snake"
    /\ snake_new_game
    /\ UNCHANGED screenVars

Next ==
    \/ Tick \/ Back \/ LoadStart \/ Restart \/ Swipe
    \/ \E m \in {"snake", "2048"} : Enter(m) \/ switch_game(m)
    \/ \E d \in Dirs : Turn(d)

Spec == Init /\ [][Next]_vars

\* lv_timer_handler runs a timer that is due and not paused.
FairSpec == Spec /\ WF_vars(Tick) /\ WF_vars(LoadStart)

-----------------------------------------------------------------------------
(* Properties.                                                             *)

\* Every variable has its type.
SnakeTypeOK ==
    /\ mode \in {"snake", "2048"} /\ act \in {"main", "game"}
    /\ loading \in {"none", "main", "game"} /\ timer \in {"none", "run", "paused"}
    /\ snake \in Seq(Cells) /\ food \in Cells
    /\ dir \in Dirs /\ nextDir \in Dirs /\ score \in Nat /\ over \in 0..1

\* After any sequence of turns, restarts and screen changes the snake is a
\* path in the field: no cell twice, and each cell a neighbour of the next.
BodyIsPath ==
    /\ Body(snake) \subseteq Cells
    /\ \A i, j \in DOMAIN snake : snake[i] = snake[j] => i = j
    /\ \A i \in 1..(Len(snake) - 1) : \E d \in Dirs : snake[i] = Ahead(snake[i + 1], d)

\* However many buttons are pressed between two ticks, the game never ends
\* because the snake turned back into its own neck.
NeckIsSafe ==
    [][over = 0 /\ over' = 1 => Ahead(snake[1], dir') # snake[2]]_vars

\* The score counts the cells the snake grew, up to the full field: the
\* branch of snake_step that scores without growing is never taken.
ScoreCountsFood == timer # "none" => score = 10 * (Len(snake) - StartLen)

\* Food is never placed under the snake, and the snake never covers food it
\* has not eaten, except in the corner used when no free cell was found.
FoodIsFree == food \notin Body(snake) \/ food = Corner

\* A timer left running on the main screen pauses itself, unless the game
\* is entered again first.
TimerRests ==
    timer = "run" /\ act = "main" /\ loading = "none"
        ~> timer = "paused" \/ loading = "game"
=============================================================================
