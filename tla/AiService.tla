----------------------------- MODULE AiService -----------------------------
(***************************************************************************)
(* What the AI screen promises its user, without threads, flags or locks:  *)
(* questions are taken one at a time, each accepted question is answered   *)
(* once, an answer is put on the screen at most once and only while it is  *)
(* the answer to the newest accepted question.                             *)
(***************************************************************************)
EXTENDS Naturals

VARIABLES
    asked,      \* questions accepted so far
    answered,   \* the newest question that has an answer
    shown       \* the newest question whose answer was put on the screen

svars == <<asked, answered, shown>>

SInit == asked = 0 /\ answered = 0 /\ shown = 0

\* Accept a question: only when the previous one has been answered.
Ask == /\ answered = asked
       /\ asked' = asked + 1
       /\ UNCHANGED <<answered, shown>>

\* The one outstanding question gets its answer (or its error text).
Answer == /\ answered < asked
          /\ answered' = asked
          /\ UNCHANGED <<asked, shown>>

\* The answer to the newest question reaches the screen; never an older one.
Show == /\ answered = asked
        /\ shown < asked
        /\ shown' = asked
        /\ UNCHANGED <<asked, answered>>

SNext == Ask \/ Answer \/ Show

SSpec == SInit /\ [][SNext]_svars
=============================================================================
