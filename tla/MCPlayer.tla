------------------------------ MODULE MCPlayer ------------------------------
(***************************************************************************)
(* TLC instance of Player: three videos, so that next and previous differ, *)
(* and two tokens, so that the semaphore is met empty, with one token, and *)
(* saturated.                                                              *)
(***************************************************************************)
EXTENDS Player
=============================================================================
