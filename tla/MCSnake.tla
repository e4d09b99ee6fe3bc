------------------------------ MODULE MCSnake ------------------------------
(***************************************************************************)
(* TLC instance of Snake: a field of 4 by 2 cells, the least that holds a  *)
(* new snake and lets it turn back; the snake can fill it.                 *)
(***************************************************************************)
EXTENDS Snake
=============================================================================
