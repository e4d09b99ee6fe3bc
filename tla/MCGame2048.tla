----------------------------- MODULE MCGame2048 -----------------------------
(***************************************************************************)
(* TLC instance of Game2048: the whole game on a board of 2 by 2, whose    *)
(* tiles cannot pass 32, so every game ends and no bound is needed.  Lines *)
(* of the code's length are those boards read row by row: pairs, triples,  *)
(* quadruples, gaps anywhere, and sums that meet a tile of their own value *)
(* all occur among them.                                                   *)
(***************************************************************************)
EXTENDS Game2048
=============================================================================
