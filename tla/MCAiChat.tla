----------------------------- MODULE MCAiChat -----------------------------
(***************************************************************************)
(* TLC instance of AiChat: two relay hosts and up to MaxRequests questions *)
(* are enough for a question to be overtaken by the next one and for the   *)
(* relay to change under a request, which is all the properties relate.    *)
(***************************************************************************)
EXTENDS AiChat
=============================================================================
