----------------------------- MODULE MCPwmAudio -----------------------------
(***************************************************************************)
(* TLC instances of PwmAudio.  The ring is scaled to 16 bytes with a wake- *)
(* up threshold of 4, the proportion rb_create demands; the alignment of 4 *)
(* bytes is the code's own.  Chunks are misaligned, larger than the ring,  *)
(* or both.                                                                *)
(***************************************************************************)
EXTENDS PwmAudio
=============================================================================
