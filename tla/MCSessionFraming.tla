-------------------------- MODULE MCSessionFraming --------------------------
(* Instance of SessionFraming with buffers of three bytes in place of 4096 and *)
(* of six in place of 8192: messages of up to seven bytes are shorter, as long *)
(* and longer than a buffer, in every division into pieces.                   *)
EXTENDS SessionFraming
=============================================================================
