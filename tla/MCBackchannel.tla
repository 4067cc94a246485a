--------------------------- MODULE MCBackchannel ---------------------------
(***************************************************************************)
(* Instances of Backchannel for TLC; sessions are not made symmetric, for  *)
(* all its runs look at liveness.                                          *)
(***************************************************************************)
EXTENDS Backchannel
=============================================================================
