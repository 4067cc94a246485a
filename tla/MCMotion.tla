------------------------------- MODULE MCMotion -------------------------------
(* Instances of Motion for TLC.                                            *)
EXTENDS Motion
=============================================================================
