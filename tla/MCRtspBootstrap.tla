---------------------------- MODULE MCRtspBootstrap ----------------------------
(* Instances of RtspBootstrap for TLC.                                     *)
EXTENDS RtspBootstrap
=============================================================================
