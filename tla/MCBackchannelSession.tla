------------------------ MODULE MCBackchannelSession ------------------------
(* An instance of BackchannelSession for TLC.                              *)
EXTENDS BackchannelSession

CONSTANTS s1, s2
=============================================================================
