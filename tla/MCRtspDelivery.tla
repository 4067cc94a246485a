-------------------------- MODULE MCRtspDelivery --------------------------
(***************************************************************************)
(* Instances of RtspDelivery for TLC.                                      *)
(***************************************************************************)
EXTENDS RtspDelivery

(* One session with sound, the others without.                             *)
CONSTANT listener

SomeTracks == [s \in Sessions |-> IF s = listener THEN Media ELSE {"video"}]

Small == [video |-> 2, audio |-> 2]
Short == [video |-> 3, audio |-> 2]
=============================================================================
