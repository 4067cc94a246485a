---------------------------- MODULE MCSupervisor ----------------------------
(***************************************************************************)
(* Instances of Supervisor for TLC.                                        *)
(***************************************************************************)
EXTENDS Supervisor

Everything == Components \ {"rtsp"}

(* Everything on; or neither audio, nor stream1, nor OSD.                  *)
RichAndPoor == {Everything, {"video0", "jpeg", "motion"}}

(* Initialisation that may fail without holding main up.                   *)
TolerableFailures == {"audio", "jpeg", "motion", "rtsp"}
=============================================================================
