---------------------------- MODULE MCJpegWorker ----------------------------
(***************************************************************************)
(* Instances of JpegWorker for TLC; the values are in the cfg files.       *)
(***************************************************************************)
EXTENDS JpegWorker
=============================================================================
