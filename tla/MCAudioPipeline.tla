-------------------------- MODULE MCAudioPipeline --------------------------
(***************************************************************************)
(* Instances of AudioPipeline for TLC.                                     *)
(***************************************************************************)
EXTENDS AudioPipeline, TLC

SubscriberSymmetry == Permutations(Subscribers)

EverySetup == Formats \X BOOLEAN

(* 40 ms and 64 ms at 16 kHz are to each other as 5 and 8; Opus is offered *)
(* its 20 ms, half of it, and one and a half.                              *)
Lengths == [AAC |-> {5}, OPUS |-> {1, 2, 3}, PCM |-> {2}]
=============================================================================
