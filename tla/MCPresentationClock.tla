------------------------ MODULE MCPresentationClock ------------------------
(***************************************************************************)
(* Instances of PresentationClock for TLC.                                 *)
(***************************************************************************)
EXTENDS PresentationClock, TLC

ViewerSymmetry == Permutations(Viewers)

(* A frame early, late, so late that the step is clamped, and before the   *)
(* one it follows.                                                         *)
AllSteps == {-2, 1, 3, 21}
=============================================================================
