---------------------------- MODULE MCStreamCore ----------------------------
(***************************************************************************)
(* Instances of StreamCore for TLC; subscribers are not made symmetric,    *)
(* for its run looks at liveness.                                          *)
(***************************************************************************)
EXTENDS StreamCore
=============================================================================
