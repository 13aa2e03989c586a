------------------------------ MODULE MCAdmission ------------------------------
(***************************************************************************)
(* Two handlers, a channel with limits of its own and one without.         *)
(***************************************************************************)
EXTENDS Admission

CONSTANTS r1, r2, slow, other

MCRPM == Global :> 2 @@ slow :> 1
MCTPM == Global :> 2 @@ slow :> 0
MCMinInterval == Global :> 0 @@ slow :> 1

=============================================================================
