------------------------------ MODULE MCPasses ------------------------------
(***************************************************************************)
(* The instance of Reconciler in which the circumstances of SingleClaims   *)
(* are met, so that what SingleClaimProofs and OutcomeProofs prove of them *)
(* is proved of something.                                                 *)
(***************************************************************************)
EXTENDS MCReconciler, SingleClaims

ASSUME CircumstancesMet ==
  SingleClaims /\ QualifiedNames /\ NoOperator /\ NothingForgotten
=============================================================================
