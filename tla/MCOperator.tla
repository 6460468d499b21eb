----------------------------- MODULE MCOperator -----------------------------
(***************************************************************************)
(* The instance of Reconciler with an operator who keeps out of the way of *)
(* a pass, as PassServes and OperatorRowsLeft of OutcomeProofs ask for.    *)
(***************************************************************************)
EXTENDS MCReconciler, SingleClaims

ASSUME OperatorKeepsAway ==
  SingleClaims /\ QualifiedNames /\ OperatorWaits /\ OperatorSparesMutations
=============================================================================
