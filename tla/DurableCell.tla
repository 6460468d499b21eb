----------------------------- MODULE DurableCell -----------------------------
(***************************************************************************)
(* What the runtime expects of the state file: one cell that holds a whole *)
(* snapshot, or nothing before the first Save.  A Save that fails may or   *)
(* may not have replaced it; a power failure may bring back a value that   *)
(* was replaced and not settled since, never anything else.                *)
(***************************************************************************)
CONSTANTS Snapshots, Absent

VARIABLES
  cell,   \* what Load reads
  backed  \* what Load may read after a power failure

cellVars == <<cell, backed>>

Init == cell = Absent /\ backed = {Absent}

Replace ==
  \E v \in Snapshots :
    /\ cell' = v
    /\ backed' = backed \cup {v}

Settle ==
  /\ backed' \subseteq backed
  /\ cell \in backed'
  /\ UNCHANGED cell

PowerFails ==
  /\ cell' \in backed
  /\ backed' = {cell'}

Spec == Init /\ [][Replace \/ Settle \/ PowerFails]_cellVars
=============================================================================
