------------------------------ MODULE StateFile ------------------------------
(***************************************************************************)
(* The state file (internal/state): NewStore, Load, and Save with the      *)
(* steps of atomicWriteFile.  Every step may fail, the process may be      *)
(* killed before any of them (the page cache survives), and the power may  *)
(* fail (what was not synced may or may not be on disk).                   *)
(*                                                                         *)
(* The directory of the file is one level that is missing at first.  A     *)
(* temporary file is one content; one that a killed process leaves behind  *)
(* is never read again and is left out.                                    *)
(***************************************************************************)
CONSTANTS
  Snapshots,      \* the snapshots that may be saved
  EmptySnapshot,  \* the one NewStore creates the file with
  Absent,         \* no file
  Torn            \* a file that holds no whole snapshot

ASSUME ValuesAssumption ==
  /\ EmptySnapshot \in Snapshots
  /\ Absent \notin Snapshots /\ Torn \notin Snapshots /\ Absent # Torn

VARIABLES
  pc,       \* "down", "ready", or the step of NewStore or atomicWriteFile
  opening,  \* whether the Save under way is the one of NewStore
  want,     \* the snapshot being saved
  dir,      \* the directory: "missing", "made" (its entry not synced), "safe"
  tmp,      \* the content of the temporary file, or Absent
  tmpDisk,  \* what a power failure may leave of that content
  file,     \* the content of the state file, or Absent
  fileDisk, \* what a power failure may leave of that content
  after,    \* what a power failure may leave under the name of the state file
  saved     \* whether the last Save returned no error

vars == <<pc, opening, want, dir, tmp, tmpDisk, file, fileDisk, after, saved>>

Steps == {"mkdir", "syncParent", "create", "write", "sync", "close", "rename", "syncDir"}

Init ==
  /\ pc = "down" /\ opening = FALSE
  /\ want = EmptySnapshot
  /\ dir = "missing"
  /\ tmp = Absent /\ tmpDisk = {}
  /\ file = Absent /\ fileDisk = {} /\ after = {Absent}
  /\ saved = FALSE

-----------------------------------------------------------------------------
\* NewStore: a missing file is created first.
Open ==
  /\ pc = "down"
  /\ want' = EmptySnapshot
  /\ IF file = Absent THEN pc' = "mkdir" /\ opening' = TRUE
     ELSE pc' = "load" /\ opening' = FALSE
  /\ saved' = FALSE
  /\ UNCHANGED <<dir, tmp, tmpDisk, file, fileDisk, after>>

\* A file without a whole snapshot is refused, and the process does not start.
Load ==
  /\ pc = "load"
  /\ pc' \in {"down"} \cup (IF file \in Snapshots THEN {"ready"} ELSE {})
  /\ opening' = FALSE
  /\ UNCHANGED <<want, dir, tmp, tmpDisk, file, fileDisk, after, saved>>

BeginSave ==
  /\ pc = "ready"
  /\ \E v \in Snapshots : want' = v
  /\ pc' = "mkdir"
  /\ saved' = FALSE
  /\ UNCHANGED <<opening, dir, tmp, tmpDisk, file, fileDisk, after>>

-----------------------------------------------------------------------------
(* atomicWriteFile *)

\* missingDirChain and MkdirAll: only a directory made now has its entry synced.
MakeDir ==
  /\ pc = "mkdir"
  /\ IF dir = "missing" THEN dir' = "made" /\ pc' = "syncParent"
     ELSE pc' = "create" /\ UNCHANGED dir
  /\ UNCHANGED <<opening, want, tmp, tmpDisk, file, fileDisk, after, saved>>

SyncParent ==
  /\ pc = "syncParent"
  /\ dir' = "safe"
  /\ pc' = "create"
  /\ UNCHANGED <<opening, want, tmp, tmpDisk, file, fileDisk, after, saved>>

CreateTemp ==
  /\ pc = "create"
  /\ tmp' = Torn /\ tmpDisk' = {Torn}
  /\ pc' = "write"
  /\ UNCHANGED <<opening, want, dir, file, fileDisk, after, saved>>

WriteTemp ==
  /\ pc = "write"
  /\ tmp' = want /\ tmpDisk' = {Torn, want}
  /\ pc' = "sync"
  /\ UNCHANGED <<opening, want, dir, file, fileDisk, after, saved>>

\* Wrong variant: the data is not synced before the rename.
SyncTempSkipped ==
  /\ pc = "sync"
  /\ pc' = "close"
  /\ UNCHANGED <<opening, want, dir, tmp, tmpDisk, file, fileDisk, after, saved>>

SyncTemp ==
  /\ pc = "sync"
  /\ tmpDisk' = {tmp}
  /\ pc' = "close"
  /\ UNCHANGED <<opening, want, dir, tmp, file, fileDisk, after, saved>>

CloseTemp ==
  /\ pc = "close"
  /\ pc' = "rename"
  /\ UNCHANGED <<opening, want, dir, tmp, tmpDisk, file, fileDisk, after, saved>>

\* The name stands for the new content at once; on disk for the old or the new.
Rename ==
  /\ pc = "rename"
  /\ file' = tmp /\ fileDisk' = tmpDisk
  /\ after' = after \cup tmpDisk
  /\ tmp' = Absent /\ tmpDisk' = {}
  /\ pc' = "syncDir"
  /\ UNCHANGED <<opening, want, dir, saved>>

Returned == pc' = IF opening THEN "load" ELSE "ready"

\* Wrong variant: the directory is not synced after the rename.
SyncDirSkipped ==
  /\ pc = "syncDir"
  /\ saved' = TRUE
  /\ Returned
  /\ UNCHANGED <<opening, want, dir, tmp, tmpDisk, file, fileDisk, after>>

\* An entry of a directory is safe only when the directory itself is.
SyncDir ==
  /\ pc = "syncDir"
  /\ after' = IF dir = "safe" THEN fileDisk ELSE after \cap (fileDisk \cup {Absent})
  /\ saved' = TRUE
  /\ Returned
  /\ UNCHANGED <<opening, want, dir, tmp, tmpDisk, file, fileDisk>>

\* Wrong variant: the temporary file is removed and the error is ignored.
StepFailsIgnored ==
  /\ pc \in Steps
  /\ tmp' = Absent /\ tmpDisk' = {}
  /\ UNCHANGED <<pc, opening, want, dir, file, fileDisk, after, saved>>

\* A failing step returns its error: from NewStore, or from Save to a process
\* that ends, or that starts the pass over when the save was a partial one.
StepFails ==
  /\ pc \in Steps
  /\ pc' \in {"down"} \cup (IF opening THEN {} ELSE {"ready"})
  /\ opening' = FALSE
  /\ tmp' = Absent /\ tmpDisk' = {}
  /\ UNCHANGED <<want, dir, file, fileDisk, after, saved>>

-----------------------------------------------------------------------------
(* The world *)

Killed ==
  /\ pc # "down"
  /\ pc' = "down" /\ opening' = FALSE
  /\ tmp' = Absent /\ tmpDisk' = {}
  /\ UNCHANGED <<want, dir, file, fileDisk, after, saved>>

PowerFails ==
  /\ pc' = "down" /\ opening' = FALSE
  /\ tmp' = Absent /\ tmpDisk' = {}
  /\ file' \in after
  /\ fileDisk' = {file'} \ {Absent}
  /\ after' = {file'}
  /\ dir' \in {d \in {"missing", "safe"} :
                 /\ dir \in {"missing", "safe"} => d = dir
                 /\ file' # Absent => d = "safe"}
  /\ UNCHANGED <<want, saved>>

Next ==
  \/ Open \/ Load \/ BeginSave
  \/ MakeDir \/ SyncParent \/ CreateTemp \/ WriteTemp \/ SyncTemp \/ CloseTemp
  \/ Rename \/ SyncDir \/ StepFails
  \/ Killed \/ PowerFails

Spec == Init /\ [][Next]_vars

-----------------------------------------------------------------------------
(* Properties *)

TypeOK ==
  /\ pc \in {"down", "load", "ready"} \cup Steps
  /\ opening \in BOOLEAN /\ saved \in BOOLEAN
  /\ want \in Snapshots
  /\ dir \in {"missing", "made", "safe"}
  /\ tmp \in Snapshots \cup {Absent, Torn}
  /\ tmpDisk \subseteq Snapshots \cup {Torn}
  /\ file \in Snapshots \cup {Absent, Torn}
  /\ fileDisk \subseteq Snapshots \cup {Torn}
  /\ after \subseteq Snapshots \cup {Absent, Torn}

(***************************************************************************)
(* After a Save without error the snapshot survives a power failure, when  *)
(* the directory's own entry is on disk.  (It may not be: a process that   *)
(* ends between MkdirAll and the sync of the parent leaves a directory     *)
(* that no later Save syncs.)                                              *)
(***************************************************************************)
SavedSurvives == pc = "ready" /\ saved /\ dir = "safe" => after = {file}

(***************************************************************************)
(* The state file is a durable cell: whatever fails and whenever the power *)
(* does, Load finds nothing or a whole snapshot, and a snapshot that was   *)
(* replaced only comes back while the replacement is not settled.          *)
(***************************************************************************)
Cell == INSTANCE DurableCell WITH cell <- file, backed <- after
IsDurableCell == Cell!Spec
=============================================================================
