--------------------------- MODULE StateFileProofs ---------------------------
(***************************************************************************)
(* The state file implements the durable cell, and a snapshot that was     *)
(* saved survives a power failure, for every set of snapshots.             *)
(***************************************************************************)
EXTENDS StateFile, TLAPS

(***************************************************************************)
(* A temporary file is complete and on disk before it is renamed, so the   *)
(* name never stands for a torn file.                                      *)
(***************************************************************************)
TempComplete ==
  /\ pc = "sync" => tmp = want
  /\ pc \in {"close", "rename"} => tmp = want /\ tmpDisk = {want}
  /\ pc = "syncDir" => file = want

NeverTorn ==
  /\ file \in after
  /\ Torn \notin after
  /\ file # Absent => fileDisk = {file}

\* SavedSurvives on the way from a Save to its return.
Settled ==
  /\ pc \in Steps => ~saved
  /\ pc \in {"load", "ready"} /\ saved /\ dir = "safe" => after = {file}

IInv == TypeOK /\ TempComplete /\ NeverTorn /\ Settled

-----------------------------------------------------------------------------
LEMMA InitInv == Init => IInv
BY ValuesAssumption
DEF Init, IInv, TypeOK, TempComplete, NeverTorn, Settled, Steps

\* What no step of Save before the rename touches.
LEMMA QuietInv ==
  ASSUME IInv, TypeOK',
         UNCHANGED <<file, fileDisk, after>>, TempComplete', Settled'
  PROVE  IInv'
BY DEF IInv, NeverTorn

LEMMA StoreInv == IInv /\ (Open \/ Load \/ BeginSave) => IInv'
<1> SUFFICES ASSUME IInv, Open \/ Load \/ BeginSave PROVE IInv'
  OBVIOUS
<1> USE DEF IInv
<1>1. UNCHANGED <<file, fileDisk, after>>
  BY DEF Open, Load, BeginSave
<1>2. CASE Open
  <2>1. TypeOK' /\ TempComplete' /\ Settled'
    BY <1>2, ValuesAssumption DEF Open, TypeOK, TempComplete, Settled, Steps
  <2> QED
    BY <1>1, <2>1, QuietInv
<1>3. CASE Load
  <2>1. TypeOK' /\ TempComplete' /\ Settled'
    BY <1>3 DEF Load, TypeOK, TempComplete, Settled, Steps
  <2> QED
    BY <1>1, <2>1, QuietInv
<1>4. CASE BeginSave
  <2>1. TypeOK' /\ TempComplete' /\ Settled'
    BY <1>4 DEF BeginSave, TypeOK, TempComplete, Settled, Steps
  <2> QED
    BY <1>1, <2>1, QuietInv
<1> QED
  BY <1>2, <1>3, <1>4

LEMMA TempInv ==
  IInv /\ (MakeDir \/ SyncParent \/ CreateTemp \/ WriteTemp \/ SyncTemp \/ CloseTemp) => IInv'
<1> SUFFICES ASSUME IInv,
                    MakeDir \/ SyncParent \/ CreateTemp \/ WriteTemp \/ SyncTemp \/ CloseTemp
             PROVE  IInv'
  OBVIOUS
<1> USE DEF IInv
<1>1. UNCHANGED <<file, fileDisk, after>>
  BY DEF MakeDir, SyncParent, CreateTemp, WriteTemp, SyncTemp, CloseTemp
<1>2. CASE MakeDir
  <2>1. TypeOK' /\ TempComplete' /\ Settled'
    BY <1>2 DEF MakeDir, TypeOK, TempComplete, Settled, Steps
  <2> QED
    BY <1>1, <2>1, QuietInv
<1>3. CASE SyncParent
  <2>1. TypeOK' /\ TempComplete' /\ Settled'
    BY <1>3 DEF SyncParent, TypeOK, TempComplete, Settled, Steps
  <2> QED
    BY <1>1, <2>1, QuietInv
<1>4. CASE CreateTemp
  <2>1. TypeOK' /\ TempComplete' /\ Settled'
    BY <1>4 DEF CreateTemp, TypeOK, TempComplete, Settled, Steps
  <2> QED
    BY <1>1, <2>1, QuietInv
<1>5. CASE WriteTemp
  <2>1. TypeOK' /\ TempComplete' /\ Settled'
    BY <1>5 DEF WriteTemp, TypeOK, TempComplete, Settled, Steps
  <2> QED
    BY <1>1, <2>1, QuietInv
<1>6. CASE SyncTemp
  <2>1. TypeOK' /\ TempComplete' /\ Settled'
    BY <1>6 DEF SyncTemp, TypeOK, TempComplete, Settled, Steps
  <2> QED
    BY <1>1, <2>1, QuietInv
<1>7. CASE CloseTemp
  <2>1. TypeOK' /\ TempComplete' /\ Settled'
    BY <1>7 DEF CloseTemp, TypeOK, TempComplete, Settled, Steps
  <2> QED
    BY <1>1, <2>1, QuietInv
<1> QED
  BY <1>2, <1>3, <1>4, <1>5, <1>6, <1>7

LEMMA RenameInv == IInv /\ Rename => IInv'
<1> SUFFICES ASSUME IInv, Rename PROVE IInv'
  OBVIOUS
<1>1. tmp = want /\ tmpDisk = {want} /\ want \in Snapshots
  BY DEF IInv, Rename, TypeOK, TempComplete
<1>2. file' = want /\ fileDisk' = {want} /\ after' = after \cup {want}
  BY <1>1 DEF Rename
<1>3. TypeOK'
  BY <1>1, <1>2 DEF IInv, Rename, TypeOK, Steps
<1>4. TempComplete'
  BY <1>2 DEF Rename, TempComplete
<1>5. NeverTorn'
  BY <1>1, <1>2, ValuesAssumption DEF IInv, NeverTorn
<1>6. Settled'
  BY DEF IInv, Rename, Settled, Steps
<1> QED
  BY <1>3, <1>4, <1>5, <1>6 DEF IInv

LEMMA SyncDirInv == IInv /\ SyncDir => IInv'
BY ValuesAssumption
DEF IInv, SyncDir, Returned, TypeOK, TempComplete, NeverTorn, Settled, Steps

LEMMA EndInv == IInv /\ (StepFails \/ Killed) => IInv'
<1> SUFFICES ASSUME IInv, StepFails \/ Killed PROVE IInv'
  OBVIOUS
<1>1. /\ pc' \in {"down", "ready"} /\ opening' = FALSE
      /\ tmp' = Absent /\ tmpDisk' = {}
      /\ UNCHANGED <<want, dir, file, fileDisk, after, saved>>
  BY DEF StepFails, Killed
<1>2. pc' = "ready" => ~saved
  BY DEF IInv, Settled, StepFails, Killed
<1>3. TypeOK'
  BY <1>1 DEF IInv, TypeOK, Steps
<1>4. TempComplete'
  BY <1>1 DEF TempComplete
<1>5. Settled'
  BY <1>1, <1>2 DEF Settled, Steps
<1> QED
  BY <1>1, <1>3, <1>4, <1>5, QuietInv

LEMMA PowerInv == IInv /\ PowerFails => IInv'
<1> SUFFICES ASSUME IInv, PowerFails PROVE IInv'
  OBVIOUS
<1>1. TypeOK'
  BY DEF IInv, PowerFails, TypeOK, Steps
<1>2. TempComplete' /\ NeverTorn' /\ Settled'
  BY DEF IInv, PowerFails, TempComplete, NeverTorn, Settled, Steps
<1> QED
  BY <1>1, <1>2 DEF IInv

LEMMA NextInv == IInv /\ [Next]_vars => IInv'
<1>1. IInv /\ UNCHANGED vars => IInv'
  BY DEF IInv, vars, TypeOK, TempComplete, NeverTorn, Settled
<1> QED
  BY <1>1, StoreInv, TempInv, RenameInv, SyncDirInv, EndInv, PowerInv DEF Next

(***************************************************************************)
(* The inductive invariant holds in every state.                           *)
(***************************************************************************)
THEOREM Invariance == Spec => []IInv
<1>1. Init => IInv
  BY InitInv
<1>2. IInv /\ [Next]_vars => IInv'
  BY NextInv
<1> QED
  BY <1>1, <1>2, PTL DEF Spec

(***************************************************************************)
(* Every variable keeps its type, whichever step fails or is the last.     *)
(***************************************************************************)
THEOREM TypeCorrect == Spec => []TypeOK
<1>1. IInv => TypeOK
  BY DEF IInv
<1> QED
  BY <1>1, Invariance, PTL

(***************************************************************************)
(* A snapshot that was saved without error is the only one a power failure *)
(* can leave, once the entry of its directory is on disk.                  *)
(***************************************************************************)
THEOREM SavedIsSafe == Spec => []SavedSurvives
<1>1. IInv => SavedSurvives
  BY DEF IInv, Settled, SavedSurvives
<1> QED
  BY <1>1, Invariance, PTL

(***************************************************************************)
(* atomicWriteFile implements the durable cell: the rename replaces its    *)
(* value, the sync of the directory settles it, every other step stutters. *)
(***************************************************************************)
THEOREM ImplementsCell == Spec => IsDurableCell
<1>1. Init => Cell!Init
  BY DEF Init, Cell!Init
<1>2. IInv /\ [Next]_vars => [Cell!Replace \/ Cell!Settle \/ Cell!PowerFails]_<<file, after>>
  <2> SUFFICES ASSUME IInv, [Next]_vars
               PROVE  [Cell!Replace \/ Cell!Settle \/ Cell!PowerFails]_<<file, after>>
    OBVIOUS
  <2>1. CASE UNCHANGED <<file, after>>
    BY <2>1
  <2>2. CASE Rename
    BY <2>2 DEF Rename, IInv, TypeOK, TempComplete, Cell!Replace
  <2>3. CASE SyncDir
    <3>1. fileDisk = {file} /\ file \in after
      BY <2>3, ValuesAssumption DEF SyncDir, IInv, TypeOK, TempComplete, NeverTorn
    <3> QED
      BY <2>3, <3>1 DEF SyncDir, Cell!Settle
  <2>4. CASE PowerFails
    BY <2>4 DEF PowerFails, Cell!PowerFails
  <2> QED
    BY <2>1, <2>2, <2>3, <2>4 DEF Next, vars, Open, Load, BeginSave, MakeDir, SyncParent,
       CreateTemp, WriteTemp, SyncTemp, CloseTemp, StepFails, Killed
<1> QED
  BY <1>1, <1>2, Invariance, PTL DEF Spec, IsDurableCell, Cell!Spec, Cell!cellVars
=============================================================================
