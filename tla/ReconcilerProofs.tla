-------------------------- MODULE ReconcilerProofs --------------------------
(***************************************************************************)
(* Theorems about Reconciler, for every number of sources, outputs, hosts, *)
(* containers and operators.                                               *)
(***************************************************************************)
EXTENDS Reconciler, TLAPS

\* What a call on a service may end in.
Outcomes ==
  [rows : SUBSET Rows, listed : SUBSET Metas, reply : Replies, provenance : Provenances]

-----------------------------------------------------------------------------
(* Lemmas about the planner *)

LEMMA FilterSubset ==
  ASSUME NEW S, NEW o
  PROVE  /\ filterDesiredForOutput(S, o) \subseteq S
         /\ desiredByLineage(o, S) \subseteq S
BY DEF filterDesiredForOutput, desiredByLineage

LEMMA OwnedRecordSubset ==
  ASSUME NEW o, NEW d, NEW mine
  PROVE  ownedRecord(o, d, mine) \subseteq mine
BY DEF ownedRecord, ExactMatches, DisplayMatches, HostMatches

LEMMA DisplacedSubset ==
  ASSUME NEW d, NEW m, NEW visible
  PROVE  Displaced(d, m, visible) \subseteq visible
BY DEF Displaced, visibleByKey, visibleByHostname

LEMMA UnclaimedSubset ==
  ASSUME NEW o, NEW wanted, NEW mine
  PROVE  Unclaimed(o, wanted, mine) \subseteq mine
BY DEF Unclaimed

LEMMA SupersededSubset ==
  ASSUME NEW o, NEW d, NEW m
  PROVE  Superseded(o, d, m) \subseteq {m}
BY DEF Superseded

\* A stale record is deleted only where the listing proves ownership.
LEMMA StaleProof ==
  ASSUME NEW m, NEW visible, NEW v \in staleOwnedDeleteVisibleRecord(m, visible)
  PROVE  v \in visible /\ sameRecordProvenance(m.provenance, v.provenance)
BY DEF staleOwnedDeleteVisibleRecord, visibleByKey

LEMMA ManagedFromType ==
  ASSUME NEW o \in Outputs, NEW d \in DesiredRecords, NEW p \in Provenances
  PROVE  ManagedFrom(o, d, p) \in ManagedRecords
BY DEF ManagedFrom, ManagedRecords, DesiredRecords

LEMMA PlanTypes ==
  ASSUME NEW o \in Outputs, NEW S \in SUBSET DesiredRecords,
         NEW visible \in SUBSET VisibleRecords, NEW mine \in SUBSET ManagedRecords
  PROVE  LET plan == buildReconcilePlan(o, S, visible, mine)
         IN /\ plan.creates \subseteq [to : DesiredRecords, drops : SUBSET ManagedRecords]
            /\ plan.updates \subseteq [from : VisibleRecords, to : DesiredRecords,
                                       drops : SUBSET ManagedRecords]
            /\ plan.deletes \subseteq [visible : VisibleRecords, managed : ManagedRecords]
            /\ plan.drops \subseteq ManagedRecords
            /\ plan.keeps \subseteq [record : ManagedRecords, drops : SUBSET ManagedRecords]
<1> DEFINE wanted == desiredByLineage(o, S)
<1>1. wanted \subseteq DesiredRecords
  BY FilterSubset
<1>2. ASSUME NEW d \in wanted, NEW m \in ownedRecord(o, d, mine)
      PROVE  /\ d \in DesiredRecords
             /\ m \in ManagedRecords
             /\ Superseded(o, d, m) \in SUBSET ManagedRecords
             /\ m.provenance \in Provenances
             /\ ManagedFrom(o, d, m.provenance) \in ManagedRecords
  <2>1. d \in DesiredRecords /\ m \in ManagedRecords
    BY <1>1, OwnedRecordSubset
  <2>2. m.provenance \in Provenances
    BY <2>1 DEF ManagedRecords
  <2> QED
    BY <2>1, <2>2, SupersededSubset, ManagedFromType
<1> HIDE DEF wanted
<1>3. PlannedCreates(o, wanted, visible, mine)
        \subseteq [to : DesiredRecords, drops : SUBSET ManagedRecords]
  BY <1>1, <1>2 DEF PlannedCreates
<1>4. PlannedUpdates(o, wanted, visible, mine)
        \subseteq [from : VisibleRecords, to : DesiredRecords, drops : SUBSET ManagedRecords]
  BY <1>2, DisplacedSubset DEF PlannedUpdates
<1>5. PlannedDeletes(o, wanted, visible, mine)
        \subseteq [visible : VisibleRecords, managed : ManagedRecords]
  BY StaleProof, UnclaimedSubset DEF PlannedDeletes
<1>6. PlannedDrops(o, wanted, visible, mine) \subseteq ManagedRecords
  BY UnclaimedSubset DEF PlannedDrops
<1>7. PlannedKeeps(o, wanted, visible, mine)
        \subseteq [record : ManagedRecords, drops : SUBSET ManagedRecords]
  BY <1>2 DEF PlannedKeeps
<1>8. PlannedRetains(o, wanted, visible, mine)
        \subseteq [record : ManagedRecords, drops : SUBSET ManagedRecords]
  BY UnclaimedSubset DEF PlannedRetains
<1> QED
  BY <1>3, <1>4, <1>5, <1>6, <1>7, <1>8 DEF buildReconcilePlan, wanted

\* Every planned delete carries the proof of its managed record.
LEMMA PlannedDeletesProven ==
  ASSUME NEW o, NEW S, NEW visible, NEW mine,
         NEW t \in buildReconcilePlan(o, S, visible, mine).deletes
  PROVE  /\ t.managed \in mine
         /\ t.visible \in visible
         /\ sameRecordProvenance(t.managed.provenance, t.visible.provenance)
<1>1. t \in PlannedDeletes(o, desiredByLineage(o, S), visible, mine)
  BY DEF buildReconcilePlan
<1>2. PICK m \in Unclaimed(o, desiredByLineage(o, S), mine) :
        \E v \in staleOwnedDeleteVisibleRecord(m, visible) : t = [visible |-> v, managed |-> m]
  BY <1>1 DEF PlannedDeletes
<1>3. PICK v \in staleOwnedDeleteVisibleRecord(m, visible) : t = [visible |-> v, managed |-> m]
  BY <1>2
<1> QED
  BY <1>2, <1>3, UnclaimedSubset, StaleProof

LEMMA KeepTypes ==
  ASSUME NEW S \in SUBSET ManagedRecords, NEW drops,
         NEW keeps \in SUBSET [record : ManagedRecords, drops : SUBSET ManagedRecords],
         NEW kept \in KeepOutcomes(S, drops, keeps)
  PROVE  kept \in SUBSET ManagedRecords
<1> DEFINE all == {k.record : k \in keeps}
<1>1. all \subseteq ManagedRecords
  OBVIOUS
<1>2. kept \subseteq S \cup all
  BY DEF KeepOutcomes
<1> QED
  BY <1>1, <1>2

-----------------------------------------------------------------------------
(* Lemmas about the services *)

LEMMA NormalTypes ==
  /\ \A h \in Hosts : normalizeHostname[h] \in Hosts /\ Qualify[h] \in Hosts
  /\ \A a \in Answers : normalizeAnswer[a] \in Answers
BY NamesAssumption, QualifyAssumption

LEMMA ListTypes ==
  ASSUME TypeOK, NEW o \in Outputs
  PROVE  ListOutcome(o) \in SUBSET VisibleRecords
<1>1. remote[o] \in SUBSET Rows
  BY DEF TypeOK, OutsideOK
<1> QED
  BY <1>1, NormalTypes
  DEF ListOutcome, AdGuardListVisible, CloudflareListVisible, VisibleRecords, Rows, Provenances

\* A listing of AdGuard Home proves nothing about ownership.
LEMMA AdGuardHasNoProof ==
  ASSUME NEW o, Kind[o] = "adguard", NEW v \in ListOutcome(o)
  PROVE  ~hasRecordProvenance(v.provenance)
BY DEF ListOutcome, AdGuardListVisible, hasRecordProvenance

LEMMA MetaTypes ==
  ASSUME NEW rows \in SUBSET Rows
  PROVE  visibleMeta(rows) \in SUBSET Metas
BY NormalTypes DEF visibleMeta, Metas, Rows, rowKey

LEMMA RenamedType ==
  ASSUME NEW r \in Rows, NEW d \in DesiredRecords
  PROVE  Renamed(r, d) \in Rows /\ Renamed(r, d).id = r.id
<1>1. fullName(d) \in Hosts /\ normalizeAnswer[d.answer] \in Answers
  BY NormalTypes DEF fullName, DesiredRecords
<1> QED
  BY <1>1 DEF Renamed, Rows

LEMMA OutcomeTypes ==
  ASSUME NEW rows \in SUBSET Rows, NEW cache \in SUBSET Metas
  PROVE  /\ \A p \in Provenances : Succeeds(rows, cache, p) \in Outcomes
         /\ \A k \in Replies : Rejects(rows, cache, k) \in Outcomes
BY DEF Succeeds, Rejects, Outcomes, Provenances, Replies

\* Faults change neither the types nor the rows a call may leave.
LEMMA AttemptTypes ==
  ASSUME NEW rows \in SUBSET Rows, NEW cache \in SUBSET Metas,
         NEW outcomes \in SUBSET Outcomes
  PROVE  /\ Attempt(rows, cache, outcomes) \in SUBSET Outcomes
         /\ \A x \in Attempt(rows, cache, outcomes) :
              x.rows = rows \/ \E y \in outcomes : x.rows = y.rows
<1> SUFFICES ASSUME NEW x \in Attempt(rows, cache, outcomes)
             PROVE  /\ x \in Outcomes
                    /\ x.rows = rows \/ \E y \in outcomes : x.rows = y.rows
  OBVIOUS
<1>1. \/ x \in outcomes
      \/ \E k \in {"temporary", "fatal"} : x = Rejects(rows, cache, k)
      \/ \E y \in outcomes, k \in {"temporary", "fatal"} : x = Rejects(y.rows, y.listed, k)
  BY DEF Attempt
<1>2. CASE x \in outcomes
  BY <1>2
<1>3. ASSUME NEW k \in {"temporary", "fatal"}, x = Rejects(rows, cache, k)
      PROVE  x \in Outcomes /\ x.rows = rows
  BY <1>3, OutcomeTypes DEF Rejects, Replies
<1>4. ASSUME NEW y \in outcomes, NEW k \in {"temporary", "fatal"},
             x = Rejects(y.rows, y.listed, k)
      PROVE  x \in Outcomes /\ x.rows = y.rows
  <2>1. y.rows \in SUBSET Rows /\ y.listed \in SUBSET Metas
    BY DEF Outcomes
  <2> QED
    BY <1>4, <2>1, OutcomeTypes DEF Rejects, Replies
<1> QED
  BY <1>1, <1>2, <1>3, <1>4

\* Creating a row removes none: recovery from a duplicate rewrites at most one.
LEMMA RecoverTypes ==
  ASSUME NEW rows \in SUBSET Rows, NEW d \in DesiredRecords
  PROVE  /\ RecoverDuplicate(rows, d) \in SUBSET Outcomes
         /\ \A x \in RecoverDuplicate(rows, d) : RowIds(rows) \subseteq RowIds(x.rows)
<1> DEFINE cache == visibleMeta(rows)
<1>1. cache \in SUBSET Metas
  BY MetaTypes
<1> SUFFICES ASSUME NEW x \in RecoverDuplicate(rows, d)
             PROVE  x \in Outcomes /\ RowIds(rows) \subseteq RowIds(x.rows)
  OBVIOUS
<1>2. \/ x = Rejects(rows, cache, "fatal")
      \/ \E r \in rows : \/ x = Succeeds(rows, cache, r.id)
                         \/ x = Succeeds((rows \ {r}) \cup {Renamed(r, d)}, cache, r.id)
  BY DEF RecoverDuplicate
<1> HIDE DEF cache
<1>3. CASE x = Rejects(rows, cache, "fatal")
  BY <1>1, <1>3, OutcomeTypes DEF Rejects, Replies
<1>4. ASSUME NEW r \in rows, x = Succeeds(rows, cache, r.id)
      PROVE  x \in Outcomes /\ RowIds(rows) \subseteq RowIds(x.rows)
  BY <1>1, <1>4, OutcomeTypes DEF Succeeds, Rows, Provenances
<1>5. ASSUME NEW r \in rows, x = Succeeds((rows \ {r}) \cup {Renamed(r, d)}, cache, r.id)
      PROVE  x \in Outcomes /\ RowIds(rows) \subseteq RowIds(x.rows)
  <2>1. Renamed(r, d) \in Rows /\ Renamed(r, d).id = r.id
    BY RenamedType
  <2>2. r.id \in Provenances
    BY DEF Rows, Provenances
  <2>3. x \in Outcomes
    BY <1>1, <1>5, <2>1, <2>2, OutcomeTypes
  <2>4. x.rows = (rows \ {r}) \cup {Renamed(r, d)}
    BY <1>5 DEF Succeeds
  <2> QED
    BY <2>1, <2>3, <2>4 DEF RowIds
<1> QED
  BY <1>2, <1>3, <1>4, <1>5

LEMMA CreateTypes ==
  ASSUME NEW rows \in SUBSET Rows, NEW cache \in SUBSET Metas,
         NEW d \in DesiredRecords, NEW id \in Ids
  PROVE  /\ AdGuardCreate(rows, d, id) \in SUBSET Outcomes
         /\ CloudflareCreate(rows, cache, d, id) \in SUBSET Outcomes
         /\ \A x \in AdGuardCreate(rows, d, id) \cup CloudflareCreate(rows, cache, d, id) :
              RowIds(rows) \subseteq RowIds(x.rows)
<1>1. [id |-> id, hostname |-> d.hostname, answer |-> d.answer, maker |-> "daemon"] \in Rows
  BY DEF Rows, DesiredRecords, Makers
<1>2. [id |-> id, hostname |-> fullName(d), answer |-> normalizeAnswer[d.answer],
       maker |-> "daemon"] \in Rows
  BY NormalTypes DEF Rows, DesiredRecords, Makers, fullName
<1> DEFINE plain == [id |-> id, hostname |-> d.hostname, answer |-> d.answer,
                     maker |-> "daemon"]
           full == [id |-> id, hostname |-> fullName(d),
                    answer |-> normalizeAnswer[d.answer], maker |-> "daemon"]
<1>3. NoProvenance \in Provenances /\ id \in Provenances /\ {} \in SUBSET Metas
  BY DEF Provenances
<1>4. \A x \in AdGuardCreate(rows, d, id) : x = Succeeds(rows \cup {plain}, {}, NoProvenance)
  BY DEF AdGuardCreate
<1>5. \A x \in CloudflareCreate(rows, cache, d, id) :
        x = Succeeds(rows \cup {full}, cache, id) \/ x \in RecoverDuplicate(rows, d)
  BY DEF CloudflareCreate
<1> HIDE DEF plain, full
<1>6. ASSUME NEW row \in Rows, NEW c \in SUBSET Metas, NEW p \in Provenances,
             NEW x, x = Succeeds(rows \cup {row}, c, p)
      PROVE  x \in Outcomes /\ RowIds(rows) \subseteq RowIds(x.rows)
  BY <1>6 DEF Succeeds, Outcomes, Replies, RowIds
<1> QED
  BY <1>1, <1>2, <1>3, <1>4, <1>5, <1>6, RecoverTypes DEF plain, full

LEMMA UpdateTypes ==
  ASSUME NEW rows \in SUBSET Rows, NEW cache \in SUBSET Metas,
         NEW v \in VisibleRecords, NEW d \in DesiredRecords
  PROVE  /\ AdGuardUpdate(rows, v, d) \in SUBSET Outcomes
         /\ CloudflareUpdate(rows, cache, v, d) \in SUBSET Outcomes
         /\ \A x \in AdGuardUpdate(rows, v, d) \cup CloudflareUpdate(rows, cache, v, d) :
              RowIds(rows) \subseteq RowIds(x.rows)
<1> DEFINE Spelt(r) == [r EXCEPT !.hostname = d.hostname, !.answer = d.answer]
<1>1. \A x \in AdGuardUpdate(rows, v, d) :
        \/ x = Rejects(rows, {}, "fatal")
        \/ \E r \in rows : x = Succeeds((rows \ {r}) \cup {Spelt(r)}, {}, NoProvenance)
  BY DEF AdGuardUpdate, Spelled
<1>2. \A x \in CloudflareUpdate(rows, cache, v, d) :
        \/ x = Rejects(rows, cache, "fatal")
        \/ \E r \in rows :
             /\ r.id = v.provenance
             /\ x = Succeeds((rows \ {q \in rows : q.id = v.provenance}) \cup {Renamed(r, d)},
                             cache, r.id)
  BY DEF CloudflareUpdate
<1>3. \A r \in rows : Spelt(r) \in Rows /\ Spelt(r).id = r.id
  BY DEF Rows, DesiredRecords
<1> HIDE DEF Spelt
<1>4. \A r \in rows : Renamed(r, d) \in Rows /\ Renamed(r, d).id = r.id
  BY RenamedType
<1>5. NoProvenance \in Provenances /\ {} \in SUBSET Metas /\ "fatal" \in Replies
      /\ \A r \in rows : r.id \in Provenances
  BY DEF Provenances, Replies, Rows
<1>6. ASSUME NEW c \in SUBSET Metas, NEW x, x = Rejects(rows, c, "fatal")
      PROVE  x \in Outcomes /\ RowIds(rows) \subseteq RowIds(x.rows)
  BY <1>5, <1>6, OutcomeTypes DEF Rejects
<1>7. ASSUME NEW c \in SUBSET Metas, NEW p \in Provenances, NEW r \in rows, NEW s \in Rows,
             s.id = r.id, NEW gone \in SUBSET rows, \A q \in gone : q.id = r.id,
             NEW x, x = Succeeds((rows \ gone) \cup {s}, c, p)
      PROVE  x \in Outcomes /\ RowIds(rows) \subseteq RowIds(x.rows)
  BY <1>7 DEF Succeeds, Outcomes, Replies, RowIds
<1>8. ASSUME NEW x \in AdGuardUpdate(rows, v, d)
      PROVE  x \in Outcomes /\ RowIds(rows) \subseteq RowIds(x.rows)
  <2>1. CASE x = Rejects(rows, {}, "fatal")
    BY <2>1, <1>5, <1>6
  <2>2. ASSUME NEW r \in rows, x = Succeeds((rows \ {r}) \cup {Spelt(r)}, {}, NoProvenance)
        PROVE  x \in Outcomes /\ RowIds(rows) \subseteq RowIds(x.rows)
    <3>1. {r} \in SUBSET rows /\ \A q \in {r} : q.id = r.id
      OBVIOUS
    <3>2. Spelt(r) \in Rows /\ Spelt(r).id = r.id
      BY <1>3
    <3> QED
      BY <2>2, <3>1, <3>2, <1>5, <1>7
  <2> QED
    BY <2>1, <2>2, <1>1
<1>9. ASSUME NEW x \in CloudflareUpdate(rows, cache, v, d)
      PROVE  x \in Outcomes /\ RowIds(rows) \subseteq RowIds(x.rows)
  <2>1. CASE x = Rejects(rows, cache, "fatal")
    BY <2>1, <1>6
  <2>2. ASSUME NEW r \in rows, r.id = v.provenance,
               x = Succeeds((rows \ {q \in rows : q.id = v.provenance}) \cup {Renamed(r, d)},
                            cache, r.id)
        PROVE  x \in Outcomes /\ RowIds(rows) \subseteq RowIds(x.rows)
    BY <2>2, <1>4, <1>5, <1>7
  <2> QED
    BY <2>1, <2>2, <1>2
<1> QED
  BY <1>8, <1>9

\* A delete on Cloudflare removes only the row whose ID it names.
LEMMA DeleteTypes ==
  ASSUME NEW rows \in SUBSET Rows, NEW cache \in SUBSET Metas, NEW v \in VisibleRecords
  PROVE  /\ AdGuardDelete(rows, v) \in SUBSET Outcomes
         /\ CloudflareDelete(rows, cache, v) \in SUBSET Outcomes
         /\ \A x \in CloudflareDelete(rows, cache, v) :
              \A i \in RowIds(rows) \ RowIds(x.rows) : i = v.provenance
<1>1. NoProvenance \in Provenances /\ {} \in SUBSET Metas /\ "fatal" \in Replies
  BY DEF Provenances, Replies
<1>2. AdGuardDelete(rows, v) \in SUBSET Outcomes
  BY <1>1, OutcomeTypes DEF AdGuardDelete, Spelled
<1>3. ASSUME NEW x \in CloudflareDelete(rows, cache, v)
      PROVE  /\ x \in Outcomes
             /\ \A i \in RowIds(rows) \ RowIds(x.rows) : i = v.provenance
  <2>1. \/ x = Rejects(rows, cache, "fatal")
        \/ x = Succeeds(rows \ {r \in rows : r.id = v.provenance}, cache, NoProvenance)
    BY DEF CloudflareDelete
  <2>2. CASE x = Rejects(rows, cache, "fatal")
    BY <1>1, <2>2, OutcomeTypes DEF Rejects
  <2>3. CASE x = Succeeds(rows \ {r \in rows : r.id = v.provenance}, cache, NoProvenance)
    <3>1. x \in Outcomes
      BY <1>1, <2>3, OutcomeTypes
    <3>2. x.rows = rows \ {r \in rows : r.id = v.provenance}
      BY <2>3 DEF Succeeds
    <3> QED
      BY <3>1, <3>2 DEF RowIds
  <2> QED
    BY <2>1, <2>2, <2>3
<1> QED
  BY <1>2, <1>3

LEMMA PublishedTypes ==
  ASSUME NEW S \in Deployments, NEW source
  PROVE  Published(S, source) \in SUBSET DesiredRecords
<1>1. S \subseteq ContainerTypes
  BY WorldAssumption
<1>2. \A c \in S : c \in ContainerTypes
  BY <1>1
<1> QED
  BY <1>2 DEF Published, ContainerTypes, DesiredRecords, SourceObjects

-----------------------------------------------------------------------------
(* The inductive invariant *)

(***************************************************************************)
(* Pending mutations exist only while an output is being mutated, and      *)
(* every pending delete carries proof: a managed record of that output in  *)
(* the snapshot of the pass names the identity of the row.                 *)
(***************************************************************************)
PendingOK ==
  /\ pc # "mutate" => todo = NoMutations
  /\ \A t \in todo.deletes :
       /\ Kind[Here] = "cloudflare"
       /\ t.managed \in owned
       /\ t.managed.output = Here
       /\ t.visible.provenance = t.managed.provenance
  /\ pc = "savePartial" => failure \in {"temporary", "fatal"}

IInv == TypeOK /\ InMemoryMatchesStore /\ PendingOK

LEMMA HereType ==
  ASSUME TypeOK, next <= Len(OutputOrder)
  PROVE  Here \in Outputs
BY OrderAssumption DEF TypeOK, PlaceOK, Here, Outputs

LEMMA InitInv == Init => IInv
<1> SUFFICES ASSUME Init PROVE IInv
  OBVIOUS
<1>1. remote \in [Outputs -> SUBSET Rows]
  BY DEF Init
<1>2. todo \in Tasks
  BY DEF Init, NoMutations, Tasks
<1>3. TypeOK
  <2>1. OutsideOK
    BY <1>1 DEF Init, OutsideOK
  <2>2. PassOK
    BY <1>2 DEF Init, PassOK
  <2>3. PlaceOK
    BY DEF Init, PlaceOK
  <2>4. FlagsOK
    BY DEF Init, FlagsOK
  <2> QED
    BY <2>1, <2>2, <2>3, <2>4 DEF TypeOK
<1> QED
  BY <1>3 DEF Init, IInv, InMemoryMatchesStore, PendingOK, NoMutations

\* Any step that leaves the invariant's variables alone keeps it.
LEMMA FailInv ==
  ASSUME IInv, NEW kind \in {"temporary", "fatal"}, FailPass(kind),
         running' \in Deployments, remote' \in [Outputs -> SUBSET Rows],
         store' \in SUBSET ManagedRecords,
         UNCHANGED <<watching, hint, missed, stormy>>
  PROVE  IInv'
<1>1. NoMutations \in Tasks
  BY DEF NoMutations, Tasks
<1>2. TypeOK'
  <2>1. OutsideOK'
    BY DEF OutsideOK
  <2>2. PassOK'
    BY <1>1 DEF PassOK, FailPass
  <2>3. PlaceOK'
    BY DEF PlaceOK, FailPass
  <2>4. FlagsOK'
    BY DEF IInv, TypeOK, FlagsOK, FailPass
  <2> QED
    BY <2>1, <2>2, <2>3, <2>4 DEF TypeOK
<1> QED
  BY <1>2 DEF IInv, FailPass, InMemoryMatchesStore, PendingOK, NoMutations

LEMMA EndInv ==
  ASSUME IInv, PassEnds, pc' \in {"down", "idle", "load"},
         watching' \in BOOLEAN, hint' \in BOOLEAN, missed' \in BOOLEAN,
         missed' => watching',
         UNCHANGED <<running, remote, store, stormy>>
  PROVE  IInv'
<1>1. NoMutations \in Tasks
  BY DEF NoMutations, Tasks
<1>2. TypeOK'
  <2>1. OutsideOK'
    BY DEF IInv, TypeOK, OutsideOK
  <2>2. PassOK'
    BY <1>1 DEF PassOK, PassEnds
  <2>3. PlaceOK'
    BY DEF PlaceOK, PassEnds
  <2>4. FlagsOK'
    BY DEF IInv, TypeOK, FlagsOK, PassEnds
  <2> QED
    BY <2>1, <2>2, <2>3, <2>4 DEF TypeOK
<1> QED
  BY <1>2 DEF IInv, PassEnds, InMemoryMatchesStore, PendingOK, NoMutations

LEMMA PlanInv == IInv /\ Plan => IInv'
<1> SUFFICES ASSUME IInv, Plan PROVE IInv'
  OBVIOUS
<1> DEFINE visible == ListOutcome(Here)
           mine    == ForOutput(owned, Here)
           wanted  == filterDesiredForOutput(desired, Here)
           plan    == buildReconcilePlan(Here, wanted, visible, mine)
<1>1. Here \in Outputs /\ Here' = Here
  BY HereType DEF IInv, Plan, Here
<1>2. visible \in SUBSET VisibleRecords /\ wanted \in SUBSET DesiredRecords
      /\ mine \in SUBSET ManagedRecords
  BY <1>1, ListTypes, FilterSubset DEF IInv, TypeOK, PassOK, ForOutput
<1> HIDE DEF visible, mine, wanted
<1>3. /\ plan.creates \subseteq [to : DesiredRecords, drops : SUBSET ManagedRecords]
      /\ plan.updates \subseteq [from : VisibleRecords, to : DesiredRecords,
                                 drops : SUBSET ManagedRecords]
      /\ plan.deletes \subseteq [visible : VisibleRecords, managed : ManagedRecords]
      /\ plan.keeps \in SUBSET [record : ManagedRecords, drops : SUBSET ManagedRecords]
  BY <1>1, <1>2, PlanTypes
<1>4. \A t \in plan.deletes :
        /\ t.managed \in mine
        /\ t.visible \in visible
        /\ sameRecordProvenance(t.managed.provenance, t.visible.provenance)
  BY PlannedDeletesProven
<1> HIDE DEF plan
<1>5. /\ pc = "outputs" /\ pc' = "mutate"
      /\ next <= Len(OutputOrder)
      /\ todo' = [creates |-> plan.creates, updates |-> plan.updates, deletes |-> plan.deletes]
      /\ \E kept \in KeepOutcomes(mine, plan.drops, plan.keeps) :
            records' = (owned \ mine) \cup kept
      /\ listed' = IF Kind[Here] = "cloudflare" THEN visibleMeta(remote[Here]) ELSE {}
      /\ UNCHANGED <<running, remote, store, owned, desired, next, progressed,
                     failure, watching, hint, missed, stormy>>
  BY DEF Plan, plan, visible, mine, wanted
<1>6. records' \in SUBSET ManagedRecords
  <2>1. PICK kept \in KeepOutcomes(mine, plan.drops, plan.keeps) :
          records' = (owned \ mine) \cup kept
    BY <1>5
  <2>2. kept \in SUBSET ManagedRecords
    BY <1>2, <1>3, KeepTypes
  <2> QED
    BY <2>1, <2>2 DEF IInv, TypeOK, PassOK
<1>7. listed' \in SUBSET Metas
  BY <1>1, <1>5, MetaTypes DEF IInv, TypeOK, OutsideOK
<1>8. todo' \in Tasks
  BY <1>3, <1>5 DEF Tasks
<1>9. TypeOK'
  <2>1. OutsideOK'
    BY <1>5 DEF IInv, TypeOK, OutsideOK
  <2>2. PassOK'
    BY <1>5, <1>6, <1>7, <1>8 DEF IInv, TypeOK, PassOK
  <2>3. PlaceOK'
    BY <1>5 DEF IInv, TypeOK, PlaceOK
  <2>4. FlagsOK'
    BY <1>5 DEF IInv, TypeOK, FlagsOK
  <2> QED
    BY <2>1, <2>2, <2>3, <2>4 DEF TypeOK
<1>10. InMemoryMatchesStore'
  BY <1>5 DEF IInv, InMemoryMatchesStore
<1>11. PendingOK'
  <2> SUFFICES ASSUME NEW t \in todo'.deletes
               PROVE  /\ Kind[Here] = "cloudflare"
                      /\ t.managed \in owned
                      /\ t.managed.output = Here
                      /\ t.visible.provenance = t.managed.provenance
    BY <1>1, <1>5 DEF PendingOK
  <2>1. t \in plan.deletes
    BY <1>5
  <2>2. t.managed \in owned /\ t.managed.output = Here
    BY <1>4, <2>1 DEF mine, ForOutput
  <2>3. t.visible.provenance = t.managed.provenance /\ hasRecordProvenance(t.visible.provenance)
    BY <1>4, <2>1 DEF sameRecordProvenance
  <2>4. Kind[Here] # "adguard"
    BY <1>4, <2>1, <2>3, AdGuardHasNoProof DEF visible
  <2>5. Kind[Here] \in {"adguard", "cloudflare"}
    BY <1>1, OrderAssumption
  <2> QED
    BY <2>2, <2>3, <2>4, <2>5
<1> QED
  BY <1>9, <1>10, <1>11 DEF IInv

-----------------------------------------------------------------------------
(* Calls on the output the pass is at *)

LEMMA Mutating ==
  ASSUME IInv, pc = "mutate"
  PROVE  /\ Here \in Outputs
         /\ remote[Here] \in SUBSET Rows
         /\ listed \in SUBSET Metas
BY HereType DEF IInv, TypeOK, OutsideOK, PassOK, PlaceOK

LEMMA CreateCall ==
  ASSUME IInv, pc = "mutate", FreshIds # {}, NEW d \in DesiredRecords,
         NEW x \in CreateOutcomes(Here, d)
  PROVE  x \in Outcomes /\ RowIds(remote[Here]) \subseteq RowIds(x.rows)
<1>1. NewId \in Ids
  BY DEF NewId, FreshIds
<1> DEFINE rows == remote[Here]
           outcomes == IF Kind[Here] = "adguard" THEN AdGuardCreate(rows, d, NewId)
                       ELSE CloudflareCreate(rows, listed, d, NewId)
<1>2. rows \in SUBSET Rows /\ listed \in SUBSET Metas
  BY Mutating
<1>3. outcomes \in SUBSET Outcomes /\ \A y \in outcomes : RowIds(rows) \subseteq RowIds(y.rows)
  BY <1>1, <1>2, CreateTypes
<1>4. x \in outcomes \/ x \in Attempt(rows, listed, outcomes)
  BY DEF CreateOutcomes, Call
<1> HIDE DEF rows, outcomes
<1>5. x \in Outcomes /\ RowIds(rows) \subseteq RowIds(x.rows)
  BY <1>2, <1>3, <1>4, AttemptTypes DEF RowIds
<1> QED
  BY <1>5 DEF rows

LEMMA UpdateCall ==
  ASSUME IInv, pc = "mutate", NEW v \in VisibleRecords, NEW d \in DesiredRecords,
         NEW x \in UpdateOutcomes(Here, v, d)
  PROVE  x \in Outcomes /\ RowIds(remote[Here]) \subseteq RowIds(x.rows)
<1> DEFINE rows == remote[Here]
           outcomes == IF Kind[Here] = "adguard" THEN AdGuardUpdate(rows, v, d)
                       ELSE CloudflareUpdate(rows, listed, v, d)
<1>2. rows \in SUBSET Rows /\ listed \in SUBSET Metas
  BY Mutating
<1>3. outcomes \in SUBSET Outcomes /\ \A y \in outcomes : RowIds(rows) \subseteq RowIds(y.rows)
  BY <1>2, UpdateTypes
<1>4. x \in outcomes \/ x \in Attempt(rows, listed, outcomes)
  BY DEF UpdateOutcomes, Call
<1> HIDE DEF rows, outcomes
<1>5. x \in Outcomes /\ RowIds(rows) \subseteq RowIds(x.rows)
  BY <1>2, <1>3, <1>4, AttemptTypes DEF RowIds
<1> QED
  BY <1>5 DEF rows

LEMMA DeleteCall ==
  ASSUME IInv, pc = "mutate", NEW v \in VisibleRecords, NEW x \in DeleteOutcomes(Here, v)
  PROVE  /\ x \in Outcomes
         /\ Kind[Here] = "cloudflare" =>
              \A i \in RowIds(remote[Here]) \ RowIds(x.rows) : i = v.provenance
<1> DEFINE rows == remote[Here]
           outcomes == IF Kind[Here] = "adguard" THEN AdGuardDelete(rows, v)
                       ELSE CloudflareDelete(rows, listed, v)
<1>2. rows \in SUBSET Rows /\ listed \in SUBSET Metas
  BY Mutating
<1>3. /\ outcomes \in SUBSET Outcomes
      /\ Kind[Here] = "cloudflare" =>
           \A y \in outcomes : \A i \in RowIds(rows) \ RowIds(y.rows) : i = v.provenance
  BY <1>2, DeleteTypes
<1>4. x \in outcomes \/ x \in Attempt(rows, listed, outcomes)
  BY DEF DeleteOutcomes, Call
<1> HIDE DEF rows, outcomes
<1>5. x \in Outcomes /\ (x.rows = rows \/ \E y \in outcomes : x.rows = y.rows)
  BY <1>2, <1>3, <1>4, AttemptTypes
<1>6. Kind[Here] = "cloudflare" =>
        \A i \in RowIds(rows) \ RowIds(x.rows) : i = v.provenance
  BY <1>3, <1>5 DEF RowIds
<1> QED
  BY <1>5, <1>6 DEF rows

LEMMA CalledTypes ==
  ASSUME IInv, pc = "mutate", NEW x \in Outcomes, Called(x)
  PROVE  /\ OutsideOK'
         /\ remote' \in [Outputs -> SUBSET Rows]
         /\ UNCHANGED <<watching, hint, missed, stormy>>
BY Mutating DEF Called, IInv, TypeOK, OutsideOK, Outcomes

LEMMA FailedCallInv ==
  ASSUME IInv, pc = "mutate", NEW x \in Outcomes, MutationFails(x)
  PROVE  IInv'
<1>1. x.reply \in {"temporary", "fatal"}
  BY DEF MutationFails, Fails, Outcomes, Replies
<1>2. /\ OutsideOK'
      /\ remote' \in [Outputs -> SUBSET Rows]
      /\ UNCHANGED <<watching, hint, missed, stormy>>
  BY CalledTypes DEF MutationFails
<1>3. CASE ~progressed
  <2>1. FailPass(x.reply)
    BY <1>3 DEF MutationFails
  <2> QED
    BY <1>1, <1>2, <2>1, FailInv DEF OutsideOK
<1>4. CASE progressed
  <2>1. /\ pc' = "savePartial" /\ failure' = x.reply /\ listed' = {} /\ todo' = NoMutations
        /\ UNCHANGED <<owned, desired, next, records, progressed>>
    BY <1>4 DEF MutationFails
  <2>2. NoMutations \in Tasks /\ NoMutations.deletes = {}
    BY DEF NoMutations, Tasks
  <2>3. PassOK'
    BY <1>1, <2>1, <2>2 DEF IInv, TypeOK, PassOK
  <2>4. PlaceOK'
    BY <2>1 DEF IInv, TypeOK, PlaceOK
  <2>5. FlagsOK'
    BY <1>2, <2>1 DEF IInv, TypeOK, FlagsOK
  <2>6. InMemoryMatchesStore' /\ PendingOK'
    BY <1>1, <2>1, <2>2 DEF InMemoryMatchesStore, PendingOK
  <2> QED
    BY <1>2, <2>3, <2>4, <2>5, <2>6 DEF IInv, TypeOK
<1> QED
  BY <1>3, <1>4

\* A mutation that succeeds, whatever it was: the tasks shrink.
LEMMA DoneCallInv ==
  ASSUME IInv, pc = "mutate", NEW x \in Outcomes, Called(x),
         records' \in SUBSET ManagedRecords,
         todo' \in Tasks, todo'.deletes \subseteq todo.deletes,
         progressed' = TRUE, listed' \in SUBSET Metas,
         UNCHANGED <<pc, owned, desired, next, failure>>
  PROVE  IInv'
<1>1. OutsideOK' /\ UNCHANGED <<watching, hint, missed, stormy>>
  BY CalledTypes
<1>2. PassOK'
  BY DEF IInv, TypeOK, PassOK
<1>3. PlaceOK'
  BY DEF IInv, TypeOK, PlaceOK
<1>4. FlagsOK'
  BY <1>1 DEF IInv, TypeOK, FlagsOK
<1>5. InMemoryMatchesStore'
  BY DEF IInv, InMemoryMatchesStore, Called
<1>6. PendingOK'
  BY DEF IInv, PendingOK, Here
<1> QED
  BY <1>1, <1>2, <1>3, <1>4, <1>5, <1>6 DEF IInv, TypeOK

LEMMA RecordType ==
  ASSUME NEW S \in SUBSET ManagedRecords, NEW m \in ManagedRecords, NEW drops
  PROVE  Record(S, m, drops) \in SUBSET ManagedRecords
BY DEF Record

LEMMA CreateInv == IInv /\ Create => IInv'
<1> SUFFICES ASSUME IInv, Create PROVE IInv'
  OBVIOUS
<1>a. PICK t \in FirstCreates : \E x \in CreateOutcomes(Here, t.to) :
        \/ MutationFails(x)
        \/ /\ MutationDone(x, ManagedFrom(Here, t.to, x.provenance), t.drops)
           /\ todo' = [todo EXCEPT !.creates = @ \ {t}]
  BY DEF Create
<1>1. PICK x \in CreateOutcomes(Here, t.to) :
        \/ MutationFails(x)
        \/ /\ MutationDone(x, ManagedFrom(Here, t.to, x.provenance), t.drops)
           /\ todo' = [todo EXCEPT !.creates = @ \ {t}]
  BY <1>a
<1>2. pc = "mutate" /\ FreshIds # {}
  BY DEF Create
<1>3. t.to \in DesiredRecords /\ todo \in Tasks
  BY DEF FirstCreates, IInv, TypeOK, PassOK, Tasks
<1>4. x \in Outcomes
  BY <1>2, <1>3, CreateCall
<1>5. CASE MutationFails(x)
  BY <1>2, <1>4, <1>5, FailedCallInv
<1>6. CASE /\ MutationDone(x, ManagedFrom(Here, t.to, x.provenance), t.drops)
           /\ todo' = [todo EXCEPT !.creates = @ \ {t}]
  <2>1. ManagedFrom(Here, t.to, x.provenance) \in ManagedRecords
    BY <1>2, <1>3, <1>4, Mutating, ManagedFromType DEF Outcomes
  <2>2. records' \in SUBSET ManagedRecords
    BY <1>6, <2>1, RecordType DEF MutationDone, IInv, TypeOK, PassOK
  <2>3. todo' \in Tasks /\ todo'.deletes = todo.deletes
    BY <1>3, <1>6 DEF Tasks
  <2>4. listed' \in SUBSET Metas
    BY <1>4, <1>6 DEF MutationDone, Outcomes
  <2> QED
    BY <1>2, <1>4, <1>6, <2>2, <2>3, <2>4, DoneCallInv DEF MutationDone
<1> QED
  BY <1>1, <1>5, <1>6

LEMMA UpdateInv == IInv /\ Update => IInv'
<1> SUFFICES ASSUME IInv, Update PROVE IInv'
  OBVIOUS
<1> DEFINE m(t, x) ==
      ManagedFrom(Here, t.to, nextManagedProvenance(x.provenance, t.from.provenance))
<1>a. PICK t \in FirstUpdates : \E x \in UpdateOutcomes(Here, t.from, t.to) :
        \/ MutationFails(x)
        \/ MutationDone(x, m(t, x), t.drops) /\ todo' = [todo EXCEPT !.updates = @ \ {t}]
  BY DEF Update
<1>1. PICK x \in UpdateOutcomes(Here, t.from, t.to) :
        \/ MutationFails(x)
        \/ MutationDone(x, m(t, x), t.drops) /\ todo' = [todo EXCEPT !.updates = @ \ {t}]
  BY <1>a
<1>2. pc = "mutate"
  BY DEF Update
<1>3. t.to \in DesiredRecords /\ t.from \in VisibleRecords /\ todo \in Tasks
  BY DEF FirstUpdates, IInv, TypeOK, PassOK, Tasks
<1>4. x \in Outcomes
  BY <1>2, <1>3, UpdateCall
<1>5. CASE MutationFails(x)
  BY <1>2, <1>4, <1>5, FailedCallInv
<1>6. CASE MutationDone(x, m(t, x), t.drops) /\ todo' = [todo EXCEPT !.updates = @ \ {t}]
  <2>1. nextManagedProvenance(x.provenance, t.from.provenance) \in Provenances
    BY <1>3, <1>4 DEF nextManagedProvenance, Outcomes, VisibleRecords
  <2>2. m(t, x) \in ManagedRecords
    BY <1>2, <1>3, <2>1, Mutating, ManagedFromType
  <2> HIDE DEF m
  <2>3. records' \in SUBSET ManagedRecords
    BY <1>6, <2>2, RecordType DEF MutationDone, IInv, TypeOK, PassOK
  <2>4. todo' \in Tasks /\ todo'.deletes = todo.deletes
    BY <1>3, <1>6 DEF Tasks
  <2>5. listed' \in SUBSET Metas
    BY <1>4, <1>6 DEF MutationDone, Outcomes
  <2> QED
    BY <1>2, <1>4, <1>6, <2>3, <2>4, <2>5, DoneCallInv DEF MutationDone
<1> QED
  BY <1>1, <1>5, <1>6

LEMMA DeleteInv == IInv /\ Delete => IInv'
<1> SUFFICES ASSUME IInv, Delete PROVE IInv'
  OBVIOUS
<1>a. PICK t \in FirstDeletes : \E x \in DeleteOutcomes(Here, t.visible) :
        \/ MutationFails(x)
        \/ /\ ~Fails(x)
           /\ Called(x)
           /\ records' = {m \in records : managedRecordLineageKey(m)
                                            # managedRecordLineageKey(t.managed)}
           /\ progressed' = TRUE
           /\ todo' = [todo EXCEPT !.deletes = @ \ {t}]
           /\ UNCHANGED <<pc, owned, desired, next, listed, failure>>
  BY DEF Delete
<1>1. PICK x \in DeleteOutcomes(Here, t.visible) :
        \/ MutationFails(x)
        \/ /\ ~Fails(x)
           /\ Called(x)
           /\ records' = {m \in records : managedRecordLineageKey(m)
                                            # managedRecordLineageKey(t.managed)}
           /\ progressed' = TRUE
           /\ todo' = [todo EXCEPT !.deletes = @ \ {t}]
           /\ UNCHANGED <<pc, owned, desired, next, listed, failure>>
  BY <1>a
<1>2. pc = "mutate"
  BY DEF Delete
<1>3. t.visible \in VisibleRecords /\ todo \in Tasks
  BY DEF FirstDeletes, IInv, TypeOK, PassOK, Tasks
<1>4. x \in Outcomes
  BY <1>2, <1>3, DeleteCall
<1>5. CASE MutationFails(x)
  BY <1>2, <1>4, <1>5, FailedCallInv
<1>6. CASE ~MutationFails(x)
  <2>1. records' \in SUBSET ManagedRecords /\ listed' \in SUBSET Metas
    BY <1>1, <1>6 DEF IInv, TypeOK, PassOK
  <2>2. todo' \in Tasks /\ todo'.deletes \subseteq todo.deletes
    BY <1>1, <1>3, <1>6 DEF Tasks
  <2> QED
    BY <1>1, <1>2, <1>4, <1>6, <2>1, <2>2, DoneCallInv
<1> QED
  BY <1>5, <1>6

LEMMA SaveInv == IInv /\ (Save \/ SaveFails \/ SavePartial) => IInv'
<1> SUFFICES ASSUME IInv, Save \/ SaveFails \/ SavePartial PROVE IInv'
  OBVIOUS
<1>1. /\ records \in SUBSET ManagedRecords
      /\ store \in SUBSET ManagedRecords
      /\ running \in Deployments
      /\ remote \in [Outputs -> SUBSET Rows]
  BY DEF IInv, TypeOK, PassOK, OutsideOK
<1>2. CASE Save
  <2>1. OutsideOK'
    BY <1>1, <1>2 DEF Save, OutsideOK
  <2>2. PassOK'
    BY <1>1, <1>2 DEF Save, IInv, TypeOK, PassOK
  <2>3. PlaceOK'
    BY <1>2 DEF Save, IInv, TypeOK, PlaceOK
  <2>4. FlagsOK'
    BY <1>2 DEF Save, IInv, TypeOK, FlagsOK
  <2>5. InMemoryMatchesStore' /\ PendingOK'
    BY <1>2 DEF Save, InMemoryMatchesStore, PendingOK, NoMutations
  <2> QED
    BY <2>1, <2>2, <2>3, <2>4, <2>5 DEF IInv, TypeOK
<1>3. CASE SaveFails
  <2>1. /\ FailPass("fatal")
        /\ store' \in {store, records}
        /\ UNCHANGED <<running, remote, watching, hint, missed, stormy>>
    BY <1>3 DEF SaveFails
  <2> QED
    BY <1>1, <2>1, FailInv
<1>4. CASE SavePartial
  <2>1. /\ FailPass(failure)
        /\ store' \in {store, records}
        /\ UNCHANGED <<running, remote, watching, hint, missed, stormy>>
    BY <1>4 DEF SavePartial
  <2>2. failure \in {"temporary", "fatal"}
    BY <1>4 DEF SavePartial, IInv, PendingOK
  <2> QED
    BY <1>1, <2>1, <2>2, FailInv
<1> QED
  BY <1>2, <1>3, <1>4

LEMMA ReadInv == IInv /\ (Load \/ ListDesired \/ ReadFails \/ FindAmbiguity) => IInv'
<1> SUFFICES ASSUME IInv, Load \/ ListDesired \/ ReadFails \/ FindAmbiguity PROVE IInv'
  OBVIOUS
<1>1. /\ running \in Deployments
      /\ remote \in [Outputs -> SUBSET Rows]
      /\ store \in SUBSET ManagedRecords
  BY DEF IInv, TypeOK, OutsideOK
<1>2. CASE Load
  <2>1. OutsideOK' /\ PassOK'
    BY <1>1, <1>2 DEF Load, IInv, TypeOK, OutsideOK, PassOK
  <2>2. PlaceOK'
    BY <1>2, OrderAssumption DEF Load, IInv, TypeOK, PlaceOK
  <2>3. FlagsOK'
    BY <1>2 DEF Load, IInv, TypeOK, FlagsOK
  <2>4. InMemoryMatchesStore' /\ PendingOK'
    BY <1>2 DEF Load, IInv, InMemoryMatchesStore, PendingOK, NoMutations
  <2> QED
    BY <2>1, <2>2, <2>3, <2>4 DEF IInv, TypeOK
<1>3. CASE ListDesired
  <2>1. Published(running, SourceOrder[next]) \in SUBSET DesiredRecords
    BY <1>1, PublishedTypes
  <2>2. OutsideOK' /\ PassOK'
    BY <1>1, <1>3, <2>1 DEF ListDesired, IInv, TypeOK, OutsideOK, PassOK
  <2>3. PlaceOK'
    BY <1>3, OrderAssumption DEF ListDesired, IInv, TypeOK, PlaceOK
  <2>4. FlagsOK'
    BY <1>3 DEF ListDesired, IInv, TypeOK, FlagsOK
  <2>5. InMemoryMatchesStore' /\ PendingOK'
    BY <1>3 DEF ListDesired, IInv, InMemoryMatchesStore, PendingOK, NoMutations
  <2> QED
    BY <2>2, <2>3, <2>4, <2>5 DEF IInv, TypeOK
<1>4. CASE ReadFails
  <2>1. PICK kind \in {"temporary", "fatal"} : FailPass(kind)
    BY <1>4 DEF ReadFails
  <2> QED
    BY <1>1, <1>4, <2>1, FailInv DEF ReadFails
<1>5. CASE FindAmbiguity
  BY <1>1, <1>5, FailInv DEF FindAmbiguity
<1> QED
  BY <1>2, <1>3, <1>4, <1>5

\* A step that moves neither the process nor its pass keeps the invariant.
LEMMA OutsideInv ==
  ASSUME IInv, UNCHANGED <<store, pc, pass>>,
         running' \in Deployments, remote' \in [Outputs -> SUBSET Rows], FlagsOK'
  PROVE  IInv'
<1>1. OutsideOK'
  BY DEF IInv, TypeOK, OutsideOK
<1>2. PassOK' /\ PlaceOK'
  BY DEF IInv, TypeOK, PassOK, PlaceOK, pass
<1>3. InMemoryMatchesStore' /\ PendingOK'
  BY DEF IInv, InMemoryMatchesStore, PendingOK, pass, Here
<1> QED
  BY <1>1, <1>2, <1>3 DEF IInv, TypeOK

LEMMA OperatorRemote ==
  ASSUME IInv, Operator
  PROVE  remote' \in [Outputs -> SUBSET Rows]
<1>1. remote \in [Outputs -> SUBSET Rows]
  BY DEF IInv, TypeOK, OutsideOK
<1>2. \A x \in OperatorRows : x \in OperatorTexts
  BY WorldAssumption
<1>3. CASE AddRow
  <2>1. PICK x \in OperatorRows :
          remote' = [remote EXCEPT ![x.output] =
                       @ \cup {[id |-> NewId, hostname |-> x.hostname,
                                answer |-> x.answer, maker |-> "operator"]}]
    BY <1>3 DEF AddRow
  <2>2. NewId \in Ids
    BY <1>3 DEF AddRow, NewId, FreshIds
  <2>3. [id |-> NewId, hostname |-> x.hostname, answer |-> x.answer,
         maker |-> "operator"] \in Rows /\ x.output \in Outputs
    BY <1>2, <2>2 DEF OperatorTexts, Rows, Makers
  <2> QED
    BY <1>1, <2>1, <2>3
<1>4. CASE EditRow
  <2>a. PICK x \in OperatorRows :
          \E r \in remote[x.output] :
            remote' = [remote EXCEPT ![x.output] =
                         (@ \ {r}) \cup {[r EXCEPT !.hostname = x.hostname,
                                                   !.answer = x.answer]}]
    BY <1>4 DEF EditRow
  <2>1. PICK r \in remote[x.output] :
          remote' = [remote EXCEPT ![x.output] =
                       (@ \ {r}) \cup {[r EXCEPT !.hostname = x.hostname,
                                                 !.answer = x.answer]}]
    BY <2>a
  <2>2. x.output \in Outputs /\ x.hostname \in Hosts /\ x.answer \in Answers
    BY <1>2 DEF OperatorTexts
  <2>3. r \in Rows
    BY <1>1, <2>2
  <2>4. [r EXCEPT !.hostname = x.hostname, !.answer = x.answer] \in Rows
    BY <2>2, <2>3 DEF Rows
  <2> QED
    BY <1>1, <2>1, <2>2, <2>4
<1>5. CASE RemoveRow
  BY <1>1, <1>5 DEF RemoveRow
<1> QED
  BY <1>3, <1>4, <1>5 DEF Operator

LEMMA WorldInv == IInv /\ World => IInv'
<1> SUFFICES ASSUME IInv, World PROVE IInv'
  OBVIOUS
<1>1. /\ running \in Deployments
      /\ remote \in [Outputs -> SUBSET Rows]
      /\ FlagsOK
  BY DEF IInv, TypeOK, OutsideOK
<1>2. CASE Crash
  BY <1>2, EndInv DEF Crash
<1>3. CASE Deploy
  <2>1. running' \in Deployments /\ UNCHANGED <<remote, store, pc, pass, watching, stormy>>
    BY <1>3 DEF Deploy
  <2>2. FlagsOK'
    BY <1>1, <1>3 DEF Deploy, FlagsOK, pass
  <2> QED
    BY <1>1, <2>1, <2>2, OutsideInv
<1>4. CASE Operator
  <2>1. UNCHANGED <<running, store, pc, pass, watching, hint, missed, stormy>>
    BY <1>4 DEF Operator, AddRow, EditRow, RemoveRow
  <2>2. FlagsOK'
    BY <1>1, <2>1 DEF FlagsOK, pass
  <2> QED
    BY <1>1, <1>4, <2>1, <2>2, OperatorRemote, OutsideInv
<1>5. CASE Calm
  <2>1. /\ UNCHANGED <<running, remote, store, pc, pass, watching, hint, missed>>
        /\ stormy' = FALSE
    BY <1>5 DEF Calm
  <2>2. FlagsOK'
    BY <1>1, <2>1 DEF FlagsOK, pass
  <2> QED
    BY <1>1, <2>1, <2>2, OutsideInv
<1> QED
  BY <1>2, <1>3, <1>4, <1>5 DEF World

LEMMA PassEdgeInv == IInv /\ (Start \/ Begin \/ OutputsDone \/ Retry \/ GiveUp) => IInv'
<1> SUFFICES ASSUME IInv, Start \/ Begin \/ OutputsDone \/ Retry \/ GiveUp PROVE IInv'
  OBVIOUS
<1>1. FlagsOK /\ running \in Deployments /\ remote \in [Outputs -> SUBSET Rows]
  BY DEF IInv, TypeOK, OutsideOK
<1>2. CASE Start \/ Begin
  <2>1. /\ pc \in {"down", "idle"} /\ pc' = "load"
        /\ UNCHANGED <<running, remote, store, pass, watching, stormy>>
    BY <1>2 DEF Start, Begin
  <2>2. FlagsOK'
    <3>1. UNCHANGED <<progressed, watching, missed, stormy>> /\ hint' \in BOOLEAN
      BY <1>1, <1>2 DEF Start, Begin, FlagsOK, pass
    <3> QED
      BY <1>1, <3>1 DEF FlagsOK
  <2>3. OutsideOK' /\ PassOK'
    BY <2>1 DEF IInv, TypeOK, OutsideOK, PassOK, pass
  <2>4. PlaceOK'
    BY <2>1 DEF IInv, TypeOK, PlaceOK, pass
  <2>5. InMemoryMatchesStore' /\ PendingOK'
    BY <2>1 DEF IInv, InMemoryMatchesStore, PendingOK, NoMutations, pass
  <2> QED
    BY <2>2, <2>3, <2>4, <2>5 DEF IInv, TypeOK
<1>3. CASE OutputsDone
  <2>1. watching' \in BOOLEAN /\ hint' \in BOOLEAN /\ missed' \in BOOLEAN /\ watching'
    BY <1>1, <1>3 DEF OutputsDone, FlagsOK
  <2> QED
    BY <1>3, <2>1, EndInv DEF OutputsDone
<1>4. CASE Retry \/ GiveUp
  <2>1. CASE Retry
    BY <1>1, <2>1, EndInv DEF Retry, FlagsOK
  <2>2. CASE GiveUp
    BY <2>2, EndInv DEF GiveUp
  <2> QED
    BY <1>4, <2>1, <2>2
<1> QED
  BY <1>2, <1>3, <1>4

LEMMA NextInv == IInv /\ [Next]_vars => IInv'
<1> SUFFICES ASSUME IInv, [Next]_vars PROVE IInv'
  OBVIOUS
<1>1. CASE UNCHANGED vars
  <2>1. UNCHANGED <<running, remote, store, pc, pass, watching, hint, missed, stormy>>
    BY <1>1 DEF vars
  <2>2. FlagsOK'
    BY <2>1 DEF IInv, TypeOK, FlagsOK, pass
  <2> QED
    BY <2>1, <2>2, OutsideInv DEF IInv, TypeOK, OutsideOK
<1>2. CASE Process
  BY <1>2, PassEdgeInv, ReadInv, PlanInv, CreateInv, UpdateInv, DeleteInv, SaveInv DEF Process
<1>3. CASE World
  BY <1>3, WorldInv
<1>4. CASE Wait
  BY <1>1, <1>4 DEF Wait
<1> QED
  BY <1>1, <1>2, <1>3, <1>4 DEF Next

(***************************************************************************)
(* The inductive invariant: types, the snapshot in memory against the one  *)
(* on disk, and the facts about pending tasks hold in every state.         *)
(***************************************************************************)
THEOREM Invariance == Spec => []IInv
<1>1. Init => IInv
  BY InitInv
<1>2. IInv /\ [Next]_vars => IInv'
  BY NextInv
<1> QED
  BY <1>1, <1>2, PTL DEF Spec

(***************************************************************************)
(* Every variable always holds a value of its Go counterpart's type.       *)
(***************************************************************************)
THEOREM TypeCorrect == Spec => []TypeOK
<1>1. IInv => TypeOK
  BY DEF IInv
<1> QED
  BY <1>1, Invariance, PTL

(***************************************************************************)
(* Between two outputs the pass works with exactly what is on disk, so a   *)
(* retry or a restart there starts from what the pass already knew.        *)
(***************************************************************************)
THEOREM MemoryIsStore == Spec => []InMemoryMatchesStore
<1>1. IInv => InMemoryMatchesStore
  BY DEF IInv
<1> QED
  BY <1>1, Invariance, PTL

-----------------------------------------------------------------------------
(* What the daemon removes *)

LEMMA NothingRemoved ==
  ASSUME IInv, remote' = remote, NEW o \in Outputs
  PROVE  RowIds(remote[o]) \ RowIds(remote'[o]) = {}
OBVIOUS

\* A call on one output leaves the rows of the others alone.
LEMMA CalledElsewhere ==
  ASSUME IInv, pc = "mutate", NEW x, Called(x), NEW o \in Outputs
  PROVE  /\ o # Here => remote'[o] = remote[o]
         /\ o = Here => remote'[o] = x.rows
BY DEF Called, IInv, TypeOK, OutsideOK

LEMMA MutationCalled ==
  /\ \A x : MutationFails(x) => Called(x)
  /\ \A x, m, drops : MutationDone(x, m, drops) => Called(x)
BY DEF MutationFails, MutationDone

LEMMA CreateRemovesNothing ==
  ASSUME IInv, Create, NEW o \in Outputs
  PROVE  RowIds(remote[o]) \ RowIds(remote'[o]) = {}
<1>1. pc = "mutate" /\ FreshIds # {}
  BY DEF Create
<1>2. PICK t \in FirstCreates : \E x \in CreateOutcomes(Here, t.to) : Called(x)
  BY MutationCalled DEF Create
<1>3. PICK x \in CreateOutcomes(Here, t.to) : Called(x)
  BY <1>2
<1>4. t.to \in DesiredRecords
  BY DEF FirstCreates, IInv, TypeOK, PassOK, Tasks
<1>5. RowIds(remote[Here]) \subseteq RowIds(x.rows)
  BY <1>1, <1>4, CreateCall
<1> QED
  BY <1>1, <1>3, <1>5, CalledElsewhere

LEMMA UpdateRemovesNothing ==
  ASSUME IInv, Update, NEW o \in Outputs
  PROVE  RowIds(remote[o]) \ RowIds(remote'[o]) = {}
<1>1. pc = "mutate"
  BY DEF Update
<1>2. PICK t \in FirstUpdates : \E x \in UpdateOutcomes(Here, t.from, t.to) : Called(x)
  BY MutationCalled DEF Update
<1>3. PICK x \in UpdateOutcomes(Here, t.from, t.to) : Called(x)
  BY <1>2
<1>4. t.to \in DesiredRecords /\ t.from \in VisibleRecords
  BY DEF FirstUpdates, IInv, TypeOK, PassOK, Tasks
<1>5. RowIds(remote[Here]) \subseteq RowIds(x.rows)
  BY <1>1, <1>4, UpdateCall
<1> QED
  BY <1>1, <1>3, <1>5, CalledElsewhere

LEMMA DeleteRemovesProven ==
  ASSUME IInv, Delete, NEW o \in Outputs, NEW i \in RowIds(remote[o]) \ RowIds(remote'[o])
  PROVE  /\ Kind[o] = "cloudflare"
         /\ \E m \in owned : m.output = o /\ m.provenance = i
<1>1. pc = "mutate"
  BY DEF Delete
<1>2. PICK t \in FirstDeletes : \E x \in DeleteOutcomes(Here, t.visible) : Called(x)
  BY MutationCalled DEF Delete
<1>3. PICK x \in DeleteOutcomes(Here, t.visible) : Called(x)
  BY <1>2
<1>4. /\ t.visible \in VisibleRecords
      /\ Kind[Here] = "cloudflare"
      /\ t.managed \in owned
      /\ t.managed.output = Here
      /\ t.visible.provenance = t.managed.provenance
  BY DEF FirstDeletes, IInv, TypeOK, PassOK, Tasks, PendingOK
<1>5. \A j \in RowIds(remote[Here]) \ RowIds(x.rows) : j = t.visible.provenance
  BY <1>1, <1>4, DeleteCall
<1> QED
  BY <1>1, <1>3, <1>4, <1>5, CalledElsewhere

(***************************************************************************)
(* The daemon only ever removes a Cloudflare record whose ID is in the     *)
(* snapshot it works with; it removes nothing from AdGuard Home.           *)
(***************************************************************************)
THEOREM OnlyProvenRemoved == Spec => RemovedWithProof
<1> DEFINE Proven ==
      ProcessMoves =>
        \A o \in Outputs : \A i \in RowIds(remote[o]) \ RowIds(remote'[o]) :
          /\ Kind[o] = "cloudflare"
          /\ \E m \in owned : m.output = o /\ m.provenance = i
<1>1. IInv /\ [Next]_vars => [Proven]_vars
  <2> SUFFICES ASSUME IInv, Next, ProcessMoves, NEW o \in Outputs,
                      NEW i \in RowIds(remote[o]) \ RowIds(remote'[o])
               PROVE  /\ Kind[o] = "cloudflare"
                      /\ \E m \in owned : m.output = o /\ m.provenance = i
    OBVIOUS
  <2>1. remote' # remote
    BY NothingRemoved
  <2>2. CASE Process
    <3>1. Create \/ Update \/ Delete
      BY <2>1, <2>2 DEF Process, Start, Begin, Load, ListDesired, ReadFails, OutputsDone,
         Plan, FindAmbiguity, Save, SaveFails, SavePartial, Retry, GiveUp
    <3> QED
      BY <3>1, CreateRemovesNothing, UpdateRemovesNothing, DeleteRemovesProven
  <2>3. CASE Wait \/ World
    BY <2>1, <2>3 DEF Wait, vars, World, Crash, Deploy, Calm, Operator, AddRow, EditRow,
       RemoveRow, ProcessMoves
  <2> QED
    BY <2>2, <2>3 DEF Next
<1>2. Spec => [][Proven]_vars
  BY <1>1, Invariance, PTL DEF Spec
<1> QED
  BY <1>2 DEF RemovedWithProof

-----------------------------------------------------------------------------
(* What a save leaves alone *)

(***************************************************************************)
(* The snapshot an output is about to save differs from the file only in   *)
(* records of that output, and what its pending tasks will take out of it  *)
(* belongs to that output too.                                             *)
(***************************************************************************)
OthersOK ==
  pc \in {"mutate", "savePartial"} =>
    /\ \A m \in (records \ store) \cup (store \ records) : m.output = Here
    /\ \A t \in todo.creates \cup todo.updates : \A m \in t.drops : m.output = Here

LEMMA PlanOutputs ==
  ASSUME NEW o, NEW S, NEW visible, NEW mine, \A m \in mine : m.output = o
  PROVE  LET plan == buildReconcilePlan(o, S, visible, mine)
         IN /\ \A t \in plan.creates \cup plan.updates : \A m \in t.drops : m.output = o
            /\ \A k \in plan.keeps : k.record.output = o
<1> DEFINE wanted == desiredByLineage(o, S)
<1>1. \A d, m : m \in ownedRecord(o, d, mine) =>
         \A n \in Superseded(o, d, m) : n.output = o
  BY OwnedRecordSubset, SupersededSubset
<1>2. \A t \in PlannedCreates(o, wanted, visible, mine) : \A m \in t.drops : m.output = o
  BY <1>1 DEF PlannedCreates
<1>3. \A t \in PlannedUpdates(o, wanted, visible, mine) : \A m \in t.drops : m.output = o
  BY <1>1 DEF PlannedUpdates
<1>4. \A k \in PlannedKeeps(o, wanted, visible, mine) : k.record.output = o
  BY DEF PlannedKeeps, ManagedFrom
<1>5. \A k \in PlannedRetains(o, wanted, visible, mine) : k.record.output = o
  BY UnclaimedSubset DEF PlannedRetains
<1> QED
  BY <1>2, <1>3, <1>4, <1>5 DEF buildReconcilePlan

\* Recording a task of an output touches the records of that output only.
LEMMA RecordOutputs ==
  ASSUME NEW o, NEW S, NEW m, m.output = o, NEW drops, \A n \in drops : n.output = o,
         NEW r \in (S \ Record(S, m, drops)) \cup (Record(S, m, drops) \ S)
  PROVE  r.output = o
<1>1. CASE r = m
  BY <1>1
<1>2. CASE r # m
  <2>1. r \in S /\ managedRecordLineageKey(r) \in Lineages(drops \cup {m})
    BY <1>2 DEF Record
  <2>2. PICK n \in drops \cup {m} : managedRecordLineageKey(r) = managedRecordLineageKey(n)
    BY <2>1 DEF Lineages
  <2> QED
    BY <2>2 DEF managedRecordLineageKey, ownedLineageKey
<1> QED
  BY <1>1, <1>2

LEMMA PlanOthers == IInv /\ Plan => OthersOK'
<1> SUFFICES ASSUME IInv, Plan PROVE OthersOK'
  OBVIOUS
<1> DEFINE mine == ForOutput(owned, Here)
           wanted == filterDesiredForOutput(desired, Here)
           plan == buildReconcilePlan(Here, wanted, ListOutcome(Here), mine)
<1>1. \A m \in mine : m.output = Here
  BY DEF ForOutput
<1>2. mine \subseteq owned
  BY DEF ForOutput
<1> HIDE DEF mine, wanted
<1>3. /\ \A t \in plan.creates \cup plan.updates : \A m \in t.drops : m.output = Here
      /\ \A k \in plan.keeps : k.record.output = Here
  BY <1>1, PlanOutputs
<1> HIDE DEF plan
<1>4. /\ \E kept \in KeepOutcomes(mine, plan.drops, plan.keeps) :
            records' = (owned \ mine) \cup kept
      /\ todo' = [creates |-> plan.creates, updates |-> plan.updates, deletes |-> plan.deletes]
      /\ store' = store /\ Here' = Here /\ pc = "outputs"
  BY DEF Plan, plan, mine, wanted, Here
<1>5. owned = store
  BY <1>4 DEF IInv, InMemoryMatchesStore
<1>6. PICK kept \in KeepOutcomes(mine, plan.drops, plan.keeps) :
        records' = (owned \ mine) \cup kept
  BY <1>4
<1>7. \A m \in kept : m.output = Here
  <2> DEFINE all == {k.record : k \in plan.keeps}
  <2>1. kept \subseteq mine \cup all
    BY DEF KeepOutcomes
  <2>2. \A m \in all : m.output = Here
    BY <1>3
  <2> HIDE DEF all
  <2> QED
    BY <2>1, <2>2, <1>1
<1> QED
  BY <1>1, <1>2, <1>3, <1>4, <1>5, <1>6, <1>7 DEF OthersOK

LEMMA TaskOthers ==
  ASSUME IInv, OthersOK, pc = "mutate", NEW x, NEW m, m.output = Here, NEW drops,
         \A n \in drops : n.output = Here, MutationDone(x, m, drops),
         todo'.creates \cup todo'.updates \subseteq todo.creates \cup todo.updates
  PROVE  OthersOK'
<1>1. /\ records' = Record(records, m, drops)
      /\ UNCHANGED <<store, pc, next>>
  BY DEF MutationDone, Called
<1>2. Here' = Here
  BY <1>1 DEF Here
<1>3. \A r \in (records \ records') \cup (records' \ records) : r.output = Here
  BY <1>1, RecordOutputs
<1> QED
  BY <1>1, <1>2, <1>3 DEF OthersOK

LEMMA FailedOthers ==
  ASSUME IInv, OthersOK, pc = "mutate", NEW x, MutationFails(x)
  PROVE  OthersOK'
BY DEF MutationFails, FailPass, Called, OthersOK, NoMutations, Here

LEMMA CreateOthers == IInv /\ OthersOK /\ Create => OthersOK'
<1> SUFFICES ASSUME IInv, OthersOK, Create PROVE OthersOK'
  OBVIOUS
<1>a. PICK t \in FirstCreates : \E x \in CreateOutcomes(Here, t.to) :
        \/ MutationFails(x)
        \/ /\ MutationDone(x, ManagedFrom(Here, t.to, x.provenance), t.drops)
           /\ todo' = [todo EXCEPT !.creates = @ \ {t}]
  BY DEF Create
<1>1. PICK x \in CreateOutcomes(Here, t.to) :
        \/ MutationFails(x)
        \/ /\ MutationDone(x, ManagedFrom(Here, t.to, x.provenance), t.drops)
           /\ todo' = [todo EXCEPT !.creates = @ \ {t}]
  BY <1>a
<1>2. pc = "mutate" /\ t \in todo.creates /\ todo \in Tasks
  BY DEF Create, FirstCreates, IInv, TypeOK, PassOK
<1>3. CASE MutationFails(x)
  BY <1>2, <1>3, FailedOthers
<1>4. CASE ~MutationFails(x)
  <2>1. \A n \in t.drops : n.output = Here
    BY <1>2 DEF OthersOK
  <2>2. ManagedFrom(Here, t.to, x.provenance).output = Here
    BY DEF ManagedFrom
  <2>3. todo'.creates \cup todo'.updates \subseteq todo.creates \cup todo.updates
    BY <1>1, <1>2, <1>4 DEF Tasks
  <2> QED
    BY <1>1, <1>2, <1>4, <2>1, <2>2, <2>3, TaskOthers
<1> QED
  BY <1>3, <1>4

LEMMA UpdateOthers == IInv /\ OthersOK /\ Update => OthersOK'
<1> SUFFICES ASSUME IInv, OthersOK, Update PROVE OthersOK'
  OBVIOUS
<1> DEFINE m(t, x) ==
      ManagedFrom(Here, t.to, nextManagedProvenance(x.provenance, t.from.provenance))
<1>a. PICK t \in FirstUpdates : \E x \in UpdateOutcomes(Here, t.from, t.to) :
        \/ MutationFails(x)
        \/ MutationDone(x, m(t, x), t.drops) /\ todo' = [todo EXCEPT !.updates = @ \ {t}]
  BY DEF Update
<1>1. PICK x \in UpdateOutcomes(Here, t.from, t.to) :
        \/ MutationFails(x)
        \/ MutationDone(x, m(t, x), t.drops) /\ todo' = [todo EXCEPT !.updates = @ \ {t}]
  BY <1>a
<1>2. pc = "mutate" /\ t \in todo.updates /\ todo \in Tasks
  BY DEF Update, FirstUpdates, IInv, TypeOK, PassOK
<1>3. CASE MutationFails(x)
  BY <1>2, <1>3, FailedOthers
<1>4. CASE ~MutationFails(x)
  <2>1. \A n \in t.drops : n.output = Here
    BY <1>2 DEF OthersOK
  <2>2. m(t, x).output = Here
    BY DEF ManagedFrom
  <2> HIDE DEF m
  <2>3. todo'.creates \cup todo'.updates \subseteq todo.creates \cup todo.updates
    BY <1>1, <1>2, <1>4 DEF Tasks
  <2> QED
    BY <1>1, <1>2, <1>4, <2>1, <2>2, <2>3, TaskOthers
<1> QED
  BY <1>3, <1>4

LEMMA DeleteOthers == IInv /\ OthersOK /\ Delete => OthersOK'
<1> SUFFICES ASSUME IInv, OthersOK, Delete PROVE OthersOK'
  OBVIOUS
<1>1. PICK t \in FirstDeletes : \E x \in DeleteOutcomes(Here, t.visible) :
        \/ MutationFails(x)
        \/ /\ Called(x)
           /\ records' = {m \in records : managedRecordLineageKey(m)
                                            # managedRecordLineageKey(t.managed)}
           /\ todo' = [todo EXCEPT !.deletes = @ \ {t}]
           /\ UNCHANGED <<pc, next>>
  BY DEF Delete
<1>2. pc = "mutate" /\ todo \in Tasks /\ t.managed.output = Here
  BY DEF Delete, FirstDeletes, IInv, TypeOK, PassOK, PendingOK
<1>3. CASE \E x \in DeleteOutcomes(Here, t.visible) : MutationFails(x)
  BY <1>2, <1>3, FailedOthers
<1>4. CASE \E x \in DeleteOutcomes(Here, t.visible) :
             /\ Called(x)
             /\ records' = {m \in records : managedRecordLineageKey(m)
                                              # managedRecordLineageKey(t.managed)}
             /\ todo' = [todo EXCEPT !.deletes = @ \ {t}]
             /\ UNCHANGED <<pc, next>>
  <2>1. store' = store /\ Here' = Here /\ pc' = pc
    BY <1>4 DEF Called, Here
  <2>2. todo'.creates = todo.creates /\ todo'.updates = todo.updates
    BY <1>2, <1>4 DEF Tasks
  <2>3. \A r \in records \ records' : r.output = Here
    BY <1>2, <1>4 DEF managedRecordLineageKey, ownedLineageKey
  <2>4. records' \subseteq records
    BY <1>4
  <2> QED
    BY <1>2, <2>1, <2>2, <2>3, <2>4 DEF OthersOK
<1> QED
  BY <1>1, <1>3, <1>4

LEMMA OthersInv == IInv /\ OthersOK /\ [Next]_vars => OthersOK'
<1> SUFFICES ASSUME IInv, OthersOK, [Next]_vars PROVE OthersOK'
  OBVIOUS
<1>1. CASE UNCHANGED <<store, pc, pass>>
  BY <1>1 DEF OthersOK, Here, pass
<1>2. CASE pc' \notin {"mutate", "savePartial"}
  BY <1>2 DEF OthersOK
<1>3. CASE Plan \/ Create \/ Update \/ Delete
  BY <1>3, PlanOthers, CreateOthers, UpdateOthers, DeleteOthers
<1>4. CASE Process
  <2>1. \/ Plan \/ Create \/ Update \/ Delete
        \/ pc' \notin {"mutate", "savePartial"}
    BY <1>4 DEF Process, Start, Begin, Load, ListDesired, ReadFails, OutputsDone,
       FindAmbiguity, Save, SaveFails, SavePartial, Retry, GiveUp, FailPass
  <2> QED
    BY <2>1, <1>2, <1>3
<1>5. CASE World \/ Wait
  <2>1. UNCHANGED <<store, pc, pass>> \/ pc' = "down"
    BY <1>5 DEF World, Wait, vars, Crash, Deploy, Calm, Operator, AddRow, EditRow, RemoveRow
  <2> QED
    BY <2>1, <1>1, <1>2
<1> QED
  BY <1>1, <1>4, <1>5 DEF Next, vars

(***************************************************************************)
(* Saving what was done on one output changes nothing the file says about  *)
(* the others, whatever failed or crashed before.                          *)
(***************************************************************************)
THEOREM OthersKept == Spec => OtherOutputsKept
<1> DEFINE Kept == \A m \in (store \ store') \cup (store' \ store) : m.output = Here
<1>1. IInv /\ OthersOK /\ [Next]_vars => [Kept]_vars
  <2> SUFFICES ASSUME OthersOK, Next, store' # store PROVE Kept
    OBVIOUS
  <2>1. Save \/ SaveFails \/ SavePartial
    BY DEF Next, Process, Start, Begin, Load, ListDesired, ReadFails, OutputsDone,
       Plan, FindAmbiguity, Create, Update, Delete, MutationFails, MutationDone, Called,
       Retry, GiveUp, Wait, vars, World, Crash, Deploy, Calm, Operator, AddRow, EditRow,
       RemoveRow
  <2>2. store' = records /\ pc \in {"mutate", "savePartial"}
    BY <2>1 DEF Save, SaveFails, SavePartial
  <2> QED
    BY <2>2 DEF OthersOK
<1>2. Init => OthersOK
  BY DEF Init, OthersOK
<1>3. IInv /\ OthersOK /\ [Next]_vars => OthersOK'
  BY OthersInv
<1>4. Spec => [][Kept]_vars
  BY <1>1, <1>2, <1>3, Invariance, PTL DEF Spec
<1> QED
  BY <1>4 DEF OtherOutputsKept
=============================================================================
