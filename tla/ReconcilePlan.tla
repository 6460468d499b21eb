--------------------------- MODULE ReconcilePlan ---------------------------
(***************************************************************************)
(* buildReconcilePlan: what one pass does to one output, computed from the *)
(* records the sources want, the records the output shows and the records  *)
(* the ownership snapshot says the daemon manages there.                   *)
(*                                                                         *)
(* The maps the code builds over lineages, keys and hostnames are set      *)
(* comprehensions here; the maps CreateDrops, UpdateDrops and KeepDrops,   *)
(* which name the managed record a task supersedes, are the drops field of *)
(* the task (a set with at most one member).                               *)
(***************************************************************************)
EXTENDS Records

visibleByKey(visible, key) == {v \in visible : visibleRecordKey(v) = key}
visibleByHostname(visible, host) == {v \in visible : hostKey(v) = host}

\* Two visible records under one key: the pass is abandoned.
Ambiguous(visible) ==
  \E v, w \in visible : v # w /\ visibleRecordKey(v) = visibleRecordKey(w)

(***************************************************************************)
(* desiredByLineage: the map keeps the last record listed for a lineage.   *)
(***************************************************************************)
desiredByLineage(o, desired) ==
  {d \in desired :
     \A e \in desired :
       desiredRecordLineageKey(o, e) = desiredRecordLineageKey(o, d)
         => ~ListedBefore(d, e)}

-----------------------------------------------------------------------------
(* Which managed record a desired record continues *)

ExactMatches(o, d, mine) ==
  {m \in mine : managedRecordLineageKey(m) = desiredRecordLineageKey(o, d)}

DisplayMatches(o, d, mine) ==
  {m \in mine : ownedDisplayLineageKey(o, m.source, m.hostname)
                  = ownedDisplayLineageKey(o, d.source, d.hostname)}

HostMatches(d, mine) == {m \in mine : hostKey(m) = hostKey(d)}

(***************************************************************************)
(* The managed record that d continues, as a set with at most one member:  *)
(* the same container and host; else the only record of a container with   *)
(* that name; else the only record of that host.                           *)
(***************************************************************************)
ownedRecord(o, d, mine) ==
  IF ExactMatches(o, d, mine) # {} THEN ExactMatches(o, d, mine)
  ELSE IF One(DisplayMatches(o, d, mine)) THEN DisplayMatches(o, d, mine)
  ELSE IF One(HostMatches(d, mine)) THEN HostMatches(d, mine)
  ELSE {}

matchedByHostnameOnly(o, d, mine) ==
  ExactMatches(o, d, mine) = {} /\ ~One(DisplayMatches(o, d, mine))

\* Wrong variant: a record on the right host is taken for ours.
UpdateWithoutProof(m, v, hostnameOnly) == TRUE

canUpdateOwnedVisibleRecord(m, v, hostnameOnly) ==
  IF hasRecordProvenance(v.provenance)
  THEN sameRecordProvenance(m.provenance, v.provenance)
  ELSE ~hostnameOnly

(***************************************************************************)
(* The visible record that stands where d's managed record m should be     *)
(* rewritten to d: m's own record when d changes its key, or else the only *)
(* record of the host when it shows something else than d.                 *)
(***************************************************************************)
Displaced(d, m, visible) ==
  LET atOld  == visibleByKey(visible, visibleRecordKey(m))
      onHost == visibleByHostname(visible, hostKey(d))
  IN IF One(atOld) /\ visibleRecordKey(d) # visibleRecordKey(m) THEN atOld
     ELSE IF Many(atOld) THEN {}
     ELSE IF /\ One(onHost)
             /\ \A v \in onHost : visibleRecordKey(v) # visibleRecordKey(d)
     THEN onHost
     ELSE {}

\* d's task supersedes m when m was recorded for another container.
Superseded(o, d, m) ==
  IF managedRecordLineageKey(m) = desiredRecordLineageKey(o, d) THEN {} ELSE {m}

\* Wrong variant: the record of another container is always made anew.
DecisionRecreating(o, d, m, mine, visible) ==
  IF Superseded(o, d, m) # {} THEN "create" ELSE "keep"

\* Wrong variant: a record found missing is taken for kept.
DecisionNeverRecreating(o, d, m, mine, visible) ==
  IF Displaced(d, m, visible) # {} THEN "update" ELSE "keep"

(***************************************************************************)
(* What becomes of d when it continues m.                                  *)
(***************************************************************************)
Decision(o, d, m, mine, visible) ==
  LET displaced == Displaced(d, m, visible)
      atOld     == visibleByKey(visible, visibleRecordKey(m))
      atNew     == visibleByKey(visible, visibleRecordKey(d))
      onHost    == visibleByHostname(visible, hostKey(d))
  IN IF displaced # {}
     THEN IF \A v \in displaced :
               canUpdateOwnedVisibleRecord(m, v, matchedByHostnameOnly(o, d, mine))
          THEN "update" ELSE "skip"
     ELSE IF Many(atOld) THEN "skip"
     ELSE IF atNew # {} THEN "keep"
     ELSE IF onHost # {} THEN "skip"
     ELSE "create"

-----------------------------------------------------------------------------
(* Managed records that no desired record continues *)

\* Wrong variant: a stale record is deleted on its key alone.
StaleDeleteWithoutProof(m, visible) ==
  LET matches == visibleByKey(visible, visibleRecordKey(m))
  IN IF One(matches) THEN matches ELSE {}

staleOwnedDeleteVisibleRecord(m, visible) ==
  LET matches == visibleByKey(visible, visibleRecordKey(m))
  IN IF One(matches) /\ \A v \in matches : sameRecordProvenance(m.provenance, v.provenance)
     THEN matches ELSE {}

shouldRetainManagedRecordWithoutProof(m, visible) ==
  visibleByHostname(visible, hostKey(m)) # {}

-----------------------------------------------------------------------------
(* The plan *)

\* Wrong variant: only the record's own container can claim it.
UnclaimedByLineage(o, wanted, mine) ==
  {m \in mine :
     \A d \in wanted : desiredRecordLineageKey(o, d) # managedRecordLineageKey(m)}

Unclaimed(o, wanted, mine) ==
  {m \in mine :
     /\ \A d \in wanted : m \notin ownedRecord(o, d, mine)
     /\ \A d \in wanted : desiredRecordLineageKey(o, d) # managedRecordLineageKey(m)}

\* Wrong variant: the provenance is lost on the way to the snapshot.
ManagedWithoutProvenance(o, d, provenance) ==
  [output |-> o, source |-> d.source, hostname |-> d.hostname,
   answer |-> d.answer, provenance |-> NoProvenance]

ManagedFrom(o, d, provenance) ==
  [output |-> o, source |-> d.source, hostname |-> d.hostname,
   answer |-> d.answer, provenance |-> provenance]

(***************************************************************************)
(* buildReconcilePlan(o, desired, visible, mine).  mine is the part of the *)
(* snapshot that belongs to o.  A kept record keeps the provenance of the  *)
(* managed record it continues: the code copies the visible one only when  *)
(* the two are equal.                                                      *)
(***************************************************************************)
PlannedCreates(o, wanted, visible, mine) ==
  {[to |-> d, drops |-> {}] :
     d \in {e \in wanted : /\ ownedRecord(o, e, mine) = {}
                           /\ visibleByHostname(visible, hostKey(e)) = {}}}
  \cup
  UNION {{[to |-> d, drops |-> Superseded(o, d, m)] :
            m \in {n \in ownedRecord(o, d, mine) :
                     Decision(o, d, n, mine, visible) = "create"}} : d \in wanted}

PlannedUpdates(o, wanted, visible, mine) ==
  UNION {UNION {{[from |-> v, to |-> d, drops |-> Superseded(o, d, m)] :
                   v \in Displaced(d, m, visible)} :
                m \in {n \in ownedRecord(o, d, mine) :
                         Decision(o, d, n, mine, visible) = "update"}} : d \in wanted}

PlannedKeeps(o, wanted, visible, mine) ==
  UNION {{[record |-> ManagedFrom(o, d, m.provenance), drops |-> Superseded(o, d, m)] :
            m \in {n \in ownedRecord(o, d, mine) :
                     Decision(o, d, n, mine, visible) = "keep"}} : d \in wanted}

PlannedDeletes(o, wanted, visible, mine) ==
  UNION {{[visible |-> v, managed |-> m] : v \in staleOwnedDeleteVisibleRecord(m, visible)} :
         m \in Unclaimed(o, wanted, mine)}

\* Unclaimed records that stay in the snapshot without being touched.
PlannedRetains(o, wanted, visible, mine) ==
  {[record |-> m, drops |-> {}] :
     m \in {n \in Unclaimed(o, wanted, mine) :
              /\ staleOwnedDeleteVisibleRecord(n, visible) = {}
              /\ shouldRetainManagedRecordWithoutProof(n, visible)}}

PlannedDrops(o, wanted, visible, mine) ==
  {m \in Unclaimed(o, wanted, mine) :
     /\ staleOwnedDeleteVisibleRecord(m, visible) = {}
     /\ ~shouldRetainManagedRecordWithoutProof(m, visible)}

buildReconcilePlan(o, desired, visible, mine) ==
  LET wanted == desiredByLineage(o, desired)
  IN [creates |-> PlannedCreates(o, wanted, visible, mine),
      updates |-> PlannedUpdates(o, wanted, visible, mine),
      deletes |-> PlannedDeletes(o, wanted, visible, mine),
      drops   |-> PlannedDrops(o, wanted, visible, mine),
      keeps   |-> PlannedKeeps(o, wanted, visible, mine)
                    \cup PlannedRetains(o, wanted, visible, mine)]
=============================================================================
