-------------------------- MODULE SingleClaimProofs --------------------------
(***************************************************************************)
(* Theorems about Reconciler when a host has one owner at a time, for      *)
(* every number of sources, outputs, hosts and containers.  The layers of  *)
(* the inductive invariant are those of SingleClaims.                      *)
(***************************************************************************)
EXTENDS ReconcilerProofs, SingleClaims

-----------------------------------------------------------------------------
(* The planner, when records are told apart by their host *)

\* No two records wanted, and no two managed, of one output are for one host.
Single(o, W, mine) ==
  /\ W \in SUBSET DesiredRecords
  /\ \A d, e \in W : hostKey(d) = hostKey(e) => d = e
  /\ mine \in SUBSET ManagedRecords
  /\ \A m \in mine : m.output = o
  /\ \A m, n \in mine : hostKey(m) = hostKey(n) => m = n

LEMMA LineageHost ==
  /\ \A o, d, m : managedRecordLineageKey(m) = desiredRecordLineageKey(o, d)
                    => hostKey(m) = hostKey(d)
  /\ \A m, n : managedRecordLineageKey(m) = managedRecordLineageKey(n)
                    => m.output = n.output /\ hostKey(m) = hostKey(n)
  /\ \A o, d, e : desiredRecordLineageKey(o, d) = desiredRecordLineageKey(o, e)
                    => hostKey(d) = hostKey(e)
BY DEF managedRecordLineageKey, desiredRecordLineageKey, ownedLineageKey, hostKey

LEMMA NotListedBeforeItself ==
  ASSUME NEW d \in DesiredRecords
  PROVE  ~ListedBefore(d, d)
<1>1. d.source.provider \in Sources /\ d.hostname \in Hosts /\ d.answer \in Answers
  BY DEF DesiredRecords, SourceObjects
<1>2. PICK i \in 1..Len(SourceOrder) : SourceOrder[i] = d.source.provider
  BY <1>1 DEF Sources
<1>3. SourceIndex(d) \in 1..Len(SourceOrder)
  BY <1>2 DEF SourceIndex
<1>4. SourceIndex(d) \in Nat
  BY <1>3
<1>5. Rank[d.hostname] \in Nat /\ Rank[d.answer] \in Nat
  BY <1>1, NamesAssumption
<1>6. ~KeyLess(<<d.hostname, d.answer>>, <<d.hostname, d.answer>>)
  BY <1>5 DEF KeyLess
<1> QED
  BY <1>4, <1>6 DEF ListedBefore

\* No record gives way to another of its lineage.
LEMMA AllWanted ==
  ASSUME NEW o, NEW W, NEW mine, Single(o, W, mine)
  PROVE  desiredByLineage(o, W) = W
<1>1. ASSUME NEW d \in W, NEW e \in W,
             desiredRecordLineageKey(o, e) = desiredRecordLineageKey(o, d)
      PROVE  ~ListedBefore(d, e)
  <2>1. e = d
    BY <1>1, LineageHost DEF Single
  <2> QED
    BY <2>1, NotListedBeforeItself DEF Single
<1> QED
  BY <1>1 DEF desiredByLineage

LEMMA OwnedOnHost ==
  ASSUME NEW o, NEW d, NEW mine, NEW m \in ownedRecord(o, d, mine)
  PROVE  m \in mine /\ hostKey(m) = hostKey(d)
<1>1. \/ m \in ExactMatches(o, d, mine)
      \/ m \in DisplayMatches(o, d, mine)
      \/ m \in HostMatches(d, mine)
  BY DEF ownedRecord
<1>2. m \in DisplayMatches(o, d, mine) => m \in mine /\ hostKey(m) = hostKey(d)
  BY DEF DisplayMatches, ownedDisplayLineageKey, hostKey
<1> QED
  BY <1>1, <1>2, LineageHost DEF ExactMatches, HostMatches

\* The only managed record of its host is the one a claim to it continues.
LEMMA OwnedIsHosts ==
  ASSUME NEW o, NEW d, NEW mine, NEW m \in mine, hostKey(m) = hostKey(d),
         \A n \in mine : hostKey(n) = hostKey(d) => n = m
  PROVE  ownedRecord(o, d, mine) = {m}
<1>1. HostMatches(d, mine) = {m}
  BY DEF HostMatches
<1>2. One(HostMatches(d, mine))
  BY <1>1 DEF One
<1>3. ownedRecord(o, d, mine) # {}
  BY <1>1, <1>2 DEF ownedRecord, One
<1> QED
  BY <1>3, OwnedOnHost

LEMMA SingleOwned ==
  ASSUME NEW o, NEW W, NEW mine, Single(o, W, mine), NEW d
  PROVE  /\ \A m \in mine : hostKey(m) = hostKey(d) => ownedRecord(o, d, mine) = {m}
         /\ (\A m \in mine : hostKey(m) # hostKey(d)) => ownedRecord(o, d, mine) = {}
BY OwnedIsHosts, OwnedOnHost DEF Single

LEMMA SingleUnclaimed ==
  ASSUME NEW o, NEW W, NEW mine, Single(o, W, mine), NEW m
  PROVE  m \in Unclaimed(o, W, mine)
           <=> m \in mine /\ \A d \in W : hostKey(d) # hostKey(m)
<1>1. ASSUME m \in mine, NEW d \in W, hostKey(d) = hostKey(m)
      PROVE  m \in ownedRecord(o, d, mine)
  BY <1>1, SingleOwned
<1>2. ASSUME m \in mine, \A d \in W : hostKey(d) # hostKey(m)
      PROVE  m \in Unclaimed(o, W, mine)
  BY <1>2, OwnedOnHost, LineageHost DEF Unclaimed
<1> QED
  BY <1>1, <1>2 DEF Unclaimed

LEMMA SupersededHost ==
  ASSUME NEW o, NEW d, NEW m, hostKey(m) = hostKey(d)
  PROVE  /\ \A n \in Superseded(o, d, m) : n = m
         /\ managedRecordLineageKey(m)
              \in {desiredRecordLineageKey(o, d)} \cup Lineages(Superseded(o, d, m))
BY DEF Superseded, Lineages

LEMMA DisplacedHost ==
  ASSUME NEW d, NEW m, hostKey(m) = hostKey(d), NEW visible,
         NEW v \in Displaced(d, m, visible)
  PROVE  v \in visible /\ hostKey(v) = hostKey(d)
BY DEF Displaced, visibleByKey, visibleByHostname, visibleRecordKey, hostKey

LEMMA StaleHost ==
  ASSUME NEW m, NEW visible, NEW v \in staleOwnedDeleteVisibleRecord(m, visible)
  PROVE  v \in visible /\ hostKey(v) = hostKey(m)
BY DEF staleOwnedDeleteVisibleRecord, visibleByKey, visibleRecordKey, hostKey

-----------------------------------------------------------------------------
(* The tasks of a plan *)

LEMMA SinglePlan ==
  ASSUME NEW o, NEW W, NEW mine, Single(o, W, mine), NEW visible
  PROVE  buildReconcilePlan(o, W, visible, mine)
           = [creates |-> PlannedCreates(o, W, visible, mine),
              updates |-> PlannedUpdates(o, W, visible, mine),
              deletes |-> PlannedDeletes(o, W, visible, mine),
              drops   |-> PlannedDrops(o, W, visible, mine),
              keeps   |-> PlannedKeeps(o, W, visible, mine)
                            \cup PlannedRetains(o, W, visible, mine)]
BY AllWanted DEF buildReconcilePlan

LEMMA CreatesOf ==
  ASSUME NEW o, NEW W, NEW mine, Single(o, W, mine), NEW visible,
         NEW t \in PlannedCreates(o, W, visible, mine)
  PROVE  /\ t.to \in W
         /\ visibleByHostname(visible, hostKey(t.to)) = {}
         /\ \/ /\ t = [to |-> t.to, drops |-> {}]
               /\ \A m \in mine : hostKey(m) # hostKey(t.to)
            \/ \E m \in mine :
                 /\ hostKey(m) = hostKey(t.to)
                 /\ Decision(o, t.to, m, mine, visible) = "create"
                 /\ t = [to |-> t.to, drops |-> Superseded(o, t.to, m)]
<1>1. CASE \E d \in W : /\ t = [to |-> d, drops |-> {}]
                        /\ ownedRecord(o, d, mine) = {}
                        /\ visibleByHostname(visible, hostKey(d)) = {}
  BY <1>1, SingleOwned
<1>2. CASE \E d \in W : \E m \in ownedRecord(o, d, mine) :
             /\ t = [to |-> d, drops |-> Superseded(o, d, m)]
             /\ Decision(o, d, m, mine, visible) = "create"
  <2>a. PICK d \in W : \E m \in ownedRecord(o, d, mine) :
             /\ t = [to |-> d, drops |-> Superseded(o, d, m)]
             /\ Decision(o, d, m, mine, visible) = "create"
    BY <1>2
  <2>1. PICK m \in ownedRecord(o, d, mine) :
             /\ t = [to |-> d, drops |-> Superseded(o, d, m)]
             /\ Decision(o, d, m, mine, visible) = "create"
    BY <2>a
  <2>2. visibleByHostname(visible, hostKey(d)) = {}
    BY <2>1 DEF Decision
  <2> QED
    BY <2>1, <2>2, OwnedOnHost
<1> QED
  BY <1>1, <1>2 DEF PlannedCreates

LEMMA UpdatesOf ==
  ASSUME NEW o, NEW W, NEW mine, Single(o, W, mine), NEW visible,
         NEW t \in PlannedUpdates(o, W, visible, mine)
  PROVE  /\ t.to \in W
         /\ hostKey(t.from) = hostKey(t.to)
         /\ \E m \in mine :
              /\ hostKey(m) = hostKey(t.to)
              /\ Decision(o, t.to, m, mine, visible) = "update"
              /\ t.drops = Superseded(o, t.to, m)
              /\ t.from \in Displaced(t.to, m, visible)
<1>a. PICK d \in W : \E m \in ownedRecord(o, d, mine) :
             /\ Decision(o, d, m, mine, visible) = "update"
             /\ \E v \in Displaced(d, m, visible) :
                  t = [from |-> v, to |-> d, drops |-> Superseded(o, d, m)]
  BY DEF PlannedUpdates
<1>1. PICK m \in ownedRecord(o, d, mine) :
             /\ Decision(o, d, m, mine, visible) = "update"
             /\ \E v \in Displaced(d, m, visible) :
                  t = [from |-> v, to |-> d, drops |-> Superseded(o, d, m)]
  BY <1>a
<1>2. m \in mine /\ hostKey(m) = hostKey(d)
  BY OwnedOnHost
<1>3. hostKey(t.from) = hostKey(t.to)
  BY <1>1, <1>2, DisplacedHost
<1> QED
  BY <1>1, <1>2, <1>3

LEMMA DeletesOf ==
  ASSUME NEW o, NEW W, NEW mine, Single(o, W, mine), NEW visible,
         NEW t \in PlannedDeletes(o, W, visible, mine)
  PROVE  /\ t.managed \in mine
         /\ \A d \in W : hostKey(d) # hostKey(t.managed)
         /\ t.visible \in staleOwnedDeleteVisibleRecord(t.managed, visible)
<1>1. \E m \in Unclaimed(o, W, mine) :
        \E v \in staleOwnedDeleteVisibleRecord(m, visible) : t = [visible |-> v, managed |-> m]
  BY DEF PlannedDeletes
<1> QED
  BY <1>1, SingleUnclaimed

\* A plan leaves nothing out.
LEMMA PlanComplete ==
  ASSUME NEW o, NEW W, NEW mine, Single(o, W, mine), NEW visible
  PROVE  /\ \A d \in W :
              \/ Quiet(o, d, visible, mine)
              \/ \E t \in PlannedCreates(o, W, visible, mine)
                            \cup PlannedUpdates(o, W, visible, mine) : t.to = d
         /\ \A m \in mine :
              /\ \A d \in W : hostKey(d) # hostKey(m)
              /\ staleOwnedDeleteVisibleRecord(m, visible) # {}
              => \E t \in PlannedDeletes(o, W, visible, mine) : t.managed = m
<1>1. ASSUME NEW d \in W, ~Quiet(o, d, visible, mine)
      PROVE  \E t \in PlannedCreates(o, W, visible, mine)
                        \cup PlannedUpdates(o, W, visible, mine) : t.to = d
  <2>1. CASE ownedRecord(o, d, mine) = {} /\ visibleByHostname(visible, hostKey(d)) = {}
    <3>1. [to |-> d, drops |-> {}] \in PlannedCreates(o, W, visible, mine)
      BY <2>1 DEF PlannedCreates
    <3> QED
      BY <3>1
  <2>2. ASSUME NEW m \in ownedRecord(o, d, mine),
               Decision(o, d, m, mine, visible) \notin {"keep", "skip"}
        PROVE  \E t \in PlannedCreates(o, W, visible, mine)
                          \cup PlannedUpdates(o, W, visible, mine) : t.to = d
    <3>1. CASE Decision(o, d, m, mine, visible) = "create"
      <4>1. [to |-> d, drops |-> Superseded(o, d, m)] \in PlannedCreates(o, W, visible, mine)
        BY <3>1 DEF PlannedCreates
      <4> QED
        BY <4>1
    <3>2. CASE Decision(o, d, m, mine, visible) = "update"
      <4>1. Displaced(d, m, visible) # {}
        BY <3>2 DEF Decision
      <4>2. PICK v \in Displaced(d, m, visible) : TRUE
        BY <4>1
      <4>3. [from |-> v, to |-> d, drops |-> Superseded(o, d, m)]
              \in PlannedUpdates(o, W, visible, mine)
        BY <3>2, <4>2 DEF PlannedUpdates
      <4> QED
        BY <4>3
    <3> QED
      BY <2>2, <3>1, <3>2 DEF Decision
  <2> QED
    BY <1>1, <2>1, <2>2 DEF Quiet
<1>2. ASSUME NEW m \in mine, \A d \in W : hostKey(d) # hostKey(m),
             staleOwnedDeleteVisibleRecord(m, visible) # {}
      PROVE  \E t \in PlannedDeletes(o, W, visible, mine) : t.managed = m
  <2>1. PICK v \in staleOwnedDeleteVisibleRecord(m, visible) : TRUE
    BY <1>2
  <2>2. m \in Unclaimed(o, W, mine)
    BY <1>2, SingleUnclaimed
  <2>3. [visible |-> v, managed |-> m] \in PlannedDeletes(o, W, visible, mine)
    BY <2>1, <2>2 DEF PlannedDeletes
  <2> QED
    BY <2>3
<1> QED
  BY <1>1, <1>2

-----------------------------------------------------------------------------
(* What planning does to the snapshot *)

LEMMA ManagedFromKeys ==
  ASSUME NEW o, NEW d, NEW p
  PROVE  /\ ManagedFrom(o, d, p).output = o
         /\ ManagedFrom(o, d, p).provenance = p
         /\ hostKey(ManagedFrom(o, d, p)) = hostKey(d)
         /\ visibleRecordKey(ManagedFrom(o, d, p)) = visibleRecordKey(d)
         /\ managedRecordLineageKey(ManagedFrom(o, d, p)) = desiredRecordLineageKey(o, d)
BY DEF ManagedFrom, hostKey, visibleRecordKey, managedRecordLineageKey,
       desiredRecordLineageKey, ownedLineageKey

\* The keeps of claims and the retained records.
KeptFor(o, W, mine, visible, r, d, m) ==
  /\ d \in W /\ m \in mine /\ hostKey(m) = hostKey(d)
  /\ Decision(o, d, m, mine, visible) = "keep"
  /\ r = ManagedFrom(o, d, m.provenance)

Retained(W, mine, visible, m) ==
  /\ m \in mine
  /\ \A d \in W : hostKey(d) # hostKey(m)
  /\ staleOwnedDeleteVisibleRecord(m, visible) = {}
  /\ visibleByHostname(visible, hostKey(m)) # {}

LEMMA KeepsOf ==
  ASSUME NEW o, NEW W, NEW mine, Single(o, W, mine), NEW visible,
         NEW k \in PlannedKeeps(o, W, visible, mine) \cup PlannedRetains(o, W, visible, mine)
  PROVE  \/ \E d, m : /\ KeptFor(o, W, mine, visible, k.record, d, m)
                      /\ k.drops = Superseded(o, d, m)
         \/ Retained(W, mine, visible, k.record) /\ k.drops = {}
<1>1. CASE k \in PlannedKeeps(o, W, visible, mine)
  <2>1. PICK d \in W : \E m \in ownedRecord(o, d, mine) :
          /\ Decision(o, d, m, mine, visible) = "keep"
          /\ k = [record |-> ManagedFrom(o, d, m.provenance), drops |-> Superseded(o, d, m)]
    BY <1>1 DEF PlannedKeeps
  <2>2. PICK m \in ownedRecord(o, d, mine) :
          /\ Decision(o, d, m, mine, visible) = "keep"
          /\ k = [record |-> ManagedFrom(o, d, m.provenance), drops |-> Superseded(o, d, m)]
    BY <2>1
  <2> QED
    BY <2>2, OwnedOnHost DEF KeptFor
<1>2. CASE k \in PlannedRetains(o, W, visible, mine)
  <2>1. PICK m \in Unclaimed(o, W, mine) :
          /\ staleOwnedDeleteVisibleRecord(m, visible) = {}
          /\ shouldRetainManagedRecordWithoutProof(m, visible)
          /\ k = [record |-> m, drops |-> {}]
    BY <1>2 DEF PlannedRetains
  <2> QED
    BY <2>1, SingleUnclaimed DEF Retained, shouldRetainManagedRecordWithoutProof
<1> QED
  BY <1>1, <1>2

LEMMA KeepsHave ==
  ASSUME NEW o, NEW W, NEW mine, Single(o, W, mine), NEW visible
  PROVE  LET keeps == PlannedKeeps(o, W, visible, mine) \cup PlannedRetains(o, W, visible, mine)
         IN /\ \A r, d, m : KeptFor(o, W, mine, visible, r, d, m) =>
                 [record |-> r, drops |-> Superseded(o, d, m)] \in keeps
            /\ \A m : Retained(W, mine, visible, m) => [record |-> m, drops |-> {}] \in keeps
<1>1. ASSUME NEW r, NEW d, NEW m, KeptFor(o, W, mine, visible, r, d, m)
      PROVE  [record |-> r, drops |-> Superseded(o, d, m)] \in PlannedKeeps(o, W, visible, mine)
  <2>1. m \in ownedRecord(o, d, mine)
    BY <1>1, SingleOwned DEF KeptFor
  <2> QED
    BY <1>1, <2>1 DEF KeptFor, PlannedKeeps
<1>2. ASSUME NEW m, Retained(W, mine, visible, m)
      PROVE  [record |-> m, drops |-> {}] \in PlannedRetains(o, W, visible, mine)
  BY <1>2, SingleUnclaimed DEF Retained, PlannedRetains, shouldRetainManagedRecordWithoutProof
<1> QED
  BY <1>1, <1>2

\* What planning leaves in the snapshot of the output.
Left(o, W, mine, visible) ==
  {m \in mine :
     /\ \A d \in W : hostKey(d) = hostKey(m) => Decision(o, d, m, mine, visible) # "keep"
     /\ \/ \E d \in W : hostKey(d) = hostKey(m)
        \/ visibleByHostname(visible, hostKey(m)) # {}}
  \cup {ManagedFrom(o, p[1], p[2].provenance) :
          p \in {q \in W \X mine : /\ hostKey(q[2]) = hostKey(q[1])
                                   /\ Decision(o, q[1], q[2], mine, visible) = "keep"}}

(***************************************************************************)
(* With one record to a host no keep supersedes another, and the order in  *)
(* which Go walks its maps makes no difference.                            *)
(***************************************************************************)
LEMMA KeepsAgree ==
  ASSUME NEW o, NEW W, NEW mine, Single(o, W, mine), NEW visible,
         NEW kept \in KeepOutcomes(mine, PlannedDrops(o, W, visible, mine),
                                   PlannedKeeps(o, W, visible, mine)
                                     \cup PlannedRetains(o, W, visible, mine))
  PROVE  kept = Left(o, W, mine, visible)
<1> DEFINE keeps == PlannedKeeps(o, W, visible, mine) \cup PlannedRetains(o, W, visible, mine)
           drops == PlannedDrops(o, W, visible, mine)
           all == {k.record : k \in keeps}
           gone == Lineages(drops \cup Superseding(keeps)) \cup Lineages(all)
           rest == {m \in mine : managedRecordLineageKey(m) \notin gone}
<1>1. ASSUME NEW k \in keeps, NEW j \in keeps, NEW n \in j.drops,
             managedRecordLineageKey(k.record) = managedRecordLineageKey(n)
      PROVE  FALSE
  <2>1. PICK e, n2 : /\ KeptFor(o, W, mine, visible, j.record, e, n2)
                     /\ j.drops = Superseded(o, e, n2)
    BY <1>1, KeepsOf
  <2>2. /\ n = n2 /\ n \in mine /\ e \in W /\ hostKey(n) = hostKey(e)
        /\ managedRecordLineageKey(n) # desiredRecordLineageKey(o, e)
    BY <1>1, <2>1 DEF Superseded, KeptFor
  <2>3. hostKey(k.record) = hostKey(e)
    BY <1>1, <2>2, LineageHost
  <2>4. CASE Retained(W, mine, visible, k.record)
    BY <2>2, <2>3, <2>4 DEF Retained
  <2>5. CASE \E d, m : KeptFor(o, W, mine, visible, k.record, d, m)
    <3>1. PICK d, m : KeptFor(o, W, mine, visible, k.record, d, m)
      BY <2>5
    <3>2. /\ d \in W /\ hostKey(k.record) = hostKey(d)
          /\ managedRecordLineageKey(k.record) = desiredRecordLineageKey(o, d)
      BY <3>1, ManagedFromKeys DEF KeptFor
    <3>3. d = e
      BY <2>2, <2>3, <3>2 DEF Single
    <3> QED
      BY <1>1, <2>2, <3>2, <3>3
  <2> QED
    BY <2>4, <2>5, KeepsOf
<1>2. kept = rest \cup all
  <2>1. \A k \in keeps : managedRecordLineageKey(k.record) \notin Lineages(Superseding(keeps))
    BY <1>1 DEF Lineages, Superseding
  <2>2. {m \in all : managedRecordLineageKey(m) \in Lineages(Superseding(keeps))} = {}
    BY <2>1
  <2>3. PICK lost \in SUBSET {m \in all : managedRecordLineageKey(m)
                                            \in Lineages(Superseding(keeps))} :
          kept = rest \cup (all \ lost)
    BY DEF KeepOutcomes
  <2> QED
    BY <2>2, <2>3
<1>3. \A r : r \in all <=> \/ \E d, m : KeptFor(o, W, mine, visible, r, d, m)
                           \/ Retained(W, mine, visible, r)
  <2>1. ASSUME NEW r \in all
        PROVE  \/ \E d, m : KeptFor(o, W, mine, visible, r, d, m)
               \/ Retained(W, mine, visible, r)
    BY <2>1, KeepsOf
  <2>2. ASSUME NEW r, NEW d, NEW m, KeptFor(o, W, mine, visible, r, d, m)
        PROVE  r \in all
    <3>1. [record |-> r, drops |-> Superseded(o, d, m)] \in keeps
      BY <2>2, KeepsHave
    <3> HIDE DEF keeps
    <3> QED
      BY <3>1
  <2>3. ASSUME NEW r, Retained(W, mine, visible, r)
        PROVE  r \in all
    <3>1. [record |-> r, drops |-> {}] \in keeps
      BY <2>3, KeepsHave
    <3> HIDE DEF keeps
    <3> QED
      BY <3>1
  <2> QED
    BY <2>1, <2>2, <2>3
<1>4. \A m : m \in drops <=> /\ m \in mine
                             /\ \A d \in W : hostKey(d) # hostKey(m)
                             /\ staleOwnedDeleteVisibleRecord(m, visible) = {}
                             /\ visibleByHostname(visible, hostKey(m)) = {}
  BY SingleUnclaimed DEF PlannedDrops, shouldRetainManagedRecordWithoutProof
\* A record leaves the snapshot on account of one of its own host.
<1>5. ASSUME NEW m \in mine
      PROVE  managedRecordLineageKey(m) \in gone
               <=> \/ m \in drops
                   \/ Retained(W, mine, visible, m)
                   \/ \E d \in W : /\ hostKey(d) = hostKey(m)
                                   /\ Decision(o, d, m, mine, visible) = "keep"
  <2>1. ASSUME NEW n \in drops \cup all, managedRecordLineageKey(n) = managedRecordLineageKey(m)
        PROVE  \/ m \in drops
               \/ Retained(W, mine, visible, m)
               \/ \E d \in W : /\ hostKey(d) = hostKey(m)
                               /\ Decision(o, d, m, mine, visible) = "keep"
    <3>1. hostKey(n) = hostKey(m)
      BY <2>1, LineageHost
    <3>2. CASE n \in mine
      <4>1. n = m
        BY <3>1, <3>2 DEF Single
      <4>2. CASE n \in drops \/ Retained(W, mine, visible, n)
        BY <4>1, <4>2
      <4>3. CASE \E d, q : KeptFor(o, W, mine, visible, n, d, q)
        <5>1. PICK d, q : KeptFor(o, W, mine, visible, n, d, q)
          BY <4>3
        <5>2. hostKey(d) = hostKey(m) /\ hostKey(q) = hostKey(m) /\ q \in mine /\ d \in W
          BY <3>1, <5>1, ManagedFromKeys DEF KeptFor
        <5>3. q = m
          BY <5>2 DEF Single
        <5> QED
          BY <5>1, <5>2, <5>3 DEF KeptFor
      <4> QED
        BY <2>1, <1>3, <4>2, <4>3
    <3>3. CASE n \notin mine
      <4>1. PICK d, q : KeptFor(o, W, mine, visible, n, d, q)
        BY <2>1, <1>3, <1>4, <3>3 DEF Retained
      <4>2. hostKey(d) = hostKey(m) /\ hostKey(q) = hostKey(m) /\ q \in mine /\ d \in W
        BY <3>1, <4>1, ManagedFromKeys DEF KeptFor
      <4>3. q = m
        BY <4>2 DEF Single
      <4> QED
        BY <4>1, <4>2, <4>3 DEF KeptFor
    <3> QED
      BY <3>2, <3>3
  <2>2. ASSUME NEW j \in keeps, NEW n \in j.drops,
               managedRecordLineageKey(n) = managedRecordLineageKey(m)
        PROVE  \E d \in W : /\ hostKey(d) = hostKey(m)
                            /\ Decision(o, d, m, mine, visible) = "keep"
    <3>1. PICK d, q : /\ KeptFor(o, W, mine, visible, j.record, d, q)
                      /\ j.drops = Superseded(o, d, q)
      BY <2>2, KeepsOf
    <3>2. n = q /\ hostKey(n) = hostKey(m)
      BY <2>2, <3>1, LineageHost, SupersededSubset
    <3>3. q = m
      BY <3>1, <3>2 DEF Single, KeptFor
    <3> QED
      BY <3>1, <3>3 DEF KeptFor
  <2>3. ASSUME managedRecordLineageKey(m) \in gone
        PROVE  \/ \E n \in drops \cup all : managedRecordLineageKey(n) = managedRecordLineageKey(m)
               \/ \E j \in keeps : \E n \in j.drops :
                    managedRecordLineageKey(n) = managedRecordLineageKey(m)
    <3> HIDE DEF drops, all, keeps
    <3> QED
      BY <2>3 DEF Lineages, Superseding
  <2>4. ASSUME m \in drops \cup all
        PROVE  managedRecordLineageKey(m) \in gone
    BY <2>4 DEF Lineages
  <2>5. ASSUME NEW d \in W, hostKey(d) = hostKey(m),
               Decision(o, d, m, mine, visible) = "keep"
        PROVE  managedRecordLineageKey(m) \in gone
    <3> DEFINE r == ManagedFrom(o, d, m.provenance)
               k == [record |-> r, drops |-> Superseded(o, d, m)]
    <3>1. k \in keeps
      BY <2>5, KeepsHave DEF KeptFor
    <3>2. r \in all
      BY <2>5, <1>3 DEF KeptFor
    <3>3. managedRecordLineageKey(m) \in {managedRecordLineageKey(r)} \cup Lineages(k.drops)
      BY <2>5, SupersededHost, ManagedFromKeys
    <3> HIDE DEF keeps, all, drops, k, r
    <3> QED
      BY <3>1, <3>2, <3>3 DEF Lineages, Superseding
  <2> QED
    BY <2>1, <2>2, <2>3, <2>4, <2>5, <1>3
<1> HIDE DEF keeps, drops, all, gone
<1>6. \A n : n \in kept => n \in Left(o, W, mine, visible)
  <2>1. ASSUME NEW n \in rest PROVE n \in Left(o, W, mine, visible)
    BY <1>4, <1>5, StaleHost DEF Left, Retained, visibleByHostname
  <2>2. ASSUME NEW n, Retained(W, mine, visible, n) PROVE n \in Left(o, W, mine, visible)
    BY <2>2 DEF Left, Retained
  <2>3. ASSUME NEW n, NEW d, NEW m, KeptFor(o, W, mine, visible, n, d, m)
        PROVE  n \in Left(o, W, mine, visible)
    <3>1. <<d, m>> \in W \X mine
      BY <2>3 DEF KeptFor
    <3> QED
      BY <2>3, <3>1 DEF Left, KeptFor
  <2> QED
    BY <1>2, <1>3, <2>1, <2>2, <2>3
<1>7. \A n : n \in Left(o, W, mine, visible) => n \in kept
  <2>1. ASSUME NEW n \in mine,
               \A d \in W : hostKey(d) = hostKey(n) => Decision(o, d, n, mine, visible) # "keep",
               \/ \E d \in W : hostKey(d) = hostKey(n)
               \/ visibleByHostname(visible, hostKey(n)) # {}
        PROVE  n \in kept
    BY <2>1, <1>2, <1>3, <1>4, <1>5
  <2>2. ASSUME NEW d \in W, NEW m \in mine, hostKey(m) = hostKey(d),
               Decision(o, d, m, mine, visible) = "keep"
        PROVE  ManagedFrom(o, d, m.provenance) \in kept
    BY <2>2, <1>2, <1>3 DEF KeptFor
  <2> QED
    BY <2>1, <2>2 DEF Left
<1> QED
  BY <1>6, <1>7

\* On every host at most one record is left, of the record that was there.
LEMMA LeftOnHost ==
  ASSUME NEW o, NEW W, NEW mine, Single(o, W, mine), NEW visible
  PROVE  LET left == Left(o, W, mine, visible)
         IN /\ \A d \in W, m \in mine : hostKey(m) = hostKey(d) =>
                 \A n : n \in left /\ hostKey(n) = hostKey(d)
                          <=> n = IF Decision(o, d, m, mine, visible) = "keep"
                                  THEN ManagedFrom(o, d, m.provenance) ELSE m
            /\ \A m \in mine : (\A d \in W : hostKey(d) # hostKey(m)) =>
                 /\ \A n \in left : hostKey(n) = hostKey(m) => n = m
                 /\ visibleByHostname(visible, hostKey(m)) # {} => m \in left
            /\ \A n \in left : n.output = o /\ \E m \in mine : hostKey(m) = hostKey(n)
<1> DEFINE left == Left(o, W, mine, visible)
           made == {ManagedFrom(o, p[1], p[2].provenance) :
                      p \in {q \in W \X mine :
                               /\ hostKey(q[2]) = hostKey(q[1])
                               /\ Decision(o, q[1], q[2], mine, visible) = "keep"}}
<1>1. \A n \in left : n \in mine \/ n \in made
  BY DEF Left
<1>2. \A n \in made : \E d \in W, m \in mine :
         /\ hostKey(m) = hostKey(d)
         /\ Decision(o, d, m, mine, visible) = "keep"
         /\ n = ManagedFrom(o, d, m.provenance)
         /\ hostKey(n) = hostKey(d)
         /\ n.output = o
  BY ManagedFromKeys
<1>3. \A d \in W, m \in mine :
        hostKey(m) = hostKey(d) /\ Decision(o, d, m, mine, visible) = "keep"
          => ManagedFrom(o, d, m.provenance) \in left
  <2> SUFFICES ASSUME NEW d \in W, NEW m \in mine, hostKey(m) = hostKey(d),
                      Decision(o, d, m, mine, visible) = "keep"
               PROVE  ManagedFrom(o, d, m.provenance) \in made
    BY DEF Left
  <2>1. <<d, m>> \in W \X mine
    OBVIOUS
  <2> QED
    BY <2>1
<1>4. \A m \in mine : m \in left <=>
        \/ m \in made
        \/ /\ \A d \in W : hostKey(d) = hostKey(m) => Decision(o, d, m, mine, visible) # "keep"
           /\ \/ \E d \in W : hostKey(d) = hostKey(m)
              \/ visibleByHostname(visible, hostKey(m)) # {}
  BY DEF Left
<1> HIDE DEF left, made
<1>5. ASSUME NEW d \in W, NEW m \in mine, hostKey(m) = hostKey(d), NEW n
      PROVE  n \in left /\ hostKey(n) = hostKey(d)
                <=> n = IF Decision(o, d, m, mine, visible) = "keep"
                        THEN ManagedFrom(o, d, m.provenance) ELSE m
  <2>1. CASE Decision(o, d, m, mine, visible) = "keep"
    <3>1. ASSUME n \in left, hostKey(n) = hostKey(d)
          PROVE  n = ManagedFrom(o, d, m.provenance)
      <4>1. n \in made
        <5>1. n \in mine => n = m
          BY <3>1, <1>5 DEF Single
        <5> QED
          BY <2>1, <3>1, <5>1, <1>1, <1>4, <1>5
      <4>2. PICK e \in W, q \in mine : /\ hostKey(q) = hostKey(e)
                                       /\ n = ManagedFrom(o, e, q.provenance)
                                       /\ hostKey(n) = hostKey(e)
        BY <1>2, <4>1
      <4>3. e = d /\ q = m
        BY <4>2, <3>1, <1>5 DEF Single
      <4> QED
        BY <4>2, <4>3
    <3> QED
      BY <2>1, <3>1, <1>3, <1>5, ManagedFromKeys
  <2>2. CASE Decision(o, d, m, mine, visible) # "keep"
    <3>1. ASSUME NEW q \in made, hostKey(q) = hostKey(d)
          PROVE  FALSE
      <4>1. PICK e \in W, p \in mine : /\ hostKey(p) = hostKey(e)
                                       /\ Decision(o, e, p, mine, visible) = "keep"
                                       /\ hostKey(q) = hostKey(e)
        BY <1>2
      <4>2. e = d /\ p = m
        BY <4>1, <3>1, <1>5 DEF Single
      <4> QED
        BY <4>1, <4>2, <2>2
    <3>2. ASSUME n \in left, hostKey(n) = hostKey(d)
          PROVE  n = m
      BY <3>1, <3>2, <1>1, <1>5 DEF Single
    <3>3. m \in left
      <4>1. \A e \in W : hostKey(e) = hostKey(m) => e = d
        BY <1>5 DEF Single
      <4> QED
        BY <2>2, <4>1, <1>4, <1>5
    <3> QED
      BY <2>2, <3>2, <3>3, <1>5
  <2> QED
    BY <2>1, <2>2
<1>6. ASSUME NEW m \in mine, \A d \in W : hostKey(d) # hostKey(m)
      PROVE  /\ \A n \in left : hostKey(n) = hostKey(m) => n = m
             /\ visibleByHostname(visible, hostKey(m)) # {} => m \in left
  <2>1. ASSUME NEW n \in left, hostKey(n) = hostKey(m)
        PROVE  n = m
    BY <2>1, <1>1, <1>2, <1>6 DEF Single
  <2> QED
    BY <2>1, <1>4, <1>6
<1>7. ASSUME NEW n \in left
      PROVE  n.output = o /\ \E m \in mine : hostKey(m) = hostKey(n)
  BY <1>1, <1>2 DEF Single
<1> QED
  BY <1>5, <1>6, <1>7 DEF left

LEMMA LeftOneManaged ==
  ASSUME NEW o, NEW W, NEW mine, Single(o, W, mine), NEW visible
  PROVE  OneManaged(Left(o, W, mine, visible))
<1> DEFINE left == Left(o, W, mine, visible)
<1> SUFFICES ASSUME NEW m \in left, NEW n \in left, hostKey(m) = hostKey(n)
             PROVE  m = n
  BY DEF OneManaged
<1>1. PICK q \in mine : hostKey(q) = hostKey(m)
  BY LeftOnHost
<1>2. CASE \E d \in W : hostKey(d) = hostKey(q)
  BY <1>1, <1>2, LeftOnHost
<1>3. CASE \A d \in W : hostKey(d) # hostKey(q)
  BY <1>1, <1>3, LeftOnHost
<1> QED
  BY <1>2, <1>3

-----------------------------------------------------------------------------
(* The steps of a pass, unfolded once *)

LEMMA SingleHere ==
  ASSUME IInv, SingleInv, NEW o \in Outputs
  PROVE  Single(o, filterDesiredForOutput(desired, o), ForOutput(store, o))
<1>1. filterDesiredForOutput(desired, o) \in SUBSET DesiredRecords
  BY FilterSubset DEF IInv, TypeOK, PassOK
<1>2. ForOutput(store, o) \in SUBSET ManagedRecords
  BY DEF ForOutput, IInv, TypeOK, OutsideOK
<1>3. \A d, e \in filterDesiredForOutput(desired, o) : hostKey(d) = hostKey(e) => d = e
  BY DEF SingleInv, OneDesired
<1> QED
  BY <1>1, <1>2, <1>3 DEF Single, ForOutput, SingleInv, OneManaged

LEMMA PlanStep ==
  ASSUME IInv, SingleInv, Plan
  PROVE  LET W       == filterDesiredForOutput(desired, Here)
             mine    == ForOutput(store, Here)
             visible == ListOutcome(Here)
         IN /\ Here \in Outputs /\ Here' = Here
            /\ Single(Here, W, mine)
            /\ pc = "outputs" /\ pc' = "mutate"
            /\ todo'.creates = PlannedCreates(Here, W, visible, mine)
            /\ todo'.updates = PlannedUpdates(Here, W, visible, mine)
            /\ todo'.deletes = PlannedDeletes(Here, W, visible, mine)
            /\ records' = (store \ mine) \cup Left(Here, W, mine, visible)
            /\ owned = store
            /\ UNCHANGED <<running, remote, store, owned, desired, next, progressed,
                           failure, watching, hint, missed, stormy>>
<1> DEFINE W == filterDesiredForOutput(desired, Here)
           mine == ForOutput(store, Here)
           visible == ListOutcome(Here)
           plan == buildReconcilePlan(Here, W, visible, mine)
<1>1. Here \in Outputs
  BY HereType DEF Plan, IInv
<1>2. Single(Here, W, mine)
  BY <1>1, SingleHere
<1>3. owned = store
  BY DEF Plan, IInv, InMemoryMatchesStore
<1>4. /\ todo' = [creates |-> plan.creates, updates |-> plan.updates, deletes |-> plan.deletes]
      /\ \E kept \in KeepOutcomes(mine, plan.drops, plan.keeps) :
            records' = (store \ mine) \cup kept
      /\ pc = "outputs" /\ pc' = "mutate"
      /\ UNCHANGED <<running, remote, store, owned, desired, next, progressed,
                     failure, watching, hint, missed, stormy>>
  BY <1>3 DEF Plan
<1> HIDE DEF W, mine, visible
<1>5. plan = [creates |-> PlannedCreates(Here, W, visible, mine),
              updates |-> PlannedUpdates(Here, W, visible, mine),
              deletes |-> PlannedDeletes(Here, W, visible, mine),
              drops   |-> PlannedDrops(Here, W, visible, mine),
              keeps   |-> PlannedKeeps(Here, W, visible, mine)
                            \cup PlannedRetains(Here, W, visible, mine)]
  BY <1>2, SinglePlan
<1> HIDE DEF plan
<1>6. \A kept \in KeepOutcomes(mine, plan.drops, plan.keeps) :
        kept = Left(Here, W, mine, visible)
  BY <1>2, <1>5, KeepsAgree
<1>7. Here' = Here
  BY <1>4 DEF Here
<1> QED
  BY <1>1, <1>2, <1>3, <1>4, <1>5, <1>6, <1>7 DEF W, mine, visible

\* A mutation was accepted and is on the record.
Progress(creates, updates, deletes, recs) ==
  /\ todo'.creates = creates /\ todo'.updates = updates /\ todo'.deletes = deletes
  /\ records' = recs
  /\ progressed' = TRUE
  /\ UNCHANGED <<pc, owned, desired, next, failure>>

LEMMA CreateStep ==
  ASSUME IInv, Create
  PROVE  \E t \in todo.creates : \E x \in CreateOutcomes(Here, t.to) :
           /\ pc = "mutate" /\ FreshIds # {}
           /\ t.to \in DesiredRecords
           /\ x \in Outcomes
           /\ Called(x)
           /\ \/ MutationFails(x)
              \/ /\ ~Fails(x)
                 /\ Progress(todo.creates \ {t}, todo.updates, todo.deletes,
                             Record(records, ManagedFrom(Here, t.to, x.provenance), t.drops))
<1>a. PICK t \in FirstCreates : \E x \in CreateOutcomes(Here, t.to) :
        \/ MutationFails(x)
        \/ /\ MutationDone(x, ManagedFrom(Here, t.to, x.provenance), t.drops)
           /\ todo' = [todo EXCEPT !.creates = @ \ {t}]
  BY DEF Create
<1>1. PICK x \in CreateOutcomes(Here, t.to) :
        \/ MutationFails(x)
        \/ /\ MutationDone(x, ManagedFrom(Here, t.to, x.provenance), t.drops)
           /\ todo' = [todo EXCEPT !.creates = @ \ {t}]
  BY <1>a
<1>2. pc = "mutate" /\ FreshIds # {}
  BY DEF Create
<1>3. t \in todo.creates /\ t.to \in DesiredRecords /\ todo \in Tasks
  BY DEF FirstCreates, IInv, TypeOK, PassOK, Tasks
<1>4. x \in Outcomes
  BY <1>2, <1>3, CreateCall
<1>5. Called(x)
  BY <1>1, MutationCalled
<1>6. CASE MutationFails(x)
  BY <1>1, <1>2, <1>3, <1>4, <1>5, <1>6
<1>7. CASE /\ MutationDone(x, ManagedFrom(Here, t.to, x.provenance), t.drops)
           /\ todo' = [todo EXCEPT !.creates = @ \ {t}]
  <2>1. /\ todo'.creates = todo.creates \ {t}
        /\ todo'.updates = todo.updates /\ todo'.deletes = todo.deletes
    BY <1>3, <1>7 DEF Tasks
  <2>2. /\ ~Fails(x)
        /\ Progress(todo.creates \ {t}, todo.updates, todo.deletes,
                    Record(records, ManagedFrom(Here, t.to, x.provenance), t.drops))
    BY <1>7, <2>1 DEF MutationDone, Progress
  <2> QED
    BY <1>2, <1>3, <1>4, <1>5, <2>2
<1> QED
  BY <1>1, <1>6, <1>7

LEMMA UpdateStep ==
  ASSUME IInv, Update
  PROVE  \E t \in todo.updates : \E x \in UpdateOutcomes(Here, t.from, t.to) :
           /\ pc = "mutate"
           /\ todo.creates = {}
           /\ t.to \in DesiredRecords /\ t.from \in VisibleRecords
           /\ x \in Outcomes
           /\ Called(x)
           /\ \/ MutationFails(x)
              \/ /\ ~Fails(x)
                 /\ Progress(todo.creates, todo.updates \ {t}, todo.deletes,
                             Record(records,
                                    ManagedFrom(Here, t.to,
                                                nextManagedProvenance(x.provenance,
                                                                      t.from.provenance)),
                                    t.drops))
<1> DEFINE m(t, x) ==
      ManagedFrom(Here, t.to, nextManagedProvenance(x.provenance, t.from.provenance))
<1>a. PICK t \in FirstUpdates : \E x \in UpdateOutcomes(Here, t.from, t.to) :
        \/ MutationFails(x)
        \/ MutationDone(x, m(t, x), t.drops) /\ todo' = [todo EXCEPT !.updates = @ \ {t}]
  BY DEF Update
<1>1. PICK x \in UpdateOutcomes(Here, t.from, t.to) :
        \/ MutationFails(x)
        \/ MutationDone(x, m(t, x), t.drops) /\ todo' = [todo EXCEPT !.updates = @ \ {t}]
  BY <1>a
<1>2. pc = "mutate" /\ todo.creates = {}
  BY DEF Update
<1>3. /\ t \in todo.updates /\ t.to \in DesiredRecords /\ t.from \in VisibleRecords
      /\ todo \in Tasks
  BY DEF FirstUpdates, IInv, TypeOK, PassOK, Tasks
<1>4. x \in Outcomes
  BY <1>2, <1>3, UpdateCall
<1>5. Called(x)
  BY <1>1, MutationCalled
<1>6. CASE MutationFails(x)
  BY <1>1, <1>2, <1>3, <1>4, <1>5, <1>6
<1>7. CASE MutationDone(x, m(t, x), t.drops) /\ todo' = [todo EXCEPT !.updates = @ \ {t}]
  <2>1. /\ todo'.updates = todo.updates \ {t}
        /\ todo'.creates = todo.creates /\ todo'.deletes = todo.deletes
    BY <1>3, <1>7 DEF Tasks
  <2>2. /\ ~Fails(x)
        /\ Progress(todo.creates, todo.updates \ {t}, todo.deletes,
                    Record(records, m(t, x), t.drops))
    BY <1>7, <2>1 DEF MutationDone, Progress
  <2> QED
    BY <1>2, <1>3, <1>4, <1>5, <2>2
<1> QED
  BY <1>1, <1>6, <1>7

LEMMA DeleteStep ==
  ASSUME IInv, Delete
  PROVE  \E t \in todo.deletes : \E x \in DeleteOutcomes(Here, t.visible) :
           /\ pc = "mutate"
           /\ todo.creates = {} /\ todo.updates = {}
           /\ t.visible \in VisibleRecords /\ t.managed \in ManagedRecords
           /\ t.managed.output = Here
           /\ t.visible.provenance = t.managed.provenance
           /\ Kind[Here] = "cloudflare"
           /\ x \in Outcomes
           /\ Called(x)
           /\ \/ MutationFails(x)
              \/ /\ ~Fails(x)
                 /\ Progress(todo.creates, todo.updates, todo.deletes \ {t},
                             {m \in records : managedRecordLineageKey(m)
                                                # managedRecordLineageKey(t.managed)})
<1>a. PICK t \in FirstDeletes : \E x \in DeleteOutcomes(Here, t.visible) :
        \/ MutationFails(x)
        \/ /\ ~Fails(x)
           /\ Called(x)
           /\ records' = {m \in records : managedRecordLineageKey(m)
                                            # managedRecordLineageKey(t.managed)}
           /\ progressed' = TRUE
           /\ todo' = [todo EXCEPT !.deletes = @ \ {t}]
           /\ UNCHANGED <<pc, owned, desired, next, listed, failure>>
  BY DEF Delete
<1>1. PICK x \in DeleteOutcomes(Here, t.visible) :
        \/ MutationFails(x)
        \/ /\ ~Fails(x)
           /\ Called(x)
           /\ records' = {m \in records : managedRecordLineageKey(m)
                                            # managedRecordLineageKey(t.managed)}
           /\ progressed' = TRUE
           /\ todo' = [todo EXCEPT !.deletes = @ \ {t}]
           /\ UNCHANGED <<pc, owned, desired, next, listed, failure>>
  BY <1>a
<1>2. pc = "mutate" /\ todo.creates = {} /\ todo.updates = {}
  BY DEF Delete
<1>3. /\ t \in todo.deletes /\ t.visible \in VisibleRecords /\ t.managed \in ManagedRecords
      /\ t.managed.output = Here /\ t.visible.provenance = t.managed.provenance
      /\ Kind[Here] = "cloudflare"
      /\ todo \in Tasks
  BY DEF FirstDeletes, IInv, TypeOK, PassOK, Tasks, PendingOK
<1>4. x \in Outcomes
  BY <1>2, <1>3, DeleteCall
<1>5. Called(x)
  BY <1>1, MutationCalled
<1>6. CASE MutationFails(x)
  BY <1>1, <1>2, <1>3, <1>4, <1>5, <1>6
<1>7. CASE ~MutationFails(x)
  <2>1. /\ todo'.deletes = todo.deletes \ {t}
        /\ todo'.creates = todo.creates /\ todo'.updates = todo.updates
    BY <1>1, <1>3, <1>7 DEF Tasks
  <2>2. /\ ~Fails(x)
        /\ Progress(todo.creates, todo.updates, todo.deletes \ {t},
                    {m \in records : managedRecordLineageKey(m)
                                       # managedRecordLineageKey(t.managed)})
    BY <1>1, <1>7, <2>1 DEF Progress
  <2> QED
    BY <1>2, <1>3, <1>4, <1>5, <2>2
<1> QED
  BY <1>6, <1>7

-----------------------------------------------------------------------------
(* One claim to a host *)

LEMMA PublishedBy ==
  ASSUME NEW S, NEW s, NEW d \in Published(S, s)
  PROVE  d.source.provider = s
BY DEF Published

LEMMA IsClaim ==
  ASSUME NEW S, NEW s \in Sources, NEW d \in Published(S, s), NEW o,
         d \in filterDesiredForOutput({d}, o)
  PROVE  d \in Claims(S, o)
BY DEF Claims, filterDesiredForOutput

\* Steps that make no task and end no listing.
LEMMA SingleFrame ==
  ASSUME SingleInv, desired' \in {desired, {}}, records' \in {records, {}},
         store' \in {store, records}, pc' # "mutate",
         pc' \in {"sources", "down", "load", "failed", "idle"} => desired' = {},
         pc' # "savePartial" => records' = {}
  PROVE  SingleInv'
<1>1. OneManaged(store)' /\ OneManaged(records)'
  BY DEF SingleInv, OneManaged
<1>2. OneDesired'
  BY DEF SingleInv, OneDesired, filterDesiredForOutput
<1>3. DesiredPublished'
  BY DEF SingleInv, DesiredPublished
<1> QED
  BY <1>1, <1>2, <1>3 DEF SingleInv

LEMMA ListDesiredSingle ==
  ASSUME SingleClaims, IInv, SingleInv, ListDesired
  PROVE  SingleInv'
<1> DEFINE source == SourceOrder[next]
           heard == Published(running, source)
<1>1. /\ pc = "sources" /\ next \in 1..Len(SourceOrder) /\ running \in Deployments
      /\ source \in Sources
  BY DEF ListDesired, IInv, TypeOK, PlaceOK, OutsideOK, Sources
<1>2. desired' = desired \cup heard /\ records' = records /\ store' = store
      /\ pc' # "mutate" /\ pc' \in {"sources", "outputs"}
      /\ (pc' = "sources" => next' = next + 1)
  BY DEF ListDesired
<1>3. \A d \in desired : d.source.provider # source
  BY <1>1 DEF SingleInv, DesiredPublished
<1>4. \A d \in heard : d.source.provider = source
  BY PublishedBy
<1>5. \A d \in desired' : \E S \in Deployments, s \in Sources : d \in Published(S, s)
  BY <1>1, <1>2 DEF SingleInv, DesiredPublished
<1>6. DesiredPublished'
  <2>1. ASSUME pc' = "sources", NEW d \in desired', NEW i \in 1..Len(SourceOrder), i >= next'
        PROVE  d.source.provider # SourceOrder[i]
    <3>1. i >= next /\ i # next
      BY <2>1, <1>1, <1>2
    <3>2. CASE d \in desired
      BY <3>1, <3>2, <1>1 DEF SingleInv, DesiredPublished
    <3>3. CASE d \in heard
      BY <3>1, <3>3, <1>1, <1>4, OrderAssumption
    <3> QED
      BY <3>2, <3>3, <1>2
  <2>2. records' = {}
    BY <1>1, <1>2 DEF SingleInv, DesiredPublished
  <2> QED
    BY <1>2, <1>5, <2>1, <2>2 DEF DesiredPublished
<1>7. OneDesired'
  <2> SUFFICES ASSUME NEW o \in Outputs, NEW d \in filterDesiredForOutput(desired', o),
                      NEW e \in filterDesiredForOutput(desired', o), hostKey(d) = hostKey(e)
               PROVE  d = e
    BY DEF OneDesired
  <2>1. d \in desired' /\ e \in desired'
        /\ d \in filterDesiredForOutput({d}, o) /\ e \in filterDesiredForOutput({e}, o)
    BY DEF filterDesiredForOutput
  <2>2. CASE d \in desired /\ e \in desired
    BY <2>2 DEF SingleInv, OneDesired, filterDesiredForOutput
  <2>3. CASE d \in heard /\ e \in heard
    <3>1. d \in Claims(running, o) /\ e \in Claims(running, o)
      BY <1>1, <2>1, <2>3, IsClaim
    <3> QED
      BY <3>1, <1>1 DEF SingleClaims
  <2>4. ASSUME NEW a \in desired, NEW b \in heard, hostKey(a) = hostKey(b),
               a \in filterDesiredForOutput({a}, o), b \in filterDesiredForOutput({b}, o)
        PROVE  FALSE
    <3>1. PICK S \in Deployments, s \in Sources : a \in Published(S, s)
      BY DEF SingleInv, DesiredPublished
    <3>2. a \in Claims(S, o) /\ b \in Claims(running, o)
      BY <1>1, <2>4, <3>1, IsClaim
    <3>3. a.source.provider = b.source.provider
      BY <1>1, <2>4, <3>2 DEF SingleClaims
    <3> QED
      BY <1>3, <1>4, <3>3
  <2> QED
    BY <1>2, <2>1, <2>2, <2>3, <2>4
<1> QED
  BY <1>2, <1>6, <1>7 DEF SingleInv, OneManaged

LEMMA PlanSingle ==
  ASSUME IInv, SingleInv, Plan
  PROVE  SingleInv'
<1> DEFINE W == filterDesiredForOutput(desired, Here)
           mine == ForOutput(store, Here)
           visible == ListOutcome(Here)
           left == Left(Here, W, mine, visible)
<1>1. /\ Here \in Outputs /\ Here' = Here
      /\ Single(Here, W, mine)
      /\ pc = "outputs" /\ pc' = "mutate"
      /\ todo'.creates = PlannedCreates(Here, W, visible, mine)
      /\ todo'.updates = PlannedUpdates(Here, W, visible, mine)
      /\ todo'.deletes = PlannedDeletes(Here, W, visible, mine)
      /\ records' = (store \ mine) \cup left
      /\ store' = store /\ desired' = desired /\ next' = next
  BY PlanStep
<1>2. W' = W
  BY <1>1
<1>3. \A n \in left : n.output = Here
  BY <1>1, LeftOnHost
<1>4. ForOutput(records', Here) = left
  BY <1>1, <1>3 DEF ForOutput
<1>5. OneManaged(records')
  <2>1. OneManaged(left)
    BY <1>1, LeftOneManaged
  <2>2. \A m \in store \ mine : m.output # Here
    BY DEF ForOutput
  <2>3. OneManaged(store)
    BY DEF SingleInv
  <2> HIDE DEF left, mine
  <2> QED
    BY <1>1, <1>3, <2>1, <2>2, <2>3 DEF OneManaged
<1> HIDE DEF left
<1>6. ASSUME NEW t, t.to \in W,
             \/ t.drops = {} /\ \A m \in mine : hostKey(m) # hostKey(t.to)
             \/ \E m \in mine : /\ hostKey(m) = hostKey(t.to)
                                /\ Decision(Here, t.to, m, mine, visible) # "keep"
                                /\ t.drops = Superseded(Here, t.to, m)
      PROVE  TaskOK(t)'
  <2>1. t.to \in W'
    BY <1>2, <1>6
  <2>2. \A n \in t.drops : hostKey(n) = hostKey(t.to)
    BY <1>6, SupersededSubset
  <2>3. ASSUME NEW n \in left, hostKey(n) = hostKey(t.to)
        PROVE  managedRecordLineageKey(n)
                 \in {desiredRecordLineageKey(Here, t.to)} \cup Lineages(t.drops)
    <3>1. \E m \in mine : hostKey(m) = hostKey(t.to)
      BY <1>1, <2>3, LeftOnHost DEF left
    <3>2. PICK m \in mine : /\ hostKey(m) = hostKey(t.to)
                            /\ Decision(Here, t.to, m, mine, visible) # "keep"
                            /\ t.drops = Superseded(Here, t.to, m)
      BY <1>6, <3>1
    <3>3. n = m
      BY <1>1, <1>6, <2>3, <3>2, LeftOnHost DEF left
    <3> QED
      BY <3>2, <3>3, SupersededHost
  <2> QED
    BY <1>1, <1>4, <2>1, <2>2, <2>3 DEF TaskOK
<1>7. \A t \in todo'.creates : TaskOK(t)'
  <2> SUFFICES ASSUME NEW t \in PlannedCreates(Here, W, visible, mine)
               PROVE  TaskOK(t)'
    BY <1>1
  <2>1. t.to \in W
    BY <1>1, CreatesOf
  <2>2. \/ t.drops = {} /\ \A m \in mine : hostKey(m) # hostKey(t.to)
        \/ \E m \in mine : /\ hostKey(m) = hostKey(t.to)
                           /\ Decision(Here, t.to, m, mine, visible) = "create"
                           /\ t.drops = Superseded(Here, t.to, m)
    <3> DEFINE tail == /\ t = [to |-> t.to, drops |-> {}]
                       /\ \A m \in mine : hostKey(m) # hostKey(t.to)
    <3>1. \/ tail
          \/ \E m \in mine : /\ hostKey(m) = hostKey(t.to)
                             /\ Decision(Here, t.to, m, mine, visible) = "create"
                             /\ t = [to |-> t.to, drops |-> Superseded(Here, t.to, m)]
      BY <1>1, CreatesOf
    <3>2. CASE tail
      BY <3>2
    <3>3. ASSUME NEW m \in mine, t = [to |-> t.to, drops |-> Superseded(Here, t.to, m)]
          PROVE  t.drops = Superseded(Here, t.to, m)
      BY <3>3
    <3> QED
      BY <3>1, <3>2, <3>3
  <2>3. "create" # "keep"
    OBVIOUS
  <2> HIDE DEF W, mine, visible
  <2> QED
    BY <1>6, <2>1, <2>2, <2>3
<1>8. \A t \in todo'.updates : TaskOK(t)' /\ hostKey(t.from) = hostKey(t.to)
  <2> SUFFICES ASSUME NEW t \in PlannedUpdates(Here, W, visible, mine)
               PROVE  TaskOK(t)' /\ hostKey(t.from) = hostKey(t.to)
    BY <1>1
  <2>1. /\ t.to \in W
        /\ hostKey(t.from) = hostKey(t.to)
        /\ \E m \in mine :
             /\ hostKey(m) = hostKey(t.to)
             /\ Decision(Here, t.to, m, mine, visible) = "update"
             /\ t.drops = Superseded(Here, t.to, m)
    BY <1>1, UpdatesOf
  <2>2. "update" # "keep"
    OBVIOUS
  <2> HIDE DEF W, mine, visible
  <2> QED
    BY <1>6, <2>1, <2>2
<1>9. \A t \in todo'.deletes : DeleteOK(t)'
  <2> SUFFICES ASSUME NEW t \in PlannedDeletes(Here, W, visible, mine)
               PROVE  DeleteOK(t)'
    BY <1>1
  <2>1. /\ \A d \in W : hostKey(d) # hostKey(t.managed)
        /\ t.visible \in staleOwnedDeleteVisibleRecord(t.managed, visible)
    BY <1>1, DeletesOf
  <2> QED
    BY <1>1, <2>1, StaleHost DEF DeleteOK
<1>10. DesiredPublished' /\ OneDesired' /\ OneManaged(store')
  BY <1>1 DEF SingleInv, DesiredPublished, OneDesired
<1> QED
  BY <1>5, <1>7, <1>8, <1>9, <1>10 DEF SingleInv

LEMMA FailedSingle ==
  ASSUME SingleInv, pc = "mutate", NEW x, MutationFails(x)
  PROVE  SingleInv'
BY SingleFrame DEF MutationFails, FailPass, Called

\* Recording a task empties its host but for the task's own record.
LEMMA RecordOnHost ==
  ASSUME NEW S, NEW o, NEW d, NEW p, NEW drops, \A n \in drops : hostKey(n) = hostKey(d),
         \A n \in ForOutput(S, o) : hostKey(n) = hostKey(d) =>
           managedRecordLineageKey(n) \in {desiredRecordLineageKey(o, d)} \cup Lineages(drops)
  PROVE  /\ ManagedFrom(o, d, p) \in Record(S, ManagedFrom(o, d, p), drops)
         /\ \A n \in Record(S, ManagedFrom(o, d, p), drops) :
              \/ n = ManagedFrom(o, d, p)
              \/ n \in S /\ (n.output = o => hostKey(n) # hostKey(d))
         /\ \A n \in S : hostKey(n) # hostKey(d) => n \in Record(S, ManagedFrom(o, d, p), drops)
<1> DEFINE m == ManagedFrom(o, d, p)
<1>1. Lineages(drops \cup {m}) = Lineages(drops) \cup {desiredRecordLineageKey(o, d)}
  BY ManagedFromKeys DEF Lineages
<1>2. ASSUME NEW n \in S, n.output = o, hostKey(n) = hostKey(d),
             managedRecordLineageKey(n) \notin Lineages(drops \cup {m})
      PROVE  FALSE
  BY <1>1, <1>2 DEF ForOutput
<1>3. ASSUME NEW n \in S, hostKey(n) # hostKey(d)
      PROVE  managedRecordLineageKey(n) \notin Lineages(drops \cup {m})
  <2>1. \A q \in drops \cup {m} : hostKey(q) = hostKey(d)
    BY ManagedFromKeys
  <2> QED
    BY <1>3, <2>1, LineageHost DEF Lineages
<1> HIDE DEF m
<1>4. /\ m \in Record(S, m, drops)
      /\ \A n \in Record(S, m, drops) :
              \/ n = m
              \/ n \in S /\ (n.output = o => hostKey(n) # hostKey(d))
      /\ \A n \in S : hostKey(n) # hostKey(d) => n \in Record(S, m, drops)
  BY <1>2, <1>3 DEF Record
<1> QED
  BY <1>4 DEF m

\* A created or updated record takes the place of any other of its host.
LEMMA TaskSingle ==
  ASSUME IInv, SingleInv, pc = "mutate", NEW t \in todo.creates \cup todo.updates,
         NEW p, NEW creates \in SUBSET todo.creates, NEW updates \in SUBSET todo.updates,
         Progress(creates, updates, todo.deletes,
                  Record(records, ManagedFrom(Here, t.to, p), t.drops)),
         store' = store
  PROVE  SingleInv'
<1> DEFINE m == ManagedFrom(Here, t.to, p)
<1>1. TaskOK(t)
  BY DEF SingleInv
<1>2. /\ records' = Record(records, m, t.drops) /\ Here' = Here
      /\ pc' = "mutate" /\ desired' = desired
      /\ todo'.creates \subseteq todo.creates
      /\ todo'.updates \subseteq todo.updates
      /\ todo'.deletes = todo.deletes
  BY DEF Progress, Here
<1>3. /\ \A n \in records' :
              \/ n = m
              \/ n \in records /\ (n.output = Here => hostKey(n) # hostKey(t.to))
      /\ m.output = Here /\ hostKey(m) = hostKey(t.to)
      /\ managedRecordLineageKey(m) = desiredRecordLineageKey(Here, t.to)
  BY <1>1, <1>2, RecordOnHost, ManagedFromKeys DEF TaskOK
<1> HIDE DEF m
<1>4. OneManaged(records')
  BY <1>3 DEF SingleInv, OneManaged
<1>5. ASSUME NEW u \in todo'.creates \cup todo'.updates
      PROVE  TaskOK(u)'
  <2>1. TaskOK(u)
    BY <1>2 DEF SingleInv
  <2>2. Here \in Outputs
    BY Mutating
  <2>3. ASSUME NEW n \in ForOutput(records', Here), hostKey(n) = hostKey(u.to)
        PROVE  managedRecordLineageKey(n)
                 \in {desiredRecordLineageKey(Here, u.to)} \cup Lineages(u.drops)
    <3>1. CASE n = m
      <4>1. u.to = t.to
        BY <1>1, <1>3, <2>1, <2>2, <2>3, <3>1 DEF TaskOK, SingleInv, OneDesired
      <4> QED
        BY <1>3, <3>1, <4>1
    <3>2. CASE n # m
      BY <1>3, <2>1, <2>3, <3>2 DEF TaskOK, ForOutput
    <3> QED
      BY <3>1, <3>2
  <2> QED
    BY <1>2, <2>1, <2>3 DEF TaskOK
<1>6. \A u \in todo'.deletes : DeleteOK(u)'
  BY <1>2 DEF SingleInv, DeleteOK
<1>7. \A u \in todo'.updates : hostKey(u.from) = hostKey(u.to)
  BY <1>2 DEF SingleInv
<1>8. DesiredPublished'
  BY <1>2 DEF SingleInv, DesiredPublished
<1>9. OneDesired' /\ OneManaged(store')
  BY <1>2 DEF SingleInv, OneDesired
<1> QED
  BY <1>4, <1>5, <1>6, <1>7, <1>8, <1>9 DEF SingleInv

LEMMA CreateSingle == IInv /\ SingleInv /\ Create => SingleInv'
<1> SUFFICES ASSUME IInv, SingleInv, Create PROVE SingleInv'
  OBVIOUS
<1>1. PICK t \in todo.creates : \E x \in CreateOutcomes(Here, t.to) :
           /\ pc = "mutate"
           /\ Called(x)
           /\ \/ MutationFails(x)
              \/ Progress(todo.creates \ {t}, todo.updates, todo.deletes,
                          Record(records, ManagedFrom(Here, t.to, x.provenance), t.drops))
  BY CreateStep
<1>2. PICK x \in CreateOutcomes(Here, t.to) :
           /\ pc = "mutate"
           /\ Called(x)
           /\ \/ MutationFails(x)
              \/ Progress(todo.creates \ {t}, todo.updates, todo.deletes,
                          Record(records, ManagedFrom(Here, t.to, x.provenance), t.drops))
  BY <1>1
<1>3. store' = store
  BY <1>2 DEF Called
<1> QED
  BY <1>2, <1>3, FailedSingle, TaskSingle

LEMMA UpdateSingle == IInv /\ SingleInv /\ Update => SingleInv'
<1> SUFFICES ASSUME IInv, SingleInv, Update PROVE SingleInv'
  OBVIOUS
<1>1. PICK t \in todo.updates : \E x \in UpdateOutcomes(Here, t.from, t.to) :
           /\ pc = "mutate"
           /\ Called(x)
           /\ \/ MutationFails(x)
              \/ \E p : Progress(todo.creates, todo.updates \ {t}, todo.deletes,
                                 Record(records, ManagedFrom(Here, t.to, p), t.drops))
  BY UpdateStep
<1>2. PICK x \in UpdateOutcomes(Here, t.from, t.to) :
           /\ pc = "mutate"
           /\ Called(x)
           /\ \/ MutationFails(x)
              \/ \E p : Progress(todo.creates, todo.updates \ {t}, todo.deletes,
                                 Record(records, ManagedFrom(Here, t.to, p), t.drops))
  BY <1>1
<1>3. store' = store
  BY <1>2 DEF Called
<1> QED
  BY <1>2, <1>3, FailedSingle, TaskSingle

LEMMA DeleteSingle == IInv /\ SingleInv /\ Delete => SingleInv'
<1> SUFFICES ASSUME IInv, SingleInv, Delete PROVE SingleInv'
  OBVIOUS
<1>1. PICK t \in todo.deletes : \E x \in DeleteOutcomes(Here, t.visible) :
           /\ pc = "mutate"
           /\ Called(x)
           /\ \/ MutationFails(x)
              \/ Progress(todo.creates, todo.updates, todo.deletes \ {t},
                          {m \in records : managedRecordLineageKey(m)
                                             # managedRecordLineageKey(t.managed)})
  BY DeleteStep
<1>2. pc = "mutate" /\ store' = store
  BY <1>1 DEF Called
<1>3. CASE \E x : MutationFails(x)
  BY <1>2, <1>3, FailedSingle
<1>4. CASE Progress(todo.creates, todo.updates, todo.deletes \ {t},
                    {m \in records : managedRecordLineageKey(m)
                                       # managedRecordLineageKey(t.managed)})
  <2>1. /\ records' \subseteq records /\ Here' = Here /\ pc' = "mutate"
        /\ desired' = desired
        /\ todo'.creates = todo.creates /\ todo'.updates = todo.updates
        /\ todo'.deletes \subseteq todo.deletes
    BY <1>2, <1>4 DEF Progress, Here
  <2>2. OneManaged(records') /\ OneManaged(store')
    BY <1>2, <2>1 DEF SingleInv, OneManaged
  <2>3. \A u \in todo'.creates \cup todo'.updates : TaskOK(u)'
    BY <1>2, <2>1 DEF SingleInv, TaskOK, ForOutput
  <2>4. \A u \in todo'.deletes : DeleteOK(u)'
    BY <1>2, <2>1 DEF SingleInv, DeleteOK
  <2>5. \A u \in todo'.updates : hostKey(u.from) = hostKey(u.to)
    BY <1>2, <2>1 DEF SingleInv
  <2>6. DesiredPublished' /\ OneDesired'
    BY <2>1 DEF SingleInv, DesiredPublished, OneDesired
  <2> QED
    BY <2>2, <2>3, <2>4, <2>5, <2>6 DEF SingleInv
<1> QED
  BY <1>1, <1>3, <1>4

LEMMA SingleStep ==
  ASSUME SingleClaims, IInv, SingleInv, [Next]_vars
  PROVE  SingleInv'
<1>1. CASE UNCHANGED <<store, pc, pass>>
  BY <1>1 DEF SingleInv, DesiredPublished, OneDesired, OneManaged, TaskOK, DeleteOK, Here, pass
<1>2. CASE ListDesired
  BY <1>2, ListDesiredSingle
<1>3. CASE Plan
  BY <1>3, PlanSingle
<1>4. CASE Create \/ Update \/ Delete
  BY <1>4, CreateSingle, UpdateSingle, DeleteSingle
<1>5. CASE Start \/ Begin \/ Load \/ ReadFails \/ OutputsDone \/ FindAmbiguity
  BY <1>5, SingleFrame DEF Start, Begin, Load, ReadFails, OutputsDone, FindAmbiguity,
     PassEnds, FailPass, pass, SingleInv, DesiredPublished
<1>6. CASE Save \/ SaveFails \/ SavePartial \/ Retry \/ GiveUp \/ Crash
  BY <1>6, SingleFrame DEF Save, SaveFails, SavePartial, Retry, GiveUp, Crash,
     PassEnds, FailPass
<1>7. CASE World \/ Wait
  <2>1. UNCHANGED <<store, pc, pass>> \/ Crash
    BY <1>7 DEF World, Wait, vars, Deploy, Calm, Operator, AddRow, EditRow, RemoveRow
  <2> QED
    BY <2>1, <1>1, <1>6
<1> QED
  BY <1>1, <1>2, <1>3, <1>4, <1>5, <1>6, <1>7 DEF Next, Process, vars

LEMMA SingleInit == Init => SingleInv
BY DEF Init, SingleInv, DesiredPublished, OneDesired, filterDesiredForOutput, OneManaged

\* In every state a host has one claim, one managed record and one task.
LEMMA SingleInvariance ==
  ASSUME SingleClaims
  PROVE  Spec => [](IInv /\ SingleInv)
<1>1. IInv /\ SingleInv /\ [Next]_vars => SingleInv'
  BY SingleStep
<1> QED
  BY <1>1, SingleInit, Invariance, PTL DEF Spec

-----------------------------------------------------------------------------
(* What a mutation does to the rows of the output *)

\* A row that stands for d, under d's key.
RowFor(o, s, d) ==
  /\ s \in Rows
  /\ hostKey(s) = hostKey(d)
  /\ rowKey(s) = visibleRecordKey(d)
  /\ Kind[o] = "cloudflare" => Qualified(s)

QualifiedOn(o, rows, d) ==
  Kind[o] = "cloudflare" => Qualified(d) /\ \A r \in rows : Qualified(r)

LEMMA SameName ==
  ASSUME NEW r, NEW d, Qualified(r), Qualified(d)
  PROVE  hostnamesEquivalent(r, d) <=> hostKey(r) = hostKey(d)
BY DEF hostnamesEquivalent, Qualified, fullName, hostKey

LEMMA RenamedStands ==
  ASSUME NEW o, NEW r \in Rows, NEW d \in DesiredRecords, Qualified(d)
  PROVE  RowFor(o, Renamed(r, d), d) /\ Renamed(r, d).id = r.id
<1>1. fullName(d) \in Hosts /\ normalizeAnswer[d.answer] \in Answers /\ d.answer \in Answers
  BY NormalTypes DEF fullName, DesiredRecords
<1>2. /\ Renamed(r, d).hostname = fullName(d)
      /\ Renamed(r, d).answer = normalizeAnswer[d.answer]
  BY <1>1 DEF Renamed, Rows
<1>3. normalizeAnswer[normalizeAnswer[d.answer]] = normalizeAnswer[d.answer]
  BY <1>1, NamesAssumption
<1>4. normalizeHostname[fullName(d)] = hostKey(d)
  BY DEF Qualified, fullName, hostKey
<1> QED
  BY <1>2, <1>3, <1>4, RenamedType
  DEF RowFor, Qualified, hostKey, rowKey, visibleRecordKey

\* A call either takes effect as the service answers or fails.
LEMMA CallCases ==
  ASSUME NEW o, NEW outcomes, NEW x \in Call(o, outcomes)
  PROVE  \/ x \in outcomes
         \/ /\ Fails(x)
            /\ \/ x.rows = remote[o]
               \/ "lost" \in Faults /\ \E y \in outcomes : x.rows = y.rows
<1>1. \/ x \in outcomes
      \/ \E k \in {"temporary", "fatal"} : x = Rejects(remote[o], listed, k)
      \/ /\ "lost" \in Faults
         /\ \E y \in outcomes, k \in {"temporary", "fatal"} : x = Rejects(y.rows, y.listed, k)
  BY DEF Call, Attempt
<1>2. ASSUME NEW rs, NEW ls, NEW k \in {"temporary", "fatal"}, x = Rejects(rs, ls, k)
      PROVE  Fails(x) /\ x.rows = rs
  BY <1>2 DEF Rejects, Fails
<1> QED
  BY <1>1, <1>2

(***************************************************************************)
(* A create adds a row for d, or finds or rewrites one of d's host, or     *)
(* leaves everything as it was.                                            *)
(***************************************************************************)
Found(rows, d, x) ==
  /\ x.rows = rows
  /\ Fails(x) \/ \E r \in rows : hostKey(r) = hostKey(d) /\ x.provenance = r.id

Added(o, rows, d, x) ==
  \E s \in Rows : s.id = NewId /\ RowFor(o, s, d) /\ x.rows = rows \cup {s}

Rewritten(o, rows, d, x) ==
  \E r \in rows, s \in Rows :
    /\ hostKey(r) = hostKey(d) /\ s.id = r.id /\ RowFor(o, s, d)
    /\ x.rows = (rows \ {r}) \cup {s}
    /\ Fails(x) \/ x.provenance = r.id

LEMMA RecoverEffect ==
  ASSUME NEW o, NEW rows \in SUBSET Rows, NEW d \in DesiredRecords, Qualified(d),
         \A r \in rows : Qualified(r), NEW y \in RecoverDuplicate(rows, d)
  PROVE  Found(rows, d, y) \/ Rewritten(o, rows, d, y)
<1> DEFINE cache == visibleMeta(rows)
<1>1. \/ y = Rejects(rows, cache, "fatal")
      \/ \E r \in rows : /\ hostnamesEquivalent(r, d)
                         /\ \/ y = Succeeds(rows, cache, r.id)
                            \/ y = Succeeds((rows \ {r}) \cup {Renamed(r, d)}, cache, r.id)
  BY DEF RecoverDuplicate
<1> HIDE DEF cache
<1>2. CASE y = Rejects(rows, cache, "fatal")
  BY <1>2 DEF Rejects, Fails, Found
<1>3. ASSUME NEW r \in rows, hostnamesEquivalent(r, d), y = Succeeds(rows, cache, r.id)
      PROVE  y.rows = rows /\ hostKey(r) = hostKey(d) /\ y.provenance = r.id
  BY <1>3, SameName DEF Succeeds
<1>4. ASSUME NEW r \in rows, hostnamesEquivalent(r, d),
             y = Succeeds((rows \ {r}) \cup {Renamed(r, d)}, cache, r.id)
      PROVE  \E s \in Rows : /\ hostKey(r) = hostKey(d) /\ s.id = r.id /\ RowFor(o, s, d)
                             /\ y.rows = (rows \ {r}) \cup {s}
                             /\ y.provenance = r.id
  <2>1. RowFor(o, Renamed(r, d), d) /\ Renamed(r, d).id = r.id
    BY RenamedStands
  <2>2. hostKey(r) = hostKey(d)
    BY <1>4, SameName
  <2>3. Renamed(r, d) \in Rows
    BY <2>1 DEF RowFor
  <2>4. y.rows = (rows \ {r}) \cup {Renamed(r, d)} /\ y.provenance = r.id
    BY <1>4 DEF Succeeds
  <2> QED
    BY <2>1, <2>2, <2>3, <2>4
<1> QED
  BY <1>1, <1>2, <1>3, <1>4 DEF Found, Rewritten

LEMMA CreateEffect ==
  ASSUME IInv, pc = "mutate", FreshIds # {}, NEW d \in DesiredRecords,
         QualifiedOn(Here, remote[Here], d), NEW x \in CreateOutcomes(Here, d)
  PROVE  LET rows == remote[Here]
         IN \/ /\ x.rows = rows
               /\ \/ Fails(x)
                  \/ /\ Kind[Here] = "cloudflare"
                     /\ \E r \in rows : hostKey(r) = hostKey(d) /\ x.provenance = r.id
            \/ /\ Added(Here, rows, d, x)
               /\ \/ Fails(x) /\ "lost" \in Faults
                  \/ /\ ~Fails(x)
                     /\ x.provenance = IF Kind[Here] = "adguard" THEN NoProvenance ELSE NewId
            \/ Kind[Here] = "cloudflare" /\ Rewritten(Here, rows, d, x)
<1> DEFINE rows == remote[Here]
           outcomes == IF Kind[Here] = "adguard" THEN AdGuardCreate(rows, d, NewId)
                       ELSE CloudflareCreate(rows, listed, d, NewId)
           Outcome(y) ==
             \/ /\ y.rows = rows
                /\ \/ Fails(y)
                   \/ /\ Kind[Here] = "cloudflare"
                      /\ \E r \in rows : hostKey(r) = hostKey(d) /\ y.provenance = r.id
             \/ /\ Added(Here, rows, d, y)
                /\ ~Fails(y)
                /\ y.provenance = IF Kind[Here] = "adguard" THEN NoProvenance ELSE NewId
             \/ Kind[Here] = "cloudflare" /\ Rewritten(Here, rows, d, y)
<1>1. /\ Here \in Outputs /\ rows \in SUBSET Rows /\ NewId \in Ids
      /\ Kind[Here] \in {"adguard", "cloudflare"}
      /\ d.hostname \in Hosts /\ d.answer \in Answers
  BY Mutating, OrderAssumption DEF NewId, FreshIds, DesiredRecords
<1>2. CASE Kind[Here] = "adguard"
  <2> DEFINE s == [id |-> NewId, hostname |-> d.hostname, answer |-> d.answer,
                   maker |-> "daemon"]
  <2>1. RowFor(Here, s, d) /\ s.id = NewId /\ s \in Rows
    BY <1>1, <1>2 DEF RowFor, Rows, Makers, hostKey, rowKey, visibleRecordKey
  <2>2. \A y \in outcomes : y = Succeeds(rows \cup {s}, {}, NoProvenance)
    BY <1>2 DEF AdGuardCreate
  <2> HIDE DEF s, outcomes
  <2>3. ASSUME NEW y \in outcomes
        PROVE  Outcome(y)
    <3>1. y.rows = rows \cup {s} /\ ~Fails(y) /\ y.provenance = NoProvenance
      BY <2>2 DEF Succeeds, Fails
    <3>2. Added(Here, rows, d, y)
      BY <2>1, <3>1 DEF Added
    <3> QED
      BY <1>2, <3>1, <3>2
  <2> QED
    <3>1. \A y \in outcomes : Outcome(y)
      BY <2>3
    <3>2. x \in Call(Here, outcomes)
      BY DEF CreateOutcomes, outcomes
    <3>3. CASE x \in outcomes
      BY <3>1, <3>3
    <3>4. CASE Fails(x) /\ x.rows = rows
      BY <3>4
    <3>5. ASSUME "lost" \in Faults, Fails(x), NEW y \in outcomes, x.rows = y.rows
          PROVE  \/ x.rows = rows
                 \/ Added(Here, rows, d, x)
                 \/ Kind[Here] = "cloudflare" /\ Rewritten(Here, rows, d, x)
      BY <3>1, <3>5 DEF Added, Rewritten
    <3> HIDE DEF rows
    <3> QED
      BY <3>2, <3>3, <3>4, <3>5, CallCases DEF rows
<1>3. CASE Kind[Here] = "cloudflare"
  <2> DEFINE s == [id |-> NewId, hostname |-> fullName(d),
                   answer |-> normalizeAnswer[d.answer], maker |-> "daemon"]
  <2>1. Qualified(d) /\ \A r \in rows : Qualified(r)
    BY <1>3 DEF QualifiedOn
  <2>2. RowFor(Here, s, d) /\ s.id = NewId /\ s \in Rows
    <3>1. s \in Rows
      BY <1>1, NormalTypes DEF Rows, Makers, fullName
    <3>2. normalizeAnswer[normalizeAnswer[d.answer]] = normalizeAnswer[d.answer]
      BY <1>1, NamesAssumption
    <3>3. normalizeHostname[fullName(d)] = hostKey(d)
      BY <2>1 DEF Qualified, fullName, hostKey
    <3> QED
      BY <2>1, <3>1, <3>2, <3>3 DEF RowFor, Qualified, hostKey, rowKey, visibleRecordKey
  <2>3. \A y \in outcomes : \/ y = Succeeds(rows \cup {s}, listed, NewId)
                            \/ y \in RecoverDuplicate(rows, d)
    BY <1>3 DEF CloudflareCreate
  <2> HIDE DEF s, outcomes
  <2>4. ASSUME NEW y \in outcomes
        PROVE  Outcome(y)
    <3>1. CASE y = Succeeds(rows \cup {s}, listed, NewId)
      <4>1. y.rows = rows \cup {s} /\ ~Fails(y) /\ y.provenance = NewId
        BY <3>1 DEF Succeeds, Fails
      <4>2. Added(Here, rows, d, y)
        BY <2>2, <4>1 DEF Added
      <4> QED
        BY <1>3, <4>1, <4>2
    <3>2. CASE y \in RecoverDuplicate(rows, d)
      <4> HIDE DEF rows
      <4>1. rows \in SUBSET Rows
        BY <1>1
      <4>2. Found(rows, d, y) \/ Rewritten(Here, rows, d, y)
        BY <2>1, <3>2, <4>1, RecoverEffect
      <4> QED
        BY <1>3, <4>2 DEF Found
    <3> QED
      BY <2>3, <3>1, <3>2
  <2> QED
    <3>1. \A y \in outcomes : Outcome(y)
      BY <2>4
    <3>2. x \in Call(Here, outcomes)
      BY DEF CreateOutcomes, outcomes
    <3>3. CASE x \in outcomes
      BY <3>1, <3>3
    <3>4. CASE Fails(x) /\ x.rows = rows
      BY <3>4
    <3>5. ASSUME "lost" \in Faults, Fails(x), NEW y \in outcomes, x.rows = y.rows
          PROVE  \/ x.rows = rows
                 \/ Added(Here, rows, d, x)
                 \/ Kind[Here] = "cloudflare" /\ Rewritten(Here, rows, d, x)
      BY <3>1, <3>5 DEF Added, Rewritten
    <3> HIDE DEF rows
    <3> QED
      BY <3>2, <3>3, <3>4, <3>5, CallCases DEF rows
<1> QED
  BY <1>1, <1>2, <1>3

\* Which rows an update or a delete of v is about.
Hit(o, v, r) ==
  IF Kind[o] = "adguard" THEN r.hostname = v.hostname /\ r.answer = v.answer
  ELSE r.id = v.provenance

Moved(o, rows, v, d, x) ==
  \E r \in rows, gone \in SUBSET rows, s \in Rows :
    /\ r \in gone /\ \A q \in gone : Hit(o, v, q)
    /\ s.id = r.id /\ RowFor(o, s, d)
    /\ x.rows = (rows \ gone) \cup {s}
    /\ Fails(x) \/ x.provenance = IF Kind[o] = "adguard" THEN NoProvenance ELSE r.id

LEMMA UpdateEffect ==
  ASSUME IInv, pc = "mutate", NEW v \in VisibleRecords, NEW d \in DesiredRecords,
         QualifiedOn(Here, remote[Here], d), NEW x \in UpdateOutcomes(Here, v, d)
  PROVE  LET rows == remote[Here]
         IN \/ x.rows = rows /\ Fails(x)
            \/ Moved(Here, rows, v, d, x) /\ (Fails(x) => "lost" \in Faults)
<1> DEFINE rows == remote[Here]
           outcomes == IF Kind[Here] = "adguard" THEN AdGuardUpdate(rows, v, d)
                       ELSE CloudflareUpdate(rows, listed, v, d)
           Outcome(y) == \/ y.rows = rows /\ Fails(y)
                         \/ Moved(Here, rows, v, d, y) /\ ~Fails(y)
<1>1. /\ Here \in Outputs /\ rows \in SUBSET Rows
      /\ Kind[Here] \in {"adguard", "cloudflare"}
      /\ d.hostname \in Hosts /\ d.answer \in Answers
  BY Mutating, OrderAssumption DEF DesiredRecords
<1>2. ASSUME NEW c, NEW y, y = Rejects(rows, c, "fatal")
      PROVE  Outcome(y)
  BY <1>2 DEF Rejects, Fails
<1>3. ASSUME NEW c, NEW y, NEW r \in rows, NEW gone \in SUBSET rows, NEW s \in Rows,
             r \in gone, \A q \in gone : Hit(Here, v, q), s.id = r.id, RowFor(Here, s, d),
             y = Succeeds((rows \ gone) \cup {s}, c,
                          IF Kind[Here] = "adguard" THEN NoProvenance ELSE r.id)
      PROVE  Outcome(y)
  <2>1. /\ y.rows = (rows \ gone) \cup {s} /\ ~Fails(y)
        /\ y.provenance = IF Kind[Here] = "adguard" THEN NoProvenance ELSE r.id
    BY <1>3 DEF Succeeds, Fails
  <2>2. Moved(Here, rows, v, d, y)
    BY <1>3, <2>1 DEF Moved
  <2> QED
    BY <2>1, <2>2
<1>4. ASSUME Kind[Here] = "adguard"
      PROVE  \A y \in outcomes : Outcome(y)
  <2> DEFINE Spelt(r) == [r EXCEPT !.hostname = d.hostname, !.answer = d.answer]
  <2>1. \A y \in outcomes :
          \/ y = Rejects(rows, {}, "fatal")
          \/ \E r \in rows : /\ r.hostname = v.hostname /\ r.answer = v.answer
                             /\ y = Succeeds((rows \ {r}) \cup {Spelt(r)}, {}, NoProvenance)
    BY <1>4 DEF AdGuardUpdate, Spelled
  <2>2. ASSUME NEW r \in rows
        PROVE  Spelt(r) \in Rows /\ Spelt(r).id = r.id /\ RowFor(Here, Spelt(r), d)
    <3>1. /\ Spelt(r) \in Rows /\ Spelt(r).id = r.id
          /\ Spelt(r).hostname = d.hostname /\ Spelt(r).answer = d.answer
      BY <1>1 DEF Rows
    <3> HIDE DEF Spelt
    <3> QED
      BY <1>4, <3>1 DEF RowFor, hostKey, rowKey, visibleRecordKey
  <2> HIDE DEF Spelt, outcomes
  <2>3. ASSUME NEW y \in outcomes, NEW r \in rows,
               r.hostname = v.hostname, r.answer = v.answer,
               y = Succeeds((rows \ {r}) \cup {Spelt(r)}, {}, NoProvenance)
        PROVE  Outcome(y)
    <3>1. /\ {r} \in SUBSET rows /\ r \in {r}
          /\ \A q \in {r} : Hit(Here, v, q)
      BY <1>4, <2>3 DEF Hit
    <3>2. y = Succeeds((rows \ {r}) \cup {Spelt(r)}, {},
                       IF Kind[Here] = "adguard" THEN NoProvenance ELSE r.id)
      BY <1>4, <2>3
    <3> HIDE DEF rows, Outcome
    <3> QED
      BY <1>3, <2>2, <3>1, <3>2
  <2> QED
    BY <1>2, <2>1, <2>3
<1>5. ASSUME Kind[Here] = "cloudflare"
      PROVE  \A y \in outcomes : Outcome(y)
  <2> DEFINE named == {q \in rows : q.id = v.provenance}
  <2>1. \A y \in outcomes :
          \/ y = Rejects(rows, listed, "fatal")
          \/ \E r \in named : y = Succeeds((rows \ named) \cup {Renamed(r, d)}, listed, r.id)
    BY <1>5 DEF CloudflareUpdate
  <2>2. ASSUME NEW r \in rows
        PROVE  Renamed(r, d) \in Rows /\ Renamed(r, d).id = r.id /\ RowFor(Here, Renamed(r, d), d)
    BY <1>1, <1>5, RenamedStands DEF QualifiedOn, RowFor
  <2> HIDE DEF outcomes
  <2>3. ASSUME NEW y \in outcomes, NEW r \in named,
               y = Succeeds((rows \ named) \cup {Renamed(r, d)}, listed, r.id)
        PROVE  Outcome(y)
    <3>1. /\ named \in SUBSET rows
          /\ \A q \in named : Hit(Here, v, q)
          /\ r \in rows
      BY <1>5, <2>3 DEF Hit
    <3>2. y = Succeeds((rows \ named) \cup {Renamed(r, d)}, listed,
                       IF Kind[Here] = "adguard" THEN NoProvenance ELSE r.id)
      BY <1>5, <2>3
    <3> HIDE DEF rows, Outcome, named
    <3> QED
      BY <1>3, <2>2, <2>3, <3>1, <3>2
  <2> QED
    BY <1>2, <2>1, <2>3
<1> HIDE DEF outcomes
<1>6. \A y \in outcomes : Outcome(y)
  BY <1>1, <1>4, <1>5
<1>7. x \in Call(Here, outcomes)
  BY DEF UpdateOutcomes, outcomes
<1>8. ASSUME "lost" \in Faults, Fails(x), NEW y \in outcomes, x.rows = y.rows
      PROVE  x.rows = rows \/ Moved(Here, rows, v, d, x)
  BY <1>6, <1>8 DEF Moved
<1> HIDE DEF rows
<1> QED
  BY <1>6, <1>7, <1>8, CallCases DEF rows

LEMMA DeleteEffect ==
  ASSUME IInv, pc = "mutate", Kind[Here] = "cloudflare", NEW v \in VisibleRecords,
         NEW x \in DeleteOutcomes(Here, v)
  PROVE  LET rows == remote[Here]
         IN \/ x.rows = rows /\ Fails(x)
            \/ /\ x.rows = {r \in rows : r.id # v.provenance}
               /\ Fails(x) => "lost" \in Faults
<1> DEFINE rows == remote[Here]
           outcomes == CloudflareDelete(rows, listed, v)
           kept == {r \in rows : r.id # v.provenance}
<1>1. \A y \in outcomes : \/ y = Rejects(rows, listed, "fatal")
                          \/ y = Succeeds(kept, listed, NoProvenance)
  <2>1. rows \ {r \in rows : r.id = v.provenance} = kept
    OBVIOUS
  <2> QED
    BY <2>1 DEF CloudflareDelete
<1> HIDE DEF outcomes, kept
<1>2. \A y \in outcomes : (y.rows = rows /\ Fails(y)) \/ (y.rows = kept /\ ~Fails(y))
  BY <1>1 DEF Rejects, Succeeds, Fails
<1>3. x \in Call(Here, outcomes)
  BY DEF DeleteOutcomes, outcomes
<1> HIDE DEF rows
<1> QED
  BY <1>2, <1>3, CallCases DEF rows, kept

-----------------------------------------------------------------------------
(* One host to an identity *)

LEMMA ClaimQualified ==
  ASSUME QualifiedNames, SingleInv, NEW o \in Outputs
  PROVE  Kind[o] = "cloudflare" =>
           \A d \in filterDesiredForOutput(desired, o) : Qualified(d)
<1> SUFFICES ASSUME Kind[o] = "cloudflare", NEW d \in filterDesiredForOutput(desired, o)
             PROVE  Qualified(d)
  OBVIOUS
<1>1. d \in desired /\ d \in filterDesiredForOutput({d}, o)
  BY DEF filterDesiredForOutput
<1>2. PICK S \in Deployments, s \in Sources : d \in Published(S, s)
  BY <1>1 DEF SingleInv, DesiredPublished
<1> QED
  BY <1>1, <1>2, IsClaim DEF QualifiedNames

\* v is how a listing shows row r.
Shows(o, v, r) ==
  /\ hostKey(v) = hostKey(r)
  /\ visibleRecordKey(v) = rowKey(r)
  /\ v.provenance = IF Kind[o] = "adguard" THEN NoProvenance ELSE r.id

LEMMA Listing ==
  ASSUME IInv, NEW o \in Outputs
  PROVE  /\ \A v \in ListOutcome(o) : \E r \in remote[o] : Shows(o, v, r)
         /\ \A r \in remote[o] : \E v \in ListOutcome(o) : Shows(o, v, r)
<1>1. \A r \in remote[o] : r.hostname \in Hosts /\ r.answer \in Answers
  BY DEF IInv, TypeOK, OutsideOK, Rows
<1> DEFINE AsAdGuard(r) == [output |-> o, hostname |-> r.hostname, answer |-> r.answer,
                            provenance |-> NoProvenance, row |-> r.id]
           AsCloudflare(r) == [output |-> o, hostname |-> normalizeHostname[r.hostname],
                               answer |-> normalizeAnswer[r.answer],
                               provenance |-> r.id, row |-> r.id]
<1>2. CASE Kind[o] = "adguard"
  <2>1. ListOutcome(o) = {AsAdGuard(r) : r \in remote[o]}
    BY <1>2 DEF ListOutcome, AdGuardListVisible
  <2>2. \A r \in remote[o] : Shows(o, AsAdGuard(r), r)
    BY <1>2 DEF Shows, hostKey, rowKey, visibleRecordKey
  <2> HIDE DEF AsAdGuard
  <2> QED
    BY <2>1, <2>2
<1>3. CASE Kind[o] # "adguard"
  <2>1. ListOutcome(o) = {AsCloudflare(r) : r \in remote[o]}
    BY <1>3 DEF ListOutcome, CloudflareListVisible
  <2>2. \A r \in remote[o] : Shows(o, AsCloudflare(r), r)
    BY <1>1, <1>3, NamesAssumption DEF Shows, hostKey, rowKey, visibleRecordKey
  <2> HIDE DEF AsCloudflare
  <2> QED
    BY <2>1, <2>2
<1> QED
  BY <1>2, <1>3

LEMMA ListedEntries ==
  ASSUME IInv, NEW o \in Outputs, NEW v \in ListOutcome(o), v.provenance # NoProvenance
  PROVE  <<v.provenance, hostKey(v)>> \in Entries(o)
BY Listing DEF Shows, Entries

\* A fresh identity is mentioned nowhere.
LEMMA FreshMention ==
  ASSUME IInv, FreshIds # {}, NEW o \in Outputs, NEW x \in Mentions(o)
  PROVE  x[1] # NewId
<1>1. NewId \in Ids /\ NewId \notin UsedIds
  <2>1. NewId \in FreshIds
    BY DEF NewId
  <2> QED
    BY <2>1 DEF FreshIds
<1>2. x \in Entries(o) \/ x \in OnRecord(o) \/ x \in InTasks
  BY DEF Mentions
<1>3. CASE x \in Entries(o)
  <2>1. PICK r \in remote[o] : x = <<r.id, hostKey(r)>>
    BY <1>3 DEF Entries
  <2>2. r.id \in UNION {{q.id : q \in remote[p]} : p \in Outputs}
    OBVIOUS
  <2> QED
    BY <1>1, <2>1, <2>2 DEF UsedIds
<1>4. CASE x \in OnRecord(o)
  <2>1. PICK m \in store \cup owned \cup records : x = <<m.provenance, hostKey(m)>>
    BY <1>4 DEF OnRecord, ForOutput
  <2>2. m.provenance \in UsedIds
    BY DEF UsedIds
  <2> QED
    BY <1>1, <2>1, <2>2
<1>5. CASE x \in InTasks
  <2>1. \/ \E t \in todo.updates : x = <<t.from.provenance, hostKey(t.from)>>
        \/ \E t \in todo.deletes : x = <<t.visible.provenance, hostKey(t.visible)>>
    BY <1>5 DEF InTasks
  <2>2. x[1] \in UsedIds
    BY <2>1 DEF UsedIds
  <2> QED
    BY <1>1, <2>2
<1> QED
  BY <1>2, <1>3, <1>4, <1>5

LEMMA FreshPair ==
  ASSUME IInv, IdentityInv, FreshIds # {}, NEW o \in Outputs, NEW h
  PROVE  OneHostEach(Mentions(o) \cup {<<NewId, h>>})
<1>1. \A x \in Mentions(o) : x[1] # NewId
  BY FreshMention
<1>2. OneHostEach(Mentions(o))
  BY DEF IdentityInv
<1> HIDE DEF Mentions
<1> QED
  BY <1>1, <1>2 DEF OneHostEach

\* Steps after which no more identities are mentioned than before.
LEMMA IdentityFrame ==
  ASSUME IInv, IdentityInv,
         \A o \in Outputs : remote'[o] \subseteq remote[o],
         store' \cup owned' \cup records' \subseteq store \cup owned \cup records,
         pc' # "mutate" \/ UNCHANGED <<pc, next, todo>>
  PROVE  IdentityInv'
<1> SUFFICES ASSUME NEW o \in Outputs
             PROVE  /\ OneHostEach(Mentions(o))'
                    /\ Kind[o] = "cloudflare" => \A r \in remote'[o] : Qualified(r)
  BY DEF IdentityInv
<1>1. Entries(o)' \subseteq Entries(o) /\ OnRecord(o)' \subseteq OnRecord(o)
  BY DEF Entries, OnRecord, ForOutput
<1>2. (IF pc = "mutate" /\ o = Here THEN InTasks ELSE {})'
        \subseteq (IF pc = "mutate" /\ o = Here THEN InTasks ELSE {})
  BY DEF InTasks, Here
<1>3. Mentions(o)' \subseteq Mentions(o)
  BY <1>1, <1>2 DEF Mentions
<1>4. OneHostEach(Mentions(o))'
  BY <1>3 DEF IdentityInv, OneHostEach
<1> QED
  BY <1>4 DEF IdentityInv

\* A call on the output and what is recorded of it.
LEMMA IdentityCall ==
  ASSUME IInv, IdentityInv, pc = "mutate", NEW x \in Outcomes, Called(x),
         NEW P, Mentions(Here) \subseteq P, OneHostEach(P),
         \A s \in x.rows : \/ s \in remote[Here]
                           \/ /\ <<s.id, hostKey(s)>> \in P
                              /\ Kind[Here] = "cloudflare" => Qualified(s),
         \A n \in records' : \/ n \in records
                             \/ /\ n.output = Here
                                /\ \/ n.provenance = NoProvenance
                                   \/ <<n.provenance, hostKey(n)>> \in P,
         owned' \subseteq owned,
         \/ pc' # "mutate"
         \/ /\ UNCHANGED next
            /\ todo'.updates \subseteq todo.updates
            /\ todo'.deletes \subseteq todo.deletes
  PROVE  IdentityInv'
<1> SUFFICES ASSUME NEW o \in Outputs
             PROVE  /\ OneHostEach(Mentions(o)')
                    /\ Kind[o] = "cloudflare" => \A r \in remote'[o] : Qualified(r)
  BY DEF IdentityInv, OneHostEach
<1>1. /\ o # Here => remote'[o] = remote[o]
      /\ o = Here => remote'[o] = x.rows
      /\ store' = store
  BY CalledElsewhere DEF Called
<1>2. Kind[o] = "cloudflare" => \A r \in remote'[o] : Qualified(r)
  BY <1>1 DEF IdentityInv
<1>3. CASE o # Here
  <2>1. Entries(o)' = Entries(o) /\ OnRecord(o)' \subseteq OnRecord(o)
    BY <1>1, <1>3 DEF Entries, OnRecord, ForOutput
  <2>2. pc' = "mutate" => Here' = Here
    BY DEF Here
  <2>3. Mentions(o)' \subseteq Mentions(o)
    BY <1>3, <2>1, <2>2 DEF Mentions
  <2>4. OneHostEach(Mentions(o))
    BY DEF IdentityInv
  <2> QED
    BY <1>2, <2>3, <2>4 DEF OneHostEach
<1>4. CASE o = Here
  <2>1. Entries(o)' \subseteq P
    <3>1. \A s \in x.rows : <<s.id, hostKey(s)>> \in P
      BY DEF Mentions, Entries
    <3> QED
      BY <1>1, <1>4, <3>1 DEF Entries
  <2>2. \A y \in OnRecord(o)' : y \in P \/ y[1] = NoProvenance
    <3> SUFFICES ASSUME NEW n \in store' \cup owned' \cup records', n.output = o
                 PROVE  <<n.provenance, hostKey(n)>> \in P \/ n.provenance = NoProvenance
      BY DEF OnRecord, ForOutput
    <3>1. CASE n \in store \cup owned \cup records
      <4>1. <<n.provenance, hostKey(n)>> \in OnRecord(o)
        BY <3>1 DEF OnRecord, ForOutput
      <4> QED
        BY <1>4, <4>1 DEF Mentions
    <3> QED
      BY <1>1, <3>1
  <2>3. (IF pc = "mutate" /\ o = Here THEN InTasks ELSE {})' \subseteq P
    <3>1. CASE pc' = "mutate"
      <4>1. InTasks' \subseteq InTasks
        BY <3>1 DEF InTasks
      <4> QED
        BY <1>4, <4>1 DEF Mentions
    <3> QED
      BY <3>1
  <2>4. \A y \in Mentions(o)' : y \in P \/ y[1] = NoProvenance
    BY <2>1, <2>2, <2>3 DEF Mentions
  <2> QED
    BY <1>2, <2>4 DEF OneHostEach
<1> QED
  BY <1>3, <1>4

LEMMA PlanIdentity ==
  ASSUME IInv, SingleInv, IdentityInv, Plan
  PROVE  IdentityInv'
<1> DEFINE W == filterDesiredForOutput(desired, Here)
           mine == ForOutput(store, Here)
           visible == ListOutcome(Here)
           left == Left(Here, W, mine, visible)
<1>1. /\ Here \in Outputs /\ Here' = Here
      /\ Single(Here, W, mine)
      /\ pc = "outputs" /\ pc' = "mutate"
      /\ todo'.updates = PlannedUpdates(Here, W, visible, mine)
      /\ todo'.deletes = PlannedDeletes(Here, W, visible, mine)
      /\ records' = (store \ mine) \cup left
      /\ UNCHANGED <<remote, store, owned>>
  BY PlanStep
<1>2. \A n \in left : /\ n.output = Here
                      /\ <<n.provenance, hostKey(n)>> \in OnRecord(Here)
  <2> SUFFICES ASSUME NEW n \in left
               PROVE  n.output = Here /\ \E m \in mine : /\ m.provenance = n.provenance
                                                         /\ hostKey(m) = hostKey(n)
    BY DEF OnRecord, ForOutput
  <2>1. n.output = Here
    BY <1>1, LeftOnHost
  <2>2. CASE n \in mine
    BY <2>1, <2>2
  <2>3. ASSUME NEW d \in W, NEW m \in mine, hostKey(m) = hostKey(d),
               n = ManagedFrom(Here, d, m.provenance)
        PROVE  \E q \in mine : q.provenance = n.provenance /\ hostKey(q) = hostKey(n)
    BY <2>3, ManagedFromKeys
  <2> QED
    BY <2>1, <2>2, <2>3 DEF Left
<1> HIDE DEF left
<1>3. \A o \in Outputs : OnRecord(o)' \subseteq OnRecord(o)
  <2> SUFFICES ASSUME NEW o \in Outputs, NEW n \in store' \cup owned' \cup records', n.output = o
               PROVE  <<n.provenance, hostKey(n)>> \in OnRecord(o)
    BY DEF OnRecord, ForOutput
  <2>1. CASE n \in store \cup owned
    BY <2>1 DEF OnRecord, ForOutput
  <2>2. CASE n \in left
    BY <1>2, <2>2
  <2> QED
    BY <1>1, <2>1, <2>2
<1>4. \A o \in Outputs : Entries(o)' = Entries(o)
  BY <1>1 DEF Entries
<1>5. ASSUME NEW v \in visible
      PROVE  v.provenance = NoProvenance \/ <<v.provenance, hostKey(v)>> \in Entries(Here)
  BY <1>1, ListedEntries
<1>6. \A y \in InTasks' : y[1] = NoProvenance \/ y \in Entries(Here)
  <2>1. ASSUME NEW t \in todo'.updates
        PROVE  t.from \in visible
    <3>1. \E m \in mine : t.from \in Displaced(t.to, m, visible)
      BY <1>1, <2>1, UpdatesOf
    <3> QED
      BY <3>1, DisplacedSubset
  <2>2. ASSUME NEW t \in todo'.deletes
        PROVE  t.visible \in visible
    BY <1>1, <2>2, DeletesOf, StaleHost
  <2> HIDE DEF visible
  <2> QED
    BY <1>5, <2>1, <2>2 DEF InTasks
<1> SUFFICES ASSUME NEW o \in Outputs
             PROVE  /\ OneHostEach(Mentions(o)')
                    /\ Kind[o] = "cloudflare" => \A r \in remote'[o] : Qualified(r)
  BY DEF IdentityInv, OneHostEach
<1>7. \A y \in Mentions(o)' : y[1] = NoProvenance \/ y \in Mentions(o)
  BY <1>1, <1>3, <1>4, <1>6 DEF Mentions
<1>8. OneHostEach(Mentions(o))
  BY DEF IdentityInv
<1> QED
  BY <1>1, <1>7, <1>8 DEF OneHostEach, IdentityInv

LEMMA RowForPair ==
  ASSUME NEW o, NEW s, NEW d, RowFor(o, s, d)
  PROVE  /\ <<s.id, hostKey(s)>> = <<s.id, hostKey(d)>>
         /\ Kind[o] = "cloudflare" => Qualified(s)
BY DEF RowFor

\* A task's record goes where the task's row is.
LEMMA TaskRecords ==
  ASSUME IInv, SingleInv, pc = "mutate", NEW t \in todo.creates \cup todo.updates, NEW p
  PROVE  \A n \in Record(records, ManagedFrom(Here, t.to, p), t.drops) :
           \/ n \in records
           \/ n.output = Here /\ n.provenance = p /\ hostKey(n) = hostKey(t.to)
<1>1. TaskOK(t)
  BY DEF SingleInv
<1> QED
  BY <1>1, RecordOnHost, ManagedFromKeys DEF TaskOK

LEMMA TaskQualified ==
  ASSUME QualifiedNames, IInv, SingleInv, IdentityInv, pc = "mutate",
         NEW t \in todo.creates \cup todo.updates
  PROVE  QualifiedOn(Here, remote[Here], t.to)
<1>1. TaskOK(t) /\ Here \in Outputs
  BY Mutating DEF SingleInv
<1> QED
  BY <1>1, ClaimQualified DEF TaskOK, QualifiedOn, IdentityInv

LEMMA CreateIdentity ==
  ASSUME QualifiedNames, IInv, SingleInv, IdentityInv, Create
  PROVE  IdentityInv'
<1>1. PICK t \in todo.creates : \E x \in CreateOutcomes(Here, t.to) :
           /\ pc = "mutate" /\ FreshIds # {}
           /\ t.to \in DesiredRecords
           /\ x \in Outcomes /\ Called(x)
           /\ \/ MutationFails(x)
              \/ /\ ~Fails(x)
                 /\ Progress(todo.creates \ {t}, todo.updates, todo.deletes,
                             Record(records, ManagedFrom(Here, t.to, x.provenance), t.drops))
  BY CreateStep
<1>2. PICK x \in CreateOutcomes(Here, t.to) :
           /\ pc = "mutate" /\ FreshIds # {}
           /\ t.to \in DesiredRecords
           /\ x \in Outcomes /\ Called(x)
           /\ \/ MutationFails(x)
              \/ /\ ~Fails(x)
                 /\ Progress(todo.creates \ {t}, todo.updates, todo.deletes,
                             Record(records, ManagedFrom(Here, t.to, x.provenance), t.drops))
  BY <1>1
<1> DEFINE rows == remote[Here]
           P == Mentions(Here) \cup {<<NewId, hostKey(t.to)>>}
<1>3. /\ Here \in Outputs
      /\ QualifiedOn(Here, rows, t.to)
      /\ OneHostEach(P)
      /\ \A r \in rows : <<r.id, hostKey(r)>> \in P
  BY <1>2, Mutating, TaskQualified, FreshPair DEF Mentions, Entries
<1>4. \/ /\ x.rows = rows
         /\ \/ Fails(x)
            \/ \E r \in rows : hostKey(r) = hostKey(t.to) /\ x.provenance = r.id
      \/ /\ Added(Here, rows, t.to, x)
         /\ Fails(x) \/ x.provenance \in {NoProvenance, NewId}
      \/ Rewritten(Here, rows, t.to, x)
  BY <1>2, <1>3, CreateEffect
<1>5. \A s \in x.rows : \/ s \in rows
                        \/ /\ <<s.id, hostKey(s)>> \in P
                           /\ Kind[Here] = "cloudflare" => Qualified(s)
  <2>1. CASE x.rows = rows
    BY <2>1
  <2>2. CASE Added(Here, rows, t.to, x)
    BY <2>2, RowForPair DEF Added
  <2>3. CASE Rewritten(Here, rows, t.to, x)
    <3>1. PICK r \in rows, s \in Rows :
            /\ hostKey(r) = hostKey(t.to) /\ s.id = r.id /\ RowFor(Here, s, t.to)
            /\ x.rows = (rows \ {r}) \cup {s}
      BY <2>3 DEF Rewritten
    <3>2. <<s.id, hostKey(s)>> \in P /\ (Kind[Here] = "cloudflare" => Qualified(s))
      BY <1>3, <3>1, RowForPair
    <3> QED
      BY <3>1, <3>2
  <2> QED
    BY <1>4, <2>1, <2>2, <2>3
<1>6. Fails(x) \/ x.provenance = NoProvenance \/ <<x.provenance, hostKey(t.to)>> \in P
  <2>1. ASSUME NEW r \in rows, hostKey(r) = hostKey(t.to), x.provenance = r.id
        PROVE  <<x.provenance, hostKey(t.to)>> \in P
    BY <1>3, <2>1
  <2>2. CASE x.provenance \in {NoProvenance, NewId}
    BY <2>2
  <2>3. CASE Rewritten(Here, rows, t.to, x)
    BY <2>1, <2>3 DEF Rewritten
  <2> QED
    BY <1>4, <2>1, <2>2, <2>3
<1> HIDE DEF P
<1>7. CASE MutationFails(x)
  <2>1. /\ records' \in {records, {}} /\ owned' \in {owned, {}} /\ pc' # "mutate"
    BY <1>7 DEF MutationFails, FailPass
  <2> QED
    BY <1>2, <1>3, <1>5, <2>1, IdentityCall DEF P
<1>8. ASSUME ~Fails(x),
             Progress(todo.creates \ {t}, todo.updates, todo.deletes,
                      Record(records, ManagedFrom(Here, t.to, x.provenance), t.drops))
      PROVE  IdentityInv'
  <2>1. /\ owned' = owned /\ next' = next
        /\ todo'.updates = todo.updates /\ todo'.deletes = todo.deletes
        /\ records' = Record(records, ManagedFrom(Here, t.to, x.provenance), t.drops)
    BY <1>8 DEF Progress
  <2>2. \A n \in records' : \/ n \in records
                            \/ /\ n.output = Here
                               /\ \/ n.provenance = NoProvenance
                                  \/ <<n.provenance, hostKey(n)>> \in P
    BY <1>2, <1>6, <1>8, <2>1, TaskRecords
  <2> QED
    BY <1>2, <1>3, <1>5, <2>1, <2>2, IdentityCall DEF P
<1> QED
  BY <1>2, <1>7, <1>8

LEMMA UpdateIdentity ==
  ASSUME QualifiedNames, IInv, SingleInv, IdentityInv, Update
  PROVE  IdentityInv'
<1>1. PICK t \in todo.updates : \E x \in UpdateOutcomes(Here, t.from, t.to) :
           /\ pc = "mutate"
           /\ t.to \in DesiredRecords /\ t.from \in VisibleRecords
           /\ x \in Outcomes /\ Called(x)
           /\ \/ MutationFails(x)
              \/ /\ ~Fails(x)
                 /\ Progress(todo.creates, todo.updates \ {t}, todo.deletes,
                             Record(records,
                                    ManagedFrom(Here, t.to,
                                                nextManagedProvenance(x.provenance,
                                                                      t.from.provenance)),
                                    t.drops))
  BY UpdateStep
<1>2. PICK x \in UpdateOutcomes(Here, t.from, t.to) :
           /\ pc = "mutate"
           /\ t.to \in DesiredRecords /\ t.from \in VisibleRecords
           /\ x \in Outcomes /\ Called(x)
           /\ \/ MutationFails(x)
              \/ /\ ~Fails(x)
                 /\ Progress(todo.creates, todo.updates \ {t}, todo.deletes,
                             Record(records,
                                    ManagedFrom(Here, t.to,
                                                nextManagedProvenance(x.provenance,
                                                                      t.from.provenance)),
                                    t.drops))
  BY <1>1
<1> DEFINE rows == remote[Here]
           P == Mentions(Here)
           p == nextManagedProvenance(x.provenance, t.from.provenance)
<1>3. /\ Here \in Outputs
      /\ QualifiedOn(Here, rows, t.to)
      /\ OneHostEach(P)
      /\ hostKey(t.from) = hostKey(t.to)
  BY <1>2, Mutating, TaskQualified DEF IdentityInv, SingleInv
<1>4. /\ \A r \in rows : <<r.id, hostKey(r)>> \in P
      /\ <<t.from.provenance, hostKey(t.to)>> \in P
  BY <1>2, <1>3 DEF Mentions, Entries, InTasks
<1>5. ASSUME NEW r \in rows, Hit(Here, t.from, r)
      PROVE  <<r.id, hostKey(t.to)>> \in P
  <2>1. CASE Kind[Here] = "adguard"
    BY <1>3, <1>4, <1>5, <2>1 DEF Hit, hostKey
  <2>2. CASE Kind[Here] # "adguard"
    BY <1>3, <1>4, <1>5, <2>2 DEF Hit
  <2> QED
    BY <2>1, <2>2
<1>6. \/ x.rows = rows /\ Fails(x)
      \/ Moved(Here, rows, t.from, t.to, x)
  BY <1>2, <1>3, UpdateEffect
<1> HIDE DEF P, rows
<1>7. /\ \A s \in x.rows : \/ s \in rows
                           \/ /\ <<s.id, hostKey(s)>> \in P
                              /\ Kind[Here] = "cloudflare" => Qualified(s)
      /\ Fails(x) \/ x.provenance = NoProvenance \/ <<x.provenance, hostKey(t.to)>> \in P
  <2>1. CASE x.rows = rows /\ Fails(x)
    BY <2>1
  <2>2. CASE Moved(Here, rows, t.from, t.to, x)
    <3>1. PICK r \in rows, gone \in SUBSET rows, s \in Rows :
            /\ r \in gone /\ \A q \in gone : Hit(Here, t.from, q)
            /\ s.id = r.id /\ RowFor(Here, s, t.to)
            /\ x.rows = (rows \ gone) \cup {s}
            /\ \/ Fails(x)
               \/ x.provenance = IF Kind[Here] = "adguard" THEN NoProvenance ELSE r.id
      BY <2>2 DEF Moved
    <3>2. <<r.id, hostKey(t.to)>> \in P
      BY <1>5, <3>1
    <3>3. <<s.id, hostKey(s)>> \in P /\ (Kind[Here] = "cloudflare" => Qualified(s))
      BY <3>1, <3>2, RowForPair
    <3> QED
      BY <3>1, <3>2, <3>3
  <2> QED
    BY <1>6, <2>1, <2>2
<1>8. CASE MutationFails(x)
  <2>1. records' \in {records, {}} /\ owned' \in {owned, {}} /\ pc' # "mutate"
    BY <1>8 DEF MutationFails, FailPass
  <2> QED
    BY <1>2, <1>3, <1>7, <2>1, IdentityCall DEF P, rows
<1>9. ASSUME ~Fails(x),
             Progress(todo.creates, todo.updates \ {t}, todo.deletes,
                      Record(records, ManagedFrom(Here, t.to, p), t.drops))
      PROVE  IdentityInv'
  <2>1. /\ owned' = owned /\ next' = next
        /\ todo'.updates \subseteq todo.updates /\ todo'.deletes = todo.deletes
        /\ records' = Record(records, ManagedFrom(Here, t.to, p), t.drops)
    BY <1>9 DEF Progress
  <2>2. p = NoProvenance \/ <<p, hostKey(t.to)>> \in P
    BY <1>4, <1>7, <1>9 DEF nextManagedProvenance, hasRecordProvenance
  <2> HIDE DEF p
  <2>3. \A n \in records' : \/ n \in records
                            \/ /\ n.output = Here
                               /\ \/ n.provenance = NoProvenance
                                  \/ <<n.provenance, hostKey(n)>> \in P
    BY <1>2, <2>1, <2>2, TaskRecords
  <2> QED
    BY <1>2, <1>3, <1>7, <2>1, <2>3, IdentityCall DEF P, rows
<1> QED
  BY <1>2, <1>8, <1>9

LEMMA DeleteIdentity ==
  ASSUME IInv, IdentityInv, Delete
  PROVE  IdentityInv'
<1>1. PICK t \in todo.deletes : \E x \in DeleteOutcomes(Here, t.visible) :
           /\ pc = "mutate"
           /\ t.visible \in VisibleRecords
           /\ Kind[Here] = "cloudflare"
           /\ x \in Outcomes /\ Called(x)
           /\ \/ MutationFails(x)
              \/ Progress(todo.creates, todo.updates, todo.deletes \ {t},
                          {m \in records : managedRecordLineageKey(m)
                                             # managedRecordLineageKey(t.managed)})
  BY DeleteStep
<1>2. PICK x \in DeleteOutcomes(Here, t.visible) :
           /\ pc = "mutate"
           /\ x \in Outcomes /\ Called(x)
           /\ \/ MutationFails(x)
              \/ Progress(todo.creates, todo.updates, todo.deletes \ {t},
                          {m \in records : managedRecordLineageKey(m)
                                             # managedRecordLineageKey(t.managed)})
  BY <1>1
<1>3. x.rows \subseteq remote[Here]
  BY <1>1, <1>2, DeleteEffect
<1>4. /\ records' \subseteq records /\ owned' \subseteq owned
      /\ \/ pc' # "mutate"
         \/ /\ UNCHANGED next
            /\ todo'.updates \subseteq todo.updates
            /\ todo'.deletes \subseteq todo.deletes
  <2>1. CASE MutationFails(x)
    BY <2>1 DEF MutationFails, FailPass
  <2>2. CASE Progress(todo.creates, todo.updates, todo.deletes \ {t},
                      {m \in records : managedRecordLineageKey(m)
                                         # managedRecordLineageKey(t.managed)})
    BY <2>2 DEF Progress
  <2> QED
    BY <1>2, <2>1, <2>2
<1>5. OneHostEach(Mentions(Here))
  BY <1>2, Mutating DEF IdentityInv
<1> QED
  BY <1>2, <1>3, <1>4, <1>5, IdentityCall

LEMMA AddRowIdentity ==
  ASSUME QualifiedNames, IInv, IdentityInv, AddRow
  PROVE  IdentityInv'
<1>1. PICK x \in OperatorRows :
        remote' = [remote EXCEPT ![x.output] =
                     @ \cup {[id |-> NewId, hostname |-> x.hostname,
                              answer |-> x.answer, maker |-> "operator"]}]
  BY DEF AddRow
<1> DEFINE s == [id |-> NewId, hostname |-> x.hostname,
                 answer |-> x.answer, maker |-> "operator"]
<1>2. /\ FreshIds # {} /\ UNCHANGED <<store, pc, pass>>
      /\ s.id = NewId /\ hostKey(s) = hostKey(x)
      /\ x.output \in Outputs
      /\ remote' = [remote EXCEPT ![x.output] = @ \cup {s}]
  BY <1>1, WorldAssumption DEF AddRow, hostKey, OperatorTexts
<1> HIDE DEF s
<1>3. \A o \in Outputs : /\ o # x.output => remote'[o] = remote[o]
                         /\ o = x.output => remote'[o] = remote[o] \cup {s}
  BY <1>2 DEF IInv, TypeOK, OutsideOK
<1> SUFFICES ASSUME NEW o \in Outputs
             PROVE  /\ OneHostEach(Mentions(o)')
                    /\ Kind[o] = "cloudflare" => \A r \in remote'[o] : Qualified(r)
  BY DEF IdentityInv, OneHostEach
<1>4. Entries(o)' \subseteq Entries(o) \cup {<<NewId, hostKey(x)>>}
  BY <1>2, <1>3 DEF Entries
<1>5. OnRecord(o)' = OnRecord(o) /\ InTasks' = InTasks /\ Here' = Here /\ pc' = pc
  BY <1>2 DEF OnRecord, ForOutput, InTasks, Here, pass
<1>6. Mentions(o)' \subseteq Mentions(o) \cup {<<NewId, hostKey(x)>>}
  BY <1>4, <1>5 DEF Mentions
<1>7. OneHostEach(Mentions(o) \cup {<<NewId, hostKey(x)>>})
  BY <1>2, FreshPair
<1>8. Kind[o] = "cloudflare" /\ o = x.output => Qualified(s)
  BY <1>2 DEF QualifiedNames, Qualified
<1> QED
  BY <1>3, <1>6, <1>7, <1>8 DEF OneHostEach, IdentityInv

LEMMA IdentityStep ==
  ASSUME QualifiedNames, NoEdits, IInv, SingleInv, IdentityInv, [Next]_vars
  PROVE  IdentityInv'
<1>1. CASE Plan
  BY <1>1, PlanIdentity
<1>2. CASE Create \/ Update \/ Delete
  BY <1>2, CreateIdentity, UpdateIdentity, DeleteIdentity
<1>3. CASE AddRow
  BY <1>3, AddRowIdentity
<1>4. CASE Start \/ Begin \/ Load \/ ListDesired \/ ReadFails \/ OutputsDone \/ FindAmbiguity
           \/ Save \/ SaveFails \/ SavePartial \/ Retry \/ GiveUp \/ Crash
  <2>1. /\ remote' = remote
        /\ store' \cup owned' \cup records' \subseteq store \cup owned \cup records
        /\ pc' # "mutate"
    BY <1>4 DEF Start, Begin, Load, ListDesired, ReadFails, OutputsDone, FindAmbiguity,
       Save, SaveFails, SavePartial, Retry, GiveUp, Crash, PassEnds, FailPass, pass
  <2> QED
    BY <2>1, IdentityFrame
<1>5. CASE RemoveRow
  <2>1. UNCHANGED <<store, pc, pass>> /\ \A o \in Outputs : remote'[o] \subseteq remote[o]
    BY <1>5 DEF RemoveRow, IInv, TypeOK, OutsideOK
  <2> QED
    BY <2>1, IdentityFrame DEF pass
<1>6. CASE UNCHANGED <<remote, store, pc, pass>>
  BY <1>6, IdentityFrame DEF pass
<1>7. ~EditRow
  BY DEF EditRow, OperatorMay, NoEdits
<1>8. CASE Wait \/ Deploy \/ Calm \/ UNCHANGED vars
  BY <1>6, <1>8 DEF Wait, Deploy, Calm, vars
<1> QED
  BY <1>1, <1>2, <1>3, <1>4, <1>5, <1>7, <1>8 DEF Next, Process, World, Operator

LEMMA IdentityInit == Init => IdentityInv
BY DEF Init, IdentityInv, Mentions, Entries, OnRecord, ForOutput, OneHostEach

\* In every state an identity is that of one host of its output.
LEMMA IdentityInvariance ==
  ASSUME SingleClaims, QualifiedNames, NoEdits
  PROVE  Spec => [](IInv /\ SingleInv /\ IdentityInv)
<1>1. Init => IInv /\ SingleInv /\ IdentityInv
  BY InitInv, SingleInit, IdentityInit
<1>2. IInv /\ SingleInv /\ IdentityInv /\ [Next]_vars => (IInv /\ SingleInv /\ IdentityInv)'
  BY NextInv, SingleStep, IdentityStep
<1> QED
  BY <1>1, <1>2, PTL DEF Spec

(***************************************************************************)
(* When a host has one claim at a time and its records keep their names,   *)
(* two managed records never name one remote record.                       *)
(***************************************************************************)
THEOREM OneOwnerEach ==
  ASSUME SingleClaims, QualifiedNames, NoEdits
  PROVE  Spec => []OneOwner
<1>1. IInv /\ SingleInv /\ IdentityInv => OneOwner
  <2> SUFFICES ASSUME IInv, SingleInv, IdentityInv, NEW m \in store, NEW n \in store,
                      m.output = n.output, hasRecordProvenance(m.provenance),
                      m.provenance = n.provenance
               PROVE  m = n
    BY DEF OneOwner
  <2>1. m.output \in Outputs
    BY DEF IInv, TypeOK, OutsideOK, ManagedRecords
  <2>2. /\ <<m.provenance, hostKey(m)>> \in Mentions(m.output)
        /\ <<n.provenance, hostKey(n)>> \in Mentions(m.output)
    BY DEF Mentions, OnRecord, ForOutput
  <2>3. OneHostEach(Mentions(m.output))
    BY <2>1 DEF IdentityInv
  <2>4. hostKey(m) = hostKey(n)
    BY <2>2, <2>3 DEF OneHostEach, hasRecordProvenance
  <2> QED
    BY <2>4 DEF SingleInv, OneManaged
<1> QED
  BY <1>1, IdentityInvariance, PTL

(***************************************************************************)
(* When a host has one claim at a time and its records keep their names,   *)
(* the daemon never removes a row that a container it has just listed asks *)
(* for: a planned deletion is for a host nobody wants, and the identity in *)
(* it is that of no other host.                                            *)
(***************************************************************************)
THEOREM WantedNotDeleted ==
  ASSUME SingleClaims, QualifiedNames, NoEdits
  PROVE  Spec => DesiredNotDeleted
<1> DEFINE Spared ==
      ProcessMoves =>
        \A o \in Outputs : \A r \in remote[o] :
          r.id \notin RowIds(remote'[o])
            => \A d \in filterDesiredForOutput(desired, o) : visibleRecordKey(d) # rowKey(r)
<1>1. IInv /\ SingleInv /\ IdentityInv /\ [Next]_vars => [Spared]_vars
  <2> SUFFICES ASSUME IInv, SingleInv, IdentityInv, Next, ProcessMoves, NEW o \in Outputs,
                      NEW r \in remote[o], r.id \notin RowIds(remote'[o]),
                      NEW d \in filterDesiredForOutput(desired, o)
               PROVE  visibleRecordKey(d) # rowKey(r)
    OBVIOUS
  <2>1. /\ r.id \in RowIds(remote[o]) \ RowIds(remote'[o])
        /\ r.id # NoProvenance
    BY NamesAssumption DEF RowIds, IInv, TypeOK, OutsideOK, Rows
  <2>2. remote' # remote
    BY <2>1, NothingRemoved
  <2>3. Create \/ Update \/ Delete
    <3>1. CASE Process
      BY <2>2, <3>1 DEF Process, Start, Begin, Load, ListDesired, ReadFails, OutputsDone,
         Plan, FindAmbiguity, Save, SaveFails, SavePartial, Retry, GiveUp
    <3>2. CASE Wait \/ World
      BY <2>2, <3>2 DEF Wait, vars, World, Crash, Deploy, Calm, Operator, AddRow, EditRow,
         RemoveRow, ProcessMoves
    <3> QED
      BY <3>1, <3>2 DEF Next
  <2>4. Delete
    BY <2>1, <2>3, CreateRemovesNothing, UpdateRemovesNothing
  <2>5. PICK t \in todo.deletes : \E x \in DeleteOutcomes(Here, t.visible) :
             /\ pc = "mutate"
             /\ t.visible \in VisibleRecords
             /\ Kind[Here] = "cloudflare"
             /\ Called(x)
    BY <2>4, DeleteStep
  <2>6. PICK x \in DeleteOutcomes(Here, t.visible) : Called(x)
    BY <2>5
  <2>7. o = Here
    BY <2>1, <2>5, <2>6, CalledElsewhere
  <2>8. r.id = t.visible.provenance
    <3>1. remote'[o] = x.rows
      BY <2>5, <2>6, <2>7, CalledElsewhere
    <3>2. x.rows = remote[Here] \/ x.rows = {q \in remote[Here] : q.id # t.visible.provenance}
      BY <2>5, DeleteEffect
    <3> QED
      BY <2>1, <2>7, <3>1, <3>2 DEF RowIds
  <2>9. hostKey(r) = hostKey(t.visible)
    <3>1. /\ <<r.id, hostKey(r)>> \in Mentions(Here)
          /\ <<t.visible.provenance, hostKey(t.visible)>> \in Mentions(Here)
      BY <2>5, <2>7 DEF Mentions, Entries, InTasks
    <3>2. OneHostEach(Mentions(Here))
      BY <2>7 DEF IdentityInv
    <3> QED
      BY <2>1, <2>8, <3>1, <3>2 DEF OneHostEach
  <2>10. hostKey(d) # hostKey(r)
    BY <2>5, <2>7, <2>9 DEF SingleInv, DeleteOK
  <2> QED
    BY <2>10 DEF visibleRecordKey, rowKey, hostKey
<1>2. Spec => [][Spared]_vars
  BY <1>1, IdentityInvariance, PTL DEF Spec
<1> QED
  BY <1>2 DEF DesiredNotDeleted

-----------------------------------------------------------------------------
(* One row to a host *)

\* The row a task is about is one of the task's host.
LEMMA HitHost ==
  ASSUME IInv, SingleInv, IdentityInv, pc = "mutate", NEW t \in todo.updates,
         NEW r \in remote[Here], Hit(Here, t.from, r)
  PROVE  hostKey(r) = hostKey(t.to)
<1>1. Here \in Outputs /\ hostKey(t.from) = hostKey(t.to)
  BY Mutating DEF SingleInv
<1>2. CASE Kind[Here] = "adguard"
  BY <1>1, <1>2 DEF Hit, hostKey
<1>3. CASE Kind[Here] # "adguard"
  <2>1. /\ <<r.id, hostKey(r)>> \in Mentions(Here)
        /\ <<t.from.provenance, hostKey(t.from)>> \in Mentions(Here)
    BY DEF Mentions, Entries, InTasks
  <2>2. r.id = t.from.provenance /\ r.id # NoProvenance
    BY <1>1, <1>3, NamesAssumption DEF Hit, IInv, TypeOK, OutsideOK, Rows
  <2> QED
    BY <1>1, <2>1, <2>2 DEF IdentityInv, OneHostEach
<1> QED
  BY <1>2, <1>3

\* x leaves the rows of every other host alone and shows d on its own.
Places(o, rows, d, x) ==
  \E s \in Rows : /\ RowFor(o, s, d)
                  /\ x.rows = {r \in rows : hostKey(r) # hostKey(d)} \cup {s}
                  /\ ~Fails(x) =>
                       x.provenance = IF Kind[o] = "adguard" THEN NoProvenance ELSE s.id

LEMMA CreatePlaces ==
  ASSUME QualifiedNames, IInv, SingleInv, IdentityInv, RowsInv, pc = "mutate",
         FreshIds # {}, NEW t \in todo.creates, t.to \in DesiredRecords,
         NEW x \in CreateOutcomes(Here, t.to)
  PROVE  \/ x.rows = remote[Here] /\ Fails(x)
         \/ Places(Here, remote[Here], t.to, x) /\ (Fails(x) => "lost" \in Faults)
<1> DEFINE rows == remote[Here]
<1>1. /\ QualifiedOn(Here, rows, t.to)
      /\ \A r \in rows : hostKey(r) # hostKey(t.to)
  BY TaskQualified DEF RowsInv
<1>2. \/ /\ x.rows = rows
         /\ \/ Fails(x)
            \/ \E r \in rows : hostKey(r) = hostKey(t.to) /\ x.provenance = r.id
      \/ /\ Added(Here, rows, t.to, x)
         /\ \/ Fails(x) /\ "lost" \in Faults
            \/ /\ ~Fails(x)
               /\ x.provenance = IF Kind[Here] = "adguard" THEN NoProvenance ELSE NewId
      \/ Rewritten(Here, rows, t.to, x)
  BY <1>1, CreateEffect
<1>3. ~Rewritten(Here, rows, t.to, x)
  BY <1>1 DEF Rewritten
<1>4. {r \in rows : hostKey(r) # hostKey(t.to)} = rows
  BY <1>1
<1> HIDE DEF rows
<1>5. Added(Here, rows, t.to, x)
        /\ (~Fails(x) => x.provenance = IF Kind[Here] = "adguard" THEN NoProvenance ELSE NewId)
        => Places(Here, rows, t.to, x)
  BY <1>4 DEF Added, Places
<1> QED
  BY <1>1, <1>2, <1>3, <1>5 DEF rows

LEMMA UpdatePlaces ==
  ASSUME QualifiedNames, IInv, SingleInv, IdentityInv, RowsInv, pc = "mutate",
         NEW t \in todo.updates, t.to \in DesiredRecords, t.from \in VisibleRecords,
         NEW x \in UpdateOutcomes(Here, t.from, t.to)
  PROVE  \/ x.rows = remote[Here] /\ Fails(x)
         \/ Places(Here, remote[Here], t.to, x) /\ (Fails(x) => "lost" \in Faults)
<1> DEFINE rows == remote[Here]
<1>1. /\ QualifiedOn(Here, rows, t.to) /\ Here \in Outputs
      /\ OneRowPerHost(rows)
  BY TaskQualified, Mutating DEF RowsInv
<1>2. \/ x.rows = rows /\ Fails(x)
      \/ Moved(Here, rows, t.from, t.to, x) /\ (Fails(x) => "lost" \in Faults)
  BY <1>1, UpdateEffect
<1>3. \A r \in rows : Hit(Here, t.from, r) => hostKey(r) = hostKey(t.to)
  BY HitHost
<1> HIDE DEF rows
<1>4. ASSUME Moved(Here, rows, t.from, t.to, x)
      PROVE  Places(Here, rows, t.to, x)
  <2>1. PICK r \in rows, gone \in SUBSET rows, s \in Rows :
          /\ r \in gone /\ \A q \in gone : Hit(Here, t.from, q)
          /\ s.id = r.id /\ RowFor(Here, s, t.to)
          /\ x.rows = (rows \ gone) \cup {s}
          /\ Fails(x) \/ x.provenance = IF Kind[Here] = "adguard" THEN NoProvenance ELSE r.id
    BY <1>4 DEF Moved
  <2>2. rows \ gone = {q \in rows : hostKey(q) # hostKey(t.to)}
    BY <1>1, <1>3, <2>1 DEF OneRowPerHost
  <2> QED
    BY <2>1, <2>2 DEF Places
<1> QED
  BY <1>2, <1>4 DEF rows

\* Steps after which the rows of a pending task's host are still what they were.
LEMMA RowsFrame ==
  ASSUME IInv, RowsInv,
         \A o \in Outputs : OneRowPerHost(remote'[o]),
         \/ pc' # "mutate"
         \/ /\ pc = "mutate" /\ Here' = Here
            /\ todo'.creates \subseteq todo.creates
            /\ todo'.deletes \subseteq todo.deletes
            /\ \A r \in remote'[Here] :
                 \/ r \in remote[Here]
                 \/ /\ \A t \in todo'.creates : hostKey(r) # hostKey(t.to)
                    /\ \A t \in todo'.deletes : hostKey(r) # hostKey(t.managed)
  PROVE  RowsInv'
<1>1. pc' = "mutate" =>
       /\ \A t \in todo'.creates : \A r \in remote'[Here'] : hostKey(r) # hostKey(t.to)
       /\ \A t, u \in todo'.creates : hostKey(t.to) = hostKey(u.to) => t = u
       /\ \A t \in todo'.deletes : \A r \in remote'[Here'] :
            hostKey(r) = hostKey(t.managed) => r.id = t.visible.provenance
  BY DEF RowsInv
<1> QED
  BY <1>1 DEF RowsInv

LEMMA PlanRows ==
  ASSUME IInv, SingleInv, RowsInv, Plan
  PROVE  RowsInv'
<1> DEFINE W == filterDesiredForOutput(desired, Here)
           mine == ForOutput(store, Here)
           visible == ListOutcome(Here)
<1>1. /\ Here \in Outputs /\ Here' = Here
      /\ Single(Here, W, mine)
      /\ todo'.creates = PlannedCreates(Here, W, visible, mine)
      /\ todo'.deletes = PlannedDeletes(Here, W, visible, mine)
      /\ UNCHANGED remote
  BY PlanStep
<1>2. \A r \in remote[Here] : \E v \in visible : Shows(Here, v, r)
  BY <1>1, Listing
<1>3. \A v \in visible : \E r \in remote[Here] : Shows(Here, v, r)
  BY <1>1, Listing
<1> HIDE DEF W, mine, visible
<1>4. ASSUME NEW t \in todo'.creates
      PROVE  \A r \in remote[Here] : hostKey(r) # hostKey(t.to)
  <2>1. visibleByHostname(visible, hostKey(t.to)) = {}
    BY <1>1, CreatesOf
  <2> QED
    BY <1>2, <2>1 DEF Shows, visibleByHostname
<1>5. ASSUME NEW t \in todo'.creates, NEW u \in todo'.creates, hostKey(t.to) = hostKey(u.to)
      PROVE  t = u
  <2> DEFINE Made(e) ==
        \/ /\ e = [to |-> e.to, drops |-> {}]
           /\ \A m \in mine : hostKey(m) # hostKey(e.to)
        \/ \E m \in mine : /\ hostKey(m) = hostKey(e.to)
                           /\ e = [to |-> e.to, drops |-> Superseded(Here, e.to, m)]
  <2>1. t.to \in W /\ Made(t) /\ u.to \in W /\ Made(u)
    BY <1>1, CreatesOf
  <2>2. t.to = u.to
    BY <1>1, <1>5, <2>1 DEF Single
  <2> QED
    BY <1>1, <2>1, <2>2 DEF Single
<1>6. ASSUME NEW t \in todo'.deletes, NEW r \in remote[Here], hostKey(r) = hostKey(t.managed)
      PROVE  r.id = t.visible.provenance
  <2>1. t.visible \in staleOwnedDeleteVisibleRecord(t.managed, visible)
    BY <1>1, DeletesOf
  <2>2. /\ t.visible \in visible /\ hostKey(t.visible) = hostKey(t.managed)
        /\ t.visible.provenance # NoProvenance
    BY <2>1, StaleHost, StaleProof DEF sameRecordProvenance, hasRecordProvenance
  <2>3. PICK q \in remote[Here] : Shows(Here, t.visible, q)
    BY <1>3, <2>2
  <2>4. q = r
    BY <1>1, <1>6, <2>2, <2>3 DEF Shows, RowsInv, OneRowPerHost
  <2> QED
    BY <2>2, <2>3, <2>4 DEF Shows
<1> QED
  BY <1>1, <1>4, <1>5, <1>6 DEF RowsInv

LEMMA PlacesOneRow ==
  ASSUME NEW o, NEW rows, NEW d, NEW x, Places(o, rows, d, x), OneRowPerHost(rows)
  PROVE  OneRowPerHost(x.rows)
BY DEF Places, RowFor, OneRowPerHost

\* A task that places its record disturbs no other pending task.
LEMMA PlacesRows ==
  ASSUME IInv, SingleInv, RowsInv, pc = "mutate", NEW x, Called(x),
         NEW t \in todo.creates \cup todo.updates,
         x.rows = remote[Here] \/ Places(Here, remote[Here], t.to, x),
         \/ pc' # "mutate"
         \/ /\ UNCHANGED <<pc, next>>
            /\ todo'.creates \subseteq todo.creates /\ t \notin todo'.creates
            /\ t \in todo.creates \/ todo'.creates = {}
            /\ todo'.deletes \subseteq todo.deletes
  PROVE  RowsInv'
<1>1. /\ Here \in Outputs
      /\ remote'[Here] = x.rows
      /\ \A o \in Outputs : o # Here => remote'[o] = remote[o]
  BY Mutating, CalledElsewhere
<1>2. \A o \in Outputs : OneRowPerHost(remote'[o])
  BY <1>1, PlacesOneRow DEF RowsInv
<1>3. CASE pc' # "mutate"
  BY <1>2, <1>3, RowsFrame
<1>4. CASE pc' = "mutate"
  <2>1. /\ Here' = Here
        /\ todo'.creates \subseteq todo.creates /\ t \notin todo'.creates
        /\ t \in todo.creates \/ todo'.creates = {}
        /\ todo'.deletes \subseteq todo.deletes
    BY <1>4 DEF Here
  <2>2. ASSUME NEW r \in remote'[Here]
        PROVE  \/ r \in remote[Here]
               \/ /\ \A u \in todo'.creates : hostKey(r) # hostKey(u.to)
                  /\ \A u \in todo'.deletes : hostKey(r) # hostKey(u.managed)
    <3>1. r \in remote[Here] \/ hostKey(r) = hostKey(t.to)
      BY <1>1 DEF Places, RowFor
    <3>2. \A u \in todo'.creates : hostKey(t.to) # hostKey(u.to)
      BY <2>1 DEF RowsInv
    <3>3. \A u \in todo'.deletes : hostKey(t.to) # hostKey(u.managed)
      BY <2>1 DEF SingleInv, TaskOK, DeleteOK
    <3> QED
      BY <3>1, <3>2, <3>3
  <2> QED
    BY <1>2, <2>1, <2>2, RowsFrame
<1> QED
  BY <1>3, <1>4

\* Task t is done: its row s is the only one of its host, and is on record.
Advance(t, x, s, p) ==
  /\ RowFor(Here, s, t.to)
  /\ x.rows = {r \in remote[Here] : hostKey(r) # hostKey(t.to)} \cup {s}
  /\ Kind[Here] = "cloudflare" => p = s.id
  /\ records' = Record(records, ManagedFrom(Here, t.to, p), t.drops)
  /\ \/ /\ t \in todo.creates
        /\ todo'.creates = todo.creates \ {t} /\ todo'.updates = todo.updates
     \/ /\ t \in todo.updates /\ todo.creates = {}
        /\ todo'.creates = {} /\ todo'.updates = todo.updates \ {t}
  /\ todo'.deletes = todo.deletes
  /\ progressed' = TRUE
  /\ UNCHANGED <<pc, owned, desired, next, failure>>

\* A call for task t failed: nothing happened, or the answer was lost.
Abandon(t, x) ==
  /\ MutationFails(x)
  /\ \/ x.rows = remote[Here]
     \/ Places(Here, remote[Here], t.to, x) /\ "lost" \in Faults

LEMMA TaskStep ==
  ASSUME QualifiedNames, IInv, SingleInv, IdentityInv, RowsInv, Create \/ Update
  PROVE  \E t \in todo.creates \cup todo.updates, x \in Outcomes :
           /\ pc = "mutate" /\ Called(x)
           /\ \/ Abandon(t, x)
              \/ \E s \in Rows : \E p : Advance(t, x, s, p)
<1>1. CASE Create
  <2>1. PICK t \in todo.creates : \E x \in CreateOutcomes(Here, t.to) :
             /\ pc = "mutate" /\ FreshIds # {}
             /\ t.to \in DesiredRecords
             /\ x \in Outcomes /\ Called(x)
             /\ \/ MutationFails(x)
                \/ /\ ~Fails(x)
                   /\ Progress(todo.creates \ {t}, todo.updates, todo.deletes,
                               Record(records, ManagedFrom(Here, t.to, x.provenance), t.drops))
    BY <1>1, CreateStep
  <2>2. PICK x \in CreateOutcomes(Here, t.to) :
             /\ pc = "mutate" /\ FreshIds # {}
             /\ t.to \in DesiredRecords
             /\ x \in Outcomes /\ Called(x)
             /\ \/ MutationFails(x)
                \/ /\ ~Fails(x)
                   /\ Progress(todo.creates \ {t}, todo.updates, todo.deletes,
                               Record(records, ManagedFrom(Here, t.to, x.provenance), t.drops))
    BY <2>1
  <2>3. \/ x.rows = remote[Here] /\ Fails(x)
        \/ Places(Here, remote[Here], t.to, x) /\ (Fails(x) => "lost" \in Faults)
    BY <2>2, CreatePlaces
  <2>4. CASE MutationFails(x)
    BY <2>2, <2>3, <2>4 DEF Abandon, MutationFails
  <2>5. ASSUME ~Fails(x),
               Progress(todo.creates \ {t}, todo.updates, todo.deletes,
                        Record(records, ManagedFrom(Here, t.to, x.provenance), t.drops))
        PROVE  \E s \in Rows : \E p : Advance(t, x, s, p)
    <3>1. PICK s \in Rows :
            /\ RowFor(Here, s, t.to)
            /\ x.rows = {r \in remote[Here] : hostKey(r) # hostKey(t.to)} \cup {s}
            /\ x.provenance = IF Kind[Here] = "adguard" THEN NoProvenance ELSE s.id
      BY <2>3, <2>5 DEF Places
    <3>2. Advance(t, x, s, x.provenance)
      BY <2>5, <3>1 DEF Advance, Progress
    <3> QED
      BY <3>2
  <2> QED
    BY <2>2, <2>4, <2>5
<1>2. CASE Update
  <2>1. PICK t \in todo.updates : \E x \in UpdateOutcomes(Here, t.from, t.to) :
             /\ pc = "mutate" /\ todo.creates = {}
             /\ t.to \in DesiredRecords /\ t.from \in VisibleRecords
             /\ x \in Outcomes /\ Called(x)
             /\ \/ MutationFails(x)
                \/ /\ ~Fails(x)
                   /\ Progress(todo.creates, todo.updates \ {t}, todo.deletes,
                               Record(records,
                                      ManagedFrom(Here, t.to,
                                                  nextManagedProvenance(x.provenance,
                                                                        t.from.provenance)),
                                      t.drops))
    BY <1>2, UpdateStep
  <2>2. PICK x \in UpdateOutcomes(Here, t.from, t.to) :
             /\ pc = "mutate" /\ todo.creates = {}
             /\ t.to \in DesiredRecords /\ t.from \in VisibleRecords
             /\ x \in Outcomes /\ Called(x)
             /\ \/ MutationFails(x)
                \/ /\ ~Fails(x)
                   /\ Progress(todo.creates, todo.updates \ {t}, todo.deletes,
                               Record(records,
                                      ManagedFrom(Here, t.to,
                                                  nextManagedProvenance(x.provenance,
                                                                        t.from.provenance)),
                                      t.drops))
    BY <2>1
  <2>3. \/ x.rows = remote[Here] /\ Fails(x)
        \/ Places(Here, remote[Here], t.to, x) /\ (Fails(x) => "lost" \in Faults)
    BY <2>2, UpdatePlaces
  <2>4. CASE MutationFails(x)
    BY <2>2, <2>3, <2>4 DEF Abandon, MutationFails
  <2> DEFINE p == nextManagedProvenance(x.provenance, t.from.provenance)
  <2>5. ASSUME ~Fails(x),
               Progress(todo.creates, todo.updates \ {t}, todo.deletes,
                        Record(records, ManagedFrom(Here, t.to, p), t.drops))
        PROVE  \E s \in Rows : \E q : Advance(t, x, s, q)
    <3>1. PICK s \in Rows :
            /\ RowFor(Here, s, t.to)
            /\ x.rows = {r \in remote[Here] : hostKey(r) # hostKey(t.to)} \cup {s}
            /\ x.provenance = IF Kind[Here] = "adguard" THEN NoProvenance ELSE s.id
      BY <2>3, <2>5 DEF Places
    <3>2. Kind[Here] = "cloudflare" => p = s.id
      BY <3>1, NamesAssumption DEF Rows, nextManagedProvenance, hasRecordProvenance
    <3> HIDE DEF p
    <3>3. Advance(t, x, s, p)
      BY <2>2, <2>5, <3>1, <3>2 DEF Advance, Progress
    <3> QED
      BY <3>3
  <2> QED
    BY <2>2, <2>4, <2>5
<1> QED
  BY <1>1, <1>2

LEMMA TaskRows ==
  ASSUME QualifiedNames, IInv, SingleInv, IdentityInv, RowsInv, Create \/ Update
  PROVE  RowsInv'
<1>1. PICK t \in todo.creates \cup todo.updates, x \in Outcomes :
           /\ pc = "mutate" /\ Called(x)
           /\ \/ Abandon(t, x)
              \/ \E s \in Rows : \E p : Advance(t, x, s, p)
  BY TaskStep
<1>2. CASE Abandon(t, x)
  BY <1>1, <1>2, PlacesRows DEF Abandon, MutationFails, FailPass
<1>3. ASSUME NEW s \in Rows, NEW p, Advance(t, x, s, p)
      PROVE  RowsInv'
  <2>1. \E q \in Rows : /\ RowFor(Here, q, t.to)
                        /\ x.rows = {r \in remote[Here] : hostKey(r) # hostKey(t.to)} \cup {q}
    BY <1>3 DEF Advance
  <2>2. CASE x.rows = remote[Here]
    BY <1>1, <1>3, <2>2, PlacesRows DEF Advance
  <2>3. \A o \in Outputs : OneRowPerHost(remote'[o])
    <3>1. OneRowPerHost(x.rows)
      BY <1>1, <2>1, Mutating DEF RowsInv, OneRowPerHost, RowFor
    <3> QED
      BY <1>1, <3>1, CalledElsewhere DEF RowsInv
  <2>4. \A r \in remote'[Here] : r \in remote[Here] \/ hostKey(r) = hostKey(t.to)
    BY <1>1, <2>1, CalledElsewhere, Mutating DEF RowFor
  <2>5. /\ \A u \in todo'.creates : hostKey(t.to) # hostKey(u.to)
        /\ \A u \in todo'.deletes : hostKey(t.to) # hostKey(u.managed)
    BY <1>1, <1>3 DEF Advance, RowsInv, SingleInv, TaskOK, DeleteOK
  <2>6. Here' = Here /\ todo'.creates \subseteq todo.creates /\ todo'.deletes = todo.deletes
    BY <1>3 DEF Advance, Here
  <2> QED
    BY <1>1, <2>3, <2>4, <2>5, <2>6, RowsFrame
<1> QED
  BY <1>1, <1>2, <1>3

\* A deletion takes away the rows with its identity, or nothing.
LEMMA DeleteTakes ==
  ASSUME IInv, Delete
  PROVE  \E t \in todo.deletes, x \in Outcomes :
           /\ pc = "mutate" /\ Called(x)
           /\ todo.creates = {} /\ todo.updates = {}
           /\ t.managed.output = Here
           /\ \/ /\ MutationFails(x)
                 /\ \/ x.rows = remote[Here]
                    \/ /\ x.rows = {r \in remote[Here] : r.id # t.visible.provenance}
                       /\ "lost" \in Faults
              \/ /\ x.rows = {r \in remote[Here] : r.id # t.visible.provenance}
                 /\ Progress({}, {}, todo.deletes \ {t},
                             {m \in records : managedRecordLineageKey(m)
                                                # managedRecordLineageKey(t.managed)})
<1>1. PICK t \in todo.deletes : \E x \in DeleteOutcomes(Here, t.visible) :
           /\ pc = "mutate"
           /\ todo.creates = {} /\ todo.updates = {}
           /\ t.visible \in VisibleRecords
           /\ t.managed.output = Here
           /\ Kind[Here] = "cloudflare"
           /\ x \in Outcomes /\ Called(x)
           /\ \/ MutationFails(x)
              \/ /\ ~Fails(x)
                 /\ Progress(todo.creates, todo.updates, todo.deletes \ {t},
                             {m \in records : managedRecordLineageKey(m)
                                                # managedRecordLineageKey(t.managed)})
  BY DeleteStep
<1>2. PICK x \in DeleteOutcomes(Here, t.visible) :
           /\ x \in Outcomes /\ Called(x)
           /\ \/ MutationFails(x)
              \/ /\ ~Fails(x)
                 /\ Progress(todo.creates, todo.updates, todo.deletes \ {t},
                             {m \in records : managedRecordLineageKey(m)
                                                # managedRecordLineageKey(t.managed)})
  BY <1>1
<1>3. \/ x.rows = remote[Here] /\ Fails(x)
      \/ /\ x.rows = {r \in remote[Here] : r.id # t.visible.provenance}
         /\ Fails(x) => "lost" \in Faults
  BY <1>1, DeleteEffect
<1>4. MutationFails(x) => Fails(x)
  BY DEF MutationFails
<1> QED
  BY <1>1, <1>2, <1>3, <1>4

LEMMA DeleteRows ==
  ASSUME IInv, RowsInv, Delete
  PROVE  RowsInv'
<1>1. PICK t \in todo.deletes, x \in Outcomes :
           /\ pc = "mutate" /\ Called(x)
           /\ x.rows \subseteq remote[Here]
           /\ \/ MutationFails(x)
              \/ Progress({}, {}, todo.deletes \ {t},
                          {m \in records : managedRecordLineageKey(m)
                                             # managedRecordLineageKey(t.managed)})
  BY DeleteTakes
<1>2. \A o \in Outputs : remote'[o] \subseteq remote[o]
  BY <1>1, CalledElsewhere
<1>3. \A o \in Outputs : OneRowPerHost(remote'[o])
  BY <1>2 DEF RowsInv, OneRowPerHost
<1>4. \/ pc' # "mutate"
      \/ /\ Here' = Here /\ todo'.creates \subseteq todo.creates
         /\ todo'.deletes \subseteq todo.deletes
  BY <1>1 DEF MutationFails, FailPass, Progress, Here
<1> QED
  BY <1>1, <1>2, <1>3, <1>4, Mutating, RowsFrame

LEMMA RemoveShrinks ==
  ASSUME IInv, RemoveRow
  PROVE  /\ \A o \in Outputs : remote'[o] \subseteq remote[o]
         /\ UNCHANGED <<running, store, pc, pass, watching, hint, missed, stormy>>
BY DEF RemoveRow, IInv, TypeOK, OutsideOK

LEMMA RowsStep ==
  ASSUME QualifiedNames, OnlyRemovals, IInv, SingleInv, IdentityInv, RowsInv, [Next]_vars
  PROVE  RowsInv'
<1>1. CASE Plan
  BY <1>1, PlanRows
<1>2. CASE Create \/ Update
  BY <1>2, TaskRows
<1>3. CASE Delete
  BY <1>3, DeleteRows
<1>4. CASE Start \/ Begin \/ Load \/ ListDesired \/ ReadFails \/ OutputsDone \/ FindAmbiguity
           \/ Save \/ SaveFails \/ SavePartial \/ Retry \/ GiveUp \/ Crash
  <2>1. remote' = remote /\ pc' # "mutate"
    BY <1>4 DEF Start, Begin, Load, ListDesired, ReadFails, OutputsDone, FindAmbiguity,
       Save, SaveFails, SavePartial, Retry, GiveUp, Crash, PassEnds, FailPass
  <2> QED
    BY <2>1 DEF RowsInv
<1>5. CASE RemoveRow
  <2>1. /\ \A o \in Outputs : remote'[o] \subseteq remote[o]
        /\ pc' = pc /\ todo' = todo /\ Here' = Here
    BY <1>5, RemoveShrinks DEF pass, Here
  <2>2. \A o \in Outputs : OneRowPerHost(remote'[o])
    BY <2>1 DEF RowsInv, OneRowPerHost
  <2> QED
    BY <2>1, <2>2, Mutating, RowsFrame
<1>6. CASE UNCHANGED <<remote, pc, pass>>
  BY <1>6 DEF RowsInv, Here, pass
<1>7. ~EditRow /\ ~AddRow
  BY DEF EditRow, AddRow, OperatorMay, OnlyRemovals
<1>8. CASE Wait \/ Deploy \/ Calm \/ UNCHANGED vars
  BY <1>6, <1>8 DEF Wait, Deploy, Calm, vars
<1> QED
  BY <1>1, <1>2, <1>3, <1>4, <1>5, <1>7, <1>8 DEF Next, Process, World, Operator

LEMMA RowsInit == Init => RowsInv
BY DEF Init, RowsInv, OneRowPerHost

LEMMA RowsInvariance ==
  ASSUME SingleClaims, QualifiedNames, OnlyRemovals
  PROVE  Spec => [](IInv /\ SingleInv /\ IdentityInv /\ RowsInv)
<1>1. Init => IInv /\ SingleInv /\ IdentityInv /\ RowsInv
  BY InitInv, SingleInit, IdentityInit, RowsInit
<1>2. NoEdits
  BY DEF NoEdits, OnlyRemovals
<1>3. IInv /\ SingleInv /\ IdentityInv /\ RowsInv /\ [Next]_vars
        => (IInv /\ SingleInv /\ IdentityInv /\ RowsInv)'
  BY <1>2, NextInv, SingleStep, IdentityStep, RowsStep
<1> QED
  BY <1>1, <1>3, PTL DEF Spec

(***************************************************************************)
(* When a host has one claim at a time and operators only remove rows, no  *)
(* output ever shows a key twice: not after a lost answer, nor after a     *)
(* crash between a call and the save that records it.                      *)
(***************************************************************************)
THEOREM NoDuplicates ==
  ASSUME SingleClaims, QualifiedNames, OnlyRemovals
  PROVE  Spec => []NoDuplicateRows
<1>1. RowsInv => NoDuplicateRows
  BY DEF RowsInv, OneRowPerHost, NoDuplicateRows, rowKey, hostKey
<1> QED
  BY <1>1, RowsInvariance, PTL
=============================================================================
