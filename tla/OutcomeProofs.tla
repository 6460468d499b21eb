---------------------------- MODULE OutcomeProofs ----------------------------
(***************************************************************************)
(* What passes leave behind, for every number of sources, outputs, hosts   *)
(* and containers: every row is on record; a pass that no hint and no      *)
(* missed change has overtaken leaves nothing to do, and Cloudflare then   *)
(* shows exactly what the containers want; a pass serves every host and    *)
(* leaves the rows of an operator alone.  The invariants are the upper     *)
(* layers of SingleClaims; SingleClaimProofs proves the lower ones.        *)
(***************************************************************************)
EXTENDS SingleClaimProofs

-----------------------------------------------------------------------------
(* What a step does to the snapshot in memory *)

\* A finished task replaces the record of its host and no other.
LEMMA Recorded ==
  ASSUME IInv, SingleInv, OthersOK, pc = "mutate", NEW t \in todo.creates \cup todo.updates,
         NEW p, NEW recs, recs = Record(records, ManagedFrom(Here, t.to, p), t.drops)
  PROVE  /\ ManagedFrom(Here, t.to, p) \in recs
         /\ \A n \in recs :
              \/ n = ManagedFrom(Here, t.to, p)
              \/ n \in records /\ (n.output = Here => hostKey(n) # hostKey(t.to))
         /\ \A n \in records :
              n.output # Here \/ hostKey(n) # hostKey(t.to) => n \in recs
<1>1. TaskOK(t)
  BY DEF SingleInv
<1>2. /\ ManagedFrom(Here, t.to, p) \in recs
      /\ \A n \in recs :
           \/ n = ManagedFrom(Here, t.to, p)
           \/ n \in records /\ (n.output = Here => hostKey(n) # hostKey(t.to))
      /\ \A n \in records : hostKey(n) # hostKey(t.to) => n \in recs
  BY <1>1, RecordOnHost DEF TaskOK
<1>3. ASSUME NEW n \in records, n.output # Here
      PROVE  n \in recs
  <2>1. \A m \in t.drops \cup {ManagedFrom(Here, t.to, p)} : m.output = Here
    BY ManagedFromKeys DEF OthersOK
  <2>2. managedRecordLineageKey(n) \notin Lineages(t.drops \cup {ManagedFrom(Here, t.to, p)})
    BY <1>3, <2>1, LineageHost DEF Lineages
  <2> QED
    BY <2>2 DEF Record
<1> QED
  BY <1>2, <1>3

\* A deletion forgets its managed record, and perhaps others of its host.
LEMMA Forgotten ==
  ASSUME NEW S, NEW m, NEW n \in S, n.output # m.output \/ hostKey(n) # hostKey(m)
  PROVE  n \in {k \in S : managedRecordLineageKey(k) # managedRecordLineageKey(m)}
BY LineageHost

-----------------------------------------------------------------------------
(* Every row on record *)

LEMMA AccountsHost ==
  ASSUME NEW m, NEW r, NEW o, Accounts(m, r, o)
  PROVE  hostKey(m) = hostKey(r)
BY DEF Accounts, visibleRecordKey, rowKey, hostKey

\* Rows disappear and records do not.
LEMMA AccountFrame ==
  ASSUME NEW S, NEW T, Accounted(S), S \subseteq T,
         \A o \in Outputs : remote'[o] \subseteq remote[o]
  PROVE  \A o \in Outputs : \A r \in remote'[o] : \E m \in T : Accounts(m, r, o)
BY DEF Accounted

\* What a keep writes accounts for the row that made it a keep.
LEMMA KeepAccounts ==
  ASSUME IInv, RowsInv, NEW o \in Outputs, NEW d, NEW m, NEW mine, NEW r \in remote[o],
         Accounts(m, r, o), hostKey(m) = hostKey(d),
         Decision(o, d, m, mine, ListOutcome(o)) = "keep"
  PROVE  Accounts(ManagedFrom(o, d, m.provenance), r, o)
<1> DEFINE visible == ListOutcome(o)
<1>1. \A v \in visible : \E q \in remote[o] : Shows(o, v, q)
  BY Listing
<1> HIDE DEF visible
<1>2. visibleByKey(visible, visibleRecordKey(d)) # {}
  BY DEF Decision, visible
<1>3. PICK v \in visible : visibleRecordKey(v) = visibleRecordKey(d)
  BY <1>2 DEF visibleByKey
<1>4. PICK q \in remote[o] : Shows(o, v, q)
  BY <1>1
<1>5. hostKey(q) = hostKey(r)
  <2>1. hostKey(q) = hostKey(v) /\ hostKey(v) = hostKey(d)
    BY <1>3, <1>4 DEF Shows, visibleRecordKey, hostKey
  <2> QED
    BY <2>1, AccountsHost
<1>6. q = r
  BY <1>5 DEF RowsInv, OneRowPerHost
<1>7. rowKey(r) = visibleRecordKey(d)
  BY <1>3, <1>4, <1>6 DEF Shows
<1> QED
  BY <1>7, ManagedFromKeys DEF Accounts

LEMMA PlanAccount ==
  ASSUME IInv, SingleInv, RowsInv, AccountInv, Plan
  PROVE  AccountInv'
<1> DEFINE W == filterDesiredForOutput(desired, Here)
           mine == ForOutput(store, Here)
           visible == ListOutcome(Here)
           left == Left(Here, W, mine, visible)
<1>1. /\ Here \in Outputs
      /\ Single(Here, W, mine)
      /\ pc = "outputs" /\ pc' = "mutate"
      /\ records' = (store \ mine) \cup left
      /\ UNCHANGED <<remote, store, progressed>>
  BY PlanStep
<1>2. Accounted(store)
  BY <1>1 DEF AccountInv, Known
<1>3. ASSUME NEW o \in Outputs, NEW r \in remote[o]
      PROVE  \E m \in records' : Accounts(m, r, o)
  <2>1. PICK m \in store : Accounts(m, r, o)
    BY <1>2 DEF Accounted
  <2>2. CASE o # Here
    BY <1>1, <2>1, <2>2 DEF Accounts, ForOutput
  <2>3. CASE o = Here
    <3>1. m \in mine /\ hostKey(m) = hostKey(r)
      BY <2>1, <2>3, AccountsHost DEF ForOutput, Accounts
    <3>2. PICK v \in visible : Shows(Here, v, r)
      BY <1>1, <2>3, Listing
    <3> HIDE DEF mine, visible, left, W
    <3>3. CASE \A d \in W : hostKey(d) # hostKey(m)
      <4>1. visibleByHostname(visible, hostKey(m)) # {}
        BY <3>1, <3>2 DEF Shows, visibleByHostname
      <4>2. m \in left
        BY <1>1, <3>1, <3>3, <4>1, LeftOnHost DEF left
      <4> QED
        BY <1>1, <2>1, <4>2
    <3>4. ASSUME NEW d \in W, hostKey(d) = hostKey(m)
          PROVE  \E n \in records' : Accounts(n, r, o)
      <4> DEFINE n == IF Decision(Here, d, m, mine, visible) = "keep"
                      THEN ManagedFrom(Here, d, m.provenance) ELSE m
      <4>1. n \in left
        BY <1>1, <3>1, <3>4, LeftOnHost DEF left
      <4>2. Accounts(n, r, o)
        BY <2>1, <2>3, <3>4, KeepAccounts DEF visible
      <4> HIDE DEF n
      <4> QED
        BY <1>1, <4>1, <4>2
    <3> QED
      BY <3>3, <3>4
  <2> QED
    BY <2>2, <2>3
<1>4. Accounted(store)' /\ Accounted(Known)'
  BY <1>1, <1>2, <1>3 DEF Accounted, Known
<1> QED
  BY <1>4 DEF AccountInv

\* A failed call changed nothing: what was known before is still known.
LEMMA FailedAccount ==
  ASSUME IInv, AccountInv, pc = "mutate", NEW x, Called(x), MutationFails(x),
         x.rows = remote[Here]
  PROVE  AccountInv'
<1>1. store' = store /\ \A o \in Outputs : remote'[o] = remote[o]
  BY CalledElsewhere DEF Called
<1>2. Accounted(records) /\ (~progressed => Accounted(store))
  BY DEF AccountInv, Known
<1>3. CASE progressed
  <2>1. pc' = "savePartial" /\ records' = records
    BY <1>3 DEF MutationFails
  <2> QED
    BY <1>1, <1>2, <2>1 DEF AccountInv, Known, Accounted
<1>4. CASE ~progressed
  <2>1. pc' = "failed"
    BY <1>4 DEF MutationFails, FailPass
  <2> QED
    BY <1>1, <1>2, <1>4, <2>1 DEF AccountInv, Known, Accounted
<1> QED
  BY <1>3, <1>4

LEMMA TaskAccount ==
  ASSUME QualifiedNames, NothingForgotten, IInv, OthersOK, SingleInv, IdentityInv, RowsInv,
         AccountInv, Create \/ Update
  PROVE  AccountInv'
<1>1. PICK t \in todo.creates \cup todo.updates, x \in Outcomes :
           /\ pc = "mutate" /\ Called(x)
           /\ \/ Abandon(t, x)
              \/ \E s \in Rows : \E p : Advance(t, x, s, p)
  BY TaskStep
<1>2. CASE Abandon(t, x)
  BY <1>1, <1>2, FailedAccount DEF Abandon, NothingForgotten
<1>3. ASSUME NEW s \in Rows, NEW p, Advance(t, x, s, p)
      PROVE  AccountInv'
  <2> DEFINE recs == Record(records, ManagedFrom(Here, t.to, p), t.drops)
  <2>1. /\ RowFor(Here, s, t.to)
        /\ x.rows = {r \in remote[Here] : hostKey(r) # hostKey(t.to)} \cup {s}
        /\ Kind[Here] = "cloudflare" => p = s.id
        /\ records' = recs /\ progressed' = TRUE /\ pc' = "mutate"
    BY <1>1, <1>3 DEF Advance
  <2>2. Accounted(records)
    BY <1>1 DEF AccountInv, Known
  <2>3. ASSUME NEW o \in Outputs, NEW r \in remote'[o]
        PROVE  \E m \in records' : Accounts(m, r, o)
    <3>1. CASE r = s /\ o = Here
      <4>1. Accounts(ManagedFrom(Here, t.to, p), r, o)
        BY <2>1, <3>1, ManagedFromKeys DEF Accounts, RowFor
      <4> QED
        BY <1>1, <2>1, <4>1, Recorded
    <3>2. CASE r \in remote[o] /\ (o = Here => hostKey(r) # hostKey(t.to))
      <4>1. PICK m \in records : Accounts(m, r, o)
        BY <2>2, <3>2 DEF Accounted
      <4>2. m.output # Here \/ hostKey(m) # hostKey(t.to)
        BY <3>2, <4>1, AccountsHost DEF Accounts
      <4>3. m \in recs
        BY <1>1, <4>2, Recorded
      <4> QED
        BY <2>1, <4>1, <4>3
    <3>3. \/ r = s /\ o = Here
          \/ r \in remote[o] /\ (o = Here => hostKey(r) # hostKey(t.to))
      BY <1>1, <2>1, CalledElsewhere
    <3> QED
      BY <3>1, <3>2, <3>3
  <2> QED
    BY <2>1, <2>3 DEF AccountInv, Known, Accounted
<1> QED
  BY <1>1, <1>2, <1>3

LEMMA DeleteAccount ==
  ASSUME NothingForgotten, IInv, SingleInv, RowsInv, AccountInv, Delete
  PROVE  AccountInv'
<1>1. PICK t \in todo.deletes, x \in Outcomes :
           /\ pc = "mutate" /\ Called(x)
           /\ t.managed.output = Here
           /\ \/ MutationFails(x) /\ x.rows = remote[Here]
              \/ /\ x.rows = {r \in remote[Here] : r.id # t.visible.provenance}
                 /\ Progress({}, {}, todo.deletes \ {t},
                             {m \in records : managedRecordLineageKey(m)
                                                # managedRecordLineageKey(t.managed)})
  BY DeleteTakes DEF NothingForgotten
<1>2. CASE MutationFails(x) /\ x.rows = remote[Here]
  BY <1>1, <1>2, FailedAccount
<1> DEFINE recs == {m \in records : managedRecordLineageKey(m)
                                      # managedRecordLineageKey(t.managed)}
<1>3. ASSUME x.rows = {r \in remote[Here] : r.id # t.visible.provenance},
             Progress({}, {}, todo.deletes \ {t}, recs)
      PROVE  AccountInv'
  <2>1. records' = recs /\ progressed' = TRUE /\ pc' = "mutate"
    BY <1>1, <1>3 DEF Progress
  <2>2. ASSUME NEW o \in Outputs, NEW r \in remote'[o]
        PROVE  \E m \in recs : Accounts(m, r, o)
    <3>1. r \in remote[o] /\ (o = Here => r.id # t.visible.provenance)
      BY <1>1, <1>3, CalledElsewhere
    <3>2. PICK m \in records : Accounts(m, r, o)
      BY <1>1, <3>1 DEF AccountInv, Known, Accounted
    <3>3. m.output # t.managed.output \/ hostKey(m) # hostKey(t.managed)
      BY <1>1, <3>1, <3>2, AccountsHost DEF RowsInv, Accounts
    <3>4. m \in recs
      BY <3>3, Forgotten
    <3> QED
      BY <3>2, <3>4
  <2> HIDE DEF recs
  <2> QED
    BY <2>1, <2>2 DEF AccountInv, Known, Accounted
<1> QED
  BY <1>1, <1>2, <1>3

LEMMA AccountStep ==
  ASSUME QualifiedNames, OnlyRemovals, NothingForgotten, IInv, OthersOK, SingleInv,
         IdentityInv, RowsInv, AccountInv, [Next]_vars
  PROVE  AccountInv'
<1>1. CASE Plan
  BY <1>1, PlanAccount
<1>2. CASE Create \/ Update
  BY <1>2, TaskAccount
<1>3. CASE Delete
  BY <1>3, DeleteAccount
<1>4. CASE Start \/ Begin \/ Load \/ ListDesired \/ ReadFails \/ OutputsDone \/ FindAmbiguity
           \/ Retry \/ GiveUp \/ Crash
  <2>1. /\ UNCHANGED <<remote, store>>
        /\ pc \notin {"mutate", "savePartial"} /\ pc' \notin {"mutate", "savePartial"}
    BY <1>4 DEF Start, Begin, Load, ListDesired, ReadFails, OutputsDone, FindAmbiguity,
       Retry, GiveUp, Crash, AtRest, NothingForgotten, PassEnds, FailPass
  <2> QED
    BY <2>1 DEF AccountInv, Known, Accounted
<1>5. CASE Save \/ SavePartial
  <2>1. /\ remote' = remote /\ store' = records
        /\ pc \in {"mutate", "savePartial"} /\ pc' \notin {"mutate", "savePartial"}
    BY <1>5 DEF Save, SavePartial, NothingForgotten, FailPass
  <2> QED
    BY <2>1 DEF AccountInv, Known, Accounted
<1>6. CASE RemoveRow
  <2>1. /\ \A o \in Outputs : remote'[o] \subseteq remote[o]
        /\ Known' = Known /\ UNCHANGED <<store, pc, progressed>>
    BY <1>6, RemoveShrinks DEF pass, Known
  <2> QED
    BY <2>1 DEF AccountInv, Accounted
<1>7. CASE UNCHANGED <<remote, store, pc, pass>>
  BY <1>7 DEF AccountInv, Known, Accounted, pass
<1>8. ~EditRow /\ ~AddRow /\ ~SaveFails
  BY DEF EditRow, AddRow, OperatorMay, OnlyRemovals, SaveFails, NothingForgotten
<1>9. CASE Wait \/ Deploy \/ Calm \/ UNCHANGED vars
  BY <1>7, <1>9 DEF Wait, Deploy, Calm, vars
<1> QED
  BY <1>1, <1>2, <1>3, <1>4, <1>5, <1>6, <1>8, <1>9 DEF Next, Process, World, Operator

LEMMA AccountInit == Init => AccountInv
BY DEF Init, AccountInv, Known, Accounted

LEMMA OthersInit == Init => OthersOK
BY DEF Init, OthersOK

LEMMA AccountInvariance ==
  ASSUME SingleClaims, QualifiedNames, OnlyRemovals, NothingForgotten
  PROVE  Spec => []AccountInv
<1> DEFINE All == OthersOK /\ AccountInv
           Lower == IInv /\ SingleInv /\ IdentityInv /\ RowsInv
<1>1. Init => All
  BY OthersInit, AccountInit
<1>2. Lower /\ All /\ [Next]_vars => All'
  BY OthersInv, AccountStep
<1>3. Spec => []Lower
  BY RowsInvariance
<1> HIDE DEF Lower
<1>4. Spec => []All
  BY <1>1, <1>2, <1>3, PTL DEF Spec
<1> QED
  BY <1>4, PTL

(***************************************************************************)
(* When a host has one claim at a time, operators only remove rows and     *)
(* nothing is done without the snapshot getting to know it, every row the  *)
(* daemon made is on record under its host and answer.                     *)
(***************************************************************************)
THEOREM RowsOnRecord ==
  ASSUME SingleClaims, QualifiedNames, OnlyRemovals, NothingForgotten
  PROVE  Spec => []RowsAccounted
<1>1. AccountInv => RowsAccounted
  BY DEF AccountInv, Accounted, Accounts, RowsAccounted, DaemonMade
<1> QED
  BY <1>1, AccountInvariance, PTL

-----------------------------------------------------------------------------
(* The planner looks at one host at a time *)

OnHost(S, h) == {r \in S : hostKey(r) = h}

LEMMA MatchesLocal ==
  ASSUME NEW o, NEW d, NEW A, NEW B, OnHost(A, hostKey(d)) = OnHost(B, hostKey(d))
  PROVE  /\ ownedRecord(o, d, A) = ownedRecord(o, d, B)
         /\ matchedByHostnameOnly(o, d, A) = matchedByHostnameOnly(o, d, B)
<1>1. \A m : hostKey(m) = hostKey(d) => (m \in A <=> m \in B)
  BY DEF OnHost
<1>2. ExactMatches(o, d, A) = ExactMatches(o, d, B)
  <2>1. \A m : managedRecordLineageKey(m) = desiredRecordLineageKey(o, d)
                 => hostKey(m) = hostKey(d)
    BY LineageHost
  <2> QED
    BY <1>1, <2>1 DEF ExactMatches
<1>3. DisplayMatches(o, d, A) = DisplayMatches(o, d, B)
  <2>1. \A m : ownedDisplayLineageKey(o, m.source, m.hostname)
                 = ownedDisplayLineageKey(o, d.source, d.hostname)
                 => hostKey(m) = hostKey(d)
    BY DEF ownedDisplayLineageKey, hostKey
  <2> QED
    BY <1>1, <2>1 DEF DisplayMatches
<1>4. HostMatches(d, A) = HostMatches(d, B)
  BY <1>1 DEF HostMatches
<1> QED
  BY <1>2, <1>3, <1>4 DEF ownedRecord, matchedByHostnameOnly

LEMMA KeysLocal ==
  ASSUME NEW V, NEW U, NEW m, OnHost(V, hostKey(m)) = OnHost(U, hostKey(m))
  PROVE  /\ visibleByKey(V, visibleRecordKey(m)) = visibleByKey(U, visibleRecordKey(m))
         /\ visibleByHostname(V, hostKey(m)) = visibleByHostname(U, hostKey(m))
<1>1. \A v : hostKey(v) = hostKey(m) => (v \in V <=> v \in U)
  BY DEF OnHost
<1>2. \A v : visibleRecordKey(v) = visibleRecordKey(m) => hostKey(v) = hostKey(m)
  BY DEF visibleRecordKey, hostKey
<1> QED
  BY <1>1, <1>2 DEF visibleByKey, visibleByHostname

LEMMA DecisionLocal ==
  ASSUME NEW o, NEW d, NEW m, hostKey(m) = hostKey(d), NEW A, NEW B, NEW V, NEW U,
         OnHost(A, hostKey(d)) = OnHost(B, hostKey(d)),
         OnHost(V, hostKey(d)) = OnHost(U, hostKey(d))
  PROVE  Decision(o, d, m, A, V) = Decision(o, d, m, B, U)
<1>1. /\ visibleByKey(V, visibleRecordKey(m)) = visibleByKey(U, visibleRecordKey(m))
      /\ visibleByKey(V, visibleRecordKey(d)) = visibleByKey(U, visibleRecordKey(d))
      /\ visibleByHostname(V, hostKey(d)) = visibleByHostname(U, hostKey(d))
  BY KeysLocal
<1>2. Displaced(d, m, V) = Displaced(d, m, U)
  BY <1>1 DEF Displaced
<1>3. matchedByHostnameOnly(o, d, A) = matchedByHostnameOnly(o, d, B)
  BY MatchesLocal
<1> QED
  BY <1>1, <1>2, <1>3 DEF Decision

LEMMA StaleLocal ==
  ASSUME NEW m, NEW V, NEW U, OnHost(V, hostKey(m)) = OnHost(U, hostKey(m))
  PROVE  staleOwnedDeleteVisibleRecord(m, V) = staleOwnedDeleteVisibleRecord(m, U)
BY KeysLocal DEF staleOwnedDeleteVisibleRecord

LEMMA QuietLocal ==
  ASSUME NEW o, NEW d, NEW A, NEW B, NEW V, NEW U,
         OnHost(A, hostKey(d)) = OnHost(B, hostKey(d)),
         OnHost(V, hostKey(d)) = OnHost(U, hostKey(d)),
         Quiet(o, d, V, A)
  PROVE  Quiet(o, d, U, B)
<1>1. ownedRecord(o, d, A) = ownedRecord(o, d, B)
  BY MatchesLocal
<1>2. visibleByHostname(V, hostKey(d)) = visibleByHostname(U, hostKey(d))
  BY KeysLocal
<1>3. \A m \in ownedRecord(o, d, B) :
        Decision(o, d, m, A, V) = Decision(o, d, m, B, U)
  BY OwnedOnHost, DecisionLocal
<1> QED
  BY <1>1, <1>2, <1>3 DEF Quiet

\* A record that shows what is wanted is kept.
LEMMA ShownIsKept ==
  ASSUME NEW o, NEW d, NEW m, visibleRecordKey(m) = visibleRecordKey(d), NEW mine,
         NEW visible, visibleByKey(visible, visibleRecordKey(d)) # {}
  PROVE  Decision(o, d, m, mine, visible) \in {"keep", "skip"}
<1>1. PICK v \in visible : visibleRecordKey(v) = visibleRecordKey(d)
  BY DEF visibleByKey
<1>2. v \in visibleByHostname(visible, hostKey(d))
  BY <1>1 DEF visibleByHostname, visibleRecordKey, hostKey
<1>3. Displaced(d, m, visible) = {}
  BY <1>1, <1>2 DEF Displaced
<1> QED
  BY <1>3 DEF Decision

\* With m the only record of its host, nothing is planned for d when m is kept.
LEMMA QuietKept ==
  ASSUME NEW o, NEW d, NEW mine, NEW m, OnHost(mine, hostKey(d)) = {m}, NEW visible,
         Decision(o, d, m, mine, visible) \in {"keep", "skip"}
  PROVE  Quiet(o, d, visible, mine)
<1>1. m \in mine /\ hostKey(m) = hostKey(d) /\ \A n \in mine : hostKey(n) = hostKey(d) => n = m
  BY DEF OnHost
<1>2. ownedRecord(o, d, mine) = {m}
  BY <1>1, OwnedIsHosts
<1> QED
  BY <1>2 DEF Quiet

\* What the plan's keeps and drops leave makes no new work.
LEMMA LeftQuiet ==
  ASSUME NEW o, NEW W, NEW mine, Single(o, W, mine), NEW visible, NEW d \in W,
         Quiet(o, d, visible, mine)
  PROVE  Quiet(o, d, visible, Left(o, W, mine, visible))
<1> DEFINE left == Left(o, W, mine, visible)
<1>1. CASE \A m \in mine : hostKey(m) # hostKey(d)
  <2>1. OnHost(mine, hostKey(d)) = {}
    BY <1>1 DEF OnHost
  <2>2. \A n \in left : hostKey(n) # hostKey(d)
    BY <1>1, LeftOnHost
  <2>3. OnHost(left, hostKey(d)) = {}
    BY <2>2 DEF OnHost
  <2> HIDE DEF left
  <2>4. Quiet(o, d, visible, left)
    BY <2>1, <2>3, QuietLocal
  <2> QED
    BY <2>4 DEF left
<1>2. ASSUME NEW m \in mine, hostKey(m) = hostKey(d)
      PROVE  Quiet(o, d, visible, left)
  <2> DEFINE n == IF Decision(o, d, m, mine, visible) = "keep"
                  THEN ManagedFrom(o, d, m.provenance) ELSE m
  <2>1. Decision(o, d, m, mine, visible) \in {"keep", "skip"}
    BY <1>2, SingleOwned DEF Quiet
  <2>2. \A k : k \in left /\ hostKey(k) = hostKey(d) <=> k = n
    BY <1>2, LeftOnHost
  <2>3. OnHost(left, hostKey(d)) = {n}
    BY <2>2 DEF OnHost
  <2>4. OnHost(mine, hostKey(d)) = {m}
    BY <1>2 DEF OnHost, Single
  <2>5. CASE Decision(o, d, m, mine, visible) = "keep"
    <3>1. visibleByKey(visible, visibleRecordKey(d)) # {}
      BY <2>5 DEF Decision
    <3>2. n = ManagedFrom(o, d, m.provenance) /\ visibleRecordKey(n) = visibleRecordKey(d)
      BY <2>5, ManagedFromKeys
    <3> HIDE DEF left, n
    <3>3. Decision(o, d, n, left, visible) \in {"keep", "skip"}
      BY <3>1, <3>2, ShownIsKept
    <3> QED
      BY <2>3, <3>3, QuietKept DEF left
  <2>6. CASE Decision(o, d, m, mine, visible) = "skip"
    <3>1. n = m
      BY <2>6
    <3>2. OnHost(left, hostKey(d)) = OnHost(mine, hostKey(d))
      BY <2>3, <2>4, <3>1
    <3> HIDE DEF left, n
    <3> QED
      BY <3>2, QuietLocal
  <2> QED
    BY <2>1, <2>5, <2>6
<1> QED
  BY <1>1, <1>2

\* A host whose rows are the same is listed the same.
LEMMA ListedOnHost ==
  ASSUME NEW o \in Outputs, NEW rows \in SUBSET Rows, NEW newRows \in SUBSET Rows, NEW h,
         OnHost(rows, h) = OnHost(newRows, h)
  PROVE  /\ OnHost(AdGuardListVisible(o, rows), h) = OnHost(AdGuardListVisible(o, newRows), h)
         /\ OnHost(CloudflareListVisible(o, rows), h)
              = OnHost(CloudflareListVisible(o, newRows), h)
<1> DEFINE AsAdGuard(r) == [output |-> o, hostname |-> r.hostname, answer |-> r.answer,
                            provenance |-> NoProvenance, row |-> r.id]
           AsCloudflare(r) == [output |-> o, hostname |-> normalizeHostname[r.hostname],
                               answer |-> normalizeAnswer[r.answer],
                               provenance |-> r.id, row |-> r.id]
<1>1. \A r \in Rows : r.hostname \in Hosts
  BY DEF Rows
<1>2. \A r \in Rows : hostKey(AsAdGuard(r)) = hostKey(r) /\ hostKey(AsCloudflare(r)) = hostKey(r)
  BY <1>1, NamesAssumption DEF hostKey
<1>3. \A r : hostKey(r) = h => (r \in rows <=> r \in newRows)
  BY DEF OnHost
<1>4. /\ AdGuardListVisible(o, rows) = {AsAdGuard(r) : r \in rows}
      /\ AdGuardListVisible(o, newRows) = {AsAdGuard(r) : r \in newRows}
      /\ CloudflareListVisible(o, rows) = {AsCloudflare(r) : r \in rows}
      /\ CloudflareListVisible(o, newRows) = {AsCloudflare(r) : r \in newRows}
  BY DEF AdGuardListVisible, CloudflareListVisible
<1> HIDE DEF AsAdGuard, AsCloudflare
<1>5. OnHost({AsAdGuard(r) : r \in rows}, h) = OnHost({AsAdGuard(r) : r \in newRows}, h)
  BY <1>2, <1>3 DEF OnHost
<1>6. OnHost({AsCloudflare(r) : r \in rows}, h) = OnHost({AsCloudflare(r) : r \in newRows}, h)
  BY <1>2, <1>3 DEF OnHost
<1> QED
  BY <1>4, <1>5, <1>6

LEMMA OutcomeOnHost ==
  ASSUME IInv, IInv', NEW o \in Outputs, NEW h, OnHost(remote[o], h) = OnHost(remote'[o], h)
  PROVE  OnHost(ListOutcome(o), h) = OnHost(ListOutcome(o)', h)
<1>1. remote[o] \in SUBSET Rows /\ remote'[o] \in SUBSET Rows
  BY DEF IInv, TypeOK, OutsideOK
<1> QED
  BY <1>1, ListedOnHost DEF ListOutcome

-----------------------------------------------------------------------------
(* What a pass has seen when no hint is owed and no change was missed *)

LEMMA PublishedNext ==
  ASSUME NEW n \in 1..Len(SourceOrder)
  PROVE  PublishedBefore(n + 1) = PublishedBefore(n) \cup Published(running, SourceOrder[n])
<1> DEFINE P(i) == Published(running, SourceOrder[i])
           Up(k) == UNION {P(i) : i \in {j \in 1..Len(SourceOrder) : j < k}}
<1>0. Len(SourceOrder) \in Nat
  BY OrderAssumption
<1> HIDE DEF P
<1>1. {j \in 1..Len(SourceOrder) : j < n + 1} = {j \in 1..Len(SourceOrder) : j < n} \cup {n}
  BY <1>0
<1>2. Up(n + 1) = Up(n) \cup P(n)
  BY <1>1
<1> QED
  BY <1>2 DEF PublishedBefore, P

LEMMA PublishedNone == PublishedBefore(1) = {}
<1>1. {j \in 1..Len(SourceOrder) : j < 1} = {}
  BY OrderAssumption
<1> QED
  BY <1>1 DEF PublishedBefore

LEMMA PublishedAll ==
  PublishedBefore(Len(SourceOrder) + 1) = UNION {Published(running, s) : s \in Sources}
<1>0. Len(SourceOrder) \in Nat
  BY OrderAssumption
<1>1. {j \in 1..Len(SourceOrder) : j < Len(SourceOrder) + 1} = 1..Len(SourceOrder)
  BY <1>0
<1> DEFINE P(s) == Published(running, s)
<1> HIDE DEF P
<1>2. UNION {P(SourceOrder[i]) : i \in 1..Len(SourceOrder)} = UNION {P(s) : s \in Sources}
  BY DEF Sources
<1> QED
  BY <1>1, <1>2 DEF PublishedBefore, P

Watched == (pc = "idle" => watching) /\ UpToDate

\* A change that leaves neither a hint nor a miss behind is none.
LEMMA ToldOrMissed ==
  ASSUME Deploy, watching', ~hint', ~missed'
  PROVE  ~hint /\ ~missed /\ running' = running
<1>1. PICK told \in BOOLEAN :
         /\ hint' = (hint \/ (watching /\ told))
         /\ missed' = (missed \/ (watching /\ ~told /\ running' # running))
  BY DEF Deploy
<1>2. watching
  BY DEF Deploy
<1>3. ~hint /\ ~told
  BY <1>1, <1>2
<1> QED
  BY <1>1, <1>2, <1>3

LEMMA WatchedStep ==
  ASSUME IInv, SingleInv, Watched, [Next]_vars
  PROVE  Watched'
<1>1. CASE ListDesired
  <2>1. /\ next \in 1..Len(SourceOrder) /\ Len(SourceOrder) \in Nat
        /\ UNCHANGED <<running, watching, hint, missed>>
    BY <1>1, OrderAssumption DEF ListDesired, IInv, TypeOK, PlaceOK
  <2>2. \A n : PublishedBefore(n)' = PublishedBefore(n)
    BY <2>1 DEF PublishedBefore
  <2>3. ASSUME watching, ~hint, ~missed
        PROVE  desired' = PublishedBefore(next + 1)
    BY <1>1, <2>1, <2>3, PublishedNext DEF ListDesired, Watched, UpToDate
  <2>4. \/ pc' = "sources" /\ next' = next + 1
        \/ pc' = "outputs" /\ next = Len(SourceOrder)
    BY <1>1, <2>1 DEF ListDesired
  <2> QED
    BY <2>1, <2>2, <2>3, <2>4 DEF Watched, UpToDate
<1>2. CASE Load
  <2>1. next' = 1 /\ desired' = {} /\ pc' = "sources"
    BY <1>2 DEF Load, IInv, TypeOK, PlaceOK, SingleInv, DesiredPublished
  <2>2. PublishedBefore(1)' = {}
    BY <1>2, PublishedNone DEF Load, PublishedBefore
  <2> QED
    BY <2>1, <2>2 DEF Watched, UpToDate
<1>3. CASE Deploy
  <2>1. UNCHANGED <<remote, store, pc, pass, watching>>
    BY <1>3 DEF Deploy
  <2>2. CASE watching' /\ ~hint' /\ ~missed'
    <3>1. ~hint /\ ~missed /\ running' = running
      BY <1>3, <2>2, ToldOrMissed
    <3>2. \A n : PublishedBefore(n)' = PublishedBefore(n)
      BY <3>1 DEF PublishedBefore
    <3> QED
      BY <2>1, <2>2, <3>1, <3>2 DEF Watched, UpToDate, pass
  <2>3. CASE ~(watching' /\ ~hint' /\ ~missed')
    BY <2>1, <2>3 DEF Watched, UpToDate
  <2> QED
    BY <2>2, <2>3
<1>4. CASE Plan \/ Create \/ Update \/ Save
  <2>1. /\ pc \in {"outputs", "mutate"} /\ pc' # "idle" /\ pc' # "sources"
        /\ UNCHANGED <<running, watching, hint, missed>>
        /\ pc' \in {"outputs", "mutate"} => desired' = desired
    BY <1>4 DEF Plan, Create, Update, Save, MutationFails, MutationDone, Called, FailPass
  <2> QED
    BY <2>1 DEF Watched, UpToDate, PublishedBefore
<1>5. CASE Delete
  <2>1. /\ pc \in {"outputs", "mutate"} /\ pc' # "idle" /\ pc' # "sources"
        /\ UNCHANGED <<running, watching, hint, missed>>
        /\ pc' \in {"outputs", "mutate"} => desired' = desired
    BY <1>5 DEF Delete, MutationFails, Called, FailPass
  <2> QED
    BY <2>1 DEF Watched, UpToDate, PublishedBefore
<1>6. CASE Start \/ Begin \/ ReadFails \/ OutputsDone \/ FindAmbiguity \/ SaveFails
           \/ SavePartial \/ Retry \/ GiveUp \/ Crash
  <2>1. pc' \notin {"sources", "outputs", "mutate"} /\ (pc' = "idle" => watching')
    BY <1>6 DEF Start, Begin, ReadFails, OutputsDone, FindAmbiguity, SaveFails, SavePartial,
       Retry, GiveUp, Crash, PassEnds, FailPass
  <2> QED
    BY <2>1 DEF Watched, UpToDate
<1>7. CASE UNCHANGED <<running, pc, pass, watching, hint, missed>>
  BY <1>7 DEF Watched, UpToDate, PublishedBefore, pass
<1>8. CASE Wait \/ Operator \/ Calm \/ UNCHANGED vars
  BY <1>7, <1>8 DEF Wait, Operator, AddRow, EditRow, RemoveRow, Calm, vars
<1> QED
  BY <1>1, <1>2, <1>3, <1>4, <1>5, <1>6, <1>8 DEF Next, Process, World

-----------------------------------------------------------------------------
(* Nothing left to do *)

\* Nothing moved that bears on what output o still needs.
LEMMA DoneFrame ==
  ASSUME IInv, IInv', NEW o \in Outputs, Done(o), desired' = desired,
         remote'[o] = remote[o], ForOutput(store', o) = ForOutput(store, o)
  PROVE  Done(o)'
<1>1. ListOutcome(o)' = ListOutcome(o)
  BY DEF ListOutcome
<1> QED
  BY <1>1 DEF Done, Stale

LEMMA PlanPlanned ==
  ASSUME IInv, IInv', SingleInv, Plan
  PROVE  Planned'
<1> DEFINE W == filterDesiredForOutput(desired, Here)
           mine == ForOutput(store, Here)
           visible == ListOutcome(Here)
           left == Left(Here, W, mine, visible)
<1>1. /\ Here \in Outputs /\ Here' = Here
      /\ Single(Here, W, mine)
      /\ todo'.creates = PlannedCreates(Here, W, visible, mine)
      /\ todo'.updates = PlannedUpdates(Here, W, visible, mine)
      /\ todo'.deletes = PlannedDeletes(Here, W, visible, mine)
      /\ records' = (store \ mine) \cup left
      /\ UNCHANGED <<remote, desired>>
  BY PlanStep
<1>2. \A n \in left : n.output = Here
  BY <1>1, LeftOnHost
<1>3. ForOutput(records', Here) = left
  BY <1>1, <1>2 DEF ForOutput
<1>4. ListOutcome(Here)' = visible
  BY <1>1 DEF ListOutcome
<1>5. /\ \A d \in W :
           \/ Quiet(Here, d, visible, mine)
           \/ \E t \in PlannedCreates(Here, W, visible, mine)
                         \cup PlannedUpdates(Here, W, visible, mine) : t.to = d
      /\ \A m \in mine :
           /\ \A d \in W : hostKey(d) # hostKey(m)
           /\ staleOwnedDeleteVisibleRecord(m, visible) # {}
           => \E t \in PlannedDeletes(Here, W, visible, mine) : t.managed = m
  BY <1>1, PlanComplete
<1>6. \A d \in W : Quiet(Here, d, visible, mine) => Quiet(Here, d, visible, left)
  BY <1>1, LeftQuiet
<1>7. \A m \in left : (\A d \in W : hostKey(d) # hostKey(m)) => m \in mine
  <2> SUFFICES ASSUME NEW m \in left, \A d \in W : hostKey(d) # hostKey(m)
               PROVE  m \in mine
    OBVIOUS
  <2>1. PICK n \in mine : hostKey(n) = hostKey(m)
    BY <1>1, LeftOnHost
  <2>2. \A d \in W : hostKey(d) # hostKey(n)
    BY <2>1
  <2>3. m = n
    BY <1>1, <2>1, <2>2, LeftOnHost
  <2> QED
    BY <2>1, <2>3
<1> HIDE DEF mine, visible, left
<1>8. W' = W
  BY <1>1
<1> QED
  BY <1>1, <1>3, <1>4, <1>5, <1>6, <1>7, <1>8 DEF Planned, Stale

\* Every row is listed, and nothing else is.
Listed ==
  \A o \in Outputs : \A r \in remote[o] : \E v \in ListOutcome(o) : Shows(o, v, r)
ListedOnly ==
  \A o \in Outputs : \A v \in ListOutcome(o) : \E r \in remote[o] : Shows(o, v, r)

LEMMA ListingAll == IInv => Listed /\ ListedOnly
BY Listing DEF Listed, ListedOnly

LEMMA ListingNext == IInv' => Listed' /\ ListedOnly'
BY ListingAll, PTL

\* After the task of a host nothing is planned for it.
LEMMA AdvanceQuiet ==
  ASSUME IInv, IInv', OthersOK, SingleInv, pc = "mutate", NEW x,
         Called(x), NEW t \in todo.creates \cup todo.updates, NEW s \in Rows, NEW p,
         Advance(t, x, s, p), NEW o \in Outputs, o = Here
  PROVE  Quiet(o, t.to, ListOutcome(o)', ForOutput(records', o))
<1> DEFINE d == t.to
           m == ManagedFrom(o, t.to, p)
           mine == ForOutput(records', o)
           visible == ListOutcome(o)'
<1>1. records' = Record(records, m, t.drops)
  BY DEF Advance
<1>2. /\ m \in records'
      /\ \A n \in records' : \/ n = m
                             \/ n \in records /\ (n.output = o => hostKey(n) # hostKey(d))
  BY <1>1, Recorded
<1>3. m.output = o /\ hostKey(m) = hostKey(d) /\ visibleRecordKey(m) = visibleRecordKey(d)
  BY ManagedFromKeys
<1>4. OnHost(mine, hostKey(d)) = {m}
  BY <1>2, <1>3 DEF OnHost, ForOutput
<1>5. s \in remote'[o] /\ rowKey(s) = visibleRecordKey(d)
  BY Mutating, CalledElsewhere DEF Advance, RowFor
<1>6. \E v \in visible : Shows(o, v, s)
  <2>1. \A r \in remote'[o] : \E v \in visible : Shows(o, v, r)
    BY ListingNext DEF Listed
  <2> QED
    BY <1>5, <2>1
<1> HIDE DEF m, mine, visible, d
<1>7. visibleByKey(visible, visibleRecordKey(d)) # {}
  BY <1>5, <1>6 DEF Shows, visibleByKey
<1>8. Decision(o, d, m, mine, visible) \in {"keep", "skip"}
  BY <1>3, <1>7, ShownIsKept
<1>9. Quiet(o, d, visible, mine)
  BY <1>4, <1>8, QuietKept
<1> QED
  BY <1>9 DEF d, mine, visible

\* The rows and records of host h at output o are what they were.
SameOnHost(o, h) ==
  /\ OnHost(remote[o], h) = OnHost(remote'[o], h)
  /\ OnHost(ForOutput(records, o), h) = OnHost(ForOutput(records', o), h)

\* What was planned stays planned when only hosts that are done have moved.
LEMMA PlannedFrame ==
  ASSUME IInv, IInv', Planned, pc = "mutate", NEW o \in Outputs, o = Here, Here' = Here,
         desired' = desired,
         \A d \in filterDesiredForOutput(desired, o) :
           \/ Quiet(o, d, ListOutcome(o)', ForOutput(records', o))
           \/ /\ SameOnHost(o, hostKey(d))
              /\ \A t \in todo.creates \cup todo.updates :
                   t.to = d => t \in todo'.creates \cup todo'.updates,
         \A m \in ForOutput(records', o) :
           \/ \E d \in filterDesiredForOutput(desired, o) : hostKey(d) = hostKey(m)
           \/ OnHost(remote'[o], hostKey(m)) = {}
           \/ /\ SameOnHost(o, hostKey(m))
              /\ \A t \in todo.deletes : t.managed = m => t \in todo'.deletes
  PROVE  Planned'
<1> DEFINE W == filterDesiredForOutput(desired, o)
           mine == ForOutput(records, o)
           mineN == ForOutput(records', o)
           visible == ListOutcome(o)
           visibleN == ListOutcome(o)'
<1>1. \A h : OnHost(remote[o], h) = OnHost(remote'[o], h) => OnHost(visible, h) = OnHost(visibleN, h)
  BY OutcomeOnHost
<1>2. /\ \A d \in W : \/ Quiet(o, d, visible, mine)
                      \/ \E t \in todo.creates \cup todo.updates : t.to = d
      /\ \A m \in mine :
           /\ \A d \in W : hostKey(d) # hostKey(m)
           /\ staleOwnedDeleteVisibleRecord(m, visible) # {}
           => \E t \in todo.deletes : t.managed = m
  BY DEF Planned, Stale
<1>3. \A h : OnHost(remote'[o], h) = {} => OnHost(visibleN, h) = {}
  <2>1. \A v \in visibleN : \E r \in remote'[o] : Shows(o, v, r)
    BY ListingNext DEF ListedOnly
  <2> QED
    BY <2>1 DEF OnHost, Shows
<1> HIDE DEF visible, visibleN, mine, mineN, W
<1>4. ASSUME NEW d \in W
      PROVE  \/ Quiet(o, d, visibleN, mineN)
             \/ \E t \in todo'.creates \cup todo'.updates : t.to = d
  <2>1. CASE Quiet(o, d, visibleN, mineN)
    BY <2>1
  <2>2. ASSUME SameOnHost(o, hostKey(d)),
               \A t \in todo.creates \cup todo.updates :
                 t.to = d => t \in todo'.creates \cup todo'.updates
        PROVE  \/ Quiet(o, d, visibleN, mineN)
               \/ \E t \in todo'.creates \cup todo'.updates : t.to = d
    <3>1. /\ OnHost(visible, hostKey(d)) = OnHost(visibleN, hostKey(d))
          /\ OnHost(mine, hostKey(d)) = OnHost(mineN, hostKey(d))
      BY <1>1, <2>2 DEF SameOnHost, mine, mineN
    <3>2. Quiet(o, d, visible, mine) => Quiet(o, d, visibleN, mineN)
      BY <3>1, QuietLocal
    <3> QED
      BY <1>2, <2>2, <3>2
  <2> QED
    BY <2>1, <2>2 DEF W, visibleN, mineN
<1>5. ASSUME NEW m \in mineN, \A d \in W : hostKey(d) # hostKey(m),
             staleOwnedDeleteVisibleRecord(m, visibleN) # {}
      PROVE  \E t \in todo'.deletes : t.managed = m
  <2>1. PICK v \in visibleN : hostKey(v) = hostKey(m)
    BY <1>5, StaleHost
  <2>2. OnHost(remote'[o], hostKey(m)) # {}
    BY <1>3, <2>1 DEF OnHost
  <2>3. /\ SameOnHost(o, hostKey(m))
        /\ \A t \in todo.deletes : t.managed = m => t \in todo'.deletes
    BY <1>5, <2>2 DEF mineN, W
  <2>4. OnHost(visible, hostKey(m)) = OnHost(visibleN, hostKey(m)) /\ m \in mine
    BY <1>1, <2>3 DEF SameOnHost, OnHost, mine, mineN
  <2>5. staleOwnedDeleteVisibleRecord(m, visible) # {}
    BY <1>5, <2>4, StaleLocal
  <2> QED
    BY <1>2, <1>5, <2>3, <2>4, <2>5
<1>6. ListOutcome(Here)' = visibleN
  BY DEF ListOutcome, visibleN
<1> QED
  BY <1>4, <1>5, <1>6 DEF Planned, Stale, W, mineN

LEMMA AdvancePlanned ==
  ASSUME IInv, IInv', OthersOK, SingleInv, Planned, pc = "mutate", NEW x,
         Called(x), NEW t \in todo.creates \cup todo.updates, NEW s \in Rows, NEW p,
         Advance(t, x, s, p)
  PROVE  Planned'
<1> DEFINE W == filterDesiredForOutput(desired, Here)
<1>1. PICK o \in Outputs : o = Here
  BY Mutating
<1>2. /\ Here' = Here /\ desired' = desired /\ todo'.deletes = todo.deletes
      /\ todo.creates \cup todo.updates = todo'.creates \cup todo'.updates \cup {t}
  BY DEF Advance, Here
<1>3. t.to \in W /\ \A d \in W : hostKey(d) = hostKey(t.to) => d = t.to
  BY <1>1 DEF SingleInv, TaskOK, OneDesired
<1>4. Quiet(o, t.to, ListOutcome(o)', ForOutput(records', o))
  BY <1>1, AdvanceQuiet
<1>5. ASSUME NEW h, h # hostKey(t.to)
      PROVE  SameOnHost(o, h)
  <2>1. remote'[o] = {r \in remote[o] : hostKey(r) # hostKey(t.to)} \cup {s}
          /\ hostKey(s) = hostKey(t.to)
    BY <1>1, CalledElsewhere DEF Advance, RowFor
  <2>2. OnHost(remote[o], h) = OnHost(remote'[o], h)
    BY <1>5, <2>1 DEF OnHost
  <2>3. /\ \A n \in records' : n \in records \/ hostKey(n) = hostKey(t.to)
        /\ \A n \in records : hostKey(n) # hostKey(t.to) => n \in records'
    BY Recorded, ManagedFromKeys DEF Advance
  <2>4. OnHost(ForOutput(records, o), h) = OnHost(ForOutput(records', o), h)
    BY <1>5, <2>3 DEF OnHost, ForOutput
  <2> QED
    BY <2>2, <2>4 DEF SameOnHost
<1>6. \A d \in W :
        \/ Quiet(o, d, ListOutcome(o)', ForOutput(records', o))
        \/ /\ SameOnHost(o, hostKey(d))
           /\ \A u \in todo.creates \cup todo.updates :
                u.to = d => u \in todo'.creates \cup todo'.updates
  BY <1>2, <1>3, <1>4, <1>5
<1>7. \A m \in ForOutput(records', o) :
        \/ \E d \in W : hostKey(d) = hostKey(m)
        \/ /\ SameOnHost(o, hostKey(m))
           /\ \A u \in todo.deletes : u.managed = m => u \in todo'.deletes
  BY <1>2, <1>3, <1>5
<1> QED
  BY <1>1, <1>2, <1>6, <1>7, PlannedFrame

LEMMA DeletePlanned ==
  ASSUME IInv, IInv', SingleInv, IdentityInv, RowsInv, Planned, Delete, pc' = "mutate"
  PROVE  Planned'
<1> DEFINE W == filterDesiredForOutput(desired, Here)
<1>1. PICK t \in todo.deletes, x \in Outcomes :
           /\ pc = "mutate" /\ Called(x)
           /\ todo.creates = {} /\ todo.updates = {}
           /\ \/ MutationFails(x)
              \/ /\ x.rows = {r \in remote[Here] : r.id # t.visible.provenance}
                 /\ Progress({}, {}, todo.deletes \ {t},
                             {m \in records : managedRecordLineageKey(m)
                                                # managedRecordLineageKey(t.managed)})
  BY DeleteTakes
<1>2. /\ x.rows = {r \in remote[Here] : r.id # t.visible.provenance}
      /\ Progress({}, {}, todo.deletes \ {t},
                  {m \in records : managedRecordLineageKey(m)
                                     # managedRecordLineageKey(t.managed)})
  BY <1>1 DEF MutationFails, FailPass
<1>3. PICK o \in Outputs : o = Here
  BY <1>1, Mutating
<1>4. /\ Here' = Here /\ desired' = desired
      /\ todo'.deletes = todo.deletes \ {t}
      /\ records' = {m \in records : managedRecordLineageKey(m)
                                       # managedRecordLineageKey(t.managed)}
      /\ remote'[o] = {r \in remote[o] : r.id # t.visible.provenance}
  BY <1>1, <1>2, <1>3, CalledElsewhere DEF Progress, Here
<1>5. /\ \A d \in W : hostKey(d) # hostKey(t.managed)
      /\ \A r \in remote[o] : hostKey(r) = hostKey(t.managed) <=> r.id = t.visible.provenance
  <2>1. DeleteOK(t)
    BY <1>1 DEF SingleInv
  <2>2. ASSUME NEW r \in remote[o], r.id = t.visible.provenance
        PROVE  hostKey(r) = hostKey(t.visible)
    <3>1. /\ <<r.id, hostKey(r)>> \in Mentions(o)
          /\ <<t.visible.provenance, hostKey(t.visible)>> \in Mentions(o)
      BY <1>1, <1>3 DEF Mentions, Entries, InTasks
    <3>2. r.id # NoProvenance
      BY NamesAssumption DEF IInv, TypeOK, OutsideOK, Rows
    <3> QED
      BY <2>2, <3>1, <3>2 DEF IdentityInv, OneHostEach
  <2> QED
    BY <1>1, <1>3, <2>1, <2>2 DEF DeleteOK, RowsInv
<1>6. ASSUME NEW h, h # hostKey(t.managed)
      PROVE  SameOnHost(o, h)
  <2>1. OnHost(remote[o], h) = OnHost(remote'[o], h)
    BY <1>4, <1>5, <1>6 DEF OnHost
  <2>2. OnHost(ForOutput(records, o), h) = OnHost(ForOutput(records', o), h)
    BY <1>4, <1>6, LineageHost DEF OnHost, ForOutput
  <2> QED
    BY <2>1, <2>2 DEF SameOnHost
<1>7. OnHost(remote'[o], hostKey(t.managed)) = {}
  BY <1>4, <1>5 DEF OnHost
<1>8. \A d \in W : /\ SameOnHost(o, hostKey(d))
                   /\ \A u \in todo.creates \cup todo.updates :
                        u.to = d => u \in todo'.creates \cup todo'.updates
  BY <1>1, <1>5, <1>6
<1>9. \A m \in ForOutput(records', o) :
        \/ OnHost(remote'[o], hostKey(m)) = {}
        \/ /\ SameOnHost(o, hostKey(m))
           /\ \A u \in todo.deletes : u.managed = m => u \in todo'.deletes
  BY <1>4, <1>6, <1>7
<1> QED
  BY <1>1, <1>3, <1>4, <1>8, <1>9, PlannedFrame

Finished ==
  pc \in {"outputs", "mutate"} =>
    \A i \in 1..Len(OutputOrder) : i < next => Done(OutputOrder[i])

LEMMA FinishedFrame ==
  ASSUME IInv, IInv', Finished, pc \in {"outputs", "mutate"},
         next' = next, desired' = desired, store' = store,
         \A i \in 1..Len(OutputOrder) :
           i < next => remote'[OutputOrder[i]] = remote[OutputOrder[i]]
  PROVE  Finished'
<1>1. \A i \in 1..Len(OutputOrder) : OutputOrder[i] \in Outputs
  BY DEF Outputs
<1>2. ASSUME NEW i \in 1..Len(OutputOrder), i < next
      PROVE  Done(OutputOrder[i])'
  <2>1. PICK o \in Outputs : o = OutputOrder[i]
    BY <1>1
  <2>2. Done(o)
    BY <1>2, <2>1 DEF Finished
  <2>3. Done(o)'
    BY <1>2, <2>1, <2>2, DoneFrame
  <2> QED
    BY <2>1, <2>3
<1> QED
  BY <1>2 DEF Finished

\* Before the output the pass is at come others.
LEMMA EarlierElsewhere ==
  ASSUME IInv, pc \in {"outputs", "mutate"}, next <= Len(OutputOrder),
         NEW i \in 1..Len(OutputOrder), i < next
  PROVE  OutputOrder[i] \in Outputs /\ OutputOrder[i] # Here
<1>1. next \in 1..Len(OutputOrder)
  BY OrderAssumption DEF IInv, TypeOK, PlaceOK
<1>2. OutputOrder[i] # OutputOrder[next]
  BY <1>1, OrderAssumption
<1> QED
  BY <1>2 DEF Here, Outputs

LEMMA SaveDone ==
  ASSUME IInv, IInv', OthersOK, Finished, Planned, Save
  PROVE  Finished'
<1>1. /\ pc = "mutate" /\ next <= Len(OutputOrder) /\ next \in Nat
      /\ todo = NoMutations
      /\ store' = records /\ next' = next + 1
      /\ UNCHANGED <<remote, desired>>
      /\ Here \in Outputs
      /\ Len(OutputOrder) \in Nat
  BY Mutating, OrderAssumption DEF Save, IInv, TypeOK, PlaceOK
<1>2. ASSUME NEW o \in Outputs, o # Here
      PROVE  ForOutput(store', o) = ForOutput(store, o)
  BY <1>1, <1>2 DEF OthersOK, ForOutput
<1>3. ASSUME NEW o \in Outputs, o = Here
      PROVE  Done(o)'
  <2>1. todo.creates = {} /\ todo.updates = {} /\ todo.deletes = {}
    BY <1>1 DEF NoMutations
  <2>2. /\ \A d \in filterDesiredForOutput(desired, o) :
             Quiet(o, d, ListOutcome(o), ForOutput(records, o))
        /\ \A m \in ForOutput(records, o) : ~Stale(o, m, ListOutcome(o))
    BY <1>3, <2>1 DEF Planned
  <2>3. ListOutcome(o)' = ListOutcome(o)
    BY <1>1 DEF ListOutcome
  <2> QED
    BY <1>1, <2>2, <2>3 DEF Done, Stale
<1>4. ASSUME NEW i \in 1..Len(OutputOrder), i < next'
      PROVE  Done(OutputOrder[i])'
  <2>1. CASE i = next
    <3>1. PICK o \in Outputs : o = OutputOrder[i]
      BY DEF Outputs
    <3>2. Done(o)'
      BY <1>3, <2>1, <3>1 DEF Here
    <3> QED
      BY <3>1, <3>2
  <2>2. CASE i < next
    <3>1. PICK o \in Outputs : o = OutputOrder[i]
      BY DEF Outputs
    <3>2. o # Here /\ Done(o)
      BY <1>1, <2>2, <3>1, EarlierElsewhere DEF Finished
    <3>3. Done(o)'
      BY <1>1, <1>2, <3>2, DoneFrame
    <3> QED
      BY <3>1, <3>3
  <2> QED
    BY <1>1, <1>4, <2>1, <2>2
<1> QED
  BY <1>4 DEF Finished

\* Calls on the output a pass is at change no other.
LEMMA CallsElsewhere ==
  ASSUME IInv, Create \/ Update \/ Delete
  PROVE  /\ pc = "mutate"
         /\ \A o \in Outputs : o # Here => remote'[o] = remote[o]
         /\ pc' \in {"outputs", "mutate"} =>
              UNCHANGED <<pc, next, desired, store, running, watching, hint, missed>>
<1>1. CASE Create
  BY <1>1, MutationCalled, CalledElsewhere DEF Create, MutationFails, MutationDone, FailPass,
     Called
<1>2. CASE Update
  BY <1>2, MutationCalled, CalledElsewhere DEF Update, MutationFails, MutationDone, FailPass,
     Called
<1>3. CASE Delete
  BY <1>3, MutationCalled, CalledElsewhere DEF Delete, MutationFails, FailPass, Called
<1> QED
  BY <1>1, <1>2, <1>3

LEMMA WorkStep ==
  ASSUME QualifiedNames, NoOperator, IInv, IInv', OthersOK, SingleInv, IdentityInv, RowsInv,
         Finished, pc = "mutate" => Planned, [Next]_vars
  PROVE  Finished' /\ (pc' = "mutate" => Planned')
<1>1. CASE Plan
  <2>1. /\ pc = "outputs" /\ UNCHANGED <<next, desired, store, remote>>
    BY <1>1, PlanStep
  <2> QED
    BY <1>1, <2>1, FinishedFrame, PlanPlanned
<1>2. CASE Create \/ Update \/ Delete
  <2>1. /\ pc = "mutate"
        /\ \A o \in Outputs : o # Here => remote'[o] = remote[o]
        /\ pc' \in {"outputs", "mutate"} => UNCHANGED <<pc, next, desired, store>>
        /\ next <= Len(OutputOrder)
    BY <1>2, CallsElsewhere DEF IInv, TypeOK, PlaceOK
  <2>2. Finished'
    <3>1. CASE pc' \notin {"outputs", "mutate"}
      BY <3>1 DEF Finished
    <3>2. CASE pc' \in {"outputs", "mutate"}
      BY <2>1, <3>2, EarlierElsewhere, FinishedFrame
    <3> QED
      BY <3>1, <3>2
  <2>3. ASSUME pc' = "mutate", Create \/ Update
        PROVE  Planned'
    <3>1. PICK t \in todo.creates \cup todo.updates, x \in Outcomes :
             /\ pc = "mutate" /\ Called(x)
             /\ \/ Abandon(t, x)
                \/ \E s \in Rows : \E p : Advance(t, x, s, p)
      BY <2>3, TaskStep
    <3>2. ~Abandon(t, x)
      BY <2>3 DEF Abandon, MutationFails, FailPass
    <3> QED
      BY <2>1, <3>1, <3>2, AdvancePlanned
  <2>4. ASSUME pc' = "mutate", Delete
        PROVE  Planned'
    BY <2>1, <2>4, DeletePlanned
  <2> QED
    BY <1>2, <2>2, <2>3, <2>4
<1>3. CASE Save
  <2>1. pc = "mutate" /\ pc' # "mutate"
    BY <1>3 DEF Save
  <2> QED
    BY <1>3, <2>1, SaveDone
<1>4. CASE ListDesired
  <2>1. pc' # "mutate" /\ (pc' = "outputs" => next' = 1)
    BY <1>4 DEF ListDesired
  <2> QED
    BY <2>1 DEF Finished
<1>5. CASE Start \/ Begin \/ Load \/ ReadFails \/ OutputsDone \/ FindAmbiguity
           \/ SaveFails \/ SavePartial \/ Retry \/ GiveUp \/ Crash
  <2>1. pc' \notin {"outputs", "mutate"}
    BY <1>5 DEF Start, Begin, Load, ReadFails, OutputsDone, FindAmbiguity, SaveFails,
       SavePartial, Retry, GiveUp, Crash, PassEnds, FailPass
  <2> QED
    BY <2>1 DEF Finished
<1>6. CASE UNCHANGED <<remote, store, pc, pass>>
  BY <1>6 DEF Finished, Done, Planned, Stale, ListOutcome, Here, pass
<1>7. ~Operator
  BY DEF Operator, AddRow, EditRow, RemoveRow, OperatorMay, NoOperator
<1>8. CASE Wait \/ Deploy \/ Calm \/ UNCHANGED vars
  BY <1>6, <1>8 DEF Wait, Deploy, Calm, vars
<1> QED
  BY <1>1, <1>2, <1>3, <1>4, <1>5, <1>7, <1>8 DEF Next, Process, World

LEMMA NothingPlanned ==
  ASSUME NEW o, NEW W, NEW mine, Single(o, W, mine), NEW visible,
         \A d \in W : Quiet(o, d, visible, mine),
         \A m \in mine : (\A d \in W : hostKey(d) # hostKey(m))
                           => staleOwnedDeleteVisibleRecord(m, visible) = {}
  PROVE  LET plan == buildReconcilePlan(o, W, visible, mine)
         IN plan.creates = {} /\ plan.updates = {} /\ plan.deletes = {}
<1>1. ASSUME NEW t \in PlannedCreates(o, W, visible, mine)
      PROVE  FALSE
  <2>1. /\ t.to \in W
        /\ visibleByHostname(visible, hostKey(t.to)) = {}
        /\ \/ \A m \in mine : hostKey(m) # hostKey(t.to)
           \/ \E m \in mine : /\ hostKey(m) = hostKey(t.to)
                              /\ Decision(o, t.to, m, mine, visible) = "create"
    BY CreatesOf
  <2>2. CASE \A m \in mine : hostKey(m) # hostKey(t.to)
    BY <2>1, <2>2, SingleOwned DEF Quiet
  <2>3. ASSUME NEW m \in mine, hostKey(m) = hostKey(t.to),
               Decision(o, t.to, m, mine, visible) = "create"
        PROVE  FALSE
    <3>1. ownedRecord(o, t.to, mine) = {m}
      BY <2>3, SingleOwned
    <3> QED
      BY <2>1, <2>3, <3>1 DEF Quiet
  <2> QED
    BY <2>1, <2>2, <2>3
<1>2. ASSUME NEW t \in PlannedUpdates(o, W, visible, mine)
      PROVE  FALSE
  <2>1. PICK m \in mine : /\ hostKey(m) = hostKey(t.to)
                          /\ Decision(o, t.to, m, mine, visible) = "update"
    BY UpdatesOf
  <2>2. t.to \in W
    BY UpdatesOf
  <2>3. ownedRecord(o, t.to, mine) = {m}
    BY <2>1, SingleOwned
  <2> QED
    BY <2>1, <2>2, <2>3 DEF Quiet
<1>3. ASSUME NEW t \in PlannedDeletes(o, W, visible, mine)
      PROVE  FALSE
  BY DeletesOf
<1> QED
  BY <1>1, <1>2, <1>3, SinglePlan

\* A pass that ends with no hint owed and no change missed leaves nothing to plan.
LEMMA EndSettled ==
  ASSUME IInv, SingleInv, Watched, Finished, OutputsDone
  PROVE  Settled'
<1> SUFFICES ASSUME Current', NEW o \in Outputs
             PROVE  LET plan == PlanNow(o)'
                    IN plan.creates = {} /\ plan.updates = {} /\ plan.deletes = {}
  BY DEF Settled
<1> DEFINE W == filterDesiredForOutput(desired, o)
           mine == ForOutput(store, o)
           visible == ListOutcome(o)
<1>1. /\ pc = "outputs" /\ next > Len(OutputOrder) /\ Len(OutputOrder) \in Nat /\ next \in Nat
      /\ watching /\ ~hint /\ ~missed
      /\ UNCHANGED <<running, remote, store>>
  <2>1. next > Len(OutputOrder) /\ next \in Nat
    BY DEF OutputsDone, IInv, TypeOK, PlaceOK
  <2>2. Len(OutputOrder) \in Nat
    BY OrderAssumption
  <2>3. watching /\ ~hint /\ ~missed
    BY DEF OutputsDone, Current
  <2> QED
    BY <2>1, <2>2, <2>3 DEF OutputsDone
<1>2. desired = UNION {Published(running, s) : s \in Sources}
  BY <1>1, PublishedAll DEF Watched, UpToDate
<1>3. Done(o)
  <2>1. PICK i \in 1..Len(OutputOrder) : OutputOrder[i] = o
    BY DEF Outputs
  <2>2. i < next
    BY <1>1
  <2> QED
    BY <1>1, <2>1, <2>2 DEF Finished
<1>4. Single(o, W, mine)
  BY SingleHere
<1>5. PlanNow(o)' = buildReconcilePlan(o, W, visible, mine)
  BY <1>1, <1>2 DEF PlanNow, Wanted, ListOutcome
<1>6. /\ \A d \in W : Quiet(o, d, visible, mine)
      /\ \A m \in mine : (\A d \in W : hostKey(d) # hostKey(m))
                           => staleOwnedDeleteVisibleRecord(m, visible) = {}
  BY <1>3 DEF Done, Stale
<1> HIDE DEF W, mine, visible
<1> QED
  BY <1>4, <1>5, <1>6, NothingPlanned

LEMMA SettledStep ==
  ASSUME QualifiedNames, NoOperator, IInv, IInv', OthersOK, SingleInv, IdentityInv, RowsInv,
         SettledInv, [Next]_vars
  PROVE  SettledInv'
<1>1. Watched /\ Finished /\ (pc = "mutate" => Planned) /\ Settled
  BY DEF SettledInv, Watched, Finished
<1>2. Watched'
  BY <1>1, WatchedStep
<1>3. Finished' /\ (pc' = "mutate" => Planned')
  BY <1>1, WorkStep
<1>4. Settled'
  <2>1. CASE OutputsDone
    BY <1>1, <2>1, EndSettled
  <2>2. CASE UNCHANGED <<running, remote, store>> /\ (Current' => Current)
    <3>1. \A o : PlanNow(o)' = PlanNow(o)
      BY <2>2 DEF PlanNow, Wanted, ListOutcome
    <3> QED
      BY <1>1, <2>2, <3>1 DEF Settled
  <2>3. CASE Deploy
    <3>1. CASE Current'
      <4>1. pc = "idle" /\ watching' /\ UNCHANGED <<remote, store, pc>>
        BY <1>1, <2>3, <3>1 DEF Deploy, Watched, Current
      <4>2. ~hint /\ ~missed /\ running' = running
        BY <2>3, <3>1, <4>1, ToldOrMissed DEF Current
      <4> QED
        BY <2>2, <4>1, <4>2 DEF Current
    <3> QED
      BY <3>1 DEF Settled
  <2>4. CASE Process /\ ~OutputsDone
    <3>1. pc' # "idle"
      <4>1. CASE Plan \/ Create \/ Update \/ Delete
        BY <4>1 DEF Plan, Create, Update, Delete, MutationFails, MutationDone, Called, FailPass
      <4> QED
        BY <2>4, <4>1 DEF Process, Start, Begin, Load, ListDesired, ReadFails, FindAmbiguity,
           Save, SaveFails, SavePartial, Retry, GiveUp, PassEnds, FailPass
    <3> QED
      BY <3>1 DEF Settled, Current
  <2>5. CASE Crash
    BY <2>5 DEF Crash, Settled, Current
  <2>6. ~Operator
    BY DEF Operator, AddRow, EditRow, RemoveRow, OperatorMay, NoOperator
  <2>7. CASE Wait \/ Calm \/ UNCHANGED vars
    BY <2>2, <2>7 DEF Wait, Calm, Current, vars
  <2> QED
    BY <2>1, <2>3, <2>4, <2>5, <2>6, <2>7 DEF Next, World
<1> QED
  BY <1>2, <1>3, <1>4 DEF SettledInv, Watched, Finished

LEMMA SettledInit == Init => SettledInv
BY DEF Init, SettledInv, UpToDate, Settled, Current

LEMMA SettledInvariance ==
  ASSUME SingleClaims, QualifiedNames, NoOperator
  PROVE  Spec => []SettledInv
<1> DEFINE All == OthersOK /\ SettledInv
           Lower == IInv /\ SingleInv /\ IdentityInv /\ RowsInv
<1>1. Init => All
  BY OthersInit, SettledInit
<1>2. Lower /\ Lower' /\ All /\ [Next]_vars => All'
  BY OthersInv, SettledStep
<1>3. Spec => []Lower
  BY RowsInvariance DEF OnlyRemovals, NoOperator
<1> HIDE DEF Lower
<1>4. Spec => []All
  BY <1>1, <1>2, <1>3, PTL DEF Spec
<1> QED
  BY <1>4, PTL

(***************************************************************************)
(* When a host has one claim at a time and no operator interferes, a pass  *)
(* that was not overtaken by a hint, or by a change the watch loop was not *)
(* told of, leaves nothing to do: planning again, on what the services     *)
(* show then and for the containers that run then, gives no task.  This    *)
(* holds whatever calls fail, whatever answers are lost and wherever the   *)
(* process dies.                                                           *)
(***************************************************************************)
THEOREM PassSettles ==
  ASSUME SingleClaims, QualifiedNames, NoOperator
  PROVE  Spec => []Settled
<1>1. SettledInv => Settled
  BY DEF SettledInv
<1> QED
  BY <1>1, SettledInvariance, PTL

-----------------------------------------------------------------------------
(* Cloudflare shows what the containers want *)

LEMMA SingleNow ==
  ASSUME SingleClaims, IInv, SingleInv, NEW o \in Outputs
  PROVE  Single(o, Wanted(o), ForOutput(store, o))
<1>1. Wanted(o) \in SUBSET DesiredRecords
  BY PublishedTypes DEF Wanted, filterDesiredForOutput, IInv, TypeOK, OutsideOK
<1>2. \A d, e \in Wanted(o) : hostKey(d) = hostKey(e) => d = e
  BY DEF SingleClaims, Claims, Wanted, IInv, TypeOK, OutsideOK
<1>3. store \in SUBSET ManagedRecords
  BY DEF IInv, TypeOK, OutsideOK
<1> QED
  BY <1>1, <1>2, <1>3 DEF Single, ForOutput, SingleInv, OneManaged

\* With nothing to plan, the one row of a host answers what is wanted there.
LEMMA ExactHost ==
  ASSUME NEW o, Kind[o] = "cloudflare", NEW W, NEW mine, Single(o, W, mine), NEW visible,
         NEW d \in W, Quiet(o, d, visible, mine),
         NEW r, r.id # NoProvenance, NEW v \in visible, Shows(o, v, r),
         \A u \in visible : hostKey(u) = hostKey(v) => u = v,
         NEW m \in mine, Accounts(m, r, o), hostKey(d) = hostKey(r)
  PROVE  rowKey(r) = visibleRecordKey(d)
<1> SUFFICES ASSUME visibleRecordKey(m) # visibleRecordKey(d) PROVE FALSE
  BY DEF Accounts
<1>1. hostKey(m) = hostKey(d) /\ hostKey(v) = hostKey(d)
  BY AccountsHost DEF Shows
<1>2. ownedRecord(o, d, mine) = {m}
  BY <1>1, SingleOwned
<1>3. visibleRecordKey(v) = visibleRecordKey(m) /\ v.provenance = m.provenance
        /\ v.provenance # NoProvenance
  BY DEF Shows, Accounts
<1>4. visibleByKey(visible, visibleRecordKey(m)) = {v}
  <2>1. \A u \in visible : visibleRecordKey(u) = visibleRecordKey(v) => hostKey(u) = hostKey(v)
    BY DEF visibleRecordKey, hostKey
  <2> QED
    BY <1>3, <2>1 DEF visibleByKey
<1>5. Displaced(d, m, visible) = {v}
  BY <1>4 DEF Displaced, One
<1>6. canUpdateOwnedVisibleRecord(m, v, matchedByHostnameOnly(o, d, mine))
  BY <1>3 DEF canUpdateOwnedVisibleRecord, sameRecordProvenance, hasRecordProvenance
<1>7. Decision(o, d, m, mine, visible) = "update"
  BY <1>5, <1>6 DEF Decision
<1> QED
  BY <1>2, <1>7 DEF Quiet

LEMMA ExactNow ==
  ASSUME SingleClaims, IInv, SingleInv, RowsInv, AccountInv, Settled, Current,
         NEW o \in Outputs, Kind[o] = "cloudflare"
  PROVE  {rowKey(r) : r \in remote[o]} = {visibleRecordKey(d) : d \in Wanted(o)}
<1> DEFINE W == Wanted(o)
           mine == ForOutput(store, o)
           visible == ListOutcome(o)
<1>1. Single(o, W, mine)
  BY SingleNow
<1>2. /\ PlannedCreates(o, W, visible, mine) = {}
      /\ PlannedUpdates(o, W, visible, mine) = {}
      /\ PlannedDeletes(o, W, visible, mine) = {}
  <2>1. LET plan == PlanNow(o)
        IN plan.creates = {} /\ plan.updates = {} /\ plan.deletes = {}
    BY DEF Settled
  <2> QED
    BY <1>1, <2>1, SinglePlan DEF PlanNow
<1>3. /\ \A v \in visible : \E r \in remote[o] : Shows(o, v, r)
      /\ \A r \in remote[o] : \E v \in visible : Shows(o, v, r)
  BY Listing
<1>4. \A r \in remote[o] : r.id # NoProvenance
  BY NamesAssumption DEF IInv, TypeOK, OutsideOK, Rows
<1>5. \A v, u \in visible : hostKey(v) = hostKey(u) => v = u
  <2> DEFINE As(r) == [output |-> o, hostname |-> normalizeHostname[r.hostname],
                       answer |-> normalizeAnswer[r.answer],
                       provenance |-> r.id, row |-> r.id]
  <2>1. visible = {As(r) : r \in remote[o]}
    BY DEF ListOutcome, CloudflareListVisible
  <2>2. \A r \in remote[o] : hostKey(As(r)) = hostKey(r)
    BY NamesAssumption DEF hostKey, IInv, TypeOK, OutsideOK, Rows
  <2>3. \A r, s \in remote[o] : hostKey(r) = hostKey(s) => r = s
    BY DEF RowsInv, OneRowPerHost
  <2> HIDE DEF As, visible
  <2> QED
    BY <2>1, <2>2, <2>3
<1>6. \A r \in remote[o] : \E m \in mine : Accounts(m, r, o)
  BY DEF Current, AccountInv, Known, Accounted, Accounts, ForOutput
<1> HIDE DEF W, mine, visible
<1>7. /\ \A d \in W : Quiet(o, d, visible, mine)
      /\ \A m \in mine : (\A d \in W : hostKey(d) # hostKey(m))
                           => staleOwnedDeleteVisibleRecord(m, visible) = {}
  BY <1>1, <1>2, PlanComplete
<1>8. ASSUME NEW d \in W, NEW r \in remote[o], hostKey(d) = hostKey(r)
      PROVE  rowKey(r) = visibleRecordKey(d)
  <2>1. PICK v \in visible : Shows(o, v, r)
    BY <1>3
  <2>2. PICK m \in mine : Accounts(m, r, o)
    BY <1>6
  <2> QED
    BY <1>1, <1>4, <1>5, <1>7, <1>8, <2>1, <2>2, ExactHost
<1>9. ASSUME NEW d \in W
      PROVE  \E r \in remote[o] : hostKey(d) = hostKey(r)
  <2> SUFFICES ASSUME visibleByHostname(visible, hostKey(d)) = {} PROVE FALSE
    BY <1>3 DEF visibleByHostname, Shows
  <2>1. PICK m \in ownedRecord(o, d, mine) : TRUE
    BY <1>7 DEF Quiet
  <2>2. hostKey(m) = hostKey(d)
    BY OwnedOnHost
  <2>3. Displaced(d, m, visible) = {} /\ visibleByKey(visible, visibleRecordKey(d)) = {}
          /\ visibleByKey(visible, visibleRecordKey(m)) = {}
    <3>1. \A u \in visible : hostKey(u) # hostKey(d)
      BY DEF visibleByHostname
    <3>2. /\ visibleByKey(visible, visibleRecordKey(m)) = {}
          /\ visibleByKey(visible, visibleRecordKey(d)) = {}
      BY <2>2, <3>1 DEF visibleByKey, visibleRecordKey, hostKey
    <3> QED
      BY <3>2 DEF Displaced, One
  <2>4. Decision(o, d, m, mine, visible) = "create"
    BY <2>3 DEF Decision, Many
  <2> QED
    BY <1>7, <2>4 DEF Quiet
<1>10. ASSUME NEW r \in remote[o]
       PROVE  \E d \in W : hostKey(d) = hostKey(r)
  <2> SUFFICES ASSUME \A d \in W : hostKey(d) # hostKey(r) PROVE FALSE
    OBVIOUS
  <2>1. PICK v \in visible : Shows(o, v, r)
    BY <1>3
  <2>2. PICK m \in mine : Accounts(m, r, o)
    BY <1>6
  <2>3. hostKey(m) = hostKey(r)
    BY <2>2, AccountsHost
  <2>4. /\ visibleRecordKey(v) = visibleRecordKey(m)
        /\ sameRecordProvenance(m.provenance, v.provenance)
    BY <1>4, <2>1, <2>2 DEF Shows, Accounts, sameRecordProvenance, hasRecordProvenance
  <2>5. visibleByKey(visible, visibleRecordKey(m)) = {v}
    <3>1. \A u \in visible : visibleRecordKey(u) = visibleRecordKey(v) => hostKey(u) = hostKey(v)
      BY DEF visibleRecordKey, hostKey
    <3> QED
      BY <1>5, <2>4, <3>1 DEF visibleByKey
  <2>6. staleOwnedDeleteVisibleRecord(m, visible) = {v}
    BY <2>4, <2>5 DEF staleOwnedDeleteVisibleRecord, One
  <2> QED
    BY <1>7, <2>3, <2>6
<1>11. \A r \in remote[o] : \E d \in W : rowKey(r) = visibleRecordKey(d)
  BY <1>8, <1>10
<1>12. \A d \in W : \E r \in remote[o] : rowKey(r) = visibleRecordKey(d)
  BY <1>8, <1>9
<1> QED
  BY <1>11, <1>12 DEF W

(***************************************************************************)
(* When moreover nothing is done without the snapshot getting to know it,  *)
(* Cloudflare shows exactly what the containers want whenever no pass is   *)
(* owed and no change was missed.                                          *)
(***************************************************************************)
THEOREM CloudflareShowsWanted ==
  ASSUME SingleClaims, QualifiedNames, NoOperator, NothingForgotten
  PROVE  Spec => []CloudflareExact
<1> DEFINE Lower == IInv /\ SingleInv /\ IdentityInv /\ RowsInv
<1>1. Lower /\ AccountInv /\ Settled => CloudflareExact
  BY ExactNow DEF CloudflareExact
<1>2. OnlyRemovals
  BY DEF OnlyRemovals, NoOperator
<1>3. Spec => []Lower
  BY <1>2, RowsInvariance
<1>4. Spec => []AccountInv
  BY <1>2, AccountInvariance
<1>5. Spec => []Settled
  BY PassSettles
<1> HIDE DEF Lower
<1> QED
  BY <1>1, <1>3, <1>4, <1>5, PTL

-----------------------------------------------------------------------------
(* A pass serves every host *)

(***************************************************************************)
(* What a call makes of the rows of an output: what is wanted and served   *)
(* stays served, and a row keeps its host or comes under a fresh identity. *)
(***************************************************************************)
KeepsServed(o, rows, fresh, x) ==
  /\ Identified(o, x.rows)
  /\ \A d \in filterDesiredForOutput(desired, o) : \A r \in rows :
       hostKey(r) = hostKey(d) => \E s \in x.rows : hostKey(s) = hostKey(d)
  /\ \A s \in x.rows :
       s.id \in fresh \/ \E r \in rows : r.id = s.id /\ hostKey(r) = hostKey(s)

\* One row comes in place of others, under the identity of one of them.
LEMMA ReplacedIdentified ==
  ASSUME NEW o, NEW rows, Identified(o, rows), NEW d, NEW x, NEW gone \in SUBSET rows,
         NEW r \in gone, NEW s, RowFor(o, s, d), s.id = r.id, x.rows = (rows \ gone) \cup {s}
  PROVE  Identified(o, x.rows)
<1>1. Kind[o] = "cloudflare" => \A q \in x.rows : Qualified(q)
  BY DEF Identified, RowFor
<1>2. \A q \in rows \ gone : q.id # s.id
  BY DEF Identified
<1>3. \A p, q \in x.rows : p.id = q.id => p = q
  BY <1>2 DEF Identified
<1> QED
  BY <1>1, <1>3 DEF Identified

LEMMA ReplacedServed ==
  ASSUME NEW o, NEW rows, Identified(o, rows), NEW d, NEW x, NEW gone \in SUBSET rows,
         NEW r \in gone, \A q \in gone : hostKey(q) = hostKey(d),
         NEW s, RowFor(o, s, d), s.id = r.id, x.rows = (rows \ gone) \cup {s}
  PROVE  KeepsServed(o, rows, {}, x)
<1>1. hostKey(s) = hostKey(d)
  BY DEF RowFor
<1>2. Identified(o, x.rows)
  BY ReplacedIdentified
<1>3. ASSUME NEW q \in rows
      PROVE  \E p \in x.rows : hostKey(p) = hostKey(q)
  BY <1>1
<1>4. \A q \in x.rows : \E p \in rows : p.id = q.id /\ hostKey(p) = hostKey(q)
  BY <1>1
<1> QED
  BY <1>2, <1>3, <1>4 DEF KeepsServed

LEMMA CreateServes ==
  ASSUME IInv, pc = "mutate", FreshIds # {}, NEW d \in DesiredRecords,
         QualifiedOn(Here, remote[Here], d), Identified(Here, remote[Here]),
         NEW x \in CreateOutcomes(Here, d)
  PROVE  /\ KeepsServed(Here, remote[Here], {NewId}, x)
         /\ Fails(x) \/ \E s \in x.rows : hostKey(s) = hostKey(d)
<1> DEFINE rows == remote[Here]
<1>1. \A r \in rows : r.id # NewId
  <2>1. NewId \in FreshIds
    BY DEF NewId
  <2>2. Here \in Outputs
    BY Mutating
  <2> QED
    BY <2>1, <2>2 DEF FreshIds, UsedIds
<1>2. \/ /\ x.rows = rows
         /\ Fails(x) \/ \E r \in rows : hostKey(r) = hostKey(d)
      \/ Added(Here, rows, d, x)
      \/ Rewritten(Here, rows, d, x)
  BY CreateEffect
<1>3. CASE /\ x.rows = rows
           /\ Fails(x) \/ \E r \in rows : hostKey(r) = hostKey(d)
  BY <1>3 DEF KeepsServed
<1>4. CASE Added(Here, rows, d, x)
  <2>1. PICK s \in Rows : s.id = NewId /\ RowFor(Here, s, d) /\ x.rows = rows \cup {s}
    BY <1>4 DEF Added
  <2>2. hostKey(s) = hostKey(d) /\ (Kind[Here] = "cloudflare" => Qualified(s))
    BY <2>1 DEF RowFor
  <2>3. Identified(Here, x.rows)
    BY <1>1, <2>1, <2>2 DEF Identified
  <2> QED
    BY <2>1, <2>2, <2>3 DEF KeepsServed
<1>5. CASE Rewritten(Here, rows, d, x)
  <2>1. PICK r \in rows, s \in Rows :
          /\ hostKey(r) = hostKey(d) /\ s.id = r.id /\ RowFor(Here, s, d)
          /\ x.rows = (rows \ {r}) \cup {s}
    BY <1>5 DEF Rewritten
  <2>2. KeepsServed(Here, rows, {}, x)
    <3> DEFINE gone == {r}
    <3>1. gone \in SUBSET rows /\ r \in gone /\ \A q \in gone : hostKey(q) = hostKey(d)
      BY <2>1
    <3>2. x.rows = (rows \ gone) \cup {s}
      BY <2>1
    <3> HIDE DEF gone
    <3> QED
      BY <2>1, <3>1, <3>2, ReplacedServed
  <2>3. hostKey(s) = hostKey(d)
    BY <2>1 DEF RowFor
  <2> QED
    BY <2>1, <2>2, <2>3 DEF KeepsServed
<1> QED
  BY <1>2, <1>3, <1>4, <1>5

LEMMA UpdateServes ==
  ASSUME IInv, SingleInv, pc = "mutate", HereServed, NEW t \in todo.updates,
         t.from \in VisibleRecords, t.to \in DesiredRecords,
         QualifiedOn(Here, remote[Here], t.to), Identified(Here, remote[Here]),
         NEW x \in UpdateOutcomes(Here, t.from, t.to)
  PROVE  KeepsServed(Here, remote[Here], {}, x)
<1> DEFINE rows == remote[Here]
<1>1. \/ x.rows = rows
      \/ Moved(Here, rows, t.from, t.to, x)
  BY UpdateEffect
<1>2. \A q \in rows : Hit(Here, t.from, q) => hostKey(q) = hostKey(t.to)
  <2>1. hostKey(t.from) = hostKey(t.to)
    BY DEF SingleInv
  <2>2. \A q \in rows : Hit(Here, t.from, q) => hostKey(q) = hostKey(t.from)
    BY DEF HereServed, Hit, hostKey
  <2> QED
    BY <2>1, <2>2
<1>3. CASE x.rows = rows
  BY <1>3 DEF KeepsServed
<1>4. CASE Moved(Here, rows, t.from, t.to, x)
  <2>1. PICK r \in rows, gone \in SUBSET rows, s \in Rows :
          /\ r \in gone /\ \A q \in gone : Hit(Here, t.from, q)
          /\ s.id = r.id /\ RowFor(Here, s, t.to)
          /\ x.rows = (rows \ gone) \cup {s}
    BY <1>4 DEF Moved
  <2> QED
    BY <1>2, <2>1, ReplacedServed
<1> QED
  BY <1>1, <1>3, <1>4

LEMMA DeleteServes ==
  ASSUME SingleInv, pc = "mutate", HereServed, Identified(Here, remote[Here]),
         NEW t \in todo.deletes, NEW x,
         x.rows \in {remote[Here], {r \in remote[Here] : r.id # t.visible.provenance}}
  PROVE  KeepsServed(Here, remote[Here], {}, x)
<1>1. DeleteOK(t)
  BY DEF SingleInv
<1>2. ASSUME NEW d \in filterDesiredForOutput(desired, Here), NEW r \in remote[Here],
             hostKey(r) = hostKey(d)
      PROVE  r \in x.rows
  BY <1>1, <1>2 DEF DeleteOK, HereServed
<1>3. x.rows \subseteq remote[Here]
  OBVIOUS
<1>4. Identified(Here, x.rows)
  BY <1>3 DEF Identified
<1> QED
  BY <1>2, <1>3, <1>4 DEF KeepsServed

LEMMA ServedMutation ==
  ASSUME IInv, ServedInv, pc = "mutate", NEW x, Called(x), NEW fresh,
         \A t \in todo.updates : t.from.provenance \notin fresh,
         \A t \in todo.deletes : t.visible.provenance \notin fresh,
         KeepsServed(Here, remote[Here], fresh, x),
         \/ pc' \notin {"outputs", "mutate"}
         \/ /\ UNCHANGED <<pc, desired, next>>
            /\ todo'.updates \subseteq todo.updates
            /\ todo'.deletes \subseteq todo.deletes
            /\ \A t \in todo.creates :
                 t \in todo'.creates \/ \E s \in x.rows : hostKey(s) = hostKey(t.to)
  PROVE  ServedInv'
<1>1. /\ Here \in Outputs
      /\ \A o \in Outputs : o # Here => remote'[o] = remote[o]
      /\ remote'[Here] = x.rows
  BY Mutating, CalledElsewhere
<1>2. \A o \in Outputs : Identified(o, remote'[o])
  BY <1>1 DEF ServedInv, KeepsServed
<1>3. CASE pc' \notin {"outputs", "mutate"}
  BY <1>2, <1>3 DEF ServedInv
<1>4. ASSUME UNCHANGED <<pc, desired, next>>,
             todo'.updates \subseteq todo.updates,
             todo'.deletes \subseteq todo.deletes,
             \A t \in todo.creates :
               t \in todo'.creates \/ \E s \in x.rows : hostKey(s) = hostKey(t.to)
      PROVE  ServedInv'
  <2>1. EarlierServed'
    <3>1. next <= Len(OutputOrder)
      BY DEF IInv, TypeOK, PlaceOK
    <3>2. \A i \in 1..Len(OutputOrder) : i < next =>
            remote'[OutputOrder[i]] = remote[OutputOrder[i]]
      BY <1>1, <3>1, EarlierElsewhere
    <3> QED
      BY <1>4, <3>2 DEF ServedInv, EarlierServed, Serves
  <2>2. HereServed'
    <3>1. PICK o \in Outputs : o = Here
      BY <1>1
    <3>2. o = Here'
      BY <1>4, <3>1 DEF Here
    <3>3. KeepsServed(o, remote[o], fresh, x) /\ remote'[o] = x.rows
      BY <1>1, <3>1
    <3>4. ASSUME NEW d \in filterDesiredForOutput(desired, o)
          PROVE  \/ \E r \in remote'[o] : hostKey(r) = hostKey(d)
                 \/ \E t \in todo'.creates : t.to = d
      <4>1. CASE \E r \in remote[o] : hostKey(r) = hostKey(d)
        BY <3>3, <4>1 DEF KeepsServed
      <4>2. CASE \E t \in todo.creates : t.to = d
        BY <1>4, <3>3, <4>2
      <4> QED
        BY <3>1, <4>1, <4>2 DEF ServedInv, HereServed, Serves
    <3>5. ASSUME NEW p, p \notin fresh, NEW h,
                 \A r \in remote[o] : r.id = p => hostKey(r) = h
          PROVE  \A r \in remote'[o] : r.id = p => hostKey(r) = h
      BY <3>3, <3>5 DEF KeepsServed
    <3>6. /\ \A t \in todo'.updates : \A r \in remote'[o] :
               r.id = t.from.provenance => hostKey(r) = hostKey(t.from)
          /\ \A t \in todo'.deletes : \A r \in remote'[o] :
               r.id = t.visible.provenance => hostKey(r) = hostKey(t.visible)
      <4>1. /\ \A t \in todo.updates : \A r \in remote[o] :
                 r.id = t.from.provenance => hostKey(r) = hostKey(t.from)
            /\ \A t \in todo.deletes : \A r \in remote[o] :
                 r.id = t.visible.provenance => hostKey(r) = hostKey(t.visible)
        BY <3>1 DEF ServedInv, HereServed
      <4> QED
        BY <1>4, <3>5, <4>1
    <3> QED
      BY <1>4, <3>2, <3>4, <3>6 DEF HereServed, Serves
  <2> QED
    BY <1>2, <2>1, <2>2 DEF ServedInv
<1> QED
  BY <1>3, <1>4

LEMMA TaskNames ==
  ASSUME QualifiedNames, IInv, SingleInv, ServedInv, pc = "mutate",
         NEW t \in todo.creates \cup todo.updates
  PROVE  Identified(Here, remote[Here]) /\ QualifiedOn(Here, remote[Here], t.to)
<1>1. Here \in Outputs
  BY Mutating
<1>2. Identified(Here, remote[Here])
  BY <1>1 DEF ServedInv
<1>3. t.to \in filterDesiredForOutput(desired, Here)
  BY DEF SingleInv, TaskOK
<1> QED
  BY <1>1, <1>2, <1>3, ClaimQualified DEF QualifiedOn, Identified

LEMMA CreateServed ==
  ASSUME QualifiedNames, IInv, SingleInv, ServedInv, Create
  PROVE  ServedInv'
<1>1. PICK t \in todo.creates : \E x \in CreateOutcomes(Here, t.to) :
           /\ pc = "mutate" /\ FreshIds # {}
           /\ t.to \in DesiredRecords
           /\ x \in Outcomes /\ Called(x)
           /\ \/ MutationFails(x)
              \/ /\ ~Fails(x)
                 /\ Progress(todo.creates \ {t}, todo.updates, todo.deletes,
                             Record(records, ManagedFrom(Here, t.to, x.provenance), t.drops))
  BY CreateStep
<1>2. PICK x \in CreateOutcomes(Here, t.to) :
           /\ pc = "mutate" /\ FreshIds # {}
           /\ t.to \in DesiredRecords
           /\ x \in Outcomes /\ Called(x)
           /\ \/ MutationFails(x)
              \/ /\ ~Fails(x)
                 /\ Progress(todo.creates \ {t}, todo.updates, todo.deletes,
                             Record(records, ManagedFrom(Here, t.to, x.provenance), t.drops))
  BY <1>1
<1>3. Identified(Here, remote[Here]) /\ QualifiedOn(Here, remote[Here], t.to)
  BY <1>2, TaskNames
<1>4. /\ KeepsServed(Here, remote[Here], {NewId}, x)
      /\ Fails(x) \/ \E s \in x.rows : hostKey(s) = hostKey(t.to)
  BY <1>2, <1>3, CreateServes
<1>5. /\ \A u \in todo.updates : u.from.provenance \notin {NewId}
      /\ \A u \in todo.deletes : u.visible.provenance \notin {NewId}
  <2>1. NewId \in FreshIds
    BY <1>2 DEF NewId
  <2> QED
    BY <2>1 DEF FreshIds, UsedIds
<1>6. \/ pc' \notin {"outputs", "mutate"}
      \/ /\ UNCHANGED <<pc, desired, next>>
         /\ todo'.updates \subseteq todo.updates
         /\ todo'.deletes \subseteq todo.deletes
         /\ \A u \in todo.creates :
              u \in todo'.creates \/ \E s \in x.rows : hostKey(s) = hostKey(u.to)
  <2>1. CASE MutationFails(x)
    BY <2>1 DEF MutationFails, FailPass
  <2>2. CASE /\ ~Fails(x)
             /\ Progress(todo.creates \ {t}, todo.updates, todo.deletes,
                         Record(records, ManagedFrom(Here, t.to, x.provenance), t.drops))
    BY <1>4, <2>2 DEF Progress
  <2> QED
    BY <1>2, <2>1, <2>2
<1> QED
  BY <1>2, <1>4, <1>5, <1>6, ServedMutation

LEMMA UpdateServed ==
  ASSUME QualifiedNames, IInv, SingleInv, ServedInv, Update
  PROVE  ServedInv'
<1>1. PICK t \in todo.updates : \E x \in UpdateOutcomes(Here, t.from, t.to) :
           /\ pc = "mutate"
           /\ todo.creates = {}
           /\ t.to \in DesiredRecords /\ t.from \in VisibleRecords
           /\ x \in Outcomes /\ Called(x)
           /\ \/ MutationFails(x)
              \/ Progress(todo.creates, todo.updates \ {t}, todo.deletes,
                          Record(records,
                                 ManagedFrom(Here, t.to,
                                             nextManagedProvenance(x.provenance,
                                                                   t.from.provenance)),
                                 t.drops))
  BY UpdateStep
<1>2. PICK x \in UpdateOutcomes(Here, t.from, t.to) :
           /\ pc = "mutate"
           /\ t.to \in DesiredRecords /\ t.from \in VisibleRecords
           /\ x \in Outcomes /\ Called(x)
           /\ \/ MutationFails(x)
              \/ Progress(todo.creates, todo.updates \ {t}, todo.deletes,
                          Record(records,
                                 ManagedFrom(Here, t.to,
                                             nextManagedProvenance(x.provenance,
                                                                   t.from.provenance)),
                                 t.drops))
  BY <1>1
<1>3. Identified(Here, remote[Here]) /\ QualifiedOn(Here, remote[Here], t.to)
  BY <1>2, TaskNames
<1>4. KeepsServed(Here, remote[Here], {}, x)
  BY <1>2, <1>3, UpdateServes DEF ServedInv
<1>5. \/ pc' \notin {"outputs", "mutate"}
      \/ /\ UNCHANGED <<pc, desired, next>>
         /\ todo'.creates = todo.creates
         /\ todo'.updates \subseteq todo.updates
         /\ todo'.deletes \subseteq todo.deletes
  BY <1>2 DEF MutationFails, FailPass, Progress
<1> QED
  BY <1>2, <1>4, <1>5, ServedMutation

LEMMA DeleteServed ==
  ASSUME IInv, SingleInv, ServedInv, Delete
  PROVE  ServedInv'
<1>1. PICK t \in todo.deletes, x \in Outcomes :
           /\ pc = "mutate" /\ Called(x)
           /\ todo.creates = {} /\ todo.updates = {}
           /\ \/ MutationFails(x)
              \/ Progress({}, {}, todo.deletes \ {t},
                          {m \in records : managedRecordLineageKey(m)
                                             # managedRecordLineageKey(t.managed)})
           /\ x.rows \in {remote[Here], {r \in remote[Here] : r.id # t.visible.provenance}}
  BY DeleteTakes
<1>2. Identified(Here, remote[Here])
  BY <1>1, Mutating DEF ServedInv
<1>3. KeepsServed(Here, remote[Here], {}, x)
  BY <1>1, <1>2, DeleteServes DEF ServedInv
<1>4. \/ pc' \notin {"outputs", "mutate"}
      \/ /\ UNCHANGED <<pc, desired, next>>
         /\ todo'.creates = todo.creates
         /\ todo'.updates \subseteq todo.updates
         /\ todo'.deletes \subseteq todo.deletes
  BY <1>1 DEF MutationFails, FailPass, Progress
<1> QED
  BY <1>1, <1>3, <1>4, ServedMutation

\* What is planned for d unless its host has a row already.
LEMMA QuietServed ==
  ASSUME NEW o, NEW W, NEW mine, Single(o, W, mine), NEW visible, NEW d \in W,
         Quiet(o, d, visible, mine)
  PROVE  visibleByHostname(visible, hostKey(d)) # {}
<1>1. CASE ownedRecord(o, d, mine) = {}
  BY <1>1 DEF Quiet
<1>2. ASSUME NEW m \in ownedRecord(o, d, mine)
      PROVE  visibleByHostname(visible, hostKey(d)) # {}
  <2>1. hostKey(m) = hostKey(d) /\ Decision(o, d, m, mine, visible) \in {"keep", "skip"}
    BY OwnedOnHost DEF Quiet
  <2>2. CASE Displaced(d, m, visible) # {}
    BY <2>1, <2>2, DisplacedHost DEF visibleByHostname
  <2>3. \A v \in visibleByKey(visible, visibleRecordKey(m))
                   \cup visibleByKey(visible, visibleRecordKey(d)) :
          v \in visibleByHostname(visible, hostKey(d))
    BY <2>1 DEF visibleByKey, visibleByHostname, visibleRecordKey, hostKey
  <2>4. CASE Displaced(d, m, visible) = {}
    BY <2>1, <2>3, <2>4 DEF Decision, Many
  <2> QED
    BY <2>2, <2>4
<1> QED
  BY <1>1, <1>2

LEMMA PlanServed ==
  ASSUME IInv, SingleInv, ServedInv, Plan
  PROVE  ServedInv'
<1> DEFINE W == filterDesiredForOutput(desired, Here)
           mine == ForOutput(store, Here)
           visible == ListOutcome(Here)
<1>1. /\ Here \in Outputs /\ Here' = Here
      /\ Single(Here, W, mine)
      /\ pc = "outputs"
      /\ todo'.creates = PlannedCreates(Here, W, visible, mine)
      /\ todo'.updates = PlannedUpdates(Here, W, visible, mine)
      /\ todo'.deletes = PlannedDeletes(Here, W, visible, mine)
      /\ remote' = remote /\ desired' = desired /\ next' = next
  BY PlanStep
<1>2. \A o \in Outputs : Identified(o, remote'[o])
  BY <1>1 DEF ServedInv
<1>3. EarlierServed'
  BY <1>1 DEF ServedInv, EarlierServed, Serves
<1>4. PICK o \in Outputs : o = Here
  BY <1>1
<1>5. /\ \A v \in ListOutcome(o) : \E r \in remote[o] : Shows(o, v, r)
      /\ \A p, q \in remote[o] : p.id = q.id => p = q
      /\ remote[o] \in SUBSET Rows
  BY Listing DEF ServedInv, Identified, IInv, TypeOK, OutsideOK
<1> HIDE DEF W, mine
<1>6. ASSUME NEW d \in W
      PROVE  \/ \E r \in remote[o] : hostKey(r) = hostKey(d)
             \/ \E t \in todo'.creates : t.to = d
  <2>1. CASE \E v \in visible : hostKey(v) = hostKey(d)
    BY <1>4, <1>5, <2>1 DEF Shows
  <2>2. CASE Quiet(Here, d, visible, mine)
    <3>1. visibleByHostname(visible, hostKey(d)) # {}
      BY <1>1, <2>2, QuietServed
    <3> QED
      BY <2>1, <3>1 DEF visibleByHostname
  <2>3. CASE \E t \in PlannedUpdates(Here, W, visible, mine) : t.to = d
    <3>1. PICK t \in PlannedUpdates(Here, W, visible, mine) : t.to = d
      BY <2>3
    <3>2. PICK m \in mine : hostKey(m) = hostKey(d) /\ t.from \in Displaced(d, m, visible)
      BY <1>1, <3>1, UpdatesOf
    <3> QED
      BY <2>1, <3>2, DisplacedHost
  <2> QED
    BY <1>1, <2>2, <2>3, PlanComplete
<1>7. ASSUME NEW v \in visible, NEW r \in remote[o], r.id = v.provenance
      PROVE  hostKey(r) = hostKey(v)
  <2>1. PICK q \in remote[o] : Shows(o, v, q)
    BY <1>4, <1>5
  <2>2. v.provenance = q.id
    BY <1>5, <1>7, <2>1, NamesAssumption DEF Shows, Rows
  <2> QED
    BY <1>5, <1>7, <2>1, <2>2 DEF Shows
<1>8. /\ \A t \in todo'.updates : t.from \in visible
      /\ \A t \in todo'.deletes : t.visible \in visible
  <2>1. ASSUME NEW t \in PlannedUpdates(Here, W, visible, mine)
        PROVE  t.from \in visible
    BY <1>1, UpdatesOf, DisplacedHost
  <2>2. ASSUME NEW t \in PlannedDeletes(Here, W, visible, mine)
        PROVE  t.visible \in visible
    BY <1>1, DeletesOf, StaleHost
  <2> QED
    BY <1>1, <2>1, <2>2
<1> HIDE DEF visible
<1>9. HereServed'
  BY <1>1, <1>4, <1>6, <1>7, <1>8 DEF HereServed, Serves, W
<1> QED
  BY <1>2, <1>3, <1>9 DEF ServedInv

LEMMA SaveServed ==
  ASSUME IInv, ServedInv, Save
  PROVE  ServedInv'
<1>1. /\ pc = "mutate" /\ pc' = "outputs" /\ todo.creates = {}
      /\ next' = next + 1 /\ next \in Nat
      /\ UNCHANGED <<remote, desired>>
  BY DEF Save, NoMutations, IInv, TypeOK, PlaceOK
<1>2. \A d \in filterDesiredForOutput(desired, Here) : Serves(Here, hostKey(d))
  BY <1>1 DEF ServedInv, HereServed
<1>3. ASSUME NEW i \in 1..Len(OutputOrder), i < next + 1,
             NEW d \in filterDesiredForOutput(desired, OutputOrder[i])
      PROVE  \E r \in remote[OutputOrder[i]] : hostKey(r) = hostKey(d)
  <2>1. CASE i < next
    BY <1>1, <1>3, <2>1 DEF ServedInv, EarlierServed, Serves
  <2>2. CASE i = next
    BY <1>2, <1>3, <2>2 DEF Here, Serves
  <2>3. i < next \/ i = next
    BY <1>1, <1>3
  <2> QED
    BY <2>1, <2>2, <2>3
<1>4. EarlierServed'
  BY <1>1, <1>3 DEF EarlierServed, Serves
<1>5. \A o \in Outputs : Identified(o, remote'[o])
  BY <1>1 DEF ServedInv
<1> QED
  BY <1>1, <1>4, <1>5 DEF ServedInv

\* A row of the operator's comes under a fresh identity or keeps its own.
LEMMA OperatorIdentified ==
  ASSUME QualifiedNames, IInv, \A o \in Outputs : Identified(o, remote[o]), Operator
  PROVE  /\ \A o \in Outputs : Identified(o, remote'[o])
         /\ \A o \in Outputs : \A s \in remote'[o] :
              \/ FreshIds # {} /\ s.id = NewId
              \/ \E r \in remote[o] : r.id = s.id /\ r.maker = s.maker
         /\ UNCHANGED <<running, store, pc, pass, watching, hint, missed, stormy>>
<1>1. CASE RemoveRow
  BY <1>1, RemoveShrinks DEF Identified
<1>2. CASE AddRow
  <2>1. PICK x \in OperatorRows :
        remote' = [remote EXCEPT ![x.output] =
                     @ \cup {[id |-> NewId, hostname |-> x.hostname,
                              answer |-> x.answer, maker |-> "operator"]}]
    BY <1>2 DEF AddRow
  <2> DEFINE s == [id |-> NewId, hostname |-> x.hostname,
                   answer |-> x.answer, maker |-> "operator"]
  <2>2. /\ FreshIds # {} /\ UNCHANGED <<running, store, pc, pass, watching, hint, missed, stormy>>
        /\ s.id = NewId /\ hostKey(s) = hostKey(x)
        /\ x.output \in Outputs
        /\ remote' = [remote EXCEPT ![x.output] = @ \cup {s}]
    BY <1>2, <2>1, WorldAssumption DEF AddRow, hostKey, OperatorTexts
  <2> HIDE DEF s
  <2>3. NewId \in FreshIds
    BY <2>2 DEF NewId
  <2>4. \A r \in remote[x.output] : r.id # s.id
    BY <2>2, <2>3 DEF FreshIds, UsedIds
  <2>5. Kind[x.output] = "cloudflare" => Qualified(s)
    BY <2>2 DEF QualifiedNames, Qualified
  <2>6. \A o \in Outputs : /\ o # x.output => remote'[o] = remote[o]
                           /\ o = x.output => remote'[o] = remote[o] \cup {s}
    BY <2>2 DEF IInv, TypeOK, OutsideOK
  <2> QED
    BY <2>2, <2>4, <2>5, <2>6 DEF Identified
<1>3. CASE EditRow
  <2>1. PICK x \in OperatorRows : \E r \in remote[x.output] :
          remote' = [remote EXCEPT ![x.output] =
                       (@ \ {r}) \cup {[r EXCEPT !.hostname = x.hostname,
                                                 !.answer = x.answer]}]
    BY <1>3 DEF EditRow
  <2>2. PICK r \in remote[x.output] :
          remote' = [remote EXCEPT ![x.output] =
                       (@ \ {r}) \cup {[r EXCEPT !.hostname = x.hostname,
                                                 !.answer = x.answer]}]
    BY <2>1
  <2> DEFINE s == [r EXCEPT !.hostname = x.hostname, !.answer = x.answer]
  <2>3. x.output \in Outputs /\ r \in Rows
    BY WorldAssumption DEF OperatorTexts, IInv, TypeOK, OutsideOK
  <2>4. s.id = r.id /\ s.maker = r.maker /\ hostKey(s) = hostKey(x)
    BY <2>3 DEF hostKey, Rows
  <2>5. remote' = [remote EXCEPT ![x.output] = (@ \ {r}) \cup {s}]
    BY <2>2
  <2> HIDE DEF s
  <2>6. \A o \in Outputs : /\ o # x.output => remote'[o] = remote[o]
                           /\ o = x.output => remote'[o] = (remote[o] \ {r}) \cup {s}
    BY <2>3, <2>5 DEF IInv, TypeOK, OutsideOK
  <2>7. \A q \in remote[x.output] \ {r} : q.id # s.id
    BY <2>3, <2>4 DEF Identified
  <2>8. Kind[x.output] = "cloudflare" => Qualified(s)
    BY <2>3, <2>4 DEF QualifiedNames, Qualified
  <2>9. UNCHANGED <<running, store, pc, pass, watching, hint, missed, stormy>>
    BY <1>3 DEF EditRow
  <2> QED
    BY <2>4, <2>6, <2>7, <2>8, <2>9 DEF Identified
<1> QED
  BY <1>1, <1>2, <1>3 DEF Operator

LEMMA ServedStep ==
  ASSUME QualifiedNames, OperatorWaits, IInv, SingleInv, ServedInv, [Next]_vars
  PROVE  ServedInv'
<1>1. CASE Create \/ Update \/ Delete
  BY <1>1, CreateServed, UpdateServed, DeleteServed
<1>2. CASE Plan \/ Save
  BY <1>2, PlanServed, SaveServed
<1>3. CASE ListDesired
  <2>1. /\ remote' = remote /\ pc' \in {"sources", "outputs"}
        /\ pc' = "outputs" => next' = 1
    BY <1>3 DEF ListDesired
  <2> QED
    BY <2>1 DEF ServedInv, EarlierServed
<1>4. CASE Operator
  <2>1. pc \notin {"outputs", "mutate"}
    BY <1>4 DEF Operator, AddRow, EditRow, RemoveRow, OperatorMay, OperatorWaits
  <2> QED
    BY <1>4, <2>1, OperatorIdentified DEF ServedInv
<1>5. CASE UNCHANGED <<remote, pc, pass>>
  BY <1>5 DEF ServedInv, EarlierServed, HereServed, Serves, Here, pass
<1>6. CASE Start \/ Begin \/ Load \/ ReadFails \/ OutputsDone \/ FindAmbiguity
           \/ SaveFails \/ SavePartial \/ Retry \/ GiveUp \/ Crash
  <2>1. remote' = remote /\ pc' \notin {"outputs", "mutate"}
    BY <1>6 DEF Start, Begin, Load, ReadFails, OutputsDone, FindAmbiguity,
       SaveFails, SavePartial, Retry, GiveUp, Crash, FailPass
  <2> QED
    BY <2>1 DEF ServedInv
<1>7. CASE Wait \/ Deploy \/ Calm \/ UNCHANGED vars
  BY <1>5, <1>7 DEF Wait, Deploy, Calm, vars
<1> QED
  BY <1>1, <1>2, <1>3, <1>4, <1>6, <1>7 DEF Next, Process, World

LEMMA ServedInit == Init => ServedInv
BY DEF Init, ServedInv, Identified

(***************************************************************************)
(* When a host has one claim at a time and operators keep their hands off  *)
(* the outputs a pass is at, a pass that ends well leaves no host          *)
(* unserved, whatever was added, edited or removed before it.              *)
(***************************************************************************)
THEOREM PassServes ==
  ASSUME SingleClaims, QualifiedNames, OperatorWaits
  PROVE  Spec => HostServed
<1>1. IInv /\ SingleInv /\ ServedInv /\ [Next]_vars =>
        (pc = "outputs" /\ pc' = "idle" =>
           \A o \in Outputs : \A d \in filterDesiredForOutput(desired, o) :
             \E r \in remote[o] : hostKey(r) = hostKey(d))
  <2> SUFFICES ASSUME IInv, ServedInv, [Next]_vars, pc = "outputs", pc' = "idle",
                      NEW o \in Outputs, NEW d \in filterDesiredForOutput(desired, o)
               PROVE  \E r \in remote[o] : hostKey(r) = hostKey(d)
    OBVIOUS
  <2>1. OutputsDone
    BY DEF Next, Process, Start, Begin, Load, ListDesired, ReadFails, Plan, FindAmbiguity,
       Create, Update, Delete, Save, SaveFails, SavePartial, Retry, GiveUp, FailPass, Wait,
       World, Crash, Deploy, Operator, AddRow, EditRow, RemoveRow, Calm, vars
  <2>2. next > Len(OutputOrder) /\ next \in Nat /\ Len(OutputOrder) \in Nat
    BY <2>1, OrderAssumption DEF OutputsDone, IInv, TypeOK, PlaceOK
  <2>3. PICK i \in 1..Len(OutputOrder) : o = OutputOrder[i]
    BY DEF Outputs
  <2> QED
    BY <2>2, <2>3 DEF ServedInv, EarlierServed, Serves
<1>2. Spec => [](IInv /\ SingleInv)
  BY SingleInvariance
<1>3. Spec => []ServedInv
  <2>1. IInv /\ SingleInv /\ ServedInv /\ [Next]_vars => ServedInv'
    BY ServedStep
  <2> QED
    BY <1>2, <2>1, ServedInit, PTL DEF Spec
<1> QED
  BY <1>1, <1>2, <1>3, PTL DEF Spec, HostServed
-----------------------------------------------------------------------------
(* Rows of an operator are left alone *)

LEMMA CreatesClear ==
  ASSUME NEW o, NEW wanted, NEW visible, NEW mine,
         NEW t \in PlannedCreates(o, wanted, visible, mine)
  PROVE  t.to \in wanted /\ visibleByHostname(visible, hostKey(t.to)) = {}
<1>1. CASE t \in {[to |-> d, drops |-> {}] :
                    d \in {e \in wanted : /\ ownedRecord(o, e, mine) = {}
                                          /\ visibleByHostname(visible, hostKey(e)) = {}}}
  BY <1>1
<1>2. CASE \E d \in wanted : \E m \in ownedRecord(o, d, mine) :
             /\ Decision(o, d, m, mine, visible) = "create"
             /\ t = [to |-> d, drops |-> Superseded(o, d, m)]
  <2>1. PICK d \in wanted : \E m \in ownedRecord(o, d, mine) :
               /\ Decision(o, d, m, mine, visible) = "create"
               /\ t = [to |-> d, drops |-> Superseded(o, d, m)]
    BY <1>2
  <2>2. PICK m \in ownedRecord(o, d, mine) :
               /\ Decision(o, d, m, mine, visible) = "create"
               /\ t = [to |-> d, drops |-> Superseded(o, d, m)]
    BY <2>1
  <2> QED
    BY <2>2 DEF Decision
<1> QED
  BY <1>1, <1>2 DEF PlannedCreates

LEMMA UpdatesProven ==
  ASSUME NEW o, NEW wanted, NEW visible, NEW mine,
         NEW t \in PlannedUpdates(o, wanted, visible, mine)
  PROVE  /\ t.to \in wanted
         /\ t.from \in visible
         /\ hasRecordProvenance(t.from.provenance) =>
              \E m \in mine : m.provenance = t.from.provenance
<1>1. PICK d \in wanted : \E m \in ownedRecord(o, d, mine) :
             /\ Decision(o, d, m, mine, visible) = "update"
             /\ \E v \in Displaced(d, m, visible) :
                  t = [from |-> v, to |-> d, drops |-> Superseded(o, d, m)]
  BY DEF PlannedUpdates
<1>2. PICK m \in ownedRecord(o, d, mine) :
             /\ Decision(o, d, m, mine, visible) = "update"
             /\ \E v \in Displaced(d, m, visible) :
                  t = [from |-> v, to |-> d, drops |-> Superseded(o, d, m)]
  BY <1>1
<1>3. PICK v \in Displaced(d, m, visible) :
             t = [from |-> v, to |-> d, drops |-> Superseded(o, d, m)]
  BY <1>2
<1>4. canUpdateOwnedVisibleRecord(m, v, matchedByHostnameOnly(o, d, mine))
  BY <1>2, <1>3 DEF Decision
<1>5. m \in mine /\ v \in visible
  BY OwnedRecordSubset, DisplacedSubset
<1> QED
  BY <1>3, <1>4, <1>5 DEF canUpdateOwnedVisibleRecord, sameRecordProvenance

\* What a plan keeps names no identity that was not on record.
LEMMA KeptProven ==
  ASSUME NEW o, NEW S, NEW visible, NEW mine, \A m \in mine : m.output = o, NEW kept,
         LET plan == buildReconcilePlan(o, S, visible, mine)
         IN kept \in KeepOutcomes(mine, plan.drops, plan.keeps)
  PROVE  \A n \in kept : n.output = o /\ \E m \in mine : m.provenance = n.provenance
<1> DEFINE wanted == desiredByLineage(o, S)
           plan == buildReconcilePlan(o, S, visible, mine)
<1>1. plan.keeps = PlannedKeeps(o, wanted, visible, mine)
                     \cup PlannedRetains(o, wanted, visible, mine)
  BY DEF buildReconcilePlan
<1> HIDE DEF wanted
<1>2. ASSUME NEW k \in PlannedKeeps(o, wanted, visible, mine)
      PROVE  k.record.output = o /\ \E m \in mine : m.provenance = k.record.provenance
  <2>1. PICK d \in wanted : \E m \in ownedRecord(o, d, mine) :
          k = [record |-> ManagedFrom(o, d, m.provenance), drops |-> Superseded(o, d, m)]
    BY DEF PlannedKeeps
  <2>2. PICK m \in ownedRecord(o, d, mine) :
          k = [record |-> ManagedFrom(o, d, m.provenance), drops |-> Superseded(o, d, m)]
    BY <2>1
  <2>3. m \in mine
    BY OwnedRecordSubset
  <2>4. k.record = ManagedFrom(o, d, m.provenance)
    BY <2>2
  <2> QED
    BY <2>3, <2>4, ManagedFromKeys
<1>3. ASSUME NEW k \in PlannedRetains(o, wanted, visible, mine)
      PROVE  k.record \in mine
  BY UnclaimedSubset DEF PlannedRetains
<1>4. \A k \in plan.keeps :
        k.record.output = o /\ \E m \in mine : m.provenance = k.record.provenance
  BY <1>1, <1>2, <1>3
<1> HIDE DEF plan
<1>5. \A n \in kept : n \in mine \/ \E k \in plan.keeps : n = k.record
  BY DEF KeepOutcomes, plan
<1> QED
  BY <1>4, <1>5

LEMMA PlanOperator ==
  ASSUME IInv, OperatorInv, Plan
  PROVE  OperatorInv'
<1> DEFINE W == filterDesiredForOutput(desired, Here)
           mine == ForOutput(owned, Here)
           visible == ListOutcome(Here)
           wanted == desiredByLineage(Here, W)
           plan == buildReconcilePlan(Here, W, visible, mine)
<1>1. /\ todo' = [creates |-> plan.creates, updates |-> plan.updates, deletes |-> plan.deletes]
      /\ \E kept \in KeepOutcomes(mine, plan.drops, plan.keeps) :
            records' = (owned \ mine) \cup kept
      /\ pc' = "mutate" /\ Here' = Here
      /\ UNCHANGED <<remote, store, owned, desired, next>>
  BY DEF Plan, Here
<1>2. /\ todo'.creates = PlannedCreates(Here, wanted, visible, mine)
      /\ todo'.updates = PlannedUpdates(Here, wanted, visible, mine)
  BY <1>1 DEF buildReconcilePlan
<1>3. PICK o \in Outputs : o = Here
  BY HereType DEF Plan, IInv
<1>4. \A m \in mine : m.output = o /\ m \in owned
  BY <1>3 DEF ForOutput
<1>5. \A n \in records' :
        n \in owned \/ (n.output = o /\ \E m \in mine : m.provenance = n.provenance)
  <2>1. PICK kept \in KeepOutcomes(mine, plan.drops, plan.keeps) :
            records' = (owned \ mine) \cup kept
    BY <1>1
  <2>2. \A n \in kept : n.output = Here /\ \E m \in mine : m.provenance = n.provenance
    BY <1>3, <1>4, KeptProven
  <2> QED
    BY <1>3, <2>1, <2>2
<1>6. W = filterDesiredForOutput(desired, o) /\ visible = ListOutcome(o)
  BY <1>3
<1> HIDE DEF W, mine, visible, wanted, plan
<1>7. wanted \subseteq W
  BY FilterSubset DEF wanted
<1>8. ASSUME NEW p \in Outputs, Kind[p] = "cloudflare"
      PROVE  NotOnRecord(p)'
  <2>1. \A r \in OperatorMade(remote[p]) :
          \A m \in store \cup owned \cup records : m.output = p => m.provenance # r.id
    BY <1>8 DEF OperatorInv, NotOnRecord, ForOutput
  <2>2. \A r \in OperatorMade(remote[p]) :
          \A m \in store \cup owned \cup records' : m.output = p => m.provenance # r.id
    BY <1>4, <1>5, <2>1
  <2> QED
    BY <1>1, <2>2 DEF NotOnRecord, ForOutput, OperatorMade
<1>9. ASSUME NEW t \in todo'.creates \cup todo'.updates
      PROVE  t.to \in W
  BY <1>2, <1>7, <1>9, CreatesClear, UpdatesProven
<1>10. ASSUME Kind[o] = "cloudflare", NEW r \in OperatorMade(remote[o])
       PROVE  /\ \A t \in todo'.updates : t.from.provenance # r.id
              /\ \A t \in todo'.creates : hostKey(t.to) # hostKey(r)
  <2>1. r \in remote[o] /\ r \in Rows
    BY DEF OperatorMade, IInv, TypeOK, OutsideOK
  <2>2. ASSUME NEW t \in todo'.updates, t.from.provenance = r.id
        PROVE  FALSE
    <3>1. hasRecordProvenance(t.from.provenance)
      BY <2>1, <2>2, NamesAssumption DEF Rows, hasRecordProvenance
    <3>2. PICK m \in mine : m.provenance = t.from.provenance
      BY <1>2, <2>2, <3>1, UpdatesProven
    <3>3. NotOnRecord(o)
      BY <1>10 DEF OperatorInv
    <3> QED
      BY <1>4, <2>2, <3>2, <3>3 DEF NotOnRecord, ForOutput
  <2>3. ASSUME NEW t \in todo'.creates, hostKey(t.to) = hostKey(r)
        PROVE  FALSE
    <3>1. visibleByHostname(visible, hostKey(t.to)) = {}
      BY <1>2, CreatesClear
    <3>2. PICK v \in visible : Shows(o, v, r)
      BY <1>6, <2>1, Listing
    <3> QED
      BY <2>3, <3>1, <3>2 DEF Shows, visibleByHostname
  <2> QED
    BY <2>2, <2>3
<1>11. WantsQualified' /\ \A p \in Outputs : Identified(p, remote'[p])
  BY <1>1 DEF OperatorInv, WantsQualified
<1>12. /\ \A t \in todo'.creates \cup todo'.updates :
            t.to \in filterDesiredForOutput(desired', Here')
       /\ Kind[Here'] = "cloudflare" => NotInTasks'
  BY <1>1, <1>3, <1>6, <1>9, <1>10 DEF NotInTasks, OperatorMade
<1> QED
  BY <1>8, <1>11, <1>12 DEF OperatorInv

(***************************************************************************)
(* The calls of a task leave the rows of an operator as they are and       *)
(* return the identity of none, as long as none is on the host of the task *)
(* or has the identity that it names.                                      *)
(***************************************************************************)
Spares(rows, x) ==
  /\ OperatorMade(x.rows) = OperatorMade(rows)
  /\ Fails(x) \/ \A r \in OperatorMade(rows) : x.provenance # r.id

LEMMA RewriteSpares ==
  ASSUME NEW rows \in SUBSET Rows, \A p, q \in rows : p.id = q.id => p = q,
         NEW r \in rows, r.maker # "operator", NEW d \in DesiredRecords, NEW x,
         x.rows = (rows \ {r}) \cup {Renamed(r, d)}, Fails(x) \/ x.provenance = r.id
  PROVE  Spares(rows, x)
<1>1. Renamed(r, d).maker = r.maker
  BY DEF Renamed, Rows
<1>2. \A q \in OperatorMade(rows) : q \in rows /\ q.id # r.id
  BY DEF OperatorMade
<1>3. OperatorMade(x.rows) = OperatorMade(rows)
  BY <1>1 DEF OperatorMade
<1> QED
  BY <1>2, <1>3 DEF Spares

LEMMA CallSpares ==
  ASSUME NEW o, NEW outcomes, NEW x \in Call(o, outcomes),
         \A y \in outcomes : Spares(remote[o], y)
  PROVE  Spares(remote[o], x)
<1>1. CASE x \in outcomes
  BY <1>1
<1>2. CASE Fails(x) /\ x.rows = remote[o]
  BY <1>2 DEF Spares
<1>3. CASE Fails(x) /\ \E y \in outcomes : x.rows = y.rows
  BY <1>3 DEF Spares
<1> QED
  BY <1>1, <1>2, <1>3, CallCases

LEMMA CreateSpares ==
  ASSUME IInv, pc = "mutate", FreshIds # {}, Kind[Here] = "cloudflare",
         NEW d \in DesiredRecords, QualifiedOn(Here, remote[Here], d),
         Identified(Here, remote[Here]),
         \A r \in OperatorMade(remote[Here]) : hostKey(d) # hostKey(r),
         NEW x \in CreateOutcomes(Here, d)
  PROVE  Spares(remote[Here], x)
<1> DEFINE rows == remote[Here]
<1>1. /\ rows \in SUBSET Rows
      /\ \A p, q \in rows : p.id = q.id => p = q
  BY Mutating DEF Identified
<1>2. \A r \in rows : r.id # NewId
  <2>1. NewId \in FreshIds
    BY DEF NewId
  <2>2. Here \in Outputs
    BY Mutating
  <2> QED
    BY <2>1, <2>2 DEF FreshIds, UsedIds
<1>3. ASSUME NEW r \in rows, hostnamesEquivalent(r, d)
      PROVE  r.maker # "operator"
  BY <1>3, SameName DEF QualifiedOn, OperatorMade
<1>4. ASSUME NEW y \in RecoverDuplicate(rows, d)
      PROVE  Spares(rows, y)
  <2>1. CASE y.rows = rows /\ Fails(y)
    BY <2>1 DEF Spares
  <2>2. CASE \E r \in rows : /\ hostnamesEquivalent(r, d)
                             /\ y.rows = rows /\ y.provenance = r.id
    <3>1. PICK r \in rows : hostnamesEquivalent(r, d) /\ y.rows = rows /\ y.provenance = r.id
      BY <2>2
    <3>2. r.maker # "operator"
      BY <1>3, <3>1
    <3> QED
      BY <1>1, <3>1, <3>2 DEF Spares, OperatorMade
  <2>3. CASE \E r \in rows : /\ hostnamesEquivalent(r, d)
                             /\ y.rows = (rows \ {r}) \cup {Renamed(r, d)}
                             /\ y.provenance = r.id
    BY <1>1, <1>3, <2>3, RewriteSpares
  <2> QED
    BY <2>1, <2>2, <2>3 DEF RecoverDuplicate, Succeeds, Rejects, Fails
<1>5. ASSUME NEW y \in CloudflareCreate(rows, listed, d, NewId)
      PROVE  Spares(rows, y)
  <2> DEFINE added == [id |-> NewId, hostname |-> fullName(d),
                       answer |-> normalizeAnswer[d.answer], maker |-> "daemon"]
  <2>1. CASE y = Succeeds(rows \cup {added}, listed, NewId)
    <3>1. y.rows = rows \cup {added} /\ y.provenance = NewId
      BY <2>1 DEF Succeeds
    <3>2. added.maker # "operator"
      OBVIOUS
    <3> HIDE DEF added
    <3> QED
      BY <1>2, <3>1, <3>2 DEF Spares, OperatorMade
  <2>2. y = Succeeds(rows \cup {added}, listed, NewId) \/ y \in RecoverDuplicate(rows, d)
    BY DEF CloudflareCreate
  <2> QED
    BY <1>4, <2>1, <2>2
<1> QED
  BY <1>5, CallSpares DEF CreateOutcomes

LEMMA UpdateSpares ==
  ASSUME IInv, pc = "mutate", Kind[Here] = "cloudflare",
         NEW v \in VisibleRecords, NEW d \in DesiredRecords, Identified(Here, remote[Here]),
         \A r \in OperatorMade(remote[Here]) : v.provenance # r.id,
         NEW x \in UpdateOutcomes(Here, v, d)
  PROVE  Spares(remote[Here], x)
<1> DEFINE rows == remote[Here]
<1>1. /\ rows \in SUBSET Rows
      /\ \A p, q \in rows : p.id = q.id => p = q
  BY Mutating DEF Identified
<1>2. ASSUME NEW y \in CloudflareUpdate(rows, listed, v, d)
      PROVE  Spares(rows, y)
  <2>1. CASE y.rows = rows /\ Fails(y)
    BY <2>1 DEF Spares
  <2>2. CASE \E r \in rows :
               /\ r.id = v.provenance
               /\ y.rows = (rows \ {q \in rows : q.id = v.provenance}) \cup {Renamed(r, d)}
               /\ y.provenance = r.id
    <3>1. PICK r \in rows :
               /\ r.id = v.provenance
               /\ y.rows = (rows \ {q \in rows : q.id = v.provenance}) \cup {Renamed(r, d)}
               /\ y.provenance = r.id
      BY <2>2
    <3>2. {q \in rows : q.id = v.provenance} = {r} /\ r.maker # "operator"
      BY <1>1, <3>1 DEF OperatorMade
    <3> QED
      BY <1>1, <3>1, <3>2, RewriteSpares
  <2> QED
    BY <2>1, <2>2 DEF CloudflareUpdate, Succeeds, Rejects, Fails
<1> QED
  BY <1>2, CallSpares DEF UpdateOutcomes

LEMMA OperatorMutation ==
  ASSUME IInv, OperatorInv, pc = "mutate", NEW x, Called(x), Identified(Here, x.rows),
         Kind[Here] = "cloudflare" => OperatorMade(x.rows) = OperatorMade(remote[Here]),
         \A n \in records' :
           \/ n \in records
           \/ /\ n.output = Here
              /\ Kind[Here] = "cloudflare" =>
                   \A r \in OperatorMade(remote[Here]) : n.provenance # r.id,
         owned' \subseteq owned, desired' \in {desired, {}},
         \/ pc' # "mutate"
         \/ /\ UNCHANGED <<next, desired>>
            /\ todo'.creates \subseteq todo.creates
            /\ todo'.updates \subseteq todo.updates
  PROVE  OperatorInv'
<1>1. PICK o \in Outputs : o = Here
  BY Mutating
<1>2. /\ \A p \in Outputs : p # o => remote'[p] = remote[p]
      /\ remote'[o] = x.rows
      /\ store' = store
  BY <1>1, CalledElsewhere DEF Called
<1>3. WantsQualified'
  <2>1. \A p : filterDesiredForOutput(desired', p) \subseteq filterDesiredForOutput(desired, p)
    BY DEF filterDesiredForOutput
  <2> QED
    BY <2>1 DEF OperatorInv, WantsQualified
<1>4. \A p \in Outputs : Identified(p, remote'[p])
  BY <1>1, <1>2 DEF OperatorInv
<1>5. ASSUME NEW p \in Outputs, Kind[p] = "cloudflare"
      PROVE  NotOnRecord(p)'
  <2>1. \A r \in OperatorMade(remote[p]) :
          \A m \in store \cup owned \cup records : m.output = p => m.provenance # r.id
    BY <1>5 DEF OperatorInv, NotOnRecord, ForOutput
  <2>2. \A r \in OperatorMade(remote[p]) :
          \A m \in store \cup owned' \cup records' : m.output = p => m.provenance # r.id
    BY <1>1, <1>5, <2>1
  <2>3. OperatorMade(remote'[p]) = OperatorMade(remote[p])
    BY <1>1, <1>2, <1>5
  <2> QED
    BY <1>2, <2>2, <2>3 DEF NotOnRecord, ForOutput
<1>6. CASE pc' # "mutate"
  BY <1>3, <1>4, <1>5, <1>6 DEF OperatorInv
<1>7. CASE /\ UNCHANGED <<next, desired>>
           /\ todo'.creates \subseteq todo.creates
           /\ todo'.updates \subseteq todo.updates
  <2>1. Here' = Here
    BY <1>7 DEF Here
  <2>2. \A t \in todo'.creates \cup todo'.updates :
          t.to \in filterDesiredForOutput(desired', Here')
    BY <1>7, <2>1 DEF OperatorInv
  <2>3. Kind[Here'] = "cloudflare" => NotInTasks'
    BY <1>1, <1>2, <1>7, <2>1 DEF OperatorInv, NotInTasks
  <2> QED
    BY <1>3, <1>4, <1>5, <2>2, <2>3 DEF OperatorInv
<1> QED
  BY <1>6, <1>7

LEMMA OperatorTask ==
  ASSUME QualifiedNames, IInv, OperatorInv, pc = "mutate",
         NEW t \in todo.creates \cup todo.updates
  PROVE  /\ Here \in Outputs
         /\ Identified(Here, remote[Here])
         /\ QualifiedOn(Here, remote[Here], t.to)
         /\ Kind[Here] = "cloudflare" => NotInTasks /\ NotOnRecord(Here)
<1>1. Here \in Outputs
  BY Mutating
<1>2. /\ Identified(Here, remote[Here])
      /\ t.to \in filterDesiredForOutput(desired, Here)
      /\ Kind[Here] = "cloudflare" => NotInTasks /\ NotOnRecord(Here)
  BY <1>1 DEF OperatorInv
<1> QED
  BY <1>1, <1>2 DEF OperatorInv, WantsQualified, QualifiedOn, Identified

\* What is on record after a task.
LEMMA RecordedBy ==
  ASSUME NEW o, NEW d, NEW p, NEW drops,
         NEW n \in Record(records, ManagedFrom(o, d, p), drops)
  PROVE  n \in records \/ (n.output = o /\ n.provenance = p)
BY ManagedFromKeys DEF Record

LEMMA CreateOperator ==
  ASSUME QualifiedNames, IInv, OperatorInv, Create
  PROVE  /\ OperatorInv'
         /\ Kind[Here] = "cloudflare" =>
              OperatorMade(remote'[Here]) = OperatorMade(remote[Here])
<1>1. PICK t \in todo.creates : \E x \in CreateOutcomes(Here, t.to) :
           /\ pc = "mutate" /\ FreshIds # {}
           /\ t.to \in DesiredRecords
           /\ x \in Outcomes /\ Called(x)
           /\ \/ MutationFails(x)
              \/ /\ ~Fails(x)
                 /\ Progress(todo.creates \ {t}, todo.updates, todo.deletes,
                             Record(records, ManagedFrom(Here, t.to, x.provenance), t.drops))
  BY CreateStep
<1>2. PICK x \in CreateOutcomes(Here, t.to) :
           /\ pc = "mutate" /\ FreshIds # {}
           /\ t.to \in DesiredRecords
           /\ x \in Outcomes /\ Called(x)
           /\ \/ MutationFails(x)
              \/ /\ ~Fails(x)
                 /\ Progress(todo.creates \ {t}, todo.updates, todo.deletes,
                             Record(records, ManagedFrom(Here, t.to, x.provenance), t.drops))
  BY <1>1
<1>3. /\ Here \in Outputs
      /\ Identified(Here, remote[Here])
      /\ QualifiedOn(Here, remote[Here], t.to)
      /\ Kind[Here] = "cloudflare" => NotInTasks
  BY <1>2, OperatorTask
<1>4. Identified(Here, x.rows)
  BY <1>2, <1>3, CreateServes DEF KeepsServed
<1>5. Kind[Here] = "cloudflare" => Spares(remote[Here], x)
  BY <1>2, <1>3, CreateSpares DEF NotInTasks
<1>6. remote'[Here] = x.rows
  BY <1>2, <1>3, CalledElsewhere
<1>7. CASE MutationFails(x)
  <2>1. /\ records' \in {records, {}} /\ owned' \in {owned, {}} /\ pc' # "mutate"
        /\ desired' \in {desired, {}}
    BY <1>7 DEF MutationFails, FailPass
  <2> QED
    BY <1>2, <1>4, <1>5, <1>6, <2>1, OperatorMutation DEF Spares
<1>8. ASSUME ~Fails(x),
             Progress(todo.creates \ {t}, todo.updates, todo.deletes,
                      Record(records, ManagedFrom(Here, t.to, x.provenance), t.drops))
      PROVE  OperatorInv'
  <2>1. /\ owned' = owned /\ UNCHANGED <<next, desired>>
        /\ todo'.creates \subseteq todo.creates /\ todo'.updates = todo.updates
        /\ records' = Record(records, ManagedFrom(Here, t.to, x.provenance), t.drops)
    BY <1>8 DEF Progress
  <2>2. \A n \in records' : n \in records \/ (n.output = Here /\ n.provenance = x.provenance)
    BY <2>1, RecordedBy
  <2>3. Kind[Here] = "cloudflare" => \A r \in OperatorMade(remote[Here]) : x.provenance # r.id
    BY <1>5, <1>8 DEF Spares
  <2> QED
    BY <1>2, <1>4, <1>5, <2>1, <2>2, <2>3, OperatorMutation DEF Spares
<1> QED
  BY <1>2, <1>5, <1>6, <1>7, <1>8 DEF Spares

LEMMA UpdateOperator ==
  ASSUME QualifiedNames, IInv, OperatorInv, Update
  PROVE  /\ OperatorInv'
         /\ Kind[Here] = "cloudflare" =>
              OperatorMade(remote'[Here]) = OperatorMade(remote[Here])
<1>1. PICK t \in todo.updates : \E x \in UpdateOutcomes(Here, t.from, t.to) :
           /\ pc = "mutate"
           /\ todo.creates = {}
           /\ t.to \in DesiredRecords /\ t.from \in VisibleRecords
           /\ x \in Outcomes /\ Called(x)
           /\ \/ MutationFails(x)
              \/ /\ ~Fails(x)
                 /\ Progress(todo.creates, todo.updates \ {t}, todo.deletes,
                             Record(records,
                                    ManagedFrom(Here, t.to,
                                                nextManagedProvenance(x.provenance,
                                                                      t.from.provenance)),
                                    t.drops))
  BY UpdateStep
<1>2. PICK x \in UpdateOutcomes(Here, t.from, t.to) :
           /\ pc = "mutate"
           /\ todo.creates = {}
           /\ t.to \in DesiredRecords /\ t.from \in VisibleRecords
           /\ x \in Outcomes /\ Called(x)
           /\ \/ MutationFails(x)
              \/ /\ ~Fails(x)
                 /\ Progress(todo.creates, todo.updates \ {t}, todo.deletes,
                             Record(records,
                                    ManagedFrom(Here, t.to,
                                                nextManagedProvenance(x.provenance,
                                                                      t.from.provenance)),
                                    t.drops))
  BY <1>1
<1> DEFINE p == nextManagedProvenance(x.provenance, t.from.provenance)
<1>3. /\ Here \in Outputs
      /\ Identified(Here, remote[Here])
      /\ QualifiedOn(Here, remote[Here], t.to)
      /\ Kind[Here] = "cloudflare" => NotInTasks
  BY <1>2, OperatorTask
<1>4. Identified(Here, x.rows)
  <2>1. CASE x.rows = remote[Here]
    BY <1>3, <2>1
  <2>2. CASE Moved(Here, remote[Here], t.from, t.to, x)
    <3>1. PICK r \in remote[Here], gone \in SUBSET remote[Here], s \in Rows :
            /\ r \in gone /\ s.id = r.id /\ RowFor(Here, s, t.to)
            /\ x.rows = (remote[Here] \ gone) \cup {s}
      BY <2>2 DEF Moved
    <3> QED
      BY <1>3, <3>1, ReplacedIdentified
  <2> QED
    BY <1>2, <1>3, <2>1, <2>2, UpdateEffect
<1>5. Kind[Here] = "cloudflare" =>
        /\ \A r \in OperatorMade(remote[Here]) : t.from.provenance # r.id
        /\ Spares(remote[Here], x)
  BY <1>2, <1>3, UpdateSpares DEF NotInTasks
<1>6. remote'[Here] = x.rows
  BY <1>2, <1>3, CalledElsewhere
<1>7. CASE MutationFails(x)
  <2>1. /\ records' \in {records, {}} /\ owned' \in {owned, {}} /\ pc' # "mutate"
        /\ desired' \in {desired, {}}
    BY <1>7 DEF MutationFails, FailPass
  <2> QED
    BY <1>2, <1>4, <1>5, <1>6, <2>1, OperatorMutation DEF Spares
<1>8. ASSUME ~Fails(x),
             Progress(todo.creates, todo.updates \ {t}, todo.deletes,
                      Record(records, ManagedFrom(Here, t.to, p), t.drops))
      PROVE  OperatorInv'
  <2>1. Kind[Here] = "cloudflare" => \A r \in OperatorMade(remote[Here]) : p # r.id
    BY <1>5, <1>8 DEF Spares, nextManagedProvenance
  <2> HIDE DEF p
  <2>2. /\ owned' = owned /\ UNCHANGED <<next, desired>>
        /\ todo'.creates = todo.creates /\ todo'.updates \subseteq todo.updates
        /\ records' = Record(records, ManagedFrom(Here, t.to, p), t.drops)
    BY <1>8 DEF Progress
  <2>3. \A n \in records' : n \in records \/ (n.output = Here /\ n.provenance = p)
    BY <2>2, RecordedBy
  <2> QED
    BY <1>2, <1>4, <1>5, <2>1, <2>2, <2>3, OperatorMutation DEF Spares
<1> QED
  BY <1>2, <1>5, <1>6, <1>7, <1>8 DEF Spares

LEMMA DeleteOperator ==
  ASSUME IInv, OperatorInv, Delete
  PROVE  /\ OperatorInv'
         /\ Kind[Here] = "cloudflare" =>
              OperatorMade(remote'[Here]) = OperatorMade(remote[Here])
<1>1. PICK t \in todo.deletes, x \in Outcomes :
           /\ pc = "mutate" /\ Called(x)
           /\ todo.creates = {} /\ todo.updates = {}
           /\ \/ MutationFails(x)
              \/ Progress({}, {}, todo.deletes \ {t},
                          {m \in records : managedRecordLineageKey(m)
                                             # managedRecordLineageKey(t.managed)})
           /\ x.rows \in {remote[Here], {r \in remote[Here] : r.id # t.visible.provenance}}
  BY DeleteTakes
<1>2. /\ Here \in Outputs
      /\ Identified(Here, remote[Here])
      /\ Kind[Here] = "cloudflare" => NotOnRecord(Here)
  BY <1>1, Mutating DEF OperatorInv
<1>3. /\ Kind[Here] = "cloudflare"
      /\ t.managed \in owned /\ t.managed.output = Here
      /\ t.visible.provenance = t.managed.provenance
  BY DEF IInv, PendingOK
<1>4. \A r \in OperatorMade(remote[Here]) : r.id # t.visible.provenance
  BY <1>2, <1>3 DEF NotOnRecord, ForOutput
<1>5. OperatorMade(x.rows) = OperatorMade(remote[Here])
  BY <1>1, <1>4 DEF OperatorMade
<1>6. Identified(Here, x.rows)
  <2>1. x.rows \subseteq remote[Here]
    BY <1>1
  <2> QED
    BY <1>2, <2>1 DEF Identified
<1>7. /\ records' \subseteq records /\ owned' \subseteq owned
      /\ desired' \in {desired, {}}
      /\ \/ pc' # "mutate"
         \/ /\ UNCHANGED <<next, desired>>
            /\ todo'.creates \subseteq todo.creates
            /\ todo'.updates \subseteq todo.updates
  BY <1>1 DEF MutationFails, FailPass, Progress
<1>8. OperatorInv'
  BY <1>1, <1>5, <1>6, <1>7, OperatorMutation
<1> QED
  BY <1>1, <1>2, <1>5, <1>8, CalledElsewhere

\* The process between the calls on an output.
LEMMA OperatorFrame ==
  ASSUME OperatorInv, WantsQualified',
         \A o \in Outputs : remote'[o] = remote[o],
         store' \cup owned' \cup records' \subseteq store \cup owned \cup records,
         pc' # "mutate"
  PROVE  OperatorInv'
<1>1. \A o \in Outputs : Identified(o, remote'[o])
  BY DEF OperatorInv
<1>2. ASSUME NEW o \in Outputs, Kind[o] = "cloudflare"
      PROVE  NotOnRecord(o)'
  BY <1>2 DEF OperatorInv, NotOnRecord, ForOutput
<1> QED
  BY <1>1, <1>2 DEF OperatorInv

LEMMA ListDesiredQualified ==
  ASSUME QualifiedNames, IInv, WantsQualified, ListDesired
  PROVE  WantsQualified'
<1>1. /\ running \in Deployments /\ SourceOrder[next] \in Sources
      /\ desired' = desired \cup Published(running, SourceOrder[next])
  BY OrderAssumption DEF ListDesired, IInv, TypeOK, OutsideOK, PlaceOK, Sources
<1> SUFFICES ASSUME NEW o \in Outputs, Kind[o] = "cloudflare",
                    NEW d \in filterDesiredForOutput(desired', o)
             PROVE  Qualified(d)
  BY DEF WantsQualified
<1>2. d \in filterDesiredForOutput({d}, o)
  BY DEF filterDesiredForOutput
<1>3. CASE d \in desired
  BY <1>2, <1>3 DEF WantsQualified, filterDesiredForOutput
<1>4. CASE d \in Published(running, SourceOrder[next])
  BY <1>1, <1>2, <1>4, IsClaim DEF QualifiedNames
<1> QED
  BY <1>1, <1>3, <1>4 DEF filterDesiredForOutput

LEMMA OperatorActs ==
  ASSUME QualifiedNames, IInv, OperatorInv, Operator, pc # "mutate"
  PROVE  OperatorInv'
<1>1. /\ \A o \in Outputs : Identified(o, remote'[o])
      /\ \A o \in Outputs : \A s \in remote'[o] :
           \/ FreshIds # {} /\ s.id = NewId
           \/ \E r \in remote[o] : r.id = s.id /\ r.maker = s.maker
      /\ UNCHANGED <<store, pc, pass>>
  BY OperatorIdentified DEF OperatorInv
<1>2. ASSUME NEW o \in Outputs, Kind[o] = "cloudflare"
      PROVE  NotOnRecord(o)'
  <2>1. \A s \in OperatorMade(remote'[o]) : \A m \in store \cup owned \cup records :
          m.output = o => m.provenance # s.id
    <3>1. SUFFICES ASSUME NEW s \in OperatorMade(remote'[o]),
                          NEW m \in store \cup owned \cup records, m.output = o
                   PROVE  m.provenance # s.id
      OBVIOUS
    <3>2. CASE FreshIds # {} /\ s.id = NewId
      BY <3>2 DEF NewId, FreshIds, UsedIds
    <3>3. CASE \E r \in remote[o] : r.id = s.id /\ r.maker = s.maker
      BY <1>2, <3>1, <3>3 DEF OperatorInv, NotOnRecord, ForOutput, OperatorMade
    <3> QED
      BY <1>1, <3>2, <3>3 DEF OperatorMade
  <2> QED
    BY <1>1, <2>1 DEF NotOnRecord, ForOutput, pass
<1> QED
  BY <1>1, <1>2 DEF OperatorInv, WantsQualified, pass

LEMMA OperatorStep ==
  ASSUME QualifiedNames, OperatorSparesMutations, IInv, OperatorInv, [Next]_vars
  PROVE  OperatorInv'
<1>1. CASE Plan
  BY <1>1, PlanOperator
<1>2. CASE Create \/ Update \/ Delete
  BY <1>2, CreateOperator, UpdateOperator, DeleteOperator
<1>3. CASE Operator
  <2>1. pc # "mutate"
    BY <1>3 DEF Operator, AddRow, EditRow, RemoveRow, OperatorMay, OperatorSparesMutations
  <2> QED
    BY <1>3, <2>1, OperatorActs
<1>4. CASE ListDesired
  <2>1. /\ UNCHANGED <<remote, store, owned, records>> /\ pc' # "mutate"
    BY <1>4 DEF ListDesired
  <2>2. WantsQualified'
    BY <1>4, ListDesiredQualified DEF OperatorInv
  <2> QED
    BY <2>1, <2>2, OperatorFrame
<1>5. CASE Start \/ Begin \/ Load \/ ReadFails \/ OutputsDone \/ FindAmbiguity
           \/ Save \/ SaveFails \/ SavePartial \/ Retry \/ GiveUp \/ Crash
  <2>1. /\ remote' = remote
        /\ store' \cup owned' \cup records' \subseteq store \cup owned \cup records
        /\ desired' \in {desired, {}}
        /\ pc' # "mutate"
    BY <1>5 DEF Start, Begin, Load, ReadFails, OutputsDone, FindAmbiguity,
       Save, SaveFails, SavePartial, Retry, GiveUp, Crash, PassEnds, FailPass, pass
  <2>2. WantsQualified'
    BY <2>1 DEF OperatorInv, WantsQualified, filterDesiredForOutput
  <2> QED
    BY <2>1, <2>2, OperatorFrame
<1>6. CASE UNCHANGED <<remote, store, pc, pass>>
  BY <1>6 DEF OperatorInv, WantsQualified, NotOnRecord, NotInTasks, Here, pass
<1>7. CASE Wait \/ Deploy \/ Calm \/ UNCHANGED vars
  BY <1>6, <1>7 DEF Wait, Deploy, Calm, vars
<1> QED
  BY <1>1, <1>2, <1>3, <1>4, <1>5, <1>7 DEF Next, Process, World

LEMMA OperatorInit == Init => OperatorInv
BY DEF Init, OperatorInv, WantsQualified, filterDesiredForOutput, Identified, NotOnRecord,
   ForOutput

(***************************************************************************)
(* When containers and operators write names of the zone in full and no    *)
(* operator acts while an output is being changed, the daemon rewrites and *)
(* removes no Cloudflare record that an operator made, however many        *)
(* containers claim its host and whatever goes wrong.                      *)
(***************************************************************************)
THEOREM OperatorRowsLeft ==
  ASSUME QualifiedNames, OperatorSparesMutations
  PROVE  Spec => OperatorRowsKept
<1>1. IInv /\ OperatorInv /\ [Next]_vars =>
        (ProcessMoves => \A o \in Outputs :
           Kind[o] = "cloudflare" => OperatorMade(remote[o]) \subseteq remote'[o])
  <2> SUFFICES ASSUME IInv, OperatorInv, [Next]_vars, ProcessMoves,
                      NEW o \in Outputs, Kind[o] = "cloudflare"
               PROVE  OperatorMade(remote[o]) \subseteq remote'[o]
    OBVIOUS
  <2>1. CASE Create \/ Update \/ Delete
    <3>1. o # Here => remote'[o] = remote[o]
      BY <2>1, CallsElsewhere
    <3>2. o = Here => OperatorMade(remote'[o]) = OperatorMade(remote[o])
      BY <2>1, CreateOperator, UpdateOperator, DeleteOperator
    <3> QED
      BY <3>1, <3>2 DEF OperatorMade
  <2>2. CASE remote' = remote
    BY <2>2 DEF OperatorMade
  <2>3. ~Operator
    BY DEF Operator, AddRow, EditRow, RemoveRow, ProcessMoves
  <2>4. CASE Start \/ Begin \/ Load \/ ListDesired \/ ReadFails \/ Plan \/ OutputsDone
             \/ FindAmbiguity \/ Save \/ SaveFails \/ SavePartial \/ Retry \/ GiveUp
             \/ Crash \/ Deploy \/ Calm \/ Wait \/ UNCHANGED vars
    BY <2>2, <2>4 DEF Start, Begin, Load, ListDesired, ReadFails, Plan, OutputsDone,
       FindAmbiguity, Save, SaveFails, SavePartial, Retry, GiveUp, Crash, Deploy, Calm, Wait,
       vars
  <2> QED
    BY <2>1, <2>3, <2>4 DEF Next, Process, World
<1>2. Spec => []IInv
  BY Invariance
<1>3. Spec => []OperatorInv
  <2>1. IInv /\ OperatorInv /\ [Next]_vars => OperatorInv'
    BY OperatorStep
  <2> QED
    BY <1>2, <2>1, OperatorInit, PTL DEF Spec
<1> QED
  BY <1>1, <1>2, <1>3, PTL DEF Spec, OperatorRowsKept
=============================================================================
