---------------------------- MODULE SingleClaims ----------------------------
(***************************************************************************)
(* The circumstances in which a host has one owner at a time and an        *)
(* operator keeps out of the way of a pass, and what then holds in every   *)
(* state of Reconciler: the inductive invariants of its deeper properties, *)
(* layer upon layer.                                                       *)
(*                                                                         *)
(* Nothing in the code enforces the circumstances.  The run                *)
(* TwinsCloudflare shows what happens without them.                        *)
(***************************************************************************)
EXTENDS Reconciler

\* What the containers of S ask an output for.
Claims(S, o) ==
  filterDesiredForOutput(UNION {Published(S, s) : s \in Sources}, o)

(***************************************************************************)
(* No two containers that run together claim one host of an output, and a  *)
(* host never moves from one source to another (a pass lists the sources   *)
(* one after the other and could see it on both).                          *)
(***************************************************************************)
SingleClaims ==
  \A o \in Outputs : \A S, T \in Deployments :
    \A d \in Claims(S, o), e \in Claims(T, o) :
      hostKey(d) = hostKey(e) =>
        d.source.provider = e.source.provider /\ (S = T => d = e)

\* A name the zone leaves as it is.
Qualified(r) == normalizeHostname[Qualify[hostKey(r)]] = hostKey(r)

(***************************************************************************)
(* Containers and operators give Cloudflare names of its zone in full.     *)
(***************************************************************************)
QualifiedNames ==
  \A o \in Outputs : Kind[o] = "cloudflare" =>
    /\ \A S \in Deployments : \A d \in Claims(S, o) : Qualified(d)
    /\ \A x \in OperatorRows : x.output = o => Qualified(x)

NoEdits == "edit" \notin OperatorEdits
OnlyRemovals == OperatorEdits \subseteq {"remove"}
NoOperator == OperatorEdits = {}

\* An operator keeps his hands off an output that a pass is at.
OperatorWaits == OperatorTimes \cap {"outputs", "mutate"} = {}

\* An operator keeps his hands off an output while it is being changed.
OperatorSparesMutations == "mutate" \notin OperatorTimes

\* Nothing is done without the snapshot getting to know it.
NothingForgotten == Faults \cap {"lost", "disk", "crash"} = {}

-----------------------------------------------------------------------------
(* One claim to a host *)

\* The records a pass wants were published by sources it has listed.
DesiredPublished ==
  /\ \A d \in desired : \E S \in Deployments, s \in Sources : d \in Published(S, s)
  /\ pc = "sources" =>
       \A d \in desired : \A i \in 1..Len(SourceOrder) :
         i >= next => d.source.provider # SourceOrder[i]
  /\ pc \in {"down", "load", "failed", "idle"} => desired = {}
  /\ pc \notin {"mutate", "savePartial"} => records = {}

OneDesired ==
  \A o \in Outputs : \A d, e \in filterDesiredForOutput(desired, o) :
    hostKey(d) = hostKey(e) => d = e

OneManaged(S) ==
  \A m, n \in S : m.output = n.output /\ hostKey(m) = hostKey(n) => m = n

\* A planned task is for a record the pass wants; when it is done, its record
\* replaces every other one of the host.
TaskOK(t) ==
  /\ t.to \in filterDesiredForOutput(desired, Here)
  /\ \A n \in t.drops : hostKey(n) = hostKey(t.to)
  /\ \A n \in ForOutput(records, Here) :
       hostKey(n) = hostKey(t.to) =>
         managedRecordLineageKey(n)
           \in {desiredRecordLineageKey(Here, t.to)} \cup Lineages(t.drops)

\* A host that loses its record is wanted no more.
DeleteOK(t) ==
  /\ hostKey(t.visible) = hostKey(t.managed)
  /\ \A d \in filterDesiredForOutput(desired, Here) : hostKey(d) # hostKey(t.managed)

SingleInv ==
  /\ DesiredPublished
  /\ OneDesired
  /\ OneManaged(store)
  /\ OneManaged(records)
  /\ pc = "mutate" =>
       /\ \A t \in todo.creates \cup todo.updates : TaskOK(t)
       /\ \A t \in todo.updates : hostKey(t.from) = hostKey(t.to)
       /\ \A t \in todo.deletes : DeleteOK(t)

-----------------------------------------------------------------------------
(* One host to an identity *)

\* Where the identities of an output's rows are written down.
Entries(o) == {<<r.id, hostKey(r)>> : r \in remote[o]}
OnRecord(o) ==
  {<<m.provenance, hostKey(m)>> : m \in ForOutput(store \cup owned \cup records, o)}
InTasks ==
  {<<t.from.provenance, hostKey(t.from)>> : t \in todo.updates}
  \cup {<<t.visible.provenance, hostKey(t.visible)>> : t \in todo.deletes}

Mentions(o) ==
  Entries(o) \cup OnRecord(o) \cup (IF pc = "mutate" /\ o = Here THEN InTasks ELSE {})

OneHostEach(P) == \A x, y \in P : x[1] = y[1] /\ x[1] # NoProvenance => x[2] = y[2]

IdentityInv ==
  \A o \in Outputs :
    /\ OneHostEach(Mentions(o))
    /\ Kind[o] = "cloudflare" => \A r \in remote[o] : Qualified(r)

-----------------------------------------------------------------------------
(* One row to a host *)

OneRowPerHost(rows) == \A r, s \in rows : hostKey(r) = hostKey(s) => r = s

RowsInv ==
  /\ \A o \in Outputs : OneRowPerHost(remote[o])
  /\ pc = "mutate" =>
       /\ \A t \in todo.creates : \A r \in remote[Here] : hostKey(r) # hostKey(t.to)
       /\ \A t, u \in todo.creates : hostKey(t.to) = hostKey(u.to) => t = u
       /\ \A t \in todo.deletes : \A r \in remote[Here] :
            hostKey(r) = hostKey(t.managed) => r.id = t.visible.provenance

-----------------------------------------------------------------------------
(* Every row on record *)

Accounts(m, r, o) ==
  /\ m.output = o
  /\ visibleRecordKey(m) = rowKey(r)
  /\ Kind[o] = "cloudflare" => m.provenance = r.id

Accounted(S) == \A o \in Outputs : \A r \in remote[o] : \E m \in S : Accounts(m, r, o)

AccountInv ==
  /\ Accounted(Known)
  /\ pc = "mutate" /\ ~progressed => Accounted(store)

-----------------------------------------------------------------------------
(* Nothing left to do *)

\* Nothing is planned for d.
Quiet(o, d, visible, mine) ==
  /\ ownedRecord(o, d, mine) = {} => visibleByHostname(visible, hostKey(d)) # {}
  /\ \A m \in ownedRecord(o, d, mine) :
       Decision(o, d, m, mine, visible) \in {"keep", "skip"}

\* m is of a host nobody wants and could be proved ours.
Stale(o, m, visible) ==
  /\ \A d \in filterDesiredForOutput(desired, o) : hostKey(d) # hostKey(m)
  /\ staleOwnedDeleteVisibleRecord(m, visible) # {}

Done(o) ==
  /\ \A d \in filterDesiredForOutput(desired, o) :
       Quiet(o, d, ListOutcome(o), ForOutput(store, o))
  /\ \A m \in ForOutput(store, o) : ~Stale(o, m, ListOutcome(o))

\* What is not done yet is a pending task.
Planned ==
  /\ \A d \in filterDesiredForOutput(desired, Here) :
       \/ Quiet(Here, d, ListOutcome(Here), ForOutput(records, Here))
       \/ \E t \in todo.creates \cup todo.updates : t.to = d
  /\ \A m \in ForOutput(records, Here) :
       Stale(Here, m, ListOutcome(Here)) => \E t \in todo.deletes : t.managed = m

PublishedBefore(n) ==
  UNION {Published(running, SourceOrder[i]) : i \in {j \in 1..Len(SourceOrder) : j < n}}

\* When no hint is owed and no change was missed since it began, the pass has
\* seen the containers that run now.
UpToDate ==
  watching /\ ~hint /\ ~missed =>
    /\ pc = "sources" => desired = PublishedBefore(next)
    /\ pc \in {"outputs", "mutate"} => desired = PublishedBefore(Len(SourceOrder) + 1)

SettledInv ==
  /\ pc = "idle" => watching
  /\ UpToDate
  /\ pc \in {"outputs", "mutate"} =>
       \A i \in 1..Len(OutputOrder) : i < next => Done(OutputOrder[i])
  /\ pc = "mutate" => Planned
  /\ Settled

-----------------------------------------------------------------------------
(* Every host served *)

Serves(o, h) == \E r \in remote[o] : hostKey(r) = h

\* rows that an identity tells apart, under names of the zone.
Identified(o, rows) ==
  /\ Kind[o] = "cloudflare" => \A r \in rows : Qualified(r)
  /\ \A r, s \in rows : r.id = s.id => r = s

EarlierServed ==
  \A i \in 1..Len(OutputOrder) : i < next =>
    \A d \in filterDesiredForOutput(desired, OutputOrder[i]) :
      Serves(OutputOrder[i], hostKey(d))

\* What has no row yet is a pending create; the rows that tasks name are of
\* the host they are named for.
HereServed ==
  /\ \A d \in filterDesiredForOutput(desired, Here) :
       \/ Serves(Here, hostKey(d))
       \/ \E t \in todo.creates : t.to = d
  /\ \A t \in todo.updates : \A r \in remote[Here] :
       r.id = t.from.provenance => hostKey(r) = hostKey(t.from)
  /\ \A t \in todo.deletes : \A r \in remote[Here] :
       r.id = t.visible.provenance => hostKey(r) = hostKey(t.visible)

ServedInv ==
  /\ \A o \in Outputs : Identified(o, remote[o])
  /\ pc \in {"outputs", "mutate"} => EarlierServed
  /\ pc = "mutate" => HereServed

-----------------------------------------------------------------------------
(* Rows of an operator *)

\* The pass wants names of the zone only.
WantsQualified ==
  \A o \in Outputs : Kind[o] = "cloudflare" =>
    \A d \in filterDesiredForOutput(desired, o) : Qualified(d)

\* Nothing proves that a row of an operator is the daemon's.
NotOnRecord(o) ==
  \A r \in OperatorMade(remote[o]) :
    \A m \in ForOutput(store \cup owned \cup records, o) : m.provenance # r.id

\* No task names a row of an operator, or makes a record beside one.
NotInTasks ==
  \A r \in OperatorMade(remote[Here]) :
    /\ \A t \in todo.updates : t.from.provenance # r.id
    /\ \A t \in todo.creates : hostKey(t.to) # hostKey(r)

OperatorInv ==
  /\ WantsQualified
  /\ \A o \in Outputs : Identified(o, remote[o])
  /\ \A o \in Outputs : Kind[o] = "cloudflare" => NotOnRecord(o)
  /\ pc = "mutate" =>
       /\ \A t \in todo.creates \cup todo.updates :
            t.to \in filterDesiredForOutput(desired, Here)
       /\ Kind[Here] = "cloudflare" => NotInTasks
=============================================================================
