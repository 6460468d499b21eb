----------------------------- MODULE Reconciler -----------------------------
(***************************************************************************)
(* The docker-dns-sync process: reconcile passes over the sources and the  *)
(* outputs, each output's snapshot saved before the next output is read,   *)
(* retries after temporary failures, restarts, and the world around it:    *)
(* containers come and go and an operator edits the DNS services.          *)
(*                                                                         *)
(* A pass is sequential and every call it makes on a source, an output or  *)
(* the store is one action, so the world may move between any two calls.   *)
(* Waiting for a hint (the watch loop) is reduced to the flag hint.        *)
(***************************************************************************)
EXTENDS ReconcilePlan, AdGuardOutput, CloudflareOutput

CONSTANTS
  Deployments,     \* the sets of containers that may run together
  OperatorRows,    \* the texts an operator writes: [output, hostname, answer]
  OperatorEdits,   \* what an operator does: subset of {"add", "edit", "remove"}
  OperatorTimes,   \* the values of pc at which an operator acts
  ComesToRest      \* whether the world may come to rest (Calm)

\* A container and what its labels publish (pubs: hostname and answer).
ContainerTypes ==
  [provider : Sources, id : ContainerIds, name : ContainerNames,
   output : OutputLabels, pubs : SUBSET [hostname : Hosts, answer : Answers]]

OperatorTexts == [output : Outputs, hostname : Hosts, answer : Answers]

ASSUME WorldAssumption ==
  /\ Deployments \subseteq SUBSET ContainerTypes
  /\ {} \in Deployments
  /\ OperatorRows \subseteq OperatorTexts
  /\ OperatorEdits \subseteq {"add", "edit", "remove"}

VARIABLES
  running,     \* the running containers
  remote,      \* output -> the rows of its service
  store,       \* the managed records in the state file
  pc,          \* where the process is
  owned,       \* the snapshot the pass works with
  desired,     \* the records the sources want
  next,        \* the source or the output the pass is at
  records,     \* the snapshot this output will save
  todo,        \* the planned mutations not made yet
  listed,      \* what the Cloudflare provider cached of its last listing
  progressed,  \* whether this output was mutated in this pass
  failure,     \* why the pass failed: "temporary", "fatal" or "none"
  watching,    \* whether the source watches have been started
  hint,        \* whether the watch loop owes another pass
  missed,      \* whether containers changed since the last pass began, untold
  stormy       \* whether containers, operator and faults are still active

pass == <<owned, desired, next, records, todo, listed, progressed, failure>>
vars == <<running, remote, store, pc, pass, watching, hint, missed, stormy>>

NoMutations == [creates |-> {}, updates |-> {}, deletes |-> {}]

-----------------------------------------------------------------------------
(* Helpers *)

\* The output the pass is at.
Here == OutputOrder[next]

\* What deriveDesiredRecords makes of the running containers of a source.
Published(S, source) ==
  UNION {{[hostname |-> p.hostname, answer |-> p.answer,
           source |-> [provider |-> c.provider, id |-> c.id, name |-> c.name],
           output |-> c.output] : p \in c.pubs} :
         c \in {x \in S : x.provider = source}}

\* Identities in use; a service never gives one of them to a new row.
UsedIds ==
  (UNION {{r.id : r \in remote[o]} : o \in Outputs})
  \cup {m.provenance : m \in store \cup owned \cup records}
  \cup {t.from.provenance : t \in todo.updates}
  \cup {t.visible.provenance : t \in todo.deletes}

FreshIds == Ids \ UsedIds
NewId == CHOOSE i \in FreshIds : TRUE

ForOutput(S, o) == {m \in S : m.output = o}

Lineages(S) == {managedRecordLineageKey(m) : m \in S}

\* Wrong variant: the superseded record stays.
RecordKeepingDrop(S, m, drops) ==
  {r \in S : managedRecordLineageKey(r) # managedRecordLineageKey(m)} \cup {m}

\* recordsByLineage after one task: m is in, what it supersedes is out.
Record(S, m, drops) ==
  {r \in S : managedRecordLineageKey(r) \notin Lineages(drops \cup {m})} \cup {m}

Superseding(keeps) == UNION {k.drops : k \in keeps}

(***************************************************************************)
(* Dropping and keeping managed records touches only memory.  The keeps    *)
(* come in the random order of a Go map, so a kept record that another     *)
(* keep supersedes may or may not survive.                                 *)
(***************************************************************************)
KeepOutcomes(S, drops, keeps) ==
  LET kept      == {k.record : k \in keeps}
      dropped   == Lineages(drops \cup Superseding(keeps))
      contested == {m \in kept : managedRecordLineageKey(m) \in Lineages(Superseding(keeps))}
      rest      == {m \in S : managedRecordLineageKey(m) \notin dropped \cup Lineages(kept)}
  IN {rest \cup (kept \ lost) : lost \in SUBSET contested}

FirstCreates ==
  {t \in todo.creates :
     \A u \in todo.creates : ~KeyLess(visibleRecordKey(u.to), visibleRecordKey(t.to))}
FirstUpdates ==
  {t \in todo.updates :
     \A u \in todo.updates : ~KeyLess(visibleRecordKey(u.to), visibleRecordKey(t.to))}
FirstDeletes ==
  {t \in todo.deletes :
     \A u \in todo.deletes :
        ~KeyLess(visibleRecordKey(u.visible), visibleRecordKey(t.visible))}

ListOutcome(o) ==
  IF Kind[o] = "adguard" THEN AdGuardListVisible(o, remote[o])
  ELSE CloudflareListVisible(o, remote[o])

\* Faults may strike while the storm lasts; what the service itself answers
\* does not depend on it.
Call(o, outcomes) == IF stormy THEN Attempt(remote[o], listed, outcomes) ELSE outcomes

CreateOutcomes(o, d) ==
  Call(o, IF Kind[o] = "adguard" THEN AdGuardCreate(remote[o], d, NewId)
          ELSE CloudflareCreate(remote[o], listed, d, NewId))

UpdateOutcomes(o, v, d) ==
  Call(o, IF Kind[o] = "adguard" THEN AdGuardUpdate(remote[o], v, d)
          ELSE CloudflareUpdate(remote[o], listed, v, d))

DeleteOutcomes(o, v) ==
  Call(o, IF Kind[o] = "adguard" THEN AdGuardDelete(remote[o], v)
          ELSE CloudflareDelete(remote[o], listed, v))

Fails(outcome) == outcome.reply # "ok"

-----------------------------------------------------------------------------
Init ==
  /\ running \in Deployments
  /\ remote = [o \in Outputs |-> {}]
  /\ store = {}
  /\ pc = "down"
  /\ owned = {} /\ desired = {} /\ records = {}
  /\ next = 1
  /\ todo = NoMutations
  /\ listed = {}
  /\ progressed = FALSE
  /\ failure = "none"
  /\ watching = FALSE
  /\ hint = FALSE /\ missed = FALSE
  /\ stormy = TRUE

\* The variables of a pass outside one.
PassEnds ==
  /\ owned' = {} /\ desired' = {} /\ records' = {}
  /\ next' = 1
  /\ todo' = NoMutations
  /\ listed' = {}
  /\ progressed' = FALSE
  /\ failure' = "none"

FailPass(kind) ==
  /\ pc' = "failed"
  /\ failure' = kind
  /\ owned' = {} /\ desired' = {} /\ records' = {}
  /\ next' = 1
  /\ todo' = NoMutations
  /\ listed' = {}
  /\ progressed' = FALSE

-----------------------------------------------------------------------------
(* The process *)

\* App.Run begins with the startup pass; nothing watches the sources yet.
Start ==
  /\ pc = "down"
  /\ pc' = "load"
  /\ UNCHANGED <<running, remote, store, pass, watching, hint, missed, stormy>>

\* A hint, a reconnect repair or the handoff begins a pass.
Begin ==
  /\ pc = "idle"
  /\ hint
  /\ pc' = "load"
  /\ hint' = FALSE
  /\ UNCHANGED <<running, remote, store, pass, watching, missed, stormy>>

\* Nothing to do: the watch loop waits in its select.
Wait ==
  /\ pc = "idle"
  /\ ~hint
  /\ UNCHANGED vars

\* What a pass is about to list it cannot have missed.
Load ==
  /\ pc = "load"
  /\ pc' = "sources"
  /\ owned' = store
  /\ missed' = FALSE
  /\ UNCHANGED <<running, remote, store, desired, next, records, todo, listed,
                 progressed, failure, watching, hint, stormy>>

\* The next source is listed; after the last one come the outputs.  (Wrong
\* variant first: one source too many.)
ListDesiredPastEnd ==
  /\ pc = "sources"
  /\ desired' = desired \cup Published(running, SourceOrder[next])
  /\ IF next <= Len(SourceOrder) THEN pc' = "sources" /\ next' = next + 1
     ELSE pc' = "outputs" /\ next' = 1
  /\ UNCHANGED <<running, remote, store, owned, records, todo, listed,
                 progressed, failure, watching, hint, missed, stormy>>

ListDesired ==
  /\ pc = "sources"
  /\ desired' = desired \cup Published(running, SourceOrder[next])
  /\ IF next < Len(SourceOrder) THEN pc' = "sources" /\ next' = next + 1
     ELSE pc' = "outputs" /\ next' = 1
  /\ UNCHANGED <<running, remote, store, owned, records, todo, listed,
                 progressed, failure, watching, hint, missed, stormy>>

\* An error of Load is not retried; one of a listing is when it is temporary.
ReadFails ==
  /\ stormy
  /\ \/ "disk" \in Faults /\ pc = "load" /\ FailPass("fatal")
     \/ /\ "call" \in Faults
        /\ \/ pc = "sources"
           \/ pc = "outputs" /\ next <= Len(OutputOrder)
        /\ \E kind \in {"temporary", "fatal"} : FailPass(kind)
  /\ UNCHANGED <<running, remote, store, watching, hint, missed, stormy>>

\* Wrong variants: no handoff pass; hints that came during the pass dropped.
OutputsDoneNoHandoff ==
  /\ pc = "outputs"
  /\ next > Len(OutputOrder)
  /\ pc' = "idle"
  /\ PassEnds
  /\ watching' = TRUE
  /\ UNCHANGED <<running, remote, store, hint, missed, stormy>>

OutputsDoneDroppingHint ==
  /\ pc = "outputs"
  /\ next > Len(OutputOrder)
  /\ pc' = "idle"
  /\ PassEnds
  /\ watching' = TRUE
  /\ hint' = ~watching
  /\ UNCHANGED <<running, remote, store, missed, stormy>>

\* The end of a pass.  After the startup pass runSteadyState starts the
\* watches and owes a handoff pass for what happened before them.  (Their
\* goroutines subscribe later, even after the handoff: see Deploy.)
OutputsDone ==
  /\ pc = "outputs"
  /\ next > Len(OutputOrder)
  /\ pc' = "idle"
  /\ PassEnds
  /\ watching' = TRUE
  /\ hint' = (hint \/ ~watching)
  /\ UNCHANGED <<running, remote, store, missed, stormy>>

\* Wrong variant: the snapshot keeps the records of this output only.
PlanForgettingOthers ==
  /\ pc = "outputs"
  /\ next <= Len(OutputOrder)
  /\ LET visible == ListOutcome(Here)
         mine    == ForOutput(owned, Here)
         plan    == buildReconcilePlan(Here, filterDesiredForOutput(desired, Here),
                                       visible, mine)
     IN /\ ~Ambiguous(visible)
        /\ pc' = "mutate"
        /\ todo' = [creates |-> plan.creates, updates |-> plan.updates,
                    deletes |-> plan.deletes]
        /\ records' \in KeepOutcomes(mine, plan.drops, plan.keeps)
        /\ listed' = IF Kind[Here] = "cloudflare" THEN visibleMeta(remote[Here]) ELSE {}
  /\ UNCHANGED <<running, remote, store, owned, desired, next, progressed,
                 failure, watching, hint, missed, stormy>>

(***************************************************************************)
(* ListVisible, buildReconcilePlan and the part of applyReconcilePlan that *)
(* makes no call.                                                          *)
(***************************************************************************)
Plan ==
  /\ pc = "outputs"
  /\ next <= Len(OutputOrder)
  /\ LET visible == ListOutcome(Here)
         mine    == ForOutput(owned, Here)
         plan    == buildReconcilePlan(Here, filterDesiredForOutput(desired, Here),
                                       visible, mine)
     IN /\ ~Ambiguous(visible)
        /\ pc' = "mutate"
        /\ todo' = [creates |-> plan.creates, updates |-> plan.updates,
                    deletes |-> plan.deletes]
        /\ \E kept \in KeepOutcomes(mine, plan.drops, plan.keeps) :
              records' = (owned \ mine) \cup kept
        /\ listed' = IF Kind[Here] = "cloudflare" THEN visibleMeta(remote[Here]) ELSE {}
  /\ UNCHANGED <<running, remote, store, owned, desired, next, progressed,
                 failure, watching, hint, missed, stormy>>

FindAmbiguity ==
  /\ pc = "outputs"
  /\ next <= Len(OutputOrder)
  /\ Ambiguous(ListOutcome(Here))
  /\ FailPass("fatal")
  /\ UNCHANGED <<running, remote, store, watching, hint, missed, stormy>>

\* What a mutation leaves behind, whether or not it was accepted.
Called(outcome) ==
  /\ remote' = [remote EXCEPT ![Here] = outcome.rows]
  /\ UNCHANGED <<running, store, watching, hint, missed, stormy>>

\* Wrong variant: what was done before the failure is not saved.
MutationFailsUnsaved(outcome) ==
  /\ Fails(outcome)
  /\ Called(outcome)
  /\ FailPass(outcome.reply)

MutationFails(outcome) ==
  /\ Fails(outcome)
  /\ Called(outcome)
  /\ IF progressed
     THEN /\ pc' = "savePartial"
          /\ failure' = outcome.reply
          /\ listed' = {}
          /\ todo' = NoMutations
          /\ UNCHANGED <<owned, desired, next, records, progressed>>
     ELSE FailPass(outcome.reply)

MutationDone(outcome, m, drops) ==
  /\ ~Fails(outcome)
  /\ Called(outcome)
  /\ records' = Record(records, m, drops)
  /\ progressed' = TRUE
  /\ listed' = outcome.listed
  /\ UNCHANGED <<pc, owned, desired, next, failure>>

Create ==
  /\ pc = "mutate"
  /\ FreshIds # {}
  /\ \E t \in FirstCreates : \E x \in CreateOutcomes(Here, t.to) :
       \/ MutationFails(x)
       \/ /\ MutationDone(x, ManagedFrom(Here, t.to, x.provenance), t.drops)
          /\ todo' = [todo EXCEPT !.creates = @ \ {t}]

Update ==
  /\ pc = "mutate"
  /\ todo.creates = {}
  /\ \E t \in FirstUpdates : \E x \in UpdateOutcomes(Here, t.from, t.to) :
       \/ MutationFails(x)
       \/ /\ MutationDone(x,
               ManagedFrom(Here, t.to, nextManagedProvenance(x.provenance, t.from.provenance)),
               t.drops)
          /\ todo' = [todo EXCEPT !.updates = @ \ {t}]

Delete ==
  /\ pc = "mutate"
  /\ todo.creates = {} /\ todo.updates = {}
  /\ \E t \in FirstDeletes : \E x \in DeleteOutcomes(Here, t.visible) :
       \/ MutationFails(x)
       \/ /\ ~Fails(x)
          /\ Called(x)
          /\ records' = {m \in records : managedRecordLineageKey(m)
                                           # managedRecordLineageKey(t.managed)}
          /\ progressed' = TRUE
          /\ todo' = [todo EXCEPT !.deletes = @ \ {t}]
          /\ UNCHANGED <<pc, owned, desired, next, listed, failure>>

\* Wrong variant: owned = result.Next forgotten.
SaveForgetting ==
  /\ pc = "mutate"
  /\ todo = NoMutations
  /\ store' = records
  /\ records' = {} /\ listed' = {} /\ progressed' = FALSE
  /\ next' = next + 1
  /\ pc' = "outputs"
  /\ UNCHANGED <<running, remote, owned, desired, todo, failure, watching, hint, missed, stormy>>

Save ==
  /\ pc = "mutate"
  /\ todo = NoMutations
  /\ store' = records
  /\ owned' = records
  /\ records' = {} /\ listed' = {} /\ progressed' = FALSE
  /\ next' = next + 1
  /\ pc' = "outputs"
  /\ UNCHANGED <<running, remote, desired, todo, failure, watching, hint, missed, stormy>>

\* An error of Save is no mutation error: it ends the process.  The rename
\* may have happened before it (a failing sync of the directory).
SaveFails ==
  /\ stormy /\ "disk" \in Faults
  /\ pc = "mutate"
  /\ todo = NoMutations
  /\ store' \in {store, records}
  /\ FailPass("fatal")
  /\ UNCHANGED <<running, remote, watching, hint, missed, stormy>>

\* The failed mutation decides what happens next, saved or not: the joined
\* error is temporary when that of the mutation is.
SavePartial ==
  /\ pc = "savePartial"
  /\ store' \in {records} \cup (IF stormy /\ "disk" \in Faults THEN {store} ELSE {})
  /\ FailPass(failure)
  /\ UNCHANGED <<running, remote, watching, hint, missed, stormy>>

\* The retry loop of App.reconcile: back off and start over from the store.
Retry ==
  /\ pc = "failed"
  /\ failure = "temporary"
  /\ pc' = "load"
  /\ PassEnds
  /\ UNCHANGED <<running, remote, store, watching, hint, missed, stormy>>

\* An error that is not retried, or not retried any longer, ends App.Run.
GiveUp ==
  /\ pc = "failed"
  /\ pc' = "down"
  /\ PassEnds
  /\ watching' = FALSE
  /\ hint' = FALSE /\ missed' = FALSE
  /\ UNCHANGED <<running, remote, store, stormy>>

-----------------------------------------------------------------------------
(* The world *)

\* No mutation is waiting to be saved.
AtRest == pc \in {"load", "sources", "outputs", "failed", "idle"}

Crash ==
  /\ stormy
  /\ \/ "crash" \in Faults /\ pc # "down"
     \/ "stop" \in Faults /\ AtRest
  /\ pc' = "down"
  /\ PassEnds
  /\ watching' = FALSE
  /\ hint' = FALSE /\ missed' = FALSE
  /\ UNCHANGED <<running, remote, store, stormy>>

(***************************************************************************)
(* Containers start and stop, or only an event comes (a network attached,  *)
(* a container renamed, a broken stream that is watched again).  Whether   *)
(* the watch loop is told is up to the source: it has not subscribed yet,  *)
(* the stream is broken, or the container was only paused (WatchLoop,      *)
(* DockerSource).                                                          *)
(***************************************************************************)
Deploy ==
  /\ stormy
  /\ running' \in Deployments
  /\ \E told \in BOOLEAN :
       /\ hint' = (hint \/ (watching /\ told))
       /\ missed' = (missed \/ (watching /\ ~told /\ running' # running))
  /\ UNCHANGED <<remote, store, pc, pass, watching, stormy>>

OperatorMay(edit) == stormy /\ edit \in OperatorEdits /\ pc \in OperatorTimes

Text(r) == [hostname |-> r.hostname, answer |-> r.answer]
Free(o, x) == Kind[o] = "adguard" \/ \A r \in remote[o] : Text(r) # Text(x)

AddRow ==
  /\ OperatorMay("add")
  /\ FreshIds # {}
  /\ \E x \in OperatorRows :
       /\ \A r \in remote[x.output] : r.maker = "operator" => Text(r) # Text(x)
       /\ Free(x.output, x)
       /\ remote' = [remote EXCEPT ![x.output] =
                       @ \cup {[id |-> NewId, hostname |-> x.hostname,
                                answer |-> x.answer, maker |-> "operator"]}]
  /\ UNCHANGED <<running, store, pc, pass, watching, hint, missed, stormy>>

EditRow ==
  /\ OperatorMay("edit")
  /\ \E x \in OperatorRows : \E r \in remote[x.output] :
       /\ Text(r) # Text(x)
       /\ Free(x.output, x)
       /\ remote' = [remote EXCEPT ![x.output] =
                       (@ \ {r}) \cup {[r EXCEPT !.hostname = x.hostname,
                                                 !.answer = x.answer]}]
  /\ UNCHANGED <<running, store, pc, pass, watching, hint, missed, stormy>>

RemoveRow ==
  /\ OperatorMay("remove")
  /\ \E o \in Outputs : \E r \in remote[o] :
       remote' = [remote EXCEPT ![o] = @ \ {r}]
  /\ UNCHANGED <<running, store, pc, pass, watching, hint, missed, stormy>>

\* From some moment on the world leaves the process alone.
Calm ==
  /\ ComesToRest
  /\ stormy
  /\ stormy' = FALSE
  /\ UNCHANGED <<running, remote, store, pc, pass, watching, hint, missed>>

-----------------------------------------------------------------------------
Process ==
  \/ Start \/ Begin \/ Load \/ ListDesired \/ ReadFails \/ OutputsDone
  \/ Plan \/ FindAmbiguity \/ Create \/ Update \/ Delete
  \/ Save \/ SaveFails \/ SavePartial \/ Retry \/ GiveUp

Operator == AddRow \/ EditRow \/ RemoveRow
World == Crash \/ Deploy \/ Operator \/ Calm

Next == Process \/ Wait \/ World

Spec == Init /\ [][Next]_vars
FairSpec == Spec /\ WF_vars(Process)

-----------------------------------------------------------------------------
(* Properties *)

(***************************************************************************)
(* Every variable holds what its Go counterpart can: records of the right  *)
(* shape and, while a pass is at an output, tasks of that output.          *)
(***************************************************************************)
Tasks ==
  [creates : SUBSET [to : DesiredRecords, drops : SUBSET ManagedRecords],
   updates : SUBSET [from : VisibleRecords, to : DesiredRecords,
                     drops : SUBSET ManagedRecords],
   deletes : SUBSET [visible : VisibleRecords, managed : ManagedRecords]]

OutsideOK ==
  /\ running \in Deployments
  /\ remote \in [Outputs -> SUBSET Rows]
  /\ store \in SUBSET ManagedRecords

PassOK ==
  /\ owned \in SUBSET ManagedRecords
  /\ desired \in SUBSET DesiredRecords
  /\ records \in SUBSET ManagedRecords
  /\ todo \in Tasks
  /\ listed \in SUBSET Metas
  /\ failure \in {"none", "temporary", "fatal"}

PlaceOK ==
  /\ pc \in {"down", "load", "sources", "outputs", "mutate", "savePartial", "failed", "idle"}
  /\ next \in Nat \ {0}
  /\ pc \in {"down", "load", "failed", "idle"} => next = 1
  /\ pc = "sources" => next <= Len(SourceOrder)
  /\ pc \in {"mutate", "savePartial"} => next <= Len(OutputOrder)

FlagsOK ==
  /\ progressed \in BOOLEAN /\ watching \in BOOLEAN
  /\ hint \in BOOLEAN /\ missed \in BOOLEAN /\ stormy \in BOOLEAN
  /\ missed => watching

TypeOK == OutsideOK /\ PassOK /\ PlaceOK /\ FlagsOK

ProcessMoves == <<pc, pass>>' # <<pc, pass>>

RowIds(rows) == {r.id : r \in rows}
OperatorMade(rows) == {r \in rows : r.maker = "operator"}
DaemonMade(rows) == {r \in rows : r.maker = "daemon"}

\* What the running containers want of an output.
Wanted(o) ==
  filterDesiredForOutput(UNION {Published(running, s) : s \in Sources}, o)

\* The process's knowledge of what it manages: in memory until it is saved.
Known == IF pc \in {"mutate", "savePartial"} THEN records ELSE store

(***************************************************************************)
(* While a pass goes from output to output, the snapshot it plans with is  *)
(* the one on disk: reconcileOnce carries result.Next over (app.go).       *)
(***************************************************************************)
InMemoryMatchesStore ==
  pc \in {"sources", "outputs", "mutate"} => owned = store

(***************************************************************************)
(* Saving what was done on one output forgets nothing about the others:    *)
(* snapshotWithOutputRecords rewrites the whole file.                      *)
(***************************************************************************)
OtherOutputsKept ==
  [][\A m \in (store \ store') \cup (store' \ store) : m.output = Here]_vars

(***************************************************************************)
(* The daemon removes a row only with proof: the snapshot it works with    *)
(* names the row's identity on that output.  So it never deletes a row of  *)
(* AdGuard Home, which has none (staleOwnedDeleteVisibleRecord).           *)
(***************************************************************************)
RemovedWithProof ==
  [][ProcessMoves =>
       \A o \in Outputs : \A i \in RowIds(remote[o]) \ RowIds(remote'[o]) :
         /\ Kind[o] = "cloudflare"
         /\ \E m \in owned : m.output = o /\ m.provenance = i]_vars

(***************************************************************************)
(* The daemon neither rewrites nor removes a Cloudflare record that an     *)
(* operator made (docs/architecture.md: manual records are preserved).     *)
(***************************************************************************)
OperatorRowsKept ==
  [][ProcessMoves =>
       \A o \in Outputs :
         Kind[o] = "cloudflare" => OperatorMade(remote[o]) \subseteq remote'[o]]_vars

(***************************************************************************)
(* The daemon never removes a row that one of the containers it has just   *)
(* listed asks for.                                                        *)
(***************************************************************************)
DesiredNotDeleted ==
  [][ProcessMoves =>
       \A o \in Outputs : \A r \in remote[o] :
         r.id \notin RowIds(remote'[o])
           => \A d \in filterDesiredForOutput(desired, o) : visibleRecordKey(d) # rowKey(r)]_vars

(***************************************************************************)
(* Every row the daemon made is on record under its host and answer: none  *)
(* is left behind that a later pass could not attribute to a container.    *)
(***************************************************************************)
RowsAccounted ==
  \A o \in Outputs : \A r \in DaemonMade(remote[o]) :
    \E m \in Known : m.output = o /\ visibleRecordKey(m) = rowKey(r)

(***************************************************************************)
(* No output ever shows a key twice, the state in which every later pass   *)
(* is abandoned (ErrVisibleRecordAmbiguous).                               *)
(***************************************************************************)
NoDuplicateRows ==
  \A o \in Outputs : \A r, s \in remote[o] : rowKey(r) = rowKey(s) => r = s

\* The last pass has seen the containers that run now, or should have.
Current == pc = "idle" /\ ~hint /\ ~missed

PlanNow(o) == buildReconcilePlan(o, Wanted(o), ListOutcome(o), ForOutput(store, o))

(***************************************************************************)
(* When no hint is owed and no change was missed, the last pass saw the    *)
(* containers that run now: a further pass would change nothing on any     *)
(* output.  (WatchGap shows that a change can be missed.)                  *)
(***************************************************************************)
Settled ==
  Current =>
    \A o \in Outputs :
      LET plan == PlanNow(o)
      IN plan.creates = {} /\ plan.updates = {} /\ plan.deletes = {}

(***************************************************************************)
(* When no hint is owed and no change was missed, Cloudflare shows exactly *)
(* what the containers want: an answer that changed was rewritten, a       *)
(* record handed over under another name or ID was kept, what is stale is  *)
(* gone.                                                                   *)
(***************************************************************************)
CloudflareExact ==
  Current =>
    \A o \in Outputs : Kind[o] = "cloudflare" =>
      {rowKey(r) : r \in remote[o]} = {visibleRecordKey(d) : d \in Wanted(o)}

(***************************************************************************)
(* Two managed records never name one remote record.                       *)
(***************************************************************************)
OneOwner ==
  \A m, n \in store :
    m.output = n.output /\ hasRecordProvenance(m.provenance) /\ m.provenance = n.provenance
      => m = n

(***************************************************************************)
(* A pass that ends well leaves no host unserved: whatever an operator     *)
(* removed or rewrote before it, every record it was asked for finds a row *)
(* on its host on every output it is meant for.  (The row need not carry   *)
(* the answer: a row the daemon cannot prove its own is left alone.)       *)
(***************************************************************************)
HostServed ==
  [][pc = "outputs" /\ pc' = "idle" =>
       \A o \in Outputs : \A d \in filterDesiredForOutput(desired, o) :
         \E r \in remote[o] : hostKey(r) = hostKey(d)]_vars

Shown(o, d) == \E r \in remote[o] : rowKey(r) = visibleRecordKey(d)

\* The snapshot has r on record for d's host and, where rows have no identity,
\* for d's container.
Provable(o, r, d) ==
  \E m \in ForOutput(store, o) :
    /\ hostKey(m) = hostKey(d)
    /\ IF Kind[o] = "cloudflare" THEN m.provenance = r.id
       ELSE m.source.provider = d.source.provider /\ m.source.name = d.source.name

\* A row on d's host that is not provably the daemon's.
InTheWay(o, d) ==
  \E r \in remote[o] : hostKey(r) = hostKey(d) /\ ~Provable(o, r, d)

(***************************************************************************)
(* Once the world is calm, every record the containers want is shown by    *)
(* every output it is meant for, and stays shown, whatever was refused,    *)
(* lost or interrupted before; unless the change that asks for it was      *)
(* missed, or its host has a row that the snapshot cannot prove to be the  *)
(* daemon's: one of an operator, or one whose create was never recorded.   *)
(***************************************************************************)
InSync ==
  \A o \in Outputs : \A d \in Wanted(o) : Shown(o, d) \/ InTheWay(o, d)

EventuallyPublished == <>(~stormy) => <>[](missed \/ InSync)

(***************************************************************************)
(* Once the world is calm, a Cloudflare record that the snapshot names as  *)
(* its own, with the answer it shows, disappears when no container wants   *)
(* it any more.  (What a crash left off the snapshot stays, and so does a  *)
(* record whose update was made and not saved: the planner deletes on the  *)
(* key and the identity together.)                                         *)
(***************************************************************************)
NothingStale ==
  \A m \in store : \A r \in remote[m.output] :
    m.provenance = r.id /\ visibleRecordKey(m) = rowKey(r) =>
      \E d \in Wanted(m.output) : rowKey(r) = visibleRecordKey(d)

EventuallyCleaned == <>(~stormy) => <>[](missed \/ NothingStale)
=============================================================================
