# Verification of docker-dns-sync

docker-dns-sync watches Docker containers and keeps DNS records for them in
AdGuard Home and Cloudflare. This directory holds TLA+ modules that model it,
TLC configurations that check them on small instances, and TLAPS proofs of the
theorems that hold for every instance. `PROJECT.json` lists the components,
runs, mutants, findings, hazards and theorems, and maps every definition to
the lines of Go it stands for.

Run a check with `tlc -config Passes.cfg MCPasses.tla`, a proof with
`tlapm ReconcilerProofs.tla`.

## 1. Inventory

| Component | State | Operations | Interacts with |
| --- | --- | --- | --- |
| Configuration and secrets (`config/`) | the configuration of the process | `Load`, `Validate`, `ResolveSecrets` | the file, the environment |
| Provider factories, dependencies (`runtime/factories.go`, `runtime/deps.go`) | the policy and the timeout as parsed | `NewRuntimeDeps`, `BuildProviders` | take the configuration as the secrets left it |
| Command line (`cmd/docker-dns-sync/main.go`) | the context a signal cancels | `runWithContext`, exit status | the supervisor (`Restart=on-failure`) |
| Docker source (`providers/docker/source.go`, `labels.go`) | none; a goroutine per watch, a hint channel of capacity 1, an error channel | `ListDesired`, `Watch` | lists containers and derives records from labels; the watch reads Docker's event stream |
| Planner (`runtime/reconcile_plan.go`, `reconcile_keys.go`) | none | `buildReconcilePlan` | called with desired, visible and managed records of one output |
| Apply (`runtime/reconcile_apply.go`, `reconcile.go`) | the snapshot being built | creates, updates, deletes in this order; full or partial save | output, state file |
| Passes (`runtime/app.go`: `Run`, `reconcile`, `reconcileOnce`) | the snapshot carried from output to output; delay and elapsed time | startup pass, retry loop, end of the process on an error | all sources, then all outputs |
| Watch loop (`runtime/app.go`: `runSteadyState` and below) | `reconnectPending`, `reconnectDelays`, the debounce timer, the events channel | handoff pass, hint, disconnect, reconnect with repair pass | three goroutines per source |
| AdGuard output | none | `ListVisible`, `Create`, `Update`, `Delete` | rewrites without identity |
| Cloudflare output | cache of listed IDs, zone name | the same, create with duplicate recovery | records with IDs and full names, several requests per operation |
| State file (`state/`) | the JSON file | `NewStore`, `Load`, `Save` by atomic write | read at every pass, written after every output |
| Timeouts and retry policy (`runtime/deps.go`) | none | a timeout per call; which error is temporary | wraps sources and outputs |
| AdGuard stub | none | every call succeeds | no registry knows it |

What is hard here: the world moves between any two calls of a pass (containers,
operators, the services themselves); ownership is a file that is written after
the facts it records; a call that fails may have taken effect; a container
comes back under another ID, name or answer and must be recognised; hints are
dropped, coalesced and outrun by errors on purpose; which event is worth a hint
and which label makes a record is decided by two pieces of code; the process
restarts at any point; and what the start checks is not the text that is used
later. The list is `hazards` in `PROJECT.json`, each at its line with the
properties that would catch it going wrong.

What makes each part correct:

- *planner and apply*: what the daemon removes it can prove its own; what a
  container wants is not removed; what the daemon made stays on record; nothing
  appears twice; a record handed over from one container to its successor has
  one owner;
- *passes*: a failing output does not disturb the records of another; the
  snapshot in memory is the one on disk; everything wanted is published in the
  end and everything stale and provably owned disappears; a pass keeps within
  its window;
- *watch loop*: no reported change is forgotten, no source is watched twice or
  not at all;
- *Docker source*: whatever changes what a container publishes is hinted at;
  what it publishes is something an output can take, once per alias;
- *Cloudflare output*: an operation of several requests is as good as one of a
  single step, and what it returns as proof of ownership is one;
- *state file*: it is a durable cell, whatever fails;
- *start and end*: a process that makes passes can make them; it ends when it
  is told to, and its status tells the supervisor whether to start it again.

## 2. Modules

```
Records ── ReconcilePlan ──────────────┐
   └── OutputContract ─ AdGuardOutput ─┼─ Reconciler ─ MCReconciler
             └─ CloudflareOutput ──────┘      ├─ ReconcilerProofs
                      │                       └─ SingleClaims ─ SingleClaimProofs
                      │                             │                └─ OutcomeProofs
                      │                             └─ MCPasses, MCOperator
                      └─ CloudflareCalls ─ MCCloudflareCalls
                              └─ CloudflareCallsProofs
Configuration ─┬─ AppRun ─ MCAppRun
Failures ──────┘     └─ AppRunProofs
DockerLabels ── DockerSource ─ MCDockerSource
                     └─ DockerSourceProofs
WatchLoop ─ WatchLoopProofs
StateFile ── implements DurableCell; StateFileProofs
```

The components meet at narrow places, and the modules are cut there. Reconciler
sees the watch loop as the flags `hint` and `missed`, the state file as one value, an output
as a set of outcomes per operation and the retry window as a choice between
`Retry` and `GiveUp`; WatchLoop, StateFile, CloudflareCalls and AppRun each
have one of these in full and the rest reduced. DockerSource has what a hint
is; WatchLoop what becomes of it.

**Records** has the record types, the keys they are compared by, and
provenance. Hostnames, answers, containers and identities are members of small
sets; what the code does to text (case folding, trimming, the final dot, the
zone suffix) is kept as functions on those sets (`normalizeHostname`,
`normalizeAnswer`, and `Qualify` of OutputContract), so that two spellings of a
name are two values until the code normalises them. The assumptions are what
configuration validation guarantees, and that one normalisation settles a name:
`Hosts` and `Answers` have none with several final dots, which are no names
(DockerLabels, where such texts come from, has them).

**ReconcilePlan** is `buildReconcilePlan` as set comprehensions. The maps the
code builds over lineages, keys and hostnames are sets; `CreateDrops`,
`UpdateDrops` and `KeepDrops` are the `drops` field of a task.

**OutputContract, AdGuardOutput, CloudflareOutput** describe a call on an
output by its outcomes: the rows it leaves, what the Cloudflare provider has
cached, the answer of the call ("ok", "temporary", "fatal") and the provenance
in it. `Attempt` adds the outcomes of a bad network: a refused call, and a call
that takes effect and is answered by an error. A timeout is "fatal" because
`isTemporaryError` says so of `context.DeadlineExceeded`. The behaviour of the
services is modelled from how the providers use them; where a service may or
may not refuse (a second Cloudflare record of a host), both happen.

**CloudflareCalls** takes the same operations apart into the requests they
make. `pc` is the request that comes next:

| Action | Code in `cloudflare/output.go` |
| --- | --- |
| `ListVisible`, `Create`, `Update`, `Delete` | the first lines of each method, up to its first request |
| `Unidentified` | `visibleRemoteID` finds nothing: no request is made |
| `ensureZoneName` | the lookup of the zone, kept for the life of the provider |
| `ReadPage`, `EndListing` | the loop over pages; the cache is replaced when all were read |
| `Post`, `Put`, `DeleteRequest` | the changing requests |
| `Recover` | what a create does with the listing it made because of a duplicate |
| `Operator` | somebody else at work on the zone |

A page holds one record in the order of the IDs, which is the listing that can
go wrong most. The cache is a set of keys with IDs; the second entry the code
makes for the short form of a name is left out, because a listing never
returns one. A create that fails leaves the cache to the next listing, and only
the success of an operation is compared with CloudflareOutput in this respect.
Whether an error is temporary is left to Failures.

**Reconciler** composes planner, outputs and state: the process (`pc` tells
where it is), the services (`remote`), the state file (`store`), the running
containers and an operator. Every call on a source, an output or the store is
one action:

| Action | Code |
| --- | --- |
| `Start`, `Retry`, `GiveUp` | `App.Run`, the loop of `App.reconcile` |
| `Load`, `ListDesired`, `ReadFails` | the first half of `reconcileOnce` |
| `Plan`, `FindAmbiguity` | `ListVisible`, `buildReconcilePlan`, drops and keeps of `applyReconcilePlan` |
| `Create`, `Update`, `Delete` | the three loops of `applyReconcilePlan`, one task per step |
| `Save`, `SaveFails`, `SavePartial` | `ReconcileAndPersist` |
| `OutputsDone`, `Begin`, `Wait` | the watch loop, reduced to the flag `hint` |
| `Deploy`, `AddRow`, `EditRow`, `RemoveRow`, `Crash`, `Calm` | the world |

The keeps of a plan come out of a Go map in random order and may drop each
other's record; `KeepOutcomes` has every result such an order may produce.
Creates, updates and deletes are made in the order of their keys; tasks of one
key (`sort.Slice` is not stable) in any order.

`stormy` is true until the world comes to rest: only then may containers
change, an operator act, and injected faults strike. What a service itself
answers does not depend on it. `ComesToRest` says whether the world does, and
`OperatorTimes` at which places of the process an operator may act; both
restrict the world of a run and nothing of the program.

A change of the containers need not become a hint: the watch has not subscribed
yet (WatchGap), its stream is broken, or a container was only paused
(`ChangesHinted` excepts this). `Deploy` therefore chooses whether the watch
loop is told. `missed` is TRUE from a change it was not told of to the next
listing, and the properties that compare the outputs with the containers that
run now (`Settled`, `CloudflareExact`, `EventuallyPublished`,
`EventuallyCleaned`) claim nothing while it is. How a hint that was given leads
to a pass, and which changes are given as hints, are the matter of WatchLoop
and DockerSource.

**SingleClaims** names the circumstances under which Reconciler's deeper
properties hold, as conditions on its constants, and the inductive invariants
that carry them; nothing of it models code. **MCPasses** and **MCOperator** are
MCReconciler with the assumption that the circumstances are met there.

**WatchLoop** has the goroutines behind `hint`: for every source the provider's
reader (`Subscribe`, `ReadEvent`, `StreamEnds`), the forwarder (`ForwardHint`,
`ForwardErr`, `Send`), the reconnect goroutine (`AskReconnect`), and the main
loop (`HandleHint`, `HandleErr`, `HandleReconnect`, `TimerFires`, and passes
reduced to their listings). Channels have the capacity of the code: 1 for hints
and errors, N for events, whose senders block. `unlisted` is bookkeeping that
only `ChangeIsListed` reads; `Tracked` has the sources it is kept for.

**DockerLabels** is `labels.go`: aliases, ports, answers and outputs of a
container, and the filter of events. Labels are a record: the parts of
`proxy.aliases`, `proxy.exclude`, `proxy.dns`, and two functions from names to
the texts of `proxy.<name>.port` and `proxy.<name>.host`. **DockerSource** puts
a daemon under it: containers that are created, started, paused, renamed,
stopped and destroyed, the event each of these sends, the reader that makes a
hint of some (`shouldTriggerWatchHint`), and `ListDesired`, which lists
containers without options, so that none has stopped, and skips those whose
state is not "running". Normalising a name or an answer takes one final dot
away and no more; where the code normalises again (`qualifyHostname`, the
answer of a record) so does the model, and the instance has texts of two dots
for which this makes a difference. `Wild` are the names a port label may have
without naming an alias: "*", "*.x", "#1" and every other that begins with "#".

**Configuration** has `Validate`, `ResolveSecrets`, what `NewRuntimeDeps` and
`BuildProviders` parse, and what makes each of them fail. A text is a member of
a small set; trimming, folding and parsing are functions, because the steps of
the start treat a text differently: validation trims a duration and folds a
type, the parsers and the registry take them as they are. **Failures** is the
table of what can go wrong with a call and which provider calls it temporary.
**AppRun** composes them over the life of processes:

| Action | Code |
| --- | --- |
| `Load`, `CheckConfig`, `Resolve` | `config.Load`, its call of `Validate`, then `ResolveSecrets` in `App.Run` |
| `NewRuntimeDeps`, `NewStore`, `BuildProviders` | the rest of `App.Run` before the startup pass |
| `AttemptSucceeds`, `CallFails`, `CallCancelled`, `StateFails`, `FindAmbiguity` | one turn of the loop in `App.reconcile` |
| `SleepEnds`, `SleepInterrupted`, `nextBackoffDelay` | its backoff |
| `Hint`, `Stop` | the `select` of `runSteadyState` |
| `Exit`, `Signal`, `Restart` | `main`, `run` with its signal context, the unit file |
| `CalmDown`, `Doubling` | services and disk stop failing; an operator doubles a record or clears the double away |

An ambiguous record (`doubled`) is no outage: as long as an output lists it
every pass is abandoned, and every process the supervisor starts fails, whether
or not services and disk work. A state file that cannot be parsed counts as a
fault of the disk. The retries that the Cloudflare library makes by itself
within a call are not modelled: a call has one outcome, and that a busy service
may turn into a timeout while the library retries is not told apart from one.

**StateFile** has one action per step of `atomicWriteFile`. For each file it
keeps the content a process sees and what a power failure may leave of it:
content is uncertain until the file is synced, a name until the directory is.
**DurableCell** is what the rest of the program relies on.

Definitions whose comment says "Wrong variant" are bugs planted on purpose,
used by the `mutants` of `PROJECT.json` to show that a property can fail. No
specification uses them.

## 3. Runs

| Run | Question | Bounds | States |
| --- | --- | --- | --- |
| Passes | What do passes do to rows and records under deployments, refused calls and stops between outputs? | 2 sources, 2 outputs, 4 containers of which no two running ones claim a host, 4 identities; changes that are hinted and changes that are missed | 248,000 |
| Operator | What does the daemon do to rows of an operator? | 1 source, 2 outputs; a container recreated with another answer, an operator who spells the host differently on AdGuard Home and adds, edits and removes between passes | 496,000 |
| Live | Is everything wanted published and everything stale removed? | 1 source, 2 outputs, a container that stops, starts and comes back with another answer; refused calls, lost answers, disk errors, crashes anywhere; missed changes | 64,200 |
| WatchLoop | Is every reported change listed? | 2 sources, 1 doubling | 603,000 |
| StateFile | Is the file a durable cell? | 3 snapshots | 875 |
| AppRun | Does a process start soundly, keep its window, end and come back as it should? | a right file and all that differ from it in one field, 3 environments, attempts of 0 to 2 units, a window of 3; a record doubled and cleared at any time | 35,900 |
| CloudflareCalls | Are the requests of an operation as good as one step? | 2 identities, 2 names of which one is given short and in full, refused requests and lost answers, an operator at any time | 66,000 |
| DockerSource | Is what changes hinted at, and what is derived usable? | 1 container, 48 sets of labels, 3 configurations, 2 events on the stream | 414,000 |

Why these bounds are enough. Two outputs are needed for what is carried from
one to the next, and they are one of each kind. Two sources are needed for
listings at different moments. Four identities are the two hosts on two
outputs; `Create` and `AddRow` wait while none is free. Each service's rows are
told apart by identity, not by text, so duplicates can occur. In WatchLoop two
sources fill the events channel of two and block on it; a third would meet
nothing new. A delay can be doubled once: no reconnect is ever made with a
doubled one (`NeverBacksOff`, proved), so more doublings would make no other
states. Live needs both answers: an update is only planned when an answer
changes, and one that was made and not saved, or a create that was, leaves a
record that no later pass can attribute. In AppRun the first delay is 1 and the largest 2, so
that a delay doubles, is capped, and an attempt of 2 overruns the window of 3
both by itself and with its delay; fields are wrong one at a time because no
check of the code reads two fields together, but for a secret and its
reference, of which both are given and both absent. In CloudflareCalls two
records are enough for a page that moves, a second match and a record of
another host. In DockerSource the labels name the container by position, by
star, by name, in another case, qualified, blank and with several dots;
containers do not influence each other. Two events suffice to have one that is dropped in front
of one that is not. The properties that TLAPS proves (section 4) do
not depend on the bounds at all.

Deadlock is checked in every run but those of AppRun, where the process may
have ended for good. `Wait` of Reconciler is the idle `select`, enabled only
when nothing is owed.

The faults of a run are named in its configuration: "call" (refused without
effect), "lost" (took effect, answered by an error), "disk", "stop" (the
process ends between two outputs or idle), "crash" (it ends anywhere). Passes
leaves out "lost", "disk" and "crash", because `RowsAccounted` does not hold
with them: a row that is made and not yet saved when the process dies has no
owner on record. Live has all but "stop", which "crash" includes, and shows what
remains true: everything wanted comes to be shown or has a row in its way that
the snapshot cannot prove to be the daemon's, and everything on record that is
stale disappears.

Properties:

- `RowsAccounted`, `OneOwner`, `NoDuplicateRows`, `DesiredNotDeleted`: every
  row the daemon made is on record, under one owner, once, and none is removed
  that a listed container wants.
- `Settled`, `CloudflareExact`: when no hint is owed and no change was missed,
  one more pass would do nothing, and Cloudflare shows exactly what the
  containers want.
- `RemovedWithProof`, `OperatorRowsKept`, `OtherOutputsKept`,
  `InMemoryMatchesStore`: what a pass may touch, and what it plans with.
- `HostServed`: after a pass that ends well, every host it was asked for has a
  row on every output it is meant for.
- `EventuallyPublished`, `EventuallyCleaned`: once the world is calm and unless
  a change was missed, what is wanted is and stays visible, or its host has a
  row that the snapshot does not prove to be the daemon's (`InTheWay`); what the
  daemon made on Cloudflare, has on record as it is shown, and nothing wants,
  disappears. AdGuard Home has no provenance, so stale rewrites stay there by
  design.
- `ReportedIsCovered`, `ReportedIsListed`, `NoSecondWatch`: see WatchLoop.
- `IsDurableCell`, `SavedSurvives`: see StateFile.
- `StartedSound`: validation, resolution, parsing and construction together
  leave no provider without what its calls need, and no duration at zero.
- `RetriesInWindow`, `PassEnds`, `BusyRetried`: the retry loop. `ExitStatus`,
  `StaysDown`, `Recovers`: the end of the process and the supervisor.
- `AtomicUndisturbed`, `ReplyHolds`, `OthersUntouched`, `CallsEnd`: the
  Cloudflare operations. `AtomicUndisturbed` is what Reconciler's use of
  CloudflareOutput rests on when nobody else is at work on the zone; the other
  two are what is left when somebody is.
- `ChangesHinted`, `FilterAgrees`, `NothingBlank`, `HostsOnce`: the Docker
  source.

### What the code does otherwise

Four runs expect a violation of what the documentation says; the entries of
`findings` quote it.

| Run | What happens |
| --- | --- |
| TwinsCloudflare | two containers publish one record and own one remote ID; stopping one deletes the record of the other |
| Timeouts | a call that runs into the operation timeout ends the process although the retry window is open |
| WatchGap | a change between the handoff or repair listing and the subscription is never listed |
| BacksOff | a source whose stream keeps breaking is reconnected at the initial interval forever (1 source, 2 doublings); with a delay that the repair kept, the property would hold |

What was met on the way and is no run of its own:

- twins on AdGuard Home write the pair twice, and every later pass, and every
  restart, fails as ambiguous;
- a host without base domain is created again by every pass on Cloudflare,
  whose rows come back with the full name;
- the duplicate recovery takes over a record an operator added after the
  listing;
- pausing and resuming a container changes what it publishes and is no hint
  (`suspended` in DockerSource);
- two containers share a host with different answers and a third of another
  name takes it over: the search by host wants exactly one managed record
  (`reconcile_plan.go:87`), so neither is continued; the host is visible, so
  nothing is created; both are stale and proven, so both rows are deleted. The
  pass ends well with the host of a running container missing, and it stays so
  until some event makes another pass. (`Deployments` of {two sharers}, {third}
  on Cloudflare violate `HostServed` and `DesiredNotDeleted`.)
- a row whose create was never recorded (a lost answer, a failed save, a kill) is
  never adopted: while it is visible, the host is not created again
  (`reconcile_plan.go:150-153`), and when the answer changes, the old one stays
  published. A record whose update was never recorded is retained as one
  without proof (`reconcile_plan.go:187-196`). This is `InTheWay`, and the limit
  of `NothingStale`;
- "web" and "web.lan" given as two aliases qualify to one host, and so do "web.."
  and "web": `collectAliases` tells them apart after normalising once,
  `qualifyHostname` normalises again (the conditions of `HostsOnce`);
- the label `proxy.*.host` with the text ".." is "." when the target is checked
  (`labels.go:75`) and nothing when it is published (`labels.go:87`): a record
  with an empty answer (the condition of `NothingBlank`);
- a connection that is refused is temporary for AdGuard Home and Docker, and
  fatal for Cloudflare, where only time-outs of the network are temporary
  (`Failures`);
- a duration with blanks around it passes validation and fails in
  `parseRetryPolicy`; a type in capitals passes validation and has no factory;
  the log level `trace` is accepted, though the documentation lists four others.
  All three end the start, which `StartedSound` allows;
- a directory that `MkdirAll` made but whose parent was not synced (a kill or an
  error in between) is never synced later, which is why `SavedSurvives` has the
  condition `dir = "safe"`;
- a label `proxy.Web.port` makes an alias "web", but `proxy.Web.host` is never
  read: answers are looked up under the folded name only;
- a host that moves to a container of another name is not published on AdGuard
  Home, as README.md says of providers without proof; no run that claims
  liveness has such a successor.

### Fairness

Reconciler assumes weak fairness of the process as a whole: it is one goroutine
that is never blocked for good (every call has the operation timeout, sleeps
are bounded) and that is started again when it ends (`Restart=on-failure` in
the unit file, `--restart unless-stopped` in README.md). Which action of it
occurs is not subject to fairness. WatchLoop assumes weak fairness of each
goroutine: the main loop, and per source the reader, the forwarder and the
reconnect goroutine. AppRun assumes weak fairness of the start, of attempts, of
sleeps and of the supervisor, for the same reasons, and strong fairness of
`Stop`: Go's `select` chooses among what is ready at random, so a process that
is hinted at again and again does not pass the signal over for ever.
CloudflareCalls assumes weak fairness of `Request`: each request is answered or
runs into the timeout. No fairness is assumed of the world (containers,
operators, networks), and not that every change becomes a hint. What is claimed
of it is conditional: the liveness of Reconciler from the moment the world is
calm and for changes that were not missed, that of WatchLoop from the moment
streams, containers and calls are quiet and for changes that a live stream
reported, and `Recovers` from the moment services and disk have stopped failing
and no output shows a record twice. The finding of BacksOff is under the
fairness of WatchLoop; its property asks nothing of a source that hints or of a
process that restarts.

## 4. Proofs

TLAPS proves, for all values of the constants that satisfy the assumptions:

| Theorem | Statement |
| --- | --- |
| `ReconcilerProofs!TypeCorrect` | `Spec => []TypeOK` |
| `ReconcilerProofs!MemoryIsStore` | `Spec => []InMemoryMatchesStore` |
| `ReconcilerProofs!OnlyProvenRemoved` | `Spec => RemovedWithProof` |
| `ReconcilerProofs!OthersKept` | `Spec => OtherOutputsKept` |
| `SingleClaimProofs!OneOwnerEach` | `Spec => []OneOwner`, if `SingleClaims`, `QualifiedNames`, `NoEdits` |
| `SingleClaimProofs!WantedNotDeleted` | `Spec => DesiredNotDeleted`, if `SingleClaims`, `QualifiedNames`, `NoEdits` |
| `SingleClaimProofs!NoDuplicates` | `Spec => []NoDuplicateRows`, if `SingleClaims`, `QualifiedNames`, `OnlyRemovals` |
| `OutcomeProofs!RowsOnRecord` | `Spec => []RowsAccounted`, if the same and `NothingForgotten` |
| `OutcomeProofs!PassSettles` | `Spec => []Settled`, if `SingleClaims`, `QualifiedNames`, `NoOperator` |
| `OutcomeProofs!CloudflareShowsWanted` | `Spec => []CloudflareExact`, if the same and `NothingForgotten` |
| `OutcomeProofs!PassServes` | `Spec => HostServed`, if `SingleClaims`, `QualifiedNames`, `OperatorWaits` |
| `OutcomeProofs!OperatorRowsLeft` | `Spec => OperatorRowsKept`, if `QualifiedNames`, `OperatorSparesMutations` |
| `WatchLoopProofs!TypeCorrect` | `Spec => []TypeOK` |
| `WatchLoopProofs!NothingForgotten` | `Spec => []ReportedIsCovered` |
| `WatchLoopProofs!WatchedOnce` | `Spec => []NoSecondWatch` |
| `WatchLoopProofs!DelayStays` | `Spec => []NeverBacksOff` |
| `StateFileProofs!TypeCorrect` | `Spec => []TypeOK` |
| `StateFileProofs!SavedIsSafe` | `Spec => []SavedSurvives` |
| `StateFileProofs!ImplementsCell` | `Spec => IsDurableCell` |
| `AppRunProofs!TypeCorrect` | `Spec => []TypeOK` |
| `AppRunProofs!ServesSoundly` | `Spec => []StartedSound` |
| `AppRunProofs!WindowKept` | `Spec => []RetriesInWindow` |
| `AppRunProofs!BusyIsRetried` | `Spec => BusyRetried` |
| `AppRunProofs!ExitIsTold` | `Spec => ExitStatus` |
| `CloudflareCallsProofs!TypeCorrect` | `Spec => []TypeOK` |
| `CloudflareCallsProofs!OthersAreUntouched` | `Spec => OthersUntouched` |
| `CloudflareCallsProofs!RepliesHold` | `Spec => ReplyHolds` |
| `CloudflareCallsProofs!UndisturbedIsAtomic` | `Spec => AtomicUndisturbed` |
| `DockerSourceProofs!TypeCorrect` | `Spec => []TypeOK` |
| `DockerSourceProofs!EveryChangeHinted` | `Spec => []ChangesHinted` |
| `DockerSourceProofs!FilterIsRight` | `Spec => []FilterAgrees` |
| `DockerSourceProofs!NoBlanks` | `Spec => []NothingBlank` |
| `DockerSourceProofs!OneAnswerPerAlias` | `Spec => []HostsOnce` |

Five of the modules also have the theorem `Invariance`, that the inductive
invariant of the component holds (the lemmas of that name in SingleClaimProofs
and OutcomeProofs are about the layers described below). The assumptions are those the modules declare of their
constants; TLC evaluates every one of them in a run. The conditions in the
table are hypotheses of the theorem, explained below.

*Reconciler.* The inductive invariant is `TypeOK /\ InMemoryMatchesStore /\
PendingOK`. `PendingOK` is what the code keeps implicit about the tasks of a
pass: they exist only while an output is being mutated, and every pending
delete names a managed record of that output, in the snapshot the pass works
with, whose provenance is the row's. `OnlyProvenRemoved` follows from it and
from lemmas about the calls: no create and no update of either kind of service
removes an identity, and a delete removes only the one it names. `OthersKept`
needs `OthersOK` on top: the snapshot about to be saved differs from the file
only in records of the output the pass is at, and so does what its pending
tasks will drop; it rests on a lemma about the outputs of every record a plan
mentions. The module has lemmas about the planner and the outcomes of calls
first, then one per action.

*Reconciler in given circumstances.* What remains of Reconciler's properties
does not hold of every deployment: TwinsCloudflare is a counterexample, the
takeover of a shared host is another, and the duplicate recovery that takes over an operator's
record is a third. The theorems therefore have hypotheses on the constants, and
each has only those its proof uses:

| Hypothesis | Meaning | Without it |
| --- | --- | --- |
| `SingleClaims` | no two containers that run together claim one host of an output, and a host does not move between sources | TwinsCloudflare; the takeover of a shared host |
| `QualifiedNames` | names on Cloudflare are given in full | a bare name is created again by every pass |
| `NoEdits`, `OnlyRemovals`, `NoOperator` | what an operator may do to rows | he gives a row of the daemon another host, or makes the second row of a host |
| `OperatorWaits`, `OperatorSparesMutations` | when he may do it | he removes a row the pass counts on; the recovery from a duplicate adopts a row he added after the listing |
| `NothingForgotten` | no lost answer, disk error or kill | a row is made and its owner never written down |

The code enforces none of them; they are what an administrator can see to.
Where no fault is excluded, the theorem holds with refused calls, lost answers,
disk errors and crashes at any point. MCPasses and MCOperator assume the
hypotheses of the runs' instances, which TLC evaluates: what is proved is proved
of something, and the runs `Passes` and `Operator` check the same properties
there.

The invariants come in layers, each inductive on top of those before it:

- `SingleInv`: a pass wants one record per host, the snapshot has one per host,
  and a task carries what makes that stay so: whoever is created or updated
  replaces every other record of his host (`TaskOK`), and a host that is deleted
  is wanted no more (`DeleteOK`). `WantedNotDeleted` needs the second.
- `IdentityInv`: rows, snapshot and pending tasks agree on the host of every
  remote identity. Without it an update that falls back on the duplicate of its
  host could name another record's identity. With `SingleInv` it gives
  `OneOwner`.
- `RowsInv`: a row per host; a pending create is for a host without a row, and
  no other pending create is for the same one.
- `AccountInv`: every row is on record with its answer and, on Cloudflare, its
  identity; during the changes of a pass, in the snapshot that is being built.
- `SettledInv`: what is not as the containers want it is a pending task
  (`Planned`), an output the pass is done with needs nothing more (`Done`), and
  a pass that no hint will follow, and during which no change was missed, has
  seen the containers that run now (`UpToDate`). The core of the proof is that `Done` survives the work on other
  outputs and that no error lets a pass end without a retry.
- `ServedInv`: the same for rows of any answer, which an operator may change
  between passes.
- `OperatorInv` does without single claims. A row of an operator is named by no
  record and no task, because identities enter the snapshot only from the
  answers of `Create` and `Update`, and the recovery of a duplicate finds the
  rows the listing of this output showed.

`CloudflareShowsWanted` follows from `Settled`, `AccountInv` and the planner
alone: a wanted host that is quiet is shown with its answer, and a row on record
that nobody wants would be a delete.

*WatchLoop.* None of the three properties is inductive by itself: whether a
change is covered by the end of its stream depends on the forwarder being there
to notice, and whether a second watch could start depends on how many ends of a
watch are queued. `IInv` adds `Lifecycle`, the life of a watch: its error in the
channel, the sleep and the request to reconnect exclude each other, there is at
most one of them, and while there is one both goroutines are gone. `NotWatching`
says that nothing is running before the startup pass is done, and `DelayOK` that
a doubled delay belongs to a reconnect not repaired yet. From `Lifecycle` an
error that the main loop takes is never one it already answers
(`ErrNotPending`): the test of `reconnectPending` in the code never succeeds.
The lemmas about appending to and taking from the channel come first, then one
lemma per conjunct and group of actions.

*StateFile.* The invariant adds to the types that a temporary file is whole and
synced when it is renamed (`TempComplete`), that the file's name never stands
for a torn file (`NeverTorn`), and what a save under way knows (`Settled`). The
refinement maps the file to the cell and the contents a power failure may leave
to its backing values: `Rename` is `Replace`, `SyncDir` is `Settle`.

*AppRun.* `StartedSound` speaks of the texts a serving process holds, and they
went through four steps that each look at them differently. `StartInv` has what
each step has established: `Validate` of the file's texts, then `Ready` of the
resolved ones (a lemma shows that resolution fills what validation found
referred to, and leaves the rest), then `Positive` of the parsed durations (from
the assumption that the parser accepts no text with blanks around it, validation
and parser see the same number), then `Buildable`. `RetriesInWindow` is part of
the invariant: that a delay is never zero follows from `Positive` by the
arithmetic of `nextBackoffDelay`.

*CloudflareCalls.* What a listing has read may be out of date when the create
that asked for it acts on it. `ListingHolds` says what remains: a record that
was read is still in the zone as it was read, or the operator has touched it
since the operation began; `TargetHolds` carries this over to the update that
follows, and `Places` says which variables mean something at which request. With
`IdsUnique` a request changes one record. The lemmas `Updates`, `Deletes` and
`Adds` cover what the service and a bad network make of a request.
`UndisturbedIsAtomic` is the step from CloudflareOutput to CloudflareCalls. It
rests on `AloneInv`: no two records are identical (the service refuses one that
is), and while the operator touches nothing, the pages read are the first
records of the zone by rank. `AllRead` concludes that a listing that finds no
further page has read every record, since the lowest one unread would be the
next page; `ListedAll`, that cache and match are then those of the zone; and
`RewriteIsRecovery`, that the update of a create is the recovery's.

*DockerSource.* `ChangesHinted` is inductive once it is known that a container
that has an alias has labels the filter of events takes notice of, whatever its
name, so that every event of it that changes what it publishes is a hint. This
is the lemma behind `FilterIsRight`, and the reason a hint is never missed by a
difference between the two readings of the labels. `HostsOnce` needs that an
alias has one first position (`Least`) and that qualifying is injective on bare
names. Nothing but the base domain is assumed to be settled by one
normalisation: `NothingBlank` and `HostsOnce` have their exceptions where a
second changes something.

Every invariant and action property of a passing run is stated by a theorem.
Only model-checked is liveness (`EventuallyPublished`, `EventuallyCleaned`,
`ReportedIsListed`, `PassEnds`, `StaysDown`, `Recovers`, `CallsEnd`), which is
beyond the prover.

## 5. Not modelled

- The AdGuard stub: no registry knows it, and each call of it succeeds and does
  nothing.
- `retryWithBackoff`, which only tests call.
- Registration of provider types (a second registration panics at the start),
  the parsing of flags (any error is `noPath`), the log handler, all wording and
  the redaction of errors, the JSON of requests.
- Cloudflare records of other types than A, AAAA and CNAME, which a listing
  skips.
- Uniqueness of provider names: validation does not ask for it, and Records
  assumes it.
- Durations but for their order and sums: time is counted in units, and within
  a pass only.
- Leftover temporary files of a killed process, which are never read.

## 6. Plan

1. An abstract module of hints and passes that Reconciler's reduced watch loop
   and WatchLoop both implement.
2. Two outputs of one type and name, as validation lets through.
