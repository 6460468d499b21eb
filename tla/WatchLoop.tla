------------------------------ MODULE WatchLoop ------------------------------
(***************************************************************************)
(* How a container change becomes a reconcile pass: the goroutines of      *)
(* runSteadyState.  For every source the Docker provider reads the event   *)
(* stream into a hint channel of capacity one, a forwarder moves hints and *)
(* the final error into the events channel of the main loop, and after a   *)
(* disconnect a third goroutine sleeps and asks for a reconnect.  The main *)
(* loop debounces hints and runs the passes itself.                        *)
(*                                                                         *)
(* A pass is only its listings here: what it does to the outputs is the    *)
(* subject of Reconciler, which sees this module as the flag hint.         *)
(***************************************************************************)
EXTENDS Naturals, Sequences

CONSTANTS
  N,            \* number of sources (all of them can be watched)
  MaxDoublings, \* doublings after which the reconnect delay stays the same
  Tracked       \* the sources whose unlisted changes are recorded, heard or not

ASSUME CountAssumption == N \in Nat \ {0} /\ MaxDoublings \in Nat

Sources == 1..N

ASSUME TrackedAssumption == Tracked \subseteq Sources

VARIABLES
  pc,         \* the main loop: "down", "pass" or "select"
  reason,     \* why the pass runs: "startup", "handoff", "hint" or "repair"
  repaired,   \* the source whose reconnect the pass repairs, or 0
  next,       \* the source the pass lists next
  stream,     \* the provider's goroutine: "off", "starting", "live" or "ended"
  wire,       \* whether the event stream carries an event not read yet
  hints,      \* whether the hint channel is full
  errs,       \* whether the error channel holds an error
  forwarder,  \* "off", "select", or the kind of the event it is sending
  events,     \* the events channel, of capacity N
  sleeping,   \* whether a goroutine waits to ask for a reconnect
  pending,    \* reconnectPending
  doublings,  \* how often the reconnect delay was doubled
  timer,      \* whether the debounce timer runs
  debounce,   \* whether hints are debounced (watch_hint_debounce > 0)
  unlisted,   \* sources with a change that no pass has listed yet
  heard,      \* those of them whose change happened while the stream was live
  stormy      \* whether changes and failures still happen

goroutines == <<stream, wire, hints, errs, forwarder>>
loop == <<events, sleeping, pending, doublings, timer>>
world == <<unlisted, heard>>
vars == <<pc, reason, repaired, next, goroutines, loop, debounce, world, stormy>>

Event(kind, i) == [kind |-> kind, source |-> i]
No == [i \in Sources |-> FALSE]
Off == [i \in Sources |-> "off"]

-----------------------------------------------------------------------------
Init ==
  /\ pc = "down"
  /\ reason = "startup" /\ repaired = 0 /\ next = 1
  /\ stream = Off /\ forwarder = Off
  /\ wire = No /\ hints = No /\ errs = No
  /\ events = << >>
  /\ sleeping = No /\ pending = No
  /\ doublings = [i \in Sources |-> 0]
  /\ timer = FALSE
  /\ debounce \in BOOLEAN
  /\ unlisted = Tracked /\ heard = {}
  /\ stormy = TRUE

\* The process ends; nothing of its goroutines and channels survives.
End ==
  /\ pc' = "down"
  /\ reason' = "startup" /\ repaired' = 0 /\ next' = 1
  /\ stream' = Off /\ forwarder' = Off
  /\ wire' = No /\ hints' = No /\ errs' = No
  /\ events' = << >>
  /\ sleeping' = No /\ pending' = No
  /\ doublings' = [i \in Sources |-> 0]
  /\ timer' = FALSE
  /\ UNCHANGED <<debounce, world, stormy>>

-----------------------------------------------------------------------------
(* The main loop *)

BeginPass(why, i) == pc' = "pass" /\ reason' = why /\ repaired' = i /\ next' = 1

\* App.Run: the startup pass comes before any watch.
Start ==
  /\ pc = "down"
  /\ BeginPass("startup", 0)
  /\ UNCHANGED <<goroutines, loop, debounce, world, stormy>>

List ==
  /\ pc = "pass" /\ next \in Sources
  /\ unlisted' = unlisted \ {next}
  /\ heard' = heard \ {next}
  /\ next' = next + 1
  /\ UNCHANGED <<pc, reason, repaired, goroutines, loop, debounce, stormy>>

\* A temporary failure, in a listing or later: the pass starts over.
RetryPass ==
  /\ stormy
  /\ pc = "pass"
  /\ next' = 1
  /\ UNCHANGED <<pc, reason, repaired, goroutines, loop, debounce, world, stormy>>

\* Any other failure of a pass ends the process.
PassFails == stormy /\ pc = "pass" /\ End

\* startSourceWatch for the sources of S: new channels, two goroutines each.
StartWatches(S) ==
  /\ stream' = [i \in Sources |-> IF i \in S THEN "starting" ELSE stream[i]]
  /\ forwarder' = [i \in Sources |-> IF i \in S THEN "select" ELSE forwarder[i]]
  /\ wire' = [i \in Sources |-> i \notin S /\ wire[i]]
  /\ hints' = [i \in Sources |-> i \notin S /\ hints[i]]
  /\ errs' = [i \in Sources |-> i \notin S /\ errs[i]]

StartupDone ==
  /\ pc = "pass" /\ next > N /\ reason = "startup"
  /\ StartWatches(Sources)
  /\ BeginPass("handoff", 0)
  /\ UNCHANGED <<loop, debounce, world, stormy>>

PassDone ==
  /\ pc = "pass" /\ next > N /\ reason # "startup"
  /\ pc' = "select" /\ reason' = "hint" /\ repaired' = 0 /\ next' = 1
  /\ doublings' = [i \in Sources |-> IF reason = "handoff" \/ repaired = i THEN 0 ELSE doublings[i]]
  /\ UNCHANGED <<goroutines, events, sleeping, pending, timer, debounce, world, stormy>>

TimerFires ==
  /\ pc = "select" /\ timer
  /\ timer' = FALSE
  /\ BeginPass("hint", 0)
  /\ UNCHANGED <<goroutines, events, sleeping, pending, doublings, debounce, world, stormy>>

\* The next event is from source i and of this kind; it is taken.
Take(kind, i) ==
  /\ pc = "select"
  /\ events # << >> /\ Head(events) = Event(kind, i)
  /\ events' = Tail(events)

HandleHint(i) ==
  /\ Take("hint", i)
  /\ doublings' = [doublings EXCEPT ![i] = 0]
  /\ IF debounce THEN timer' = TRUE /\ UNCHANGED <<pc, reason, repaired, next>>
     ELSE BeginPass("hint", 0) /\ UNCHANGED timer
  /\ UNCHANGED <<goroutines, sleeping, pending, debounce, world, stormy>>

HandleErr(i) ==
  /\ Take("err", i)
  /\ IF pending[i] THEN UNCHANGED <<sleeping, pending, doublings>>
     ELSE /\ pending' = [pending EXCEPT ![i] = TRUE]
          /\ sleeping' = [sleeping EXCEPT ![i] = TRUE]
          /\ doublings' = [doublings EXCEPT ![i] = IF @ < MaxDoublings THEN @ + 1 ELSE @]
  /\ UNCHANGED <<pc, reason, repaired, next, goroutines, timer, debounce, world, stormy>>

\* Wrong variant: reconnectPending is never cleared.
HandleReconnectStillPending(i) ==
  /\ Take("reconnect", i)
  /\ StartWatches({i})
  /\ timer' = FALSE
  /\ BeginPass("repair", i)
  /\ UNCHANGED <<sleeping, pending, doublings, debounce, world, stormy>>

\* The repair pass lists every source, so a debounced hint is dropped.
HandleReconnect(i) ==
  /\ Take("reconnect", i)
  /\ pending' = [pending EXCEPT ![i] = FALSE]
  /\ StartWatches({i})
  /\ timer' = FALSE
  /\ BeginPass("repair", i)
  /\ UNCHANGED <<sleeping, doublings, debounce, world, stormy>>

Main ==
  \/ Start \/ List \/ RetryPass \/ PassFails \/ StartupDone \/ PassDone \/ TimerFires
  \/ \E i \in Sources : HandleHint(i) \/ HandleErr(i) \/ HandleReconnect(i)
-----------------------------------------------------------------------------
(* The goroutines of a source *)

\* The provider's goroutine asks for the event stream after Watch returned.
Subscribe(i) ==
  /\ stream[i] = "starting"
  /\ stream' = [stream EXCEPT ![i] = "live"]
  /\ UNCHANGED <<pc, reason, repaired, next, wire, hints, errs, forwarder, loop, debounce,
                 world, stormy>>

\* A relevant event becomes a hint; it is dropped when one is waiting.
ReadEvent(i) ==
  /\ stream[i] = "live" /\ wire[i]
  /\ wire' = [wire EXCEPT ![i] = FALSE]
  /\ hints' = [hints EXCEPT ![i] = TRUE]
  /\ UNCHANGED <<pc, reason, repaired, next, stream, errs, forwarder, loop, debounce,
                 world, stormy>>

\* The stream breaks, with an error or by being closed; unread events are lost.
StreamEnds(i) ==
  /\ stormy
  /\ stream[i] \in {"starting", "live"}
  /\ stream' = [stream EXCEPT ![i] = "ended"]
  /\ wire' = [wire EXCEPT ![i] = FALSE]
  /\ errs' \in {[errs EXCEPT ![i] = e] : e \in BOOLEAN}
  /\ UNCHANGED <<pc, reason, repaired, next, hints, forwarder, loop, debounce, world, stormy>>

ForwardHint(i) ==
  /\ forwarder[i] = "select" /\ hints[i]
  /\ hints' = [hints EXCEPT ![i] = FALSE]
  /\ forwarder' = [forwarder EXCEPT ![i] = "hint"]
  /\ UNCHANGED <<pc, reason, repaired, next, stream, wire, errs, loop, debounce, world, stormy>>

\* An error, or both channels found closed and empty (errSourceWatchClosed).
ForwardErr(i) ==
  /\ forwarder[i] = "select"
  /\ errs[i] \/ (stream[i] = "ended" /\ ~hints[i])
  /\ errs' = [errs EXCEPT ![i] = FALSE]
  /\ forwarder' = [forwarder EXCEPT ![i] = "err"]
  /\ UNCHANGED <<pc, reason, repaired, next, stream, wire, hints, loop, debounce, world, stormy>>

\* Wrong variant: the forwarder goes on after it reported the end.
SendGoingOn(i) ==
  /\ forwarder[i] \in {"hint", "err"}
  /\ Len(events) < N
  /\ events' = Append(events, Event(forwarder[i], i))
  /\ forwarder' = [forwarder EXCEPT ![i] = "select"]
  /\ UNCHANGED <<pc, reason, repaired, next, stream, wire, hints, errs, sleeping, pending,
                 doublings, timer, debounce, world, stormy>>

\* The send blocks while the events channel is full.
Send(i) ==
  /\ forwarder[i] \in {"hint", "err"}
  /\ Len(events) < N
  /\ events' = Append(events, Event(forwarder[i], i))
  /\ forwarder' = [forwarder EXCEPT ![i] = IF @ = "hint" THEN "select" ELSE "off"]
  /\ UNCHANGED <<pc, reason, repaired, next, stream, wire, hints, errs, sleeping, pending,
                 doublings, timer, debounce, world, stormy>>

\* Wrong variant: the channel has no limit.
AskReconnectUnblocked(i) ==
  /\ sleeping[i]
  /\ events' = Append(events, Event("reconnect", i))
  /\ sleeping' = [sleeping EXCEPT ![i] = FALSE]
  /\ UNCHANGED <<pc, reason, repaired, next, goroutines, pending, doublings, timer, debounce,
                 world, stormy>>

\* The delay of scheduleSourceReconnect is over.
AskReconnect(i) ==
  /\ sleeping[i]
  /\ Len(events) < N
  /\ events' = Append(events, Event("reconnect", i))
  /\ sleeping' = [sleeping EXCEPT ![i] = FALSE]
  /\ UNCHANGED <<pc, reason, repaired, next, goroutines, pending, doublings, timer, debounce,
                 world, stormy>>

Provider(i) == Subscribe(i) \/ ReadEvent(i)
Forwarder(i) == ForwardHint(i) \/ ForwardErr(i) \/ Send(i)

-----------------------------------------------------------------------------
(* The world *)

\* A container of source i starts or stops; a live stream carries the event.
Change(i) ==
  /\ stormy
  /\ unlisted' = unlisted \cup ({i} \cap Tracked)
  /\ IF stream[i] = "live" THEN heard' = heard \cup {i} /\ wire' = [wire EXCEPT ![i] = TRUE]
     ELSE UNCHANGED <<heard, wire>>
  /\ UNCHANGED <<pc, reason, repaired, next, stream, hints, errs, forwarder, loop, debounce,
                 stormy>>

Crash == stormy /\ pc # "down" /\ End

Calm ==
  /\ stormy
  /\ stormy' = FALSE
  /\ UNCHANGED <<pc, reason, repaired, next, goroutines, loop, debounce, world>>

\* Nothing happens and everything is watched: the goroutines wait.
Wait ==
  /\ pc = "select" /\ ~timer /\ events = << >>
  /\ \A i \in Sources : stream[i] = "live" /\ forwarder[i] = "select" /\ ~wire[i] /\ ~hints[i]
  /\ UNCHANGED vars

Next ==
  \/ Main \/ Wait \/ Crash \/ Calm
  \/ \E i \in Sources :
       Provider(i) \/ Forwarder(i) \/ AskReconnect(i) \/ StreamEnds(i) \/ Change(i)

Spec == Init /\ [][Next]_vars

FairSpec ==
  /\ Spec
  /\ WF_vars(Main)
  /\ \A i \in Sources :
       WF_vars(Provider(i)) /\ WF_vars(Forwarder(i)) /\ WF_vars(AskReconnect(i))

-----------------------------------------------------------------------------
(* Properties *)

TypeOK ==
  /\ pc \in {"down", "pass", "select"}
  /\ reason \in {"startup", "handoff", "hint", "repair"}
  /\ repaired \in 0..N /\ next \in 1..(N + 1)
  /\ stream \in [Sources -> {"off", "starting", "live", "ended"}]
  /\ wire \in [Sources -> BOOLEAN]
  /\ hints \in [Sources -> BOOLEAN] /\ errs \in [Sources -> BOOLEAN]
  /\ forwarder \in [Sources -> {"off", "select", "hint", "err"}]
  /\ events \in Seq([kind : {"hint", "err", "reconnect"}, source : Sources])
  /\ Len(events) <= N
  /\ sleeping \in [Sources -> BOOLEAN] /\ pending \in [Sources -> BOOLEAN]
  /\ doublings \in [Sources -> 0..MaxDoublings]
  /\ timer \in BOOLEAN /\ debounce \in BOOLEAN
  /\ heard \subseteq Sources /\ unlisted \subseteq Sources
  /\ stormy \in BOOLEAN

Queued(i, kinds) == \E k \in 1..Len(events) : events[k].source = i /\ events[k].kind \in kinds

(***************************************************************************)
(* No change that a live stream reported is forgotten, whatever is dropped *)
(* on the way (a hint when the channel is full, the unread end of a broken *)
(* stream, the debounce timer on a reconnect): until a pass has listed the *)
(* source, something is under way that leads to such a pass.               *)
(***************************************************************************)
HintUnderWay(i) ==
  \/ wire[i]
  \/ hints[i] /\ forwarder[i] # "off"
  \/ forwarder[i] \in {"hint", "err"} \/ Queued(i, {"hint"})
  \/ timer

RepairUnderWay(i) ==
  \/ forwarder[i] = "select" /\ (errs[i] \/ stream[i] = "ended")
  \/ sleeping[i] \/ Queued(i, {"reconnect"})
  \/ Queued(i, {"err"}) /\ ~pending[i]

ReportedIsCovered ==
  \A i \in heard :
    pc = "down" \/ (pc = "pass" /\ next <= i) \/ HintUnderWay(i) \/ RepairUnderWay(i)

(***************************************************************************)
(* A source is never watched twice: when a reconnect is asked for, both    *)
(* goroutines of the broken watch are gone.                                *)
(***************************************************************************)
NoSecondWatch ==
  \A i \in Sources :
    sleeping[i] \/ Queued(i, {"reconnect"}) => forwarder[i] = "off" /\ stream[i] = "ended"

(***************************************************************************)
(* A source that keeps disconnecting, while the process stays up and the   *)
(* source hints at nothing, is reconnected after a longer delay at last    *)
(* (docs/architecture.md: reconnect attempts have a bounded backoff).  A   *)
(* second doubling is one of a delay that had grown before.                *)
(***************************************************************************)
ReconnectsBackOff ==
  \A i \in Sources :
    []<>sleeping[i] /\ <>[](pc # "down" /\ ~hints[i]) => <>(doublings[i] > 1)

(***************************************************************************)
(* What the loop does instead: whenever a watch that was started again can *)
(* report its end, the delay is back at its initial interval.              *)
(***************************************************************************)
NeverBacksOff ==
  \A i \in Sources :
    forwarder[i] # "off" /\ pc = "select" => doublings[i] = 0

(***************************************************************************)
(* Once containers and failures are quiet, every change reported by a live *)
(* stream gets listed.                                                     *)
(***************************************************************************)
ReportedIsListed == ~stormy ~> heard = {}

(***************************************************************************)
(* Once containers and failures are quiet, every change gets listed        *)
(* (README.md: "reruns reconciliation after changes").                     *)
(***************************************************************************)
ChangeIsListed == ~stormy ~> unlisted = {}
=============================================================================
