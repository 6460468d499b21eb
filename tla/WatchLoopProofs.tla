--------------------------- MODULE WatchLoopProofs ---------------------------
(***************************************************************************)
(* The safety of the watch loop, for every number of sources: no reported  *)
(* change is forgotten, no source is watched twice, and the reconnect      *)
(* delay never grows.                                                      *)
(***************************************************************************)
EXTENDS WatchLoop, TLAPS

Kinds == {"hint", "err", "reconnect"}
Events == [kind : Kinds, source : Sources]

-----------------------------------------------------------------------------
(* The events channel *)

LEMMA Appended ==
  ASSUME NEW S, NEW s \in Seq(S), NEW e \in S
  PROVE  /\ Append(s, e) \in Seq(S)
         /\ Len(Append(s, e)) = Len(s) + 1
         /\ \A k \in 1..Len(s) : Append(s, e)[k] = s[k]
         /\ Append(s, e)[Len(s) + 1] = e
OBVIOUS

LEMMA Empty ==
  ASSUME NEW S
  PROVE  << >> \in Seq(S) /\ Len(<< >>) = 0
OBVIOUS

LEMMA Taken ==
  ASSUME NEW S, NEW s \in Seq(S), s # << >>
  PROVE  /\ Len(s) \in Nat \ {0} /\ Head(s) = s[1] /\ Head(s) \in S
         /\ Tail(s) \in Seq(S)
         /\ Len(Tail(s)) = Len(s) - 1
         /\ \A k \in 1..(Len(s) - 1) : Tail(s)[k] = s[k + 1]
OBVIOUS

-----------------------------------------------------------------------------
(* Types *)

LoopTypes ==
  /\ events \in Seq(Events) /\ Len(events) <= N
  /\ sleeping \in [Sources -> BOOLEAN] /\ pending \in [Sources -> BOOLEAN]
  /\ doublings \in [Sources -> 0..MaxDoublings]
  /\ timer \in BOOLEAN

PassTypes ==
  /\ pc \in {"down", "pass", "select"}
  /\ reason \in {"startup", "handoff", "hint", "repair"}
  /\ repaired \in 0..N /\ next \in 1..(N + 1)
  /\ debounce \in BOOLEAN /\ stormy \in BOOLEAN
  /\ heard \subseteq Sources /\ unlisted \subseteq Sources

GoroutineTypes ==
  /\ stream \in [Sources -> {"off", "starting", "live", "ended"}]
  /\ wire \in [Sources -> BOOLEAN]
  /\ hints \in [Sources -> BOOLEAN] /\ errs \in [Sources -> BOOLEAN]
  /\ forwarder \in [Sources -> {"off", "select", "hint", "err"}]

LEMMA TypesAre == TypeOK <=> LoopTypes /\ PassTypes /\ GoroutineTypes
BY DEF TypeOK, LoopTypes, PassTypes, GoroutineTypes, Events, Kinds

\* What a process holds that has just started.
Fresh ==
  /\ stream = Off /\ forwarder = Off
  /\ wire = No /\ hints = No /\ errs = No
  /\ events = << >>
  /\ sleeping = No /\ pending = No
  /\ doublings = [i \in Sources |-> 0]
  /\ timer = FALSE

LEMMA FreshTypes == Fresh => LoopTypes /\ GoroutineTypes
<1> SUFFICES ASSUME Fresh PROVE LoopTypes /\ GoroutineTypes
  OBVIOUS
<1>1. No \in [Sources -> BOOLEAN] /\ 0 \in 0..MaxDoublings /\ N >= 0
  BY CountAssumption DEF No
<1>2. events \in Seq(Events) /\ Len(events) <= N
  BY <1>1, Empty, CountAssumption DEF Fresh
<1>3. LoopTypes
  BY <1>1, <1>2 DEF Fresh, LoopTypes
<1>4. GoroutineTypes
  BY <1>1 DEF Fresh, GoroutineTypes, Off
<1> QED
  BY <1>3, <1>4

LEMMA InitTypes == Init => TypeOK
<1> SUFFICES ASSUME Init PROVE LoopTypes /\ PassTypes /\ GoroutineTypes
  BY TypesAre
<1>1. 0 \in 0..N /\ 1 \in 1..(N + 1)
  BY CountAssumption
<1>2. PassTypes
  BY <1>1, TrackedAssumption DEF Init, PassTypes
<1>3. Fresh
  BY DEF Init, Fresh
<1> QED
  BY <1>2, <1>3, FreshTypes

\* The two lemmas about the next state.
LEMMA TypesAreNext == TypeOK' <=> LoopTypes' /\ PassTypes' /\ GoroutineTypes'
BY TypesAre, PTL

LEMMA FreshTypesNext == Fresh' => LoopTypes' /\ GoroutineTypes'
BY FreshTypes, PTL

LEMMA EndTypes == TypeOK /\ End => TypeOK'
<1> SUFFICES ASSUME TypeOK, End PROVE LoopTypes' /\ PassTypes' /\ GoroutineTypes'
  BY TypesAreNext
<1>1. PassTypes'
  BY CountAssumption, TypesAre DEF End, PassTypes, world, Sources
<1>2. Fresh'
  BY DEF End, Fresh
<1> QED
  BY <1>1, <1>2, FreshTypesNext

\* Steps that leave the channels and the goroutines alone.
LEMMA PassStepTypes ==
  TypeOK /\ (Start \/ List \/ RetryPass \/ PassDone \/ TimerFires) => TypeOK'
<1> SUFFICES ASSUME TypeOK, Start \/ List \/ RetryPass \/ PassDone \/ TimerFires
             PROVE  LoopTypes' /\ PassTypes' /\ GoroutineTypes'
  BY TypesAreNext
<1>1. LoopTypes /\ PassTypes /\ GoroutineTypes
  BY TypesAre
<1>2. GoroutineTypes'
  BY <1>1 DEF GoroutineTypes, goroutines, Start, List, RetryPass, PassDone, TimerFires
<1>3. LoopTypes'
  <2>1. CASE PassDone
    BY <1>1, <2>1, CountAssumption DEF LoopTypes, PassDone
  <2>2. CASE TimerFires
    BY <1>1, <2>2 DEF LoopTypes, TimerFires
  <2>3. CASE Start \/ List \/ RetryPass
    BY <1>1, <2>3 DEF LoopTypes, loop, Start, List, RetryPass
  <2> QED
    BY <2>1, <2>2, <2>3
<1>4. PassTypes'
  <2>1. CASE List
    BY <1>1, <2>1, CountAssumption DEF PassTypes, List, Sources
  <2>2. CASE Start \/ RetryPass \/ PassDone \/ TimerFires
    BY <1>1, <2>2, CountAssumption
    DEF PassTypes, Start, RetryPass, PassDone, TimerFires, BeginPass, world
  <2> QED
    BY <2>1, <2>2
<1> QED
  BY <1>2, <1>3, <1>4

LEMMA StartWatchesTypes ==
  ASSUME NEW S, GoroutineTypes, StartWatches(S)
  PROVE  GoroutineTypes'
BY DEF GoroutineTypes, StartWatches

LEMMA StartupDoneTypes == TypeOK /\ StartupDone => TypeOK'
<1> SUFFICES ASSUME TypeOK, StartupDone PROVE LoopTypes' /\ PassTypes' /\ GoroutineTypes'
  BY TypesAreNext
<1>1. LoopTypes /\ PassTypes /\ GoroutineTypes
  BY TypesAre
<1>2. LoopTypes'
  BY <1>1 DEF LoopTypes, loop, StartupDone
<1>3. PassTypes'
  BY <1>1, CountAssumption DEF PassTypes, StartupDone, BeginPass, world
<1>4. GoroutineTypes'
  BY <1>1, StartWatchesTypes DEF StartupDone
<1> QED
  BY <1>2, <1>3, <1>4

LEMMA HandleTypes ==
  ASSUME NEW i \in Sources, TypeOK, HandleHint(i) \/ HandleErr(i) \/ HandleReconnect(i)
  PROVE  TypeOK'
<1> SUFFICES LoopTypes' /\ PassTypes' /\ GoroutineTypes'
  BY TypesAreNext
<1>1. LoopTypes /\ PassTypes /\ GoroutineTypes
  BY TypesAre
<1>2. events # << >> /\ events' = Tail(events)
  BY DEF HandleHint, HandleErr, HandleReconnect, Take
<1>3. events' \in Seq(Events) /\ Len(events') <= N
  BY <1>1, <1>2, Taken, CountAssumption DEF LoopTypes
<1>4. LoopTypes'
  <2>1. sleeping' \in [Sources -> BOOLEAN] /\ pending' \in [Sources -> BOOLEAN]
    BY <1>1 DEF LoopTypes, HandleHint, HandleErr, HandleReconnect
  <2>2. doublings' \in [Sources -> 0..MaxDoublings]
    BY <1>1, CountAssumption DEF LoopTypes, HandleHint, HandleErr, HandleReconnect
  <2>3. timer' \in BOOLEAN
    BY <1>1 DEF LoopTypes, HandleHint, HandleErr, HandleReconnect
  <2> QED
    BY <1>3, <2>1, <2>2, <2>3 DEF LoopTypes
<1>5. PassTypes'
  <2>1. UNCHANGED <<debounce, heard, unlisted, stormy>>
    BY DEF HandleHint, HandleErr, HandleReconnect, world
  <2>2. \/ UNCHANGED <<pc, reason, repaired, next>>
        \/ \E why \in {"hint", "repair"}, j \in {0, i} : BeginPass(why, j)
    BY DEF HandleHint, HandleErr, HandleReconnect
  <2>3. 0 \in 0..N /\ i \in 0..N /\ 1 \in 1..(N + 1)
    BY CountAssumption DEF Sources
  <2> QED
    BY <1>1, <2>1, <2>2, <2>3 DEF PassTypes, BeginPass
<1>6. GoroutineTypes'
  <2>1. CASE HandleHint(i) \/ HandleErr(i)
    BY <1>1, <2>1 DEF GoroutineTypes, goroutines, HandleHint, HandleErr
  <2>2. CASE HandleReconnect(i)
    BY <1>1, <2>2, StartWatchesTypes DEF HandleReconnect
  <2> QED
    BY <2>1, <2>2
<1> QED
  BY <1>4, <1>5, <1>6

\* Steps of the goroutines that leave the events channel alone, and changes.
LEMMA StreamTypes ==
  ASSUME NEW i \in Sources, TypeOK,
         \/ Provider(i) \/ ForwardHint(i) \/ ForwardErr(i) \/ StreamEnds(i) \/ Change(i)
  PROVE  TypeOK'
<1> SUFFICES LoopTypes' /\ PassTypes' /\ GoroutineTypes'
  BY TypesAreNext
<1>1. LoopTypes /\ PassTypes /\ GoroutineTypes
  BY TypesAre
<1>2. LoopTypes'
  BY <1>1
  DEF LoopTypes, loop, Provider, Subscribe, ReadEvent, ForwardHint, ForwardErr, StreamEnds, Change
<1>3. PassTypes'
  BY <1>1
  DEF PassTypes, world, Provider, Subscribe, ReadEvent, ForwardHint, ForwardErr, StreamEnds, Change
<1>4. GoroutineTypes'
  <2>1. CASE Provider(i)
    BY <1>1, <2>1 DEF GoroutineTypes, Provider, Subscribe, ReadEvent
  <2>2. CASE ForwardHint(i) \/ ForwardErr(i)
    BY <1>1, <2>2 DEF GoroutineTypes, ForwardHint, ForwardErr
  <2>3. CASE StreamEnds(i)
    BY <1>1, <2>3 DEF GoroutineTypes, StreamEnds
  <2>4. CASE Change(i)
    BY <1>1, <2>4 DEF GoroutineTypes, Change
  <2> QED
    BY <2>1, <2>2, <2>3, <2>4
<1> QED
  BY <1>2, <1>3, <1>4

LEMMA SendTypes ==
  ASSUME NEW i \in Sources, TypeOK, Send(i) \/ AskReconnect(i)
  PROVE  TypeOK'
<1> SUFFICES LoopTypes' /\ PassTypes' /\ GoroutineTypes'
  BY TypesAreNext
<1>1. LoopTypes /\ PassTypes /\ GoroutineTypes
  BY TypesAre
<1>2. PICK e \in Events : events' = Append(events, e)
  BY DEF Send, AskReconnect, Event, Events, Kinds
<1>3. Len(events) < N
  BY DEF Send, AskReconnect
<1>4. events' \in Seq(Events) /\ Len(events') <= N
  BY <1>1, <1>2, <1>3, Appended, CountAssumption DEF LoopTypes
<1>5. LoopTypes'
  BY <1>1, <1>4 DEF LoopTypes, Send, AskReconnect
<1>6. PassTypes'
  BY <1>1 DEF PassTypes, world, Send, AskReconnect
<1>7. GoroutineTypes'
  BY <1>1 DEF GoroutineTypes, goroutines, Send, AskReconnect
<1> QED
  BY <1>5, <1>6, <1>7

LEMMA QuietTypes == TypeOK /\ (Calm \/ Wait \/ UNCHANGED vars) => TypeOK'
BY DEF TypeOK, Calm, Wait, vars, goroutines, loop, world

LEMMA NextTypes == TypeOK /\ [Next]_vars => TypeOK'
<1> SUFFICES ASSUME TypeOK, [Next]_vars PROVE TypeOK'
  OBVIOUS
<1>1. CASE PassFails \/ Crash
  BY <1>1, EndTypes DEF PassFails, Crash
<1>2. CASE Start \/ List \/ RetryPass \/ PassDone \/ TimerFires
  BY <1>2, PassStepTypes
<1>3. CASE StartupDone
  BY <1>3, StartupDoneTypes
<1>4. CASE \E i \in Sources : HandleHint(i) \/ HandleErr(i) \/ HandleReconnect(i)
  BY <1>4, HandleTypes
<1>5. CASE \E i \in Sources :
             Provider(i) \/ ForwardHint(i) \/ ForwardErr(i) \/ StreamEnds(i) \/ Change(i)
  BY <1>5, StreamTypes
<1>6. CASE \E i \in Sources : Send(i) \/ AskReconnect(i)
  BY <1>6, SendTypes
<1>7. CASE Calm \/ Wait \/ UNCHANGED vars
  BY <1>7, QuietTypes
<1> QED
  BY <1>1, <1>2, <1>3, <1>4, <1>5, <1>6, <1>7 DEF Next, Main, Forwarder

(***************************************************************************)
(* Every variable keeps its type; the events channel never overflows.      *)
(***************************************************************************)
THEOREM TypeCorrect == Spec => []TypeOK
BY InitTypes, NextTypes, PTL DEF Spec

-----------------------------------------------------------------------------
(* What the events channel says of a source *)

LEMMA QueuedAppended ==
  ASSUME events \in Seq(Events), NEW e \in Events, events' = Append(events, e),
         NEW j, NEW K
  PROVE  Queued(j, K)' <=> Queued(j, K) \/ (e.source = j /\ e.kind \in K)
<1>1. /\ Len(events) \in Nat /\ Len(events') = Len(events) + 1
      /\ \A k \in 1..Len(events) : events'[k] = events[k]
      /\ events'[Len(events) + 1] = e
  BY Appended
<1>2. 1..Len(events') = (1..Len(events)) \cup {Len(events) + 1}
  BY <1>1
<1> QED
  BY <1>1, <1>2 DEF Queued

LEMMA QueuedTaken ==
  ASSUME events \in Seq(Events), events # << >>, events' = Tail(events), NEW j, NEW K
  PROVE  Queued(j, K) <=>
           Queued(j, K)' \/ (Head(events).source = j /\ Head(events).kind \in K)
<1>1. /\ Len(events) \in Nat \ {0} /\ Len(events') = Len(events) - 1
      /\ Head(events) = events[1]
      /\ \A k \in 1..(Len(events) - 1) : events'[k] = events[k + 1]
  BY Taken
<1>2. ASSUME Queued(j, K)
      PROVE  Queued(j, K)' \/ (Head(events).source = j /\ Head(events).kind \in K)
  <2>1. PICK k \in 1..Len(events) : events[k].source = j /\ events[k].kind \in K
    BY <1>2 DEF Queued
  <2>2. CASE k = 1
    BY <1>1, <2>1, <2>2
  <2>3. CASE k # 1
    <3>1. k - 1 \in 1..Len(events') /\ events'[k - 1] = events[k]
      BY <1>1, <2>3
    <3> QED
      BY <2>1, <3>1 DEF Queued
  <2> QED
    BY <2>2, <2>3
<1>3. ASSUME Queued(j, K)' PROVE Queued(j, K)
  <2>1. PICK k \in 1..Len(events') : events'[k].source = j /\ events'[k].kind \in K
    BY <1>3 DEF Queued
  <2>2. k + 1 \in 1..Len(events) /\ events[k + 1] = events'[k]
    BY <1>1, <2>1
  <2> QED
    BY <2>1, <2>2 DEF Queued
<1>4. Head(events).source = j /\ Head(events).kind \in K => Queued(j, K)
  BY <1>1 DEF Queued
<1> QED
  BY <1>2, <1>3, <1>4

\* The events that say that a watch has ended, and that it may start again.
Ends == {"err", "reconnect"}

OneEnd(j) ==
  \A k, l \in 1..Len(events) :
    /\ events[k].source = j /\ events[k].kind \in Ends
    /\ events[l].source = j /\ events[l].kind \in Ends
    => k = l

LEMMA OneEndTaken ==
  ASSUME events \in Seq(Events), events # << >>, events' = Tail(events), NEW j, OneEnd(j)
  PROVE  /\ OneEnd(j)'
         /\ Head(events).source = j /\ Head(events).kind \in Ends => ~Queued(j, Ends)'
<1>1. /\ Len(events) \in Nat \ {0} /\ Len(events') = Len(events) - 1
      /\ Head(events) = events[1]
      /\ \A k \in 1..(Len(events) - 1) : events'[k] = events[k + 1]
  BY Taken
<1>2. \A k \in 1..Len(events') : k + 1 \in 1..Len(events) /\ events'[k] = events[k + 1]
  BY <1>1
<1>3. ASSUME NEW k \in 1..Len(events'), NEW l \in 1..Len(events'),
             events'[k].source = j, events'[k].kind \in Ends,
             events'[l].source = j, events'[l].kind \in Ends
      PROVE  k = l
  <2>1. k + 1 = l + 1
    BY <1>2, <1>3 DEF OneEnd
  <2> QED
    BY <1>1, <2>1
<1>4. ASSUME Head(events).source = j, Head(events).kind \in Ends, Queued(j, Ends)'
      PROVE  FALSE
  <2>1. PICK k \in 1..Len(events') : events'[k].source = j /\ events'[k].kind \in Ends
    BY <1>4 DEF Queued
  <2>2. k + 1 = 1
    BY <1>1, <1>2, <1>4, <2>1 DEF OneEnd
  <2> QED
    BY <1>1, <2>2
<1> QED
  BY <1>3, <1>4 DEF OneEnd

LEMMA OneEndAppended ==
  ASSUME events \in Seq(Events), NEW e \in Events, events' = Append(events, e),
         NEW j, OneEnd(j), e.source = j /\ e.kind \in Ends => ~Queued(j, Ends)
  PROVE  OneEnd(j)'
<1>1. /\ Len(events) \in Nat /\ Len(events') = Len(events) + 1
      /\ \A k \in 1..Len(events) : events'[k] = events[k]
      /\ events'[Len(events) + 1] = e
  BY Appended
<1>2. \A k \in 1..Len(events') : k \in 1..Len(events) \/ k = Len(events) + 1
  BY <1>1
<1>3. ASSUME NEW k \in 1..Len(events'), NEW l \in 1..Len(events'),
             events'[k].source = j, events'[k].kind \in Ends,
             events'[l].source = j, events'[l].kind \in Ends
      PROVE  k = l
  <2>1. CASE k \in 1..Len(events) /\ l \in 1..Len(events)
    BY <1>1, <1>3, <2>1 DEF OneEnd
  <2>2. CASE k = Len(events) + 1 /\ l = Len(events) + 1
    BY <2>2
  <2>3. CASE k \in 1..Len(events) /\ l = Len(events) + 1
    BY <1>1, <1>3, <2>3 DEF Queued
  <2>4. CASE k = Len(events) + 1 /\ l \in 1..Len(events)
    BY <1>1, <1>3, <2>4 DEF Queued
  <2> QED
    BY <1>2, <2>1, <2>2, <2>3, <2>4
<1> QED
  BY <1>3 DEF OneEnd

-----------------------------------------------------------------------------
(* The inductive invariant *)

(***************************************************************************)
(* The life of a watch.  Once its end is on the way to the main loop, and  *)
(* until the reconnect is taken, both goroutines are gone; exactly one     *)
(* thing leads on: the error in the channel, the sleep or the request to   *)
(* reconnect.                                                              *)
(***************************************************************************)
Lifecycle(j) ==
  /\ sleeping[j] \/ Queued(j, Ends) => forwarder[j] = "off" /\ stream[j] = "ended"
  /\ ~(sleeping[j] /\ Queued(j, Ends))
  /\ OneEnd(j)
  /\ forwarder[j] = "err" \/ errs[j] => stream[j] = "ended"
  /\ stream[j] \in {"starting", "live"} => forwarder[j] # "off"
  /\ pending[j] => sleeping[j] \/ Queued(j, {"reconnect"})

\* Nothing is watched before the startup pass is done.
NotWatching == pc = "down" \/ (pc = "pass" /\ reason = "startup") => Fresh

\* A delay that was doubled belongs to a reconnect that is not repaired yet.
DelayOK(j) ==
  doublings[j] # 0 =>
    sleeping[j] \/ Queued(j, {"reconnect"}) \/ (pc = "pass" /\ repaired = j)

Covered(j) ==
  j \in heard =>
    pc = "down" \/ (pc = "pass" /\ next <= j) \/ HintUnderWay(j) \/ RepairUnderWay(j)

IInv ==
  /\ TypeOK
  /\ NotWatching
  /\ \A j \in Sources : Lifecycle(j) /\ DelayOK(j) /\ Covered(j)

LEMMA ReconnectEnds == \A j : Queued(j, {"reconnect"}) \/ Queued(j, {"err"}) <=> Queued(j, Ends)
BY DEF Queued, Ends

\* The error in the channel is one the main loop has not answered.
LEMMA ErrNotPending ==
  ASSUME NEW j \in Sources, Lifecycle(j), Queued(j, {"err"})
  PROVE  ~pending[j]
<1>1. Queued(j, Ends)
  BY ReconnectEnds
<1>2. SUFFICES ASSUME Queued(j, {"reconnect"}) PROVE FALSE
  BY <1>1 DEF Lifecycle
<1>3. PICK k \in 1..Len(events) : events[k].source = j /\ events[k].kind = "err"
  BY DEF Queued
<1>4. PICK l \in 1..Len(events) : events[l].source = j /\ events[l].kind = "reconnect"
  BY <1>2 DEF Queued
<1>5. k = l
  BY <1>3, <1>4 DEF Lifecycle, OneEnd, Ends
<1> QED
  BY <1>3, <1>4, <1>5

-----------------------------------------------------------------------------
(* The life of a watch *)

LEMMA FreshLifecycle ==
  ASSUME Fresh, NEW j \in Sources
  PROVE  Lifecycle(j)
<1>1. Len(events) = 0 /\ 1..0 = {}
  BY Empty DEF Fresh
<1>2. OneEnd(j) /\ \A K : ~Queued(j, K)
  BY <1>1 DEF OneEnd, Queued
<1> QED
  BY <1>2 DEF Fresh, Lifecycle, No, Off

LEMMA LifecycleKept ==
  ASSUME NEW j \in Sources, Lifecycle(j), OneEnd(j)',
         stream'[j] = stream[j], errs'[j] <=> errs[j], forwarder'[j] = forwarder[j],
         sleeping'[j] = sleeping[j], pending'[j] = pending[j],
         Queued(j, Ends)' <=> Queued(j, Ends),
         Queued(j, {"reconnect"})' <=> Queued(j, {"reconnect"})
  PROVE  Lifecycle(j)'
BY DEF Lifecycle

LEMMA QueueKept ==
  ASSUME UNCHANGED events, NEW j
  PROVE  /\ \A K : Queued(j, K)' <=> Queued(j, K)
         /\ OneEnd(j)' <=> OneEnd(j)
BY DEF Queued, OneEnd

LEMMA LifecycleQuiet ==
  ASSUME NEW j \in Sources, Lifecycle(j),
         UNCHANGED <<stream, errs, forwarder, sleeping, pending, events>>
  PROVE  Lifecycle(j)'
<1>1. OneEnd(j) /\ OneEnd(j)'
  BY QueueKept DEF Lifecycle
<1> QED
  BY <1>1, QueueKept, LifecycleKept

LEMMA LifecycleStream ==
  ASSUME TypeOK, NEW i \in Sources, NEW j \in Sources, Lifecycle(j),
         Subscribe(i) \/ StreamEnds(i) \/ ForwardHint(i) \/ ForwardErr(i)
  PROVE  Lifecycle(j)'
<1>1. UNCHANGED events /\ UNCHANGED <<sleeping, pending>>
  BY DEF Subscribe, StreamEnds, ForwardHint, ForwardErr, loop
<1>2. (\A K : Queued(j, K)' <=> Queued(j, K)) /\ OneEnd(j) /\ OneEnd(j)'
  BY <1>1, QueueKept DEF Lifecycle
<1>3. CASE j # i
  <2>1. stream'[j] = stream[j] /\ errs'[j] = errs[j] /\ forwarder'[j] = forwarder[j]
    BY <1>3 DEF TypeOK, Subscribe, StreamEnds, ForwardHint, ForwardErr
  <2> QED
    BY <1>1, <1>2, <2>1, LifecycleKept
<1>4. CASE j = i
  <2>1. CASE Subscribe(i)
    BY <1>1, <1>2, <1>4, <2>1 DEF TypeOK, Subscribe, Lifecycle
  <2>2. CASE StreamEnds(i)
    BY <1>1, <1>2, <1>4, <2>2 DEF TypeOK, StreamEnds, Lifecycle
  <2>3. CASE ForwardHint(i)
    BY <1>1, <1>2, <1>4, <2>3 DEF TypeOK, ForwardHint, Lifecycle
  <2>4. CASE ForwardErr(i)
    BY <1>1, <1>2, <1>4, <2>4 DEF TypeOK, ForwardErr, Lifecycle
  <2> QED
    BY <2>1, <2>2, <2>3, <2>4
<1> QED
  BY <1>3, <1>4

LEMMA LifecycleSend ==
  ASSUME TypeOK, NEW i \in Sources, NEW j \in Sources, Lifecycle(i), Lifecycle(j),
         Send(i) \/ AskReconnect(i)
  PROVE  Lifecycle(j)'
<1>1. events \in Seq(Events)
  BY TypesAre DEF LoopTypes
<1>2. PICK e \in Events :
        /\ events' = Append(events, e) /\ e.source = i
        /\ \/ Send(i) /\ e.kind = forwarder[i]
           \/ AskReconnect(i) /\ e.kind = "reconnect"
  BY DEF Send, AskReconnect, Event, Events, Kinds
<1>3. \A K : Queued(j, K)' <=> Queued(j, K) \/ (i = j /\ e.kind \in K)
  BY <1>1, <1>2, QueuedAppended
<1>4. UNCHANGED <<stream, errs, pending>>
  BY DEF Send, AskReconnect, goroutines
<1>5. e.source = j /\ e.kind \in Ends => ~Queued(j, Ends)
  BY <1>2 DEF Send, AskReconnect, Lifecycle, Ends
<1>6. OneEnd(j)'
  BY <1>1, <1>2, <1>5, OneEndAppended DEF Lifecycle
<1>7. CASE j # i
  <2>1. forwarder'[j] = forwarder[j] /\ sleeping'[j] = sleeping[j]
    BY <1>7 DEF TypeOK, Send, AskReconnect, goroutines
  <2> QED
    BY <1>3, <1>4, <1>6, <1>7, <2>1, LifecycleKept
<1>8. CASE j = i /\ Send(i) /\ e.kind = forwarder[i]
  <2>1. UNCHANGED sleeping
    BY <1>8 DEF Send
  <2>2. CASE forwarder[i] = "hint"
    <3>1. forwarder'[i] = "select"
      BY <1>8, <2>2 DEF TypeOK, Send
    <3>2. ~sleeping[i] /\ ~Queued(i, Ends) /\ ~Queued(i, Ends)'
      BY <1>3, <1>8, <2>2 DEF Lifecycle, Ends
    <3>3. pending[i] => Queued(i, {"reconnect"})'
      BY <1>3, <1>8, <3>2 DEF Lifecycle
    <3> QED
      BY <1>4, <1>6, <1>8, <2>1, <3>1, <3>2, <3>3 DEF Lifecycle
  <2>3. CASE forwarder[i] = "err"
    <3>1. forwarder'[i] = "off" /\ stream[i] = "ended"
      BY <1>8, <2>3 DEF TypeOK, Send, Lifecycle
    <3>2. ~sleeping[i]
      BY <2>3 DEF Lifecycle
    <3>3. pending[i] => Queued(i, {"reconnect"})'
      BY <1>3, <1>8, <3>2 DEF Lifecycle
    <3> QED
      BY <1>4, <1>6, <1>8, <2>1, <3>1, <3>2, <3>3 DEF Lifecycle
  <2> QED
    BY <1>8, <2>2, <2>3 DEF Send
<1>9. CASE j = i /\ AskReconnect(i) /\ e.kind = "reconnect"
  <2>1. UNCHANGED forwarder /\ sleeping[i] /\ ~sleeping'[i]
    BY <1>9 DEF TypeOK, AskReconnect, goroutines
  <2>2. Queued(i, {"reconnect"})'
    BY <1>3, <1>9
  <2> QED
    BY <1>4, <1>6, <1>9, <2>1, <2>2 DEF Lifecycle
<1> QED
  BY <1>2, <1>7, <1>8, <1>9

\* An event other than the end of j's watch is taken.
LEMMA LifecycleTaken ==
  ASSUME TypeOK, NEW j \in Sources, Lifecycle(j),
         events # << >>, events' = Tail(events),
         Head(events).source = j => Head(events).kind \notin Ends,
         stream'[j] = stream[j], errs'[j] <=> errs[j], forwarder'[j] = forwarder[j],
         sleeping'[j] = sleeping[j], pending'[j] = pending[j]
  PROVE  Lifecycle(j)'
<1>1. events \in Seq(Events)
  BY TypesAre DEF LoopTypes
<1>2. Queued(j, Ends)' <=> Queued(j, Ends)
  BY <1>1, QueuedTaken
<1>3. Queued(j, {"reconnect"})' <=> Queued(j, {"reconnect"})
  BY <1>1, QueuedTaken DEF Ends
<1>4. OneEnd(j)'
  BY <1>1, OneEndTaken DEF Lifecycle
<1> QED
  BY <1>2, <1>3, <1>4, LifecycleKept

LEMMA LifecycleHandle ==
  ASSUME TypeOK, NEW i \in Sources, NEW j \in Sources, Lifecycle(j),
         HandleHint(i) \/ HandleErr(i) \/ HandleReconnect(i)
  PROVE  Lifecycle(j)'
<1>1. events \in Seq(Events) /\ events # << >> /\ events' = Tail(events)
  BY TypesAre DEF LoopTypes, HandleHint, HandleErr, HandleReconnect, Take
<1>2. /\ Head(events).source = i
      /\ HandleHint(i) => Head(events).kind = "hint"
      /\ HandleErr(i) => Head(events).kind = "err"
      /\ HandleReconnect(i) => Head(events).kind = "reconnect"
  BY DEF HandleHint, HandleErr, HandleReconnect, Take, Event
<1>3. CASE HandleHint(i)
  <2>1. UNCHANGED <<stream, errs, forwarder, sleeping, pending>>
    BY <1>3 DEF HandleHint, goroutines
  <2> QED
    BY <1>1, <1>2, <1>3, <2>1, LifecycleTaken DEF Ends
<1>4. CASE j # i /\ (HandleErr(i) \/ HandleReconnect(i))
  <2>1. stream'[j] = stream[j] /\ (errs'[j] <=> errs[j]) /\ forwarder'[j] = forwarder[j]
    <3>1. CASE HandleErr(i)
      BY <3>1 DEF HandleErr, goroutines
    <3>2. CASE HandleReconnect(i)
      BY <1>4, <3>2 DEF HandleReconnect, StartWatches
    <3> QED
      BY <1>4, <3>1, <3>2
  <2>2. sleeping'[j] = sleeping[j] /\ pending'[j] = pending[j]
    BY <1>4 DEF TypeOK, HandleErr, HandleReconnect
  <2> QED
    BY <1>1, <1>2, <1>4, <2>1, <2>2, LifecycleTaken
<1>5. CASE j = i /\ (HandleErr(i) \/ HandleReconnect(i))
  <2>1. /\ Queued(i, Ends) /\ ~Queued(i, Ends)' /\ OneEnd(i)'
    BY <1>1, <1>2, <1>5, QueuedTaken, OneEndTaken DEF Ends, Lifecycle
  <2>2. ~sleeping[i] /\ forwarder[i] = "off" /\ stream[i] = "ended"
    BY <1>5, <2>1 DEF Lifecycle
  <2>3. CASE HandleErr(i)
    <3>1. Queued(i, {"err"})
      BY <1>1, <1>2, <2>3, QueuedTaken
    <3>2. ~pending[i]
      BY <1>5, <3>1, ErrNotPending
    <3>3. sleeping'[i] /\ UNCHANGED <<stream, errs, forwarder>>
      BY <2>3, <3>2 DEF TypeOK, HandleErr, goroutines
    <3> QED
      BY <1>5, <2>1, <2>2, <3>3 DEF Lifecycle
  <2>4. CASE HandleReconnect(i)
    <3>1. /\ stream'[i] = "starting" /\ forwarder'[i] = "select" /\ ~errs'[i]
          /\ ~pending'[i] /\ ~sleeping'[i]
      BY <2>2, <2>4 DEF TypeOK, HandleReconnect, StartWatches
    <3> QED
      BY <1>5, <2>1, <3>1 DEF Lifecycle
  <2> QED
    BY <1>5, <2>3, <2>4
<1> QED
  BY <1>3, <1>4, <1>5

LEMMA LifecycleStartup ==
  ASSUME TypeOK, NotWatching, NEW j \in Sources, StartupDone
  PROVE  Lifecycle(j)'
<1>1. Fresh
  BY DEF NotWatching, StartupDone
<1>2. UNCHANGED <<events, sleeping, pending>>
  BY DEF StartupDone, loop
<1>3. \A K : ~Queued(j, K)'
  BY <1>1, <1>2, Empty DEF Fresh, Queued
<1>4. OneEnd(j)'
  BY <1>1, <1>2, Empty DEF Fresh, OneEnd
<1>5. ~sleeping'[j] /\ ~pending'[j]
  BY <1>1, <1>2 DEF Fresh, No
<1>6. stream'[j] = "starting" /\ forwarder'[j] = "select" /\ ~errs'[j]
  BY DEF StartupDone, StartWatches
<1> QED
  BY <1>3, <1>4, <1>5, <1>6 DEF Lifecycle

LEMMA FreshNext == Fresh' => (\A j \in Sources : Lifecycle(j))'
<1>1. Fresh => \A j \in Sources : Lifecycle(j)
  BY FreshLifecycle
<1> QED
  BY <1>1, PTL

\* The steps that touch neither the events nor what a watch is made of.
Aside(i) == ReadEvent(i) \/ Change(i)
PassStep == Start \/ List \/ RetryPass \/ PassDone \/ TimerFires
Idle == Calm \/ Wait \/ UNCHANGED vars

LEMMA EndFresh == End => Fresh'
BY DEF End, Fresh

LEMMA Steps ==
  ASSUME [Next]_vars
  PROVE  \/ End \/ PassStep \/ Idle \/ StartupDone
         \/ \E i \in Sources :
              \/ HandleHint(i) \/ HandleErr(i) \/ HandleReconnect(i)
              \/ Subscribe(i) \/ StreamEnds(i) \/ ForwardHint(i) \/ ForwardErr(i)
              \/ Send(i) \/ AskReconnect(i) \/ Aside(i)
BY DEF Next, Main, Provider, Forwarder, PassFails, Crash, Aside, PassStep, Idle

LEMMA AsideChanges ==
  ASSUME PassStep \/ Idle \/ \E i \in Sources : Aside(i)
  PROVE  UNCHANGED <<stream, errs, forwarder, sleeping, pending, events>>
<1>1. CASE PassStep
  BY <1>1 DEF PassStep, Start, List, RetryPass, PassDone, TimerFires, goroutines, loop
<1>2. CASE Idle
  BY <1>2 DEF Idle, Calm, Wait, vars, goroutines, loop
<1>3. CASE \E i \in Sources : Aside(i)
  BY <1>3 DEF Aside, ReadEvent, Change, loop
<1> QED
  BY <1>1, <1>2, <1>3

LEMMA LifecycleNext ==
  ASSUME TypeOK, NotWatching, \A j \in Sources : Lifecycle(j), [Next]_vars
  PROVE  (\A j \in Sources : Lifecycle(j))'
<1>1. CASE End
  BY <1>1, EndFresh, FreshNext
<1>2. SUFFICES ASSUME NEW j \in Sources, ~End PROVE Lifecycle(j)'
  BY <1>1
<1>3. Lifecycle(j)
  OBVIOUS
<1>4. CASE PassStep \/ Idle \/ \E i \in Sources : Aside(i)
  BY <1>3, <1>4, AsideChanges, LifecycleQuiet
<1>5. CASE StartupDone
  BY <1>5, LifecycleStartup
<1>6. CASE \E i \in Sources : HandleHint(i) \/ HandleErr(i) \/ HandleReconnect(i)
  BY <1>3, <1>6, LifecycleHandle
<1>7. CASE \E i \in Sources : Subscribe(i) \/ StreamEnds(i) \/ ForwardHint(i) \/ ForwardErr(i)
  BY <1>3, <1>7, LifecycleStream
<1>8. CASE \E i \in Sources : Send(i) \/ AskReconnect(i)
  BY <1>3, <1>8, LifecycleSend
<1> QED
  BY <1>2, <1>4, <1>5, <1>6, <1>7, <1>8, Steps

LEMMA NotWatchingNext ==
  ASSUME TypeOK, NotWatching, [Next]_vars
  PROVE  NotWatching'
<1>1. CASE End
  BY <1>1, EndFresh DEF NotWatching
<1>2. CASE PassDone \/ TimerFires \/ StartupDone
  BY <1>2 DEF PassDone, TimerFires, StartupDone, BeginPass, NotWatching
<1>3. CASE Start
  BY <1>3 DEF Start, NotWatching, Fresh, goroutines, loop
<1>4. CASE List \/ RetryPass \/ Idle
  BY <1>4 DEF List, RetryPass, Idle, Calm, Wait, NotWatching, Fresh, goroutines, loop, vars
<1>5. CASE \E i \in Sources : HandleHint(i) \/ HandleErr(i) \/ HandleReconnect(i)
  BY <1>5 DEF HandleHint, HandleErr, HandleReconnect, Take, BeginPass, NotWatching
<1>6. ASSUME NEW i \in Sources,
             \/ Subscribe(i) \/ StreamEnds(i) \/ ForwardHint(i) \/ ForwardErr(i)
             \/ Send(i) \/ AskReconnect(i) \/ Aside(i)
      PROVE  NotWatching'
  <2>1. UNCHANGED <<pc, reason>>
    BY <1>6
    DEF Subscribe, StreamEnds, ForwardHint, ForwardErr, Send, AskReconnect, Aside, ReadEvent, Change
  <2>2. SUFFICES ASSUME Fresh PROVE Fresh'
    BY <2>1 DEF NotWatching
  <2>3. stream[i] = "off" /\ forwarder[i] = "off" /\ ~sleeping[i]
    BY <2>2 DEF Fresh, Off, No
  <2>4. Change(i)
    BY <1>6, <2>3
    DEF Subscribe, StreamEnds, ForwardHint, ForwardErr, Send, AskReconnect, Aside, ReadEvent
  <2> QED
    BY <2>2, <2>3, <2>4 DEF Change, Fresh, loop
<1> QED
  BY <1>1, <1>2, <1>3, <1>4, <1>5, <1>6, Steps DEF PassStep

-----------------------------------------------------------------------------
(* The delay *)

LEMMA DelayNext ==
  ASSUME TypeOK, NotWatching, NEW j \in Sources, Lifecycle(j), DelayOK(j), [Next]_vars
  PROVE  DelayOK(j)'
<1>1. CASE End
  BY <1>1 DEF End, DelayOK
<1>2. CASE PassStep
  <2>1. UNCHANGED <<events, sleeping>>
    BY <1>2, AsideChanges
  <2>2. Queued(j, {"reconnect"})' <=> Queued(j, {"reconnect"})
    BY <2>1, QueueKept
  <2>3. CASE List \/ RetryPass
    BY <2>1, <2>2, <2>3 DEF List, RetryPass, DelayOK, loop
  <2>4. CASE Start \/ TimerFires
    BY <2>1, <2>2, <2>4 DEF Start, TimerFires, DelayOK, loop
  <2>5. CASE PassDone
    BY <2>1, <2>2, <2>5 DEF PassDone, DelayOK
  <2> QED
    BY <1>2, <2>3, <2>4, <2>5 DEF PassStep
<1>3. CASE Idle
  <2>1. Queued(j, {"reconnect"})' <=> Queued(j, {"reconnect"})
    BY <1>3, AsideChanges, QueueKept
  <2> QED
    BY <1>3, <2>1 DEF Idle, Calm, Wait, DelayOK, loop, vars
<1>4. CASE StartupDone
  BY <1>4 DEF StartupDone, NotWatching, Fresh, DelayOK, loop
<1>5. ASSUME NEW i \in Sources, HandleHint(i) \/ HandleErr(i) \/ HandleReconnect(i)
      PROVE  DelayOK(j)'
  <2>1. /\ events \in Seq(Events) /\ events # << >> /\ events' = Tail(events)
        /\ pc = "select" /\ Head(events).source = i
        /\ HandleHint(i) => Head(events).kind = "hint"
        /\ HandleErr(i) => Head(events).kind = "err"
    BY <1>5, TypesAre DEF LoopTypes, HandleHint, HandleErr, HandleReconnect, Take, Event
  <2>2. j # i \/ ~HandleReconnect(i) =>
          (Queued(j, {"reconnect"})' <=> Queued(j, {"reconnect"}))
    BY <1>5, <2>1, QueuedTaken
  <2>3. CASE HandleHint(i)
    <3>1. CASE j = i
      BY <2>3, <3>1 DEF HandleHint, DelayOK, TypeOK
    <3>2. CASE j # i
      <4>1. doublings'[j] = doublings[j] /\ UNCHANGED sleeping
        BY <2>3, <3>2 DEF HandleHint, TypeOK
      <4> QED
        BY <2>1, <2>2, <3>2, <4>1 DEF DelayOK
    <3> QED
      BY <3>1, <3>2
  <2>4. CASE HandleErr(i)
    <3>1. CASE j = i
      <4>1. Queued(i, {"err"})
        BY <2>1, <2>4, QueuedTaken
      <4>2. ~pending[i]
        BY <3>1, <4>1, ErrNotPending
      <4> QED
        BY <2>4, <3>1, <4>2 DEF HandleErr, DelayOK, TypeOK
    <3>2. CASE j # i
      <4>1. doublings'[j] = doublings[j] /\ sleeping'[j] = sleeping[j]
        BY <2>4, <3>2 DEF HandleErr, TypeOK
      <4> QED
        BY <2>1, <2>2, <3>2, <4>1 DEF DelayOK
    <3> QED
      BY <3>1, <3>2
  <2>5. CASE HandleReconnect(i)
    <3>1. CASE j = i
      BY <2>5, <3>1 DEF HandleReconnect, BeginPass, DelayOK
    <3>2. CASE j # i
      BY <2>1, <2>2, <2>5, <3>2 DEF HandleReconnect, DelayOK
    <3> QED
      BY <3>1, <3>2
  <2> QED
    BY <1>5, <2>3, <2>4, <2>5
<1>6. ASSUME NEW i \in Sources,
             Subscribe(i) \/ StreamEnds(i) \/ ForwardHint(i) \/ ForwardErr(i) \/ Aside(i)
      PROVE  DelayOK(j)'
  <2>1. UNCHANGED <<pc, repaired, loop>>
    BY <1>6 DEF Subscribe, StreamEnds, ForwardHint, ForwardErr, Aside, ReadEvent, Change
  <2>2. Queued(j, {"reconnect"})' <=> Queued(j, {"reconnect"})
    BY <2>1, QueueKept DEF loop
  <2> QED
    BY <2>1, <2>2 DEF DelayOK, loop
<1>7. ASSUME NEW i \in Sources, Send(i) \/ AskReconnect(i)
      PROVE  DelayOK(j)'
  <2>1. PICK e \in Events :
          /\ events' = Append(events, e) /\ e.source = i
          /\ AskReconnect(i) => e.kind = "reconnect"
    <3>1. CASE Send(i) /\ ~AskReconnect(i)
      BY <3>1 DEF Send, Event, Events, Kinds
    <3>2. CASE AskReconnect(i)
      BY <3>2 DEF AskReconnect, Event, Events, Kinds
    <3> QED
      BY <1>7, <3>1, <3>2
  <2>2. /\ Queued(j, {"reconnect"}) => Queued(j, {"reconnect"})'
        /\ AskReconnect(i) /\ i = j => Queued(j, {"reconnect"})'
    BY <2>1, QueuedAppended, TypesAre DEF LoopTypes
  <2>3. UNCHANGED <<pc, repaired, doublings>>
    BY <1>7 DEF Send, AskReconnect
  <2>4. sleeping'[j] = sleeping[j] \/ (AskReconnect(i) /\ i = j)
    BY <1>7 DEF Send, AskReconnect, TypeOK
  <2> QED
    BY <2>2, <2>3, <2>4 DEF DelayOK
<1> QED
  BY <1>1, <1>2, <1>3, <1>4, <1>5, <1>6, <1>7, Steps

-----------------------------------------------------------------------------
(* A reported change stays covered *)

LEMMA PassCovers ==
  ASSUME NEW j \in Sources, pc' = "pass", next' = 1
  PROVE  Covered(j)'
BY DEF Covered, Sources

\* What is under way stays under way.
LEMMA UnderWayKept ==
  ASSUME NEW j \in Sources, UNCHANGED <<goroutines, events, sleeping, pending, timer>>
  PROVE  /\ HintUnderWay(j)' <=> HintUnderWay(j)
         /\ RepairUnderWay(j)' <=> RepairUnderWay(j)
<1>1. \A K : Queued(j, K)' <=> Queued(j, K)
  BY QueueKept
<1> QED
  BY <1>1 DEF HintUnderWay, RepairUnderWay, goroutines

LEMMA CoveredPassStep ==
  ASSUME TypeOK, NEW j \in Sources, Covered(j), PassStep
  PROVE  Covered(j)'
<1>1. CASE Start \/ TimerFires
  BY <1>1, PassCovers DEF Start, TimerFires, BeginPass
<1>2. CASE RetryPass
  BY <1>2, PassCovers DEF RetryPass
<1>3. CASE List
  <2>1. UNCHANGED <<goroutines, events, sleeping, pending, timer>>
    BY <1>3 DEF List, loop
  <2>2. SUFFICES ASSUME j \in heard, j # next, next <= j PROVE pc' = "pass" /\ next' <= j
    BY <1>3, <2>1, UnderWayKept DEF List, Covered
  <2> QED
    BY <1>3, <2>2 DEF List, TypeOK, Sources
<1>4. CASE PassDone
  <2>1. UNCHANGED <<goroutines, events, sleeping, pending, timer>>
    BY <1>4 DEF PassDone
  <2>2. ~(next <= j) /\ pc = "pass" /\ UNCHANGED heard
    BY <1>4, CountAssumption DEF PassDone, TypeOK, Sources, world
  <2> QED
    BY <2>1, <2>2, UnderWayKept DEF Covered
<1> QED
  BY <1>1, <1>2, <1>3, <1>4 DEF PassStep

LEMMA CoveredIdle ==
  ASSUME NEW j \in Sources, Covered(j), Idle
  PROVE  Covered(j)'
<1>1. UNCHANGED <<pc, next, goroutines, events, sleeping, pending, timer, heard>>
  BY DEF Idle, Calm, Wait, vars, goroutines, loop, world
<1> QED
  BY <1>1, UnderWayKept DEF Covered

LEMMA CoveredHandle ==
  ASSUME TypeOK, NEW i \in Sources, NEW j \in Sources, Covered(j),
         HandleHint(i) \/ HandleErr(i) \/ HandleReconnect(i)
  PROVE  Covered(j)'
<1>1. CASE HandleReconnect(i)
  BY <1>1, PassCovers DEF HandleReconnect, BeginPass
<1>2. CASE HandleHint(i)
  <2>1. CASE debounce
    BY <1>2, <2>1 DEF HandleHint, Covered, HintUnderWay
  <2>2. CASE ~debounce
    BY <1>2, <2>2, PassCovers DEF HandleHint, BeginPass
  <2> QED
    BY <2>1, <2>2
<1>3. CASE HandleErr(i)
  <2>1. /\ events \in Seq(Events) /\ events # << >> /\ events' = Tail(events)
        /\ Head(events).source = i /\ Head(events).kind = "err" /\ pc = "select"
    BY <1>3, TypesAre DEF LoopTypes, HandleErr, Take, Event
  <2>2. /\ UNCHANGED <<pc, next, heard, timer>>
        /\ UNCHANGED <<stream, wire, hints, errs, forwarder>>
    BY <1>3 DEF HandleErr, goroutines, world
  <2>3. /\ Queued(j, {"hint"})' <=> Queued(j, {"hint"})
        /\ Queued(j, {"reconnect"})' <=> Queued(j, {"reconnect"})
        /\ j # i => (Queued(j, {"err"})' <=> Queued(j, {"err"}))
    BY <2>1, QueuedTaken
  <2>4. HintUnderWay(j) => HintUnderWay(j)'
    BY <2>2, <2>3 DEF HintUnderWay
  <2>5. sleeping[j] => sleeping'[j]
    BY <1>3 DEF HandleErr, TypeOK
  <2>6. Queued(j, {"err"}) /\ ~pending[j] =>
          sleeping'[j] \/ (Queued(j, {"err"})' /\ ~pending'[j])
    BY <1>3, <2>3 DEF HandleErr, TypeOK
  <2>7. RepairUnderWay(j) => RepairUnderWay(j)'
    BY <2>2, <2>3, <2>5, <2>6 DEF RepairUnderWay
  <2> QED
    BY <2>1, <2>2, <2>4, <2>7 DEF Covered
<1> QED
  BY <1>1, <1>2, <1>3

LEMMA CoveredStream ==
  ASSUME TypeOK, NEW i \in Sources, NEW j \in Sources, Lifecycle(j), Covered(j),
         Subscribe(i) \/ StreamEnds(i) \/ ForwardHint(i) \/ ForwardErr(i) \/ ReadEvent(i)
  PROVE  Covered(j)'
<1>1. UNCHANGED <<pc, next, heard, events, sleeping, pending, timer>>
  BY DEF Subscribe, StreamEnds, ForwardHint, ForwardErr, ReadEvent, loop, world
<1>2. \A K : Queued(j, K)' <=> Queued(j, K)
  BY <1>1, QueueKept
<1>3. SUFFICES HintUnderWay(j) \/ RepairUnderWay(j) => HintUnderWay(j)' \/ RepairUnderWay(j)'
  BY <1>1 DEF Covered
<1>4. CASE j # i
  <2>1. /\ stream'[j] = stream[j] /\ (wire'[j] <=> wire[j]) /\ (hints'[j] <=> hints[j])
        /\ (errs'[j] <=> errs[j]) /\ forwarder'[j] = forwarder[j]
    BY <1>4 DEF TypeOK, Subscribe, StreamEnds, ForwardHint, ForwardErr, ReadEvent
  <2> QED
    BY <1>1, <1>2, <2>1 DEF HintUnderWay, RepairUnderWay
<1>5. CASE j = i /\ Subscribe(i)
  BY <1>1, <1>2, <1>5 DEF HintUnderWay, RepairUnderWay, Subscribe
<1>6. CASE j = i /\ StreamEnds(i)
  <2>1. forwarder[i] # "off" /\ stream'[i] = "ended" /\ UNCHANGED forwarder
    BY <1>6 DEF TypeOK, Lifecycle, StreamEnds
  <2>2. forwarder'[i] \in {"select", "hint", "err"}
    BY <2>1 DEF TypeOK
  <2> QED
    BY <1>6, <2>1, <2>2 DEF HintUnderWay, RepairUnderWay
<1>7. CASE j = i /\ ForwardHint(i)
  BY <1>7 DEF HintUnderWay, ForwardHint, TypeOK
<1>8. CASE j = i /\ ForwardErr(i)
  BY <1>8 DEF HintUnderWay, ForwardErr, TypeOK
<1>9. CASE j = i /\ ReadEvent(i)
  <2>1. forwarder[i] # "off" /\ UNCHANGED forwarder /\ hints'[i]
    BY <1>9 DEF TypeOK, Lifecycle, ReadEvent
  <2> QED
    BY <1>9, <2>1 DEF HintUnderWay
<1> QED
  BY <1>4, <1>5, <1>6, <1>7, <1>8, <1>9

LEMMA CoveredSend ==
  ASSUME TypeOK, NEW i \in Sources, NEW j \in Sources, Lifecycle(i), Covered(j),
         Send(i) \/ AskReconnect(i)
  PROVE  Covered(j)'
<1>1. UNCHANGED <<pc, next, heard, stream, wire, hints, errs, pending, timer>>
  BY DEF Send, AskReconnect, goroutines, world
<1>2. PICK e \in Events :
        /\ events' = Append(events, e) /\ e.source = i
        /\ \/ Send(i) /\ e.kind = forwarder[i]
           \/ AskReconnect(i) /\ e.kind = "reconnect"
  BY DEF Send, AskReconnect, Event, Events, Kinds
<1>3. \A K : Queued(j, K)' <=> Queued(j, K) \/ (i = j /\ e.kind \in K)
  BY <1>2, QueuedAppended, TypesAre DEF LoopTypes
<1>4. SUFFICES HintUnderWay(j) \/ RepairUnderWay(j) => HintUnderWay(j)' \/ RepairUnderWay(j)'
  BY <1>1 DEF Covered
<1>5. CASE j # i
  <2>1. forwarder'[j] = forwarder[j] /\ sleeping'[j] = sleeping[j]
    BY <1>5 DEF TypeOK, Send, AskReconnect, goroutines
  <2> QED
    BY <1>1, <1>3, <1>5, <2>1 DEF HintUnderWay, RepairUnderWay
<1>6. CASE j = i /\ Send(i) /\ e.kind = forwarder[i]
  <2>1. CASE forwarder[i] = "hint"
    BY <1>3, <1>6, <2>1 DEF HintUnderWay
  <2>2. CASE forwarder[i] = "err"
    <3>1. ~pending[i]
      BY <2>2, ReconnectEnds DEF Lifecycle
    <3> QED
      BY <1>1, <1>3, <1>6, <2>2, <3>1 DEF RepairUnderWay
  <2> QED
    BY <1>6, <2>1, <2>2 DEF Send
<1>7. CASE j = i /\ AskReconnect(i) /\ e.kind = "reconnect"
  BY <1>3, <1>7 DEF RepairUnderWay
<1> QED
  BY <1>2, <1>5, <1>6, <1>7

LEMMA CoveredChange ==
  ASSUME TypeOK, NEW i \in Sources, NEW j \in Sources, Covered(j), Change(i)
  PROVE  Covered(j)'
<1>1. UNCHANGED <<pc, next, stream, hints, errs, forwarder, events, sleeping, pending, timer>>
  BY DEF Change, loop
<1>2. \A K : Queued(j, K)' <=> Queued(j, K)
  BY <1>1, QueueKept
<1>3. wire[j] => wire'[j]
  BY DEF Change, TypeOK
<1>4. HintUnderWay(j) \/ RepairUnderWay(j) => HintUnderWay(j)' \/ RepairUnderWay(j)'
  BY <1>1, <1>2, <1>3 DEF HintUnderWay, RepairUnderWay
<1>5. CASE j \in heard
  BY <1>1, <1>4, <1>5 DEF Covered
<1>6. CASE j \notin heard /\ j \in heard'
  <2>1. j = i /\ wire'[i]
    BY <1>6 DEF Change, TypeOK
  <2> QED
    BY <2>1 DEF Covered, HintUnderWay
<1> QED
  BY <1>5, <1>6 DEF Covered

LEMMA CoveredNext ==
  ASSUME TypeOK, NEW j \in Sources, \A i \in Sources : Lifecycle(i), Covered(j), [Next]_vars
  PROVE  Covered(j)'
<1>1. CASE End
  BY <1>1 DEF End, Covered
<1>2. CASE PassStep
  BY <1>2, CoveredPassStep
<1>3. CASE Idle
  BY <1>3, CoveredIdle
<1>4. CASE StartupDone
  BY <1>4, PassCovers DEF StartupDone, BeginPass
<1>5. CASE \E i \in Sources : HandleHint(i) \/ HandleErr(i) \/ HandleReconnect(i)
  BY <1>5, CoveredHandle
<1>6. CASE \E i \in Sources :
             Subscribe(i) \/ StreamEnds(i) \/ ForwardHint(i) \/ ForwardErr(i) \/ ReadEvent(i)
  BY <1>6, CoveredStream
<1>7. CASE \E i \in Sources : Send(i) \/ AskReconnect(i)
  BY <1>7, CoveredSend
<1>8. CASE \E i \in Sources : Change(i)
  BY <1>8, CoveredChange
<1> QED
  BY <1>1, <1>2, <1>3, <1>4, <1>5, <1>6, <1>7, <1>8, Steps DEF Aside

-----------------------------------------------------------------------------
(* The theorems *)

LEMMA InitIInv == Init => IInv
<1> SUFFICES ASSUME Init PROVE IInv
  OBVIOUS
<1>1. TypeOK
  BY InitTypes
<1>2. Fresh
  BY DEF Init, Fresh
<1>3. \A j \in Sources : Lifecycle(j)
  BY <1>2, FreshLifecycle
<1> QED
  BY <1>1, <1>2, <1>3 DEF IInv, NotWatching, DelayOK, Covered, Init

LEMMA NextIInv == IInv /\ [Next]_vars => IInv'
<1> SUFFICES ASSUME IInv, [Next]_vars PROVE IInv'
  OBVIOUS
<1>1. TypeOK /\ NotWatching /\ \A j \in Sources : Lifecycle(j) /\ DelayOK(j) /\ Covered(j)
  BY DEF IInv
<1>2. TypeOK'
  BY <1>1, NextTypes
<1>3. NotWatching'
  BY <1>1, NotWatchingNext
<1>4. (\A j \in Sources : Lifecycle(j))'
  BY <1>1, LifecycleNext
<1>5. ASSUME NEW j \in Sources PROVE DelayOK(j)'
  BY <1>1, DelayNext
<1>6. ASSUME NEW j \in Sources PROVE Covered(j)'
  BY <1>1, CoveredNext
<1> QED
  BY <1>2, <1>3, <1>4, <1>5, <1>6 DEF IInv

LEMMA IInvHolds == Spec => []IInv
BY InitIInv, NextIInv, PTL DEF Spec

(***************************************************************************)
(* Whatever the goroutines drop or lose, a change that a live stream       *)
(* reported is followed by a pass that lists its source, or the process    *)
(* is gone: something that leads there is under way until then.            *)
(***************************************************************************)
THEOREM NothingForgotten == Spec => []ReportedIsCovered
<1>1. IInv => ReportedIsCovered
  BY DEF IInv, Covered, ReportedIsCovered, TypeOK
<1> QED
  BY <1>1, IInvHolds, PTL

(***************************************************************************)
(* While a reconnect of a source is asked for, both goroutines of its      *)
(* broken watch are gone, so startSourceWatch never starts a second one.   *)
(***************************************************************************)
THEOREM WatchedOnce == Spec => []NoSecondWatch
<1>1. IInv => NoSecondWatch
  BY ReconnectEnds DEF IInv, Lifecycle, NoSecondWatch
<1> QED
  BY <1>1, IInvHolds, PTL

(***************************************************************************)
(* A watched source has an undoubled reconnect delay whenever the main     *)
(* loop waits for events: the repair pass has always reset it.  That no    *)
(* reconnect backs off (BacksOff) is thus no accident of the instance.     *)
(***************************************************************************)
THEOREM DelayStays == Spec => []NeverBacksOff
<1>1. ASSUME IInv, NEW i \in Sources, forwarder[i] # "off", pc = "select"
      PROVE  doublings[i] = 0
  <2>1. ~sleeping[i] /\ ~Queued(i, {"reconnect"})
    BY <1>1, ReconnectEnds DEF IInv, Lifecycle
  <2> QED
    BY <1>1, <2>1 DEF IInv, DelayOK
<1>2. IInv => NeverBacksOff
  BY <1>1 DEF NeverBacksOff
<1> QED
  BY <1>2, IInvHolds, PTL
=============================================================================
