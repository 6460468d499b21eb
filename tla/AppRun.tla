------------------------------- MODULE AppRun -------------------------------
(***************************************************************************)
(* One run of the daemon after the other, from the command line to the     *)
(* exit status: loading and checking the configuration, the first passes,  *)
(* the retries of a pass with their backoff, the wait for the next one,    *)
(* signals, and the supervisor that starts a failed process again.         *)
(*                                                                         *)
(* A pass is one attempt after the other.  What an attempt does is the     *)
(* matter of Reconciler; here it takes some time and ends well or in an    *)
(* error.  Time is counted in units, within a pass only.                   *)
(***************************************************************************)
EXTENDS Configuration, Failures

CONSTANTS
  Files,      \* the configuration files a run may find
  Envs,       \* the environments it may be started in
  MaxAttempt  \* bound: time an attempt may take

\* What Load finds at the path of -config.
Readings == {"noPath", "noFile", "garbled", "unknownKeys", "whole"}

ASSUME FilesAssumption == Files \subseteq [reading : Readings, config : Configs]
ASSUME EnvsAssumption == \A env \in Envs : DOMAIN env \subseteq Names /\ \A n \in DOMAIN env : env[n] \in Texts
ASSUME AttemptAssumption == MaxAttempt \in Nat

VARIABLES
  file,      \* the configuration file
  env,       \* the environment of the process
  phase,     \* where the process is
  config,    \* the configuration the process holds
  retry,     \* its retry policy
  timeout,   \* its operation timeout
  reason,    \* what the pass is for
  since,     \* time since the pass began
  delay,     \* the next delay of the pass
  stopping,  \* a signal has come
  status,    \* of the process that ended: "ok", "failed", "none"
  cause,     \* what it failed for
  calm,      \* services and disk have stopped failing
  doubled    \* an output has one of its records twice

start == <<config, retry, timeout>>
pass == <<reason, since, delay>>
world == <<file, env, stopping, calm, doubled>>
vars == <<phase, start, pass, status, cause, world>>

Starting == {"load", "validate", "secrets", "deps", "store", "build"}
Passing == {"attempt", "backoff"}
Phases == Starting \cup Passing \cup {"waiting", "exited"}

Reasons == {"startup", "watch_startup_handoff", "watch_hint"}
Causes == {"none", "config", "state", "ambiguous"} \cup Events

NoPolicy == [initial |-> 0, max |-> 0, window |-> 0]

Init ==
  /\ file \in Files /\ env \in Envs
  /\ phase = "load" /\ config = file.config
  /\ retry = NoPolicy /\ timeout = 0
  /\ reason = "startup" /\ since = 0 /\ delay = 0
  /\ stopping = FALSE /\ status = "none" /\ cause = "none"
  /\ calm = FALSE /\ doubled = FALSE

Exit(s, why) == phase' = "exited" /\ status' = s /\ cause' = why

GoTo(p) == phase' = p /\ UNCHANGED <<status, cause>>

-----------------------------------------------------------------------------
(* The start: each step goes on or ends the process. *)

Load ==
  /\ phase = "load"
  /\ IF file.reading = "whole" THEN GoTo("validate") ELSE Exit("failed", "config")
  /\ UNCHANGED <<start, pass, world>>

CheckConfig ==
  /\ phase = "validate"
  /\ IF Validate(config) THEN GoTo("secrets") ELSE Exit("failed", "config")
  /\ UNCHANGED <<start, pass, world>>

Resolve ==
  /\ phase = "secrets"
  /\ IF Resolvable(config, env)
     THEN GoTo("deps") /\ config' = ResolveSecrets(config, env)
     ELSE Exit("failed", "config") /\ UNCHANGED config
  /\ UNCHANGED <<retry, timeout, pass, world>>

NewRuntimeDeps ==
  /\ phase = "deps"
  /\ IF Parses(config)
     THEN GoTo("store") /\ retry' = RetryPolicy(config) /\ timeout' = OperationTimeout(config)
     ELSE Exit("failed", "config") /\ UNCHANGED <<retry, timeout>>
  /\ UNCHANGED <<config, pass, world>>

NewStore ==
  /\ phase = "store"
  /\ \/ GoTo("build")
     \/ ~calm /\ Exit("failed", "state")
  /\ UNCHANGED <<start, pass, world>>

BeginPass(why) ==
  /\ GoTo("attempt")
  /\ reason' = why /\ since' = 0 /\ delay' = retry.initial

BuildProviders ==
  /\ phase = "build"
  /\ IF Buildable(config) THEN BeginPass("startup") ELSE Exit("failed", "config") /\ UNCHANGED pass
  /\ UNCHANGED <<start, world>>

-----------------------------------------------------------------------------
(* Passes *)

nextBackoffDelay(d) ==
  IF d <= 0 THEN 0
  ELSE IF retry.max > 0 /\ (d > retry.max \/ 2 * d > retry.max) THEN retry.max
  ELSE 2 * d

Kinds ==
  {config.sources[i].type : i \in DOMAIN config.sources}
  \cup {o.type : o \in {config.outputs[i] : i \in {j \in DOMAIN config.outputs : config.outputs[j].enabled}}}

\* A pass that lists an output with a doubled record is abandoned.
Ambiguous == doubled /\ \E i \in DOMAIN config.outputs : config.outputs[i].enabled

\* The startup pass is followed by the watches and the handoff pass.
AttemptSucceeds ==
  /\ phase = "attempt" /\ ~Ambiguous
  /\ IF reason = "startup" THEN BeginPass("watch_startup_handoff")
     ELSE GoTo("waiting") /\ reason' = reason /\ since' = 0 /\ delay' = 0
  /\ UNCHANGED <<start, world>>

\* Wrong variant: the delay is not counted.
AttemptInWindow(d) == since + d <= retry.window

\* The next attempt would begin in time.
NextInWindow(d) == since + d + delay <= retry.window

\* A call on a provider fails, d after the attempt began.
CallFails(kind, event, d) ==
  /\ phase = "attempt" /\ ~calm
  /\ event = "deadline" => d >= timeout
  /\ IF stopping THEN Exit("ok", "none")
     ELSE IF isTemporaryError(kind, event) /\ NextInWindow(d)
     THEN GoTo("backoff")
     ELSE Exit("failed", event)
  /\ since' = since + d
  /\ UNCHANGED <<start, reason, delay, world>>

\* Wrong variant: a cancelled call is a failure like any other.
CallCancelledFails ==
  /\ phase = "attempt" /\ stopping
  /\ Exit("failed", "none")
  /\ UNCHANGED <<start, pass, world>>

\* The signal ends the context of a call.
CallCancelled ==
  /\ phase = "attempt" /\ stopping
  /\ Exit("ok", "none")
  /\ UNCHANGED <<start, pass, world>>

\* The snapshot cannot be loaded or saved.
StateFails ==
  /\ phase = "attempt" /\ ~calm
  /\ IF stopping THEN Exit("ok", "none") ELSE Exit("failed", "state")
  /\ UNCHANGED <<start, pass, world>>

\* Wrong variant: nothing to be done about it, so the process ends well.
FindAmbiguityQuietly ==
  /\ phase = "attempt" /\ Ambiguous
  /\ Exit("ok", "ambiguous")
  /\ UNCHANGED <<start, pass, world>>

\* ErrVisibleRecordAmbiguous is no temporary error.
FindAmbiguity ==
  /\ phase = "attempt" /\ Ambiguous
  /\ IF stopping THEN Exit("ok", "none") ELSE Exit("failed", "ambiguous")
  /\ UNCHANGED <<start, pass, world>>

AttemptFails ==
  \/ \E kind \in Kinds, event \in Events, d \in 0..MaxAttempt : CallFails(kind, event, d)
  \/ CallCancelled
  \/ StateFails
  \/ FindAmbiguity

SleepEnds ==
  /\ phase = "backoff"
  /\ GoTo("attempt")
  /\ since' = since + delay /\ delay' = nextBackoffDelay(delay)
  /\ UNCHANGED <<start, reason, world>>

\* Wrong variant: the interrupted sleep is reported as a failure.
SleepInterruptedFails ==
  /\ phase = "backoff" /\ stopping
  /\ Exit("failed", "none")
  /\ UNCHANGED <<start, pass, world>>

SleepInterrupted ==
  /\ phase = "backoff" /\ stopping
  /\ Exit("ok", "none")
  /\ UNCHANGED <<start, pass, world>>

-----------------------------------------------------------------------------
(* The wait of runSteadyState *)

\* A hint after its debounce, or a reconnected watch.
Hint ==
  /\ phase = "waiting"
  /\ BeginPass("watch_hint")
  /\ UNCHANGED <<start, world>>

Stop ==
  /\ phase = "waiting" /\ stopping
  /\ Exit("ok", "none")
  /\ UNCHANGED <<start, pass, world>>

-----------------------------------------------------------------------------
(* The world *)

Signal ==
  /\ phase # "exited" /\ ~stopping
  /\ stopping' = TRUE
  /\ UNCHANGED <<phase, start, pass, status, cause, file, env, calm, doubled>>

\* Restart=on-failure of the unit file.
Restart ==
  /\ phase = "exited" /\ status = "failed"
  /\ phase' = "load" /\ config' = file.config /\ retry' = NoPolicy /\ timeout' = 0
  /\ reason' = "startup" /\ since' = 0 /\ delay' = 0
  /\ stopping' = FALSE /\ status' = "none" /\ cause' = "none"
  /\ UNCHANGED <<file, env, calm, doubled>>

CalmDown ==
  /\ ~calm /\ calm' = TRUE
  /\ UNCHANGED <<phase, start, pass, status, cause, file, env, stopping, doubled>>

\* An operator doubles a record of an output, or clears the double away.
Doubling ==
  /\ doubled' = ~doubled
  /\ UNCHANGED <<phase, start, pass, status, cause, file, env, stopping, calm>>

Startup == Load \/ CheckConfig \/ Resolve \/ NewRuntimeDeps \/ NewStore \/ BuildProviders
Attempt == AttemptSucceeds \/ AttemptFails
Sleep == SleepEnds \/ SleepInterrupted

Next ==
  \/ Startup \/ Attempt \/ Sleep \/ Hint \/ Stop \/ Signal \/ Restart
  \/ CalmDown \/ Doubling

Spec == Init /\ [][Next]_vars

(***************************************************************************)
(* Every call ends, by the operation timeout at the latest, and every      *)
(* sleep; the select of the wait chooses among what is ready at random, so *)
(* that a signal is not passed over forever; the supervisor restarts.      *)
(***************************************************************************)
FairSpec ==
  /\ Spec
  /\ WF_vars(Startup) /\ WF_vars(Attempt) /\ WF_vars(Sleep) /\ SF_vars(Stop) /\ WF_vars(Restart)
-----------------------------------------------------------------------------
(* Properties *)

\* Every variable has its type.
TypeOK ==
  /\ file \in Files /\ env \in Envs
  /\ phase \in Phases /\ reason \in Reasons
  /\ config \in Configs /\ retry \in RetryPolicies /\ timeout \in Int
  /\ since \in Nat /\ delay \in Nat
  /\ stopping \in BOOLEAN /\ calm \in BOOLEAN /\ doubled \in BOOLEAN
  /\ status \in {"none", "ok", "failed"} /\ cause \in Causes

Serving == phase \in Passing \cup {"waiting"}

\* What a provider of this configuration needs to make a call.
Callable(o) ==
  \/ o.type = "adguard" /\ ~Blank(o.url) /\ ~Blank(o.username) /\ ~Blank(o.password)
  \/ o.type = "cloudflare" /\ ~Blank(o.zone_id) /\ ~Blank(o.api_key)

(***************************************************************************)
(* A process that makes passes has read a whole file, its providers have   *)
(* all that their calls need, the secrets it was given references to       *)
(* included, and none of its durations is zero or negative: validation,    *)
(* resolution, parsing and construction look at the same texts in          *)
(* different ways, and only together they see to that.                     *)
(***************************************************************************)
StartedSound ==
  Serving =>
    /\ file.reading = "whole"
    /\ config.sources # << >>
    /\ \A i \in DOMAIN config.sources :
         config.sources[i].type = "docker" /\ config.sources[i].endpoint \in Dialable
    /\ \A i \in DOMAIN config.outputs : config.outputs[i].enabled => Callable(config.outputs[i])
    /\ retry.initial > 0 /\ retry.max > 0 /\ retry.window > 0 /\ timeout > 0

(***************************************************************************)
(* No attempt of a pass begins later than max_elapsed_time after the pass  *)
(* did, however the delays have grown, and there is a pause before each.   *)
(***************************************************************************)
RetriesInWindow ==
  /\ phase \in Passing => delay > 0
  /\ phase = "backoff" => since + delay <= retry.window
  /\ phase = "attempt" => since <= retry.window

\* An error of this kind ends a pass only when the next attempt would be late.
RetriedWithinWindow(events) ==
  cause' # cause /\ cause' \in events => since' + delay > retry.window

(***************************************************************************)
(* A service that answers 408, 429 or 5xx does not end the process as long *)
(* as the retry window is open, whichever provider and whichever call.     *)
(***************************************************************************)
BusyRetried == [][RetriedWithinWindow({"busy"})]_vars

\* The same of a call that ran into the operation timeout.
DeadlineRetried == [][RetriedWithinWindow({"deadline"})]_vars

(***************************************************************************)
(* The exit status tells the supervisor the truth: the process ends well   *)
(* if and only if a signal asked it to while it made or awaited passes.    *)
(***************************************************************************)
ExitStatus ==
  [][phase # "exited" /\ phase' = "exited" =>
       (status' = "ok" <=> stopping /\ phase \notin Starting)]_vars

\* Every pass comes to an end, in an outage that does not end as well.
PassEnds == phase \in Passing ~> phase \in {"waiting", "exited"}

\* A signal to a serving process ends it, and it is not started again.
StaysDown == Serving /\ stopping ~> [](phase = "exited" /\ status = "ok")

Startable ==
  /\ file.reading = "whole" /\ Validate(file.config) /\ Resolvable(file.config, env)
  /\ Parses(file.config) /\ Buildable(file.config)

(***************************************************************************)
(* Once services and disk have stopped failing and no output shows a       *)
(* record twice any more, a process that can start comes to wait for       *)
(* hints, whatever it failed for before: a failure the retries do not      *)
(* cover is one the supervisor gets to see.  (While a record is doubled,   *)
(* every process the supervisor starts fails as ambiguous, calm or not.)   *)
(***************************************************************************)
Recovers == calm /\ Startable /\ []~Ambiguous ~> phase = "waiting" \/ stopping
=============================================================================
