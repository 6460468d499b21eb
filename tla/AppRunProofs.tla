----------------------------- MODULE AppRunProofs -----------------------------
(***************************************************************************)
(* Proofs about the runs of the daemon, for every configuration file,      *)
(* environment and length of attempts.                                     *)
(*                                                                         *)
(* The invariant follows the start step by step: what validation accepted  *)
(* (Validate), what resolution makes of it (Ready), what the parsed retry  *)
(* settings are worth (Positive), and what serving may rely on.            *)
(***************************************************************************)
EXTENDS AppRun, TLAPS

\* An output has what its type, folded, asks for.
Equipped(o) ==
  \/ Fold[o.type] = "adguard" /\ ~Blank(o.url) /\ ~Blank(o.username) /\ ~Blank(o.password)
  \/ Fold[o.type] = "cloudflare" /\ ~Blank(o.zone_id) /\ ~Blank(o.api_key)

Timed(c) ==
  /\ validDuration(c.initial_interval) /\ validDuration(c.max_interval)
  /\ validDuration(c.max_elapsed_time)
  /\ Blank(c.operation_timeout) \/ validDuration(c.operation_timeout)

Ready(c) ==
  /\ c.sources # << >>
  /\ \A i \in DOMAIN c.outputs : c.outputs[i].enabled => Equipped(c.outputs[i])
  /\ Timed(c)

Positive == retry.initial > 0 /\ retry.max > 0 /\ retry.window > 0 /\ timeout > 0

Built == phase \in {"store", "build"} \cup Passing \cup {"waiting"}

StartInv ==
  /\ phase \in Phases \ {"load", "exited"} => file.reading = "whole"
  /\ phase = "secrets" => Validate(config)
  /\ phase = "deps" \/ Built => Ready(config)
  /\ Built => Positive
  /\ Serving => Buildable(config)

Inv == TypeOK /\ StartInv /\ RetriesInWindow

-----------------------------------------------------------------------------
(* Lemmas about the configuration *)

LEMMA ResolvedOutput ==
  ASSUME NEW o \in OutputConfigs, NEW e \in Envs,
         resolves(o.password_ref, e), resolves(o.api_key_ref, e)
  PROVE  LET p == resolveAPIKey(resolvePassword(o, e), e)
         IN /\ p \in OutputConfigs
            /\ p.enabled = o.enabled /\ p.type = o.type /\ p.url = o.url
            /\ p.username = o.username /\ p.zone_id = o.zone_id
            /\ ~Blank(o.password) \/ ~Blank(o.password_ref) => ~Blank(p.password)
            /\ ~Blank(o.api_key) \/ ~Blank(o.api_key_ref) => ~Blank(p.api_key)
<1> DEFINE q == resolvePassword(o, e)
           p == resolveAPIKey(q, e)
<1>1. ASSUME NEW ref \in Texts, resolves(ref, e), ~Blank(ref)
      PROVE  secret(ref, e) \in Texts /\ ~Blank(secret(ref, e))
  BY <1>1, EnvsAssumption, TextAssumption DEF resolves, secret
<1>2. Empty \in Texts
  BY TextAssumption
<1>3. /\ q \in OutputConfigs /\ q.api_key = o.api_key /\ q.api_key_ref = o.api_key_ref
      /\ q.enabled = o.enabled /\ q.type = o.type /\ q.url = o.url
      /\ q.username = o.username /\ q.zone_id = o.zone_id
      /\ ~Blank(o.password) \/ ~Blank(o.password_ref) => ~Blank(q.password)
  <2>1. CASE Blank(o.password_ref)
    BY <2>1 DEF resolvePassword
  <2>2. CASE ~Blank(o.password_ref)
    BY <1>1, <1>2, <2>2 DEF resolvePassword, OutputConfigs
  <2> QED
    BY <2>1, <2>2
<1>4. /\ p \in OutputConfigs /\ p.password = q.password
      /\ p.enabled = q.enabled /\ p.type = q.type /\ p.url = q.url
      /\ p.username = q.username /\ p.zone_id = q.zone_id
      /\ ~Blank(q.api_key) \/ ~Blank(q.api_key_ref) => ~Blank(p.api_key)
  <2>1. CASE Blank(q.api_key_ref)
    BY <1>3, <2>1 DEF resolveAPIKey
  <2>2. CASE ~Blank(q.api_key_ref)
    BY <1>1, <1>2, <1>3, <2>2 DEF resolveAPIKey, OutputConfigs
  <2> QED
    BY <2>1, <2>2
<1> QED
  BY <1>3, <1>4

LEMMA ResolvedType ==
  ASSUME NEW c \in Configs, NEW e \in Envs, Resolvable(c, e)
  PROVE  ResolveSecrets(c, e) \in Configs
<1> DEFINE n == Len(c.outputs)
           new(o) == resolveAPIKey(resolvePassword(o, e), e)
           res == [i \in DOMAIN c.outputs |->
                     IF c.outputs[i].enabled THEN new(c.outputs[i]) ELSE c.outputs[i]]
<1>1. c.outputs \in Seq(OutputConfigs) /\ n \in Nat /\ DOMAIN c.outputs = 1..n
      /\ \A i \in 1..n : c.outputs[i] \in OutputConfigs
  BY DEF Configs
<1>2. ASSUME NEW i \in 1..n PROVE res[i] \in OutputConfigs
  <2>1. CASE c.outputs[i].enabled
    BY <1>1, <2>1, ResolvedOutput DEF Resolvable
  <2>2. CASE ~c.outputs[i].enabled
    BY <1>1, <2>2
  <2> QED
    BY <2>1, <2>2
<1> HIDE DEF new
<1>3. res \in Seq(OutputConfigs)
  <2>1. res \in [1..n -> OutputConfigs]
    BY <1>1, <1>2
  <2> HIDE DEF res
  <2> QED
    BY <1>1, <2>1
<1>4. ResolveSecrets(c, e) = [c EXCEPT !.outputs = res]
  BY DEF ResolveSecrets, new
<1> QED
  BY <1>3, <1>4 DEF Configs

LEMMA ResolvedReady ==
  ASSUME NEW c \in Configs, NEW e \in Envs, Validate(c), Resolvable(c, e)
  PROVE  Ready(ResolveSecrets(c, e))
<1> DEFINE r == ResolveSecrets(c, e)
           new(o) == resolveAPIKey(resolvePassword(o, e), e)
<1>1. /\ r.outputs = [i \in DOMAIN c.outputs |->
                       IF c.outputs[i].enabled THEN new(c.outputs[i]) ELSE c.outputs[i]]
      /\ r.sources = c.sources
      /\ r.initial_interval = c.initial_interval /\ r.max_interval = c.max_interval
      /\ r.max_elapsed_time = c.max_elapsed_time /\ r.operation_timeout = c.operation_timeout
  BY DEF ResolveSecrets, Configs
<1> HIDE DEF r
<1>2. Timed(r) /\ r.sources # << >>
  BY <1>1 DEF Validate, Timed
<1>3. ASSUME NEW i \in DOMAIN r.outputs, r.outputs[i].enabled PROVE Equipped(r.outputs[i])
  <2> DEFINE o == c.outputs[i]
  <2>1. i \in DOMAIN c.outputs /\ o \in OutputConfigs
    BY <1>1 DEF Configs
  <2>2. CASE ~o.enabled
    BY <1>1, <1>3, <2>1, <2>2
  <2>3. CASE o.enabled
    <3> DEFINE p == new(o)
    <3>1. r.outputs[i] = p
      BY <1>1, <2>1, <2>3
    <3>2. resolves(o.password_ref, e) /\ resolves(o.api_key_ref, e)
      BY <2>1, <2>3 DEF Resolvable
    <3>3. validAdGuard(o) \/ validCloudflare(o)
      BY <2>1, <2>3 DEF Validate, validOutput
    <3>4. /\ p.type = o.type /\ p.url = o.url
          /\ p.username = o.username /\ p.zone_id = o.zone_id
          /\ ~Blank(o.password) \/ ~Blank(o.password_ref) => ~Blank(p.password)
          /\ ~Blank(o.api_key) \/ ~Blank(o.api_key_ref) => ~Blank(p.api_key)
      BY <2>1, <3>2, ResolvedOutput
    <3> HIDE DEF new
    <3> QED
      BY <3>1, <3>3, <3>4 DEF Equipped, validAdGuard, validCloudflare
  <2> QED
    BY <2>2, <2>3
<1> QED
  BY <1>1, <1>2, <1>3 DEF Ready, r

LEMMA ParsedPositive ==
  ASSUME NEW c \in Configs, Timed(c), Parses(c)
  PROVE  /\ RetryPolicy(c) \in RetryPolicies /\ OperationTimeout(c) \in Int
         /\ RetryPolicy(c).initial > 0 /\ RetryPolicy(c).max > 0 /\ RetryPolicy(c).window > 0
         /\ OperationTimeout(c) > 0
<1>1. ASSUME NEW t \in DOMAIN ParseDuration, validDuration(t)
      PROVE  ParseDuration[t] \in Int /\ ParseDuration[t] > 0
  BY <1>1, TextAssumption DEF validDuration
<1>2. OperationTimeout(c) \in Int /\ OperationTimeout(c) > 0
  BY TextAssumption DEF OperationTimeout, Timed, validDuration
<1> QED
  BY <1>1, <1>2 DEF Timed, Parses, RetryPolicy, RetryPolicies
-----------------------------------------------------------------------------
(* The invariant *)

LEMMA FileConfig == \A f \in Files : f.config \in Configs
BY FilesAssumption

LEMMA InitInv == Init => Inv
<1> SUFFICES ASSUME Init PROVE Inv
  OBVIOUS
<1>1. config \in Configs
  BY FileConfig DEF Init
<1>2. retry \in RetryPolicies
  BY DEF Init, NoPolicy, RetryPolicies
<1>3. stopping \in BOOLEAN /\ calm \in BOOLEAN /\ doubled \in BOOLEAN
  BY Zenon DEF Init
<1>4. phase \in Phases /\ reason \in Reasons /\ timeout \in Int /\ since \in Nat /\ delay \in Nat
      /\ status \in {"none", "ok", "failed"} /\ cause \in Causes
  BY DEF Init, Phases, Starting, Reasons, Causes
<1>5. TypeOK
  BY <1>1, <1>2, <1>3, <1>4 DEF Init, TypeOK
<1> QED
  BY <1>5 DEF Init, Inv, StartInv, RetriesInWindow, Passing, Serving, Built

\* A process that ends, and a world that changes around it.
LEMMA ExitInv ==
  ASSUME Inv, NEW s \in {"ok", "failed"}, NEW why \in Causes, Exit(s, why),
         UNCHANGED <<start, file, env, calm, doubled>>, stopping' \in BOOLEAN,
         reason' = reason, since' \in Nat, delay' = delay
  PROVE  Inv'
BY DEF Inv, TypeOK, StartInv, RetriesInWindow, Exit, start, Phases, Starting, Passing, Serving, Built

LEMMA BeginInv ==
  ASSUME Inv, NEW why \in Reasons, BeginPass(why), UNCHANGED <<start, world>>,
         Positive, Ready(config), Buildable(config), file.reading = "whole"
  PROVE  Inv'
BY DEF Inv, TypeOK, StartInv, RetriesInWindow, BeginPass, GoTo, start, world, Phases, Starting,
       Passing, Serving, Built, Positive, RetryPolicies

LEMMA StartupInv == Inv /\ Startup => Inv'
<1> SUFFICES ASSUME Inv, Startup PROVE Inv'
  OBVIOUS
<1> USE DEF Phases, Starting, Passing, Serving, Built
<1>1. CASE Load \/ CheckConfig
  <2>1. CASE phase' = "exited"
    BY <1>1, <2>1, ExitInv DEF Load, CheckConfig, GoTo, Exit, start, pass, world, Causes, Inv, TypeOK
  <2>2. CASE phase' # "exited"
    <3>1. TypeOK' /\ RetriesInWindow'
      BY <1>1, <2>2
      DEF Load, CheckConfig, GoTo, Exit, start, pass, world, Inv, TypeOK, RetriesInWindow
    <3>2. StartInv'
      BY <1>1, <2>2 DEF Load, CheckConfig, GoTo, Exit, start, pass, world, Inv, StartInv
    <3> QED
      BY <3>1, <3>2 DEF Inv
  <2> QED
    BY <2>1, <2>2
<1>2. CASE Resolve
  <2>1. CASE Resolvable(config, env)
    <3>1. config' \in Configs /\ Ready(config')
      BY <1>2, <2>1, ResolvedType, ResolvedReady DEF Resolve, Inv, TypeOK, StartInv
    <3>2. TypeOK' /\ RetriesInWindow'
      BY <1>2, <2>1, <3>1
      DEF Resolve, GoTo, pass, world, Inv, TypeOK, RetriesInWindow
    <3>3. StartInv'
      BY <1>2, <2>1, <3>1 DEF Resolve, GoTo, world, Inv, StartInv
    <3> QED
      BY <3>2, <3>3 DEF Inv
  <2>2. CASE ~Resolvable(config, env)
    BY <1>2, <2>2, ExitInv DEF Resolve, start, pass, world, Causes, Inv, TypeOK
  <2> QED
    BY <2>1, <2>2
<1>3. CASE NewRuntimeDeps
  <2>1. CASE Parses(config)
    <3>1. Timed(config) /\ config \in Configs
      BY <1>3 DEF NewRuntimeDeps, Inv, TypeOK, StartInv, Ready
    <3>2. retry' \in RetryPolicies /\ timeout' \in Int /\ Positive'
      BY <1>3, <2>1, <3>1, ParsedPositive DEF NewRuntimeDeps, Positive
    <3>3. TypeOK' /\ RetriesInWindow'
      BY <1>3, <2>1, <3>2
      DEF NewRuntimeDeps, GoTo, pass, world, Inv, TypeOK, RetriesInWindow
    <3>4. StartInv'
      BY <1>3, <2>1, <3>2 DEF NewRuntimeDeps, GoTo, world, Inv, StartInv, Ready, Timed,
        Equipped, Blank, validDuration
    <3> QED
      BY <3>3, <3>4 DEF Inv
  <2>2. CASE ~Parses(config)
    BY <1>3, <2>2, ExitInv DEF NewRuntimeDeps, start, pass, world, Causes, Inv, TypeOK
  <2> QED
    BY <2>1, <2>2
<1>4. CASE NewStore
  <2>1. CASE GoTo("build")
    <3>1. TypeOK' /\ RetriesInWindow'
      BY <1>4, <2>1 DEF NewStore, GoTo, start, pass, world, Inv, TypeOK, RetriesInWindow
    <3>2. StartInv'
      BY <1>4, <2>1 DEF NewStore, GoTo, start, pass, world, Inv, StartInv, Positive
    <3> QED
      BY <3>1, <3>2 DEF Inv
  <2>2. CASE Exit("failed", "state")
    BY <1>4, <2>2, ExitInv DEF NewStore, start, pass, world, Causes, Inv, TypeOK
  <2> QED
    BY <1>4, <2>1, <2>2 DEF NewStore
<1>5. CASE BuildProviders
  <2>1. CASE Buildable(config)
    BY <1>5, <2>1, BeginInv DEF BuildProviders, Reasons, Inv, StartInv
  <2>2. CASE ~Buildable(config)
    BY <1>5, <2>2, ExitInv DEF BuildProviders, start, pass, world, Causes, Inv, TypeOK
  <2> QED
    BY <2>1, <2>2
<1> QED
  BY <1>1, <1>2, <1>3, <1>4, <1>5 DEF Startup

LEMMA ServingFacts ==
  ASSUME Inv, Serving
  PROVE  Positive /\ Ready(config) /\ Buildable(config) /\ file.reading = "whole"
BY DEF Inv, TypeOK, StartInv, Serving, Built, Phases, Starting, Passing

LEMMA AttemptInv == Inv /\ Attempt => Inv'
<1> SUFFICES ASSUME Inv, Attempt PROVE Inv'
  OBVIOUS
<1>0. phase = "attempt"
  BY DEF Attempt, AttemptSucceeds, AttemptFails, CallFails, CallCancelled, StateFails,
         FindAmbiguity
<1>1. Positive /\ Ready(config) /\ Buildable(config) /\ file.reading = "whole"
  BY <1>0, ServingFacts DEF Serving, Passing
<1>2. CASE AttemptSucceeds
  <2>1. CASE reason = "startup"
    BY <1>1, <1>2, <2>1, BeginInv DEF AttemptSucceeds, Reasons
  <2>2. CASE reason # "startup"
    <3>1. TypeOK' /\ RetriesInWindow'
      BY <1>2, <2>2
      DEF AttemptSucceeds, GoTo, start, world, Inv, TypeOK, RetriesInWindow, Phases, Starting, Passing
    <3>2. StartInv'
      BY <1>1, <1>2, <2>2
      DEF AttemptSucceeds, GoTo, start, world, StartInv, Serving, Built, Phases, Starting, Passing,
          Positive
    <3> QED
      BY <3>1, <3>2 DEF Inv
  <2> QED
    BY <2>1, <2>2
<1>3. ASSUME NEW kind \in Kinds, NEW event \in Events, NEW d \in 0..MaxAttempt,
             CallFails(kind, event, d)
      PROVE  Inv'
  <2>1. since' \in Nat /\ since' = since + d
    BY <1>3, AttemptAssumption DEF CallFails, Inv, TypeOK
  <2>2. CASE GoTo("backoff")
    <3>1. NextInWindow(d)
      BY <1>3, <2>2 DEF CallFails, GoTo, Exit
    <3>2. TypeOK'
      BY <1>3, <2>1, <2>2
      DEF CallFails, GoTo, start, world, Inv, TypeOK, Phases, Passing
    <3>3. RetriesInWindow'
      BY <1>0, <1>3, <2>1, <2>2, <3>1, AttemptAssumption
      DEF CallFails, GoTo, NextInWindow, start, Inv, TypeOK, RetriesInWindow, Passing, RetryPolicies
    <3>4. StartInv'
      BY <1>1, <1>3, <2>2
      DEF CallFails, GoTo, start, world, StartInv, Serving, Built, Phases, Starting, Passing, Positive
    <3> QED
      BY <3>2, <3>3, <3>4 DEF Inv
  <2>3. CASE Exit("ok", "none") \/ Exit("failed", event)
    BY <1>3, <2>1, <2>3, ExitInv DEF CallFails, start, world, Causes, Inv, TypeOK
  <2> QED
    BY <1>3, <2>2, <2>3 DEF CallFails
<1>4. CASE CallCancelled \/ StateFails \/ FindAmbiguity
  BY <1>4, ExitInv DEF CallCancelled, StateFails, FindAmbiguity, start, pass, world, Causes, Inv, TypeOK
<1> QED
  BY <1>2, <1>3, <1>4 DEF Attempt, AttemptFails

LEMMA SleepInv == Inv /\ Sleep => Inv'
<1> SUFFICES ASSUME Inv, Sleep PROVE Inv'
  OBVIOUS
<1>1. CASE SleepEnds
  <2>1. Positive /\ Ready(config) /\ Buildable(config) /\ file.reading = "whole"
    BY <1>1, ServingFacts DEF SleepEnds, Serving, Passing
  <2>2. delay \in Nat /\ delay > 0 /\ since \in Nat /\ since + delay <= retry.window
        /\ retry.max \in Int /\ retry.max > 0
    BY <1>1, <2>1 DEF SleepEnds, Inv, TypeOK, RetriesInWindow, Positive, RetryPolicies, Passing
  <2>3. nextBackoffDelay(delay) \in Nat /\ nextBackoffDelay(delay) > 0
    BY <2>2 DEF nextBackoffDelay
  <2>4. TypeOK' /\ RetriesInWindow'
    BY <1>1, <2>2, <2>3
    DEF SleepEnds, GoTo, start, world, Inv, TypeOK, RetriesInWindow, Phases, Passing
  <2>5. StartInv'
    BY <1>1, <2>1
    DEF SleepEnds, GoTo, start, world, StartInv, Serving, Built, Phases, Starting, Passing, Positive
  <2> QED
    BY <2>4, <2>5 DEF Inv
<1>2. CASE SleepInterrupted
  BY <1>2, ExitInv DEF SleepInterrupted, start, pass, world, Causes, Inv, TypeOK
<1> QED
  BY <1>1, <1>2 DEF Sleep

LEMMA WorldInv == Inv /\ (Signal \/ Restart \/ CalmDown \/ Doubling) => Inv'
<1> SUFFICES ASSUME Inv, Signal \/ Restart \/ CalmDown \/ Doubling PROVE Inv'
  OBVIOUS
<1>1. CASE Signal \/ CalmDown \/ Doubling
  <2>1. UNCHANGED <<phase, start, pass, status, cause, file, env>>
        /\ stopping' \in BOOLEAN /\ calm' \in BOOLEAN /\ doubled' \in BOOLEAN
    BY <1>1 DEF Signal, CalmDown, Doubling, Inv, TypeOK
  <2>2. TypeOK' /\ RetriesInWindow'
    BY <2>1 DEF start, pass, Inv, TypeOK, RetriesInWindow
  <2>3. StartInv'
    BY <2>1 DEF start, Inv, StartInv, Serving, Built, Positive
  <2> QED
    BY <2>2, <2>3 DEF Inv
<1>2. CASE Restart
  <2>1. config' \in Configs /\ retry' \in RetryPolicies
    BY <1>2, FileConfig DEF Restart, NoPolicy, RetryPolicies, Inv, TypeOK
  <2>2. stopping' \in BOOLEAN
    BY <1>2, Zenon DEF Restart
  <2>3. phase' \in Phases /\ reason' \in Reasons /\ timeout' \in Int /\ since' \in Nat
        /\ delay' \in Nat /\ status' \in {"none", "ok", "failed"} /\ cause' \in Causes
    BY <1>2 DEF Restart, Phases, Starting, Reasons, Causes
  <2>4. TypeOK'
    BY <1>2, <2>1, <2>2, <2>3, Zenon DEF Restart, Inv, TypeOK
  <2> QED
    BY <1>2, <2>4 DEF Restart, Inv, StartInv, RetriesInWindow, Passing, Serving, Built
<1> QED
  BY <1>1, <1>2

LEMMA StepInv == Inv /\ [Next]_vars => Inv'
<1> SUFFICES ASSUME Inv, [Next]_vars PROVE Inv'
  OBVIOUS
<1>1. CASE Hint
  <2>1. Positive /\ Ready(config) /\ Buildable(config) /\ file.reading = "whole"
    BY <1>1, ServingFacts DEF Hint, Serving
  <2> QED
    BY <1>1, <2>1, BeginInv DEF Hint, Reasons
<1>2. CASE Stop
  BY <1>2, ExitInv DEF Stop, start, pass, world, Causes, Inv, TypeOK
<1>3. CASE UNCHANGED vars
  BY <1>3 DEF vars, start, pass, world, Inv, TypeOK, StartInv, RetriesInWindow, Serving, Built, Positive
<1> QED
  BY <1>1, <1>2, <1>3, StartupInv, AttemptInv, SleepInv, WorldInv DEF Next

\* The inductive invariant of the runs.
THEOREM Invariance == Spec => []Inv
<1>1. Init => Inv
  BY InitInv
<1>2. Inv /\ [Next]_vars => Inv'
  BY StepInv
<1> QED
  BY <1>1, <1>2, PTL DEF Spec

-----------------------------------------------------------------------------
(* The results *)

\* Every variable keeps its type; no delay is ever negative.
THEOREM TypeCorrect == Spec => []TypeOK
<1>1. Inv => TypeOK
  BY DEF Inv
<1> QED
  BY <1>1, Invariance, PTL

\* No attempt of a pass begins after max_elapsed_time, none without a pause.
THEOREM WindowKept == Spec => []RetriesInWindow
<1>1. Inv => RetriesInWindow
  BY DEF Inv
<1> QED
  BY <1>1, Invariance, PTL

(***************************************************************************)
(* A serving process was started from a whole file, with providers that    *)
(* can be called and durations that are positive.                          *)
(***************************************************************************)
THEOREM ServesSoundly == Spec => []StartedSound
<1>1. Inv => StartedSound
  <2> SUFFICES ASSUME Inv, Serving PROVE StartedSound
    BY DEF StartedSound
  <2>1. Positive /\ Ready(config) /\ Buildable(config) /\ file.reading = "whole"
    BY ServingFacts
  <2>2. ASSUME NEW i \in DOMAIN config.outputs, config.outputs[i].enabled
        PROVE  Callable(config.outputs[i])
    <3>1. Equipped(config.outputs[i]) /\ config.outputs[i].type \in {"adguard", "cloudflare"}
      BY <2>1, <2>2 DEF Ready, Buildable
    <3> QED
      BY <3>1, TextAssumption DEF Equipped, Callable
  <2> QED
    BY <2>1, <2>2 DEF StartedSound, Ready, Buildable, Positive
<1> QED
  BY <1>1, Invariance, PTL

LEMMA KindsKnown ==
  ASSUME Inv, Serving
  PROVE  Kinds \subseteq {"docker", "adguard", "cloudflare"}
BY ServingFacts DEF Kinds, Buildable

\* An answer of 408, 429 or 5xx ends no pass whose window is open.
THEOREM BusyIsRetried == Spec => BusyRetried
<1>1. Inv /\ [Next]_vars => [RetriedWithinWindow({"busy"})]_vars
  <2> SUFFICES ASSUME Inv, Next, cause' # cause, cause' = "busy"
               PROVE  since' + delay > retry.window
    BY DEF RetriedWithinWindow
  <2>1. PICK kind \in Kinds, d \in 0..MaxAttempt : CallFails(kind, "busy", d)
    BY DEF Next, Startup, Load, CheckConfig, Resolve, NewRuntimeDeps, NewStore, BuildProviders,
           BeginPass, Attempt, AttemptSucceeds, AttemptFails, CallFails, CallCancelled, StateFails,
           FindAmbiguity, Doubling, Sleep, SleepEnds, SleepInterrupted, Hint, Stop, Signal, Restart, CalmDown, GoTo, Exit
  <2>2. isTemporaryError(kind, "busy")
    <3>1. kind \in {"docker", "adguard", "cloudflare"}
      BY <2>1, KindsKnown DEF CallFails, Serving, Passing
    <3> QED
      BY <3>1 DEF isTemporaryError, providerTemporary, dockerTemporary, adguardTemporary,
                  cloudflareTemporary
  <2>3. ~NextInWindow(d) /\ since' = since + d
    BY <2>1, <2>2 DEF CallFails, GoTo, Exit
  <2> QED
    BY <2>3, AttemptAssumption DEF NextInWindow, Inv, TypeOK, RetryPolicies
<1> QED
  BY <1>1, Invariance, PTL DEF Spec, BusyRetried

\* The process ends well exactly when a signal asked a serving process to.
THEOREM ExitIsTold == Spec => ExitStatus
<1>1. Inv /\ [Next]_vars =>
        [phase # "exited" /\ phase' = "exited" =>
           (status' = "ok" <=> stopping /\ phase \notin Starting)]_vars
  <2> SUFFICES ASSUME Inv, Next, phase # "exited", phase' = "exited"
               PROVE  status' = "ok" <=> stopping /\ phase \notin Starting
    OBVIOUS
  <2> USE DEF Exit, GoTo, Starting
  <2>1. CASE Startup
    BY <2>1 DEF Startup, Load, CheckConfig, Resolve, NewRuntimeDeps, NewStore, BuildProviders, BeginPass
  <2>2. CASE Attempt
    BY <2>2 DEF Attempt, AttemptSucceeds, BeginPass, AttemptFails, CallFails, CallCancelled, StateFails,
              FindAmbiguity
  <2>3. CASE Sleep \/ Hint \/ Stop
    BY <2>3 DEF Sleep, SleepEnds, SleepInterrupted, Hint, BeginPass, Stop
  <2>4. CASE Signal \/ Restart \/ CalmDown \/ Doubling
    BY <2>4 DEF Signal, Restart, CalmDown, Doubling
  <2> QED
    BY <2>1, <2>2, <2>3, <2>4 DEF Next
<1> QED
  BY <1>1, Invariance, PTL DEF Spec, ExitStatus
=============================================================================
