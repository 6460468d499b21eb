--------------------------- MODULE Configuration ---------------------------
(***************************************************************************)
(* The configuration of the daemon: what a file may say, what              *)
(* config.Validate asks of it, what config.ResolveSecrets makes of it and  *)
(* what the start of the runtime takes from it.                            *)
(*                                                                         *)
(* A text is a member of a small set.  What the code does to texts is kept *)
(* as functions on that set, because the steps of the start do not treat   *)
(* a text alike: validation trims and folds what later steps take as it    *)
(* is.                                                                     *)
(***************************************************************************)
EXTENDS Integers, Sequences

CONSTANTS
  Texts,          \* what a field of the file may hold
  Empty,          \* what an absent field holds
  Trim,           \* strings.TrimSpace
  Fold,           \* strings.ToLower of strings.TrimSpace
  ParseDuration,  \* time.ParseDuration: the texts it accepts -> time units
  EnvRef,         \* parseEnvRef: the trimmed references it accepts -> names
  Names,          \* names of environment variables
  DefaultTimeout, \* the operation timeout of a file that gives none
  Schemes,        \* trimmed endpoints that start with unix:// or tcp://
  Dialable,       \* endpoints the Docker client can parse
  Addresses,      \* trimmed texts that are IP addresses
  Domains         \* folded texts that are domain names

ASSUME TextAssumption ==
  /\ Empty \in Texts
  /\ Trim \in [Texts -> Texts] /\ Trim[Empty] = Empty
  /\ Fold \in [Texts -> Texts]
  /\ \A t \in {"adguard", "cloudflare"} : t \in Texts /\ Fold[t] = t
  /\ DOMAIN ParseDuration \subseteq Texts \ {Empty}
  /\ \A t \in DOMAIN ParseDuration : ParseDuration[t] \in Int /\ Trim[t] = t
  /\ DOMAIN EnvRef \subseteq Texts /\ \A t \in DOMAIN EnvRef : EnvRef[t] \in Names
  /\ DefaultTimeout \in Nat \ {0}

SourceConfigs ==
  [type : Texts, name : Texts, endpoint : Texts, host_ip : Texts, base_domain : Texts]

\* enabled is what IsEnabled makes of the field: absent means enabled.
OutputConfigs ==
  [type : Texts, name : Texts, enabled : BOOLEAN, url : Texts, username : Texts,
   password : Texts, password_ref : Texts, zone_id : Texts, api_key : Texts,
   api_key_ref : Texts]

Configs ==
  [sources : Seq(SourceConfigs), outputs : Seq(OutputConfigs), path : Texts,
   level : Texts, format : Texts, operation_timeout : Texts,
   initial_interval : Texts, max_interval : Texts, max_elapsed_time : Texts]

Blank(t) == Trim[t] = Empty

-----------------------------------------------------------------------------
(* Validate *)

validSource(s) ==
  /\ ~Blank(s.type) /\ ~Blank(s.name)
  /\ Trim[s.endpoint] \in Schemes
  /\ Blank(s.host_ip) \/ Trim[s.host_ip] \in Addresses
  /\ Blank(s.base_domain) \/ Fold[s.base_domain] \in Domains

validAdGuard(o) ==
  /\ Fold[o.type] = "adguard"
  /\ ~Blank(o.url) /\ ~Blank(o.username)
  /\ Blank(o.password) # Blank(o.password_ref)

validCloudflare(o) ==
  /\ Fold[o.type] = "cloudflare"
  /\ ~Blank(o.zone_id)
  /\ Blank(o.api_key) # Blank(o.api_key_ref)

validOutput(o) ==
  /\ ~Blank(o.type) /\ ~Blank(o.name)
  /\ o.enabled => validAdGuard(o) \/ validCloudflare(o)

\* Wrong variant: any duration will do.
validAnyDuration(t) == Trim[t] \in DOMAIN ParseDuration

validDuration(t) ==
  /\ Trim[t] \in DOMAIN ParseDuration
  /\ ParseDuration[Trim[t]] > 0

Validate(c) ==
  /\ c.sources # << >> /\ \A i \in DOMAIN c.sources : validSource(c.sources[i])
  /\ c.outputs # << >> /\ \A i \in DOMAIN c.outputs : validOutput(c.outputs[i])
  /\ ~Blank(c.path)
  /\ Fold[c.level] \in {"trace", "debug", "info", "warn", "error"}
  /\ Fold[c.format] \in {"json", "text"}
  /\ Blank(c.operation_timeout) \/ validDuration(c.operation_timeout)
  /\ validDuration(c.initial_interval)
  /\ validDuration(c.max_interval)
  /\ validDuration(c.max_elapsed_time)

-----------------------------------------------------------------------------
(***************************************************************************)
(* ResolveSecrets.  Both references of an enabled output are followed,     *)
(* whatever its type.  env is a function on the variables that are set.    *)
(***************************************************************************)
resolves(ref, env) ==
  \/ Blank(ref)
  \/ /\ Trim[ref] \in DOMAIN EnvRef
     /\ EnvRef[Trim[ref]] \in DOMAIN env
     /\ ~Blank(env[EnvRef[Trim[ref]]])

Resolvable(c, env) ==
  \A i \in DOMAIN c.outputs : c.outputs[i].enabled =>
    /\ resolves(c.outputs[i].password_ref, env)
    /\ resolves(c.outputs[i].api_key_ref, env)

secret(ref, env) == env[EnvRef[Trim[ref]]]

resolvePassword(o, env) ==
  IF Blank(o.password_ref) THEN o
  ELSE [o EXCEPT !.password = secret(o.password_ref, env), !.password_ref = Empty]

resolveAPIKey(o, env) ==
  IF Blank(o.api_key_ref) THEN o
  ELSE [o EXCEPT !.api_key = secret(o.api_key_ref, env), !.api_key_ref = Empty]

\* Wrong variant: the reference is kept where the secret belongs.
ResolvingNothing(c, env) == c

ResolveSecrets(c, env) ==
  [c EXCEPT !.outputs =
    [i \in DOMAIN c.outputs |->
      IF c.outputs[i].enabled THEN resolveAPIKey(resolvePassword(c.outputs[i], env), env)
      ELSE c.outputs[i]]]

-----------------------------------------------------------------------------
(* NewRuntimeDeps: the retry settings are parsed as they stand, untrimmed. *)

Parses(c) ==
  {c.initial_interval, c.max_interval, c.max_elapsed_time} \subseteq DOMAIN ParseDuration

RetryPolicies == [initial : Int, max : Int, window : Int]

RetryPolicy(c) ==
  [initial |-> ParseDuration[c.initial_interval],
   max |-> ParseDuration[c.max_interval],
   window |-> ParseDuration[c.max_elapsed_time]]

OperationTimeout(c) ==
  IF Blank(c.operation_timeout) THEN DefaultTimeout
  ELSE ParseDuration[Trim[c.operation_timeout]]

-----------------------------------------------------------------------------
(* BuildProviders: types are looked up as they stand. *)

Buildable(c) ==
  /\ \A i \in DOMAIN c.sources :
       c.sources[i].type = "docker" /\ c.sources[i].endpoint \in Dialable
  /\ \A i \in DOMAIN c.outputs :
       c.outputs[i].enabled => c.outputs[i].type \in {"adguard", "cloudflare"}
=============================================================================
