---------------------------- MODULE DockerLabels ----------------------------
(***************************************************************************)
(* How the Docker source derives DNS records from the labels of a          *)
(* container, and how it tells from labels whether an event of the         *)
(* container is worth a reconcile hint.                                    *)
(*                                                                         *)
(* The labels are a record: the texts of proxy.exclude and proxy.dns (""   *)
(* when absent), the comma-separated parts of proxy.aliases, and for each  *)
(* name X the texts of proxy.X.port and proxy.X.host.  X is "*", an index  *)
(* ("#1") or a name in the spelling of the label.  Normalising takes one   *)
(* final dot away, so that a text of several ("web..") has more than one   *)
(* normal form; the code normalises some texts once, others again.         *)
(***************************************************************************)
EXTENDS Naturals, Sequences

CONSTANTS
  Texts,          \* the texts of names and values
  folded,         \* text -> trimmed and in lower case
  normalizeName,  \* text -> the same without a final dot
  Dotted,         \* the texts that have a dot
  Domains,        \* the base domains that validation accepts, normalised
  Under,          \* name without a dot, base domain -> the name in that domain
  Hash,           \* index -> the name of its labels: 1 -> "#1"
  Wild            \* "*" and the names that begin with "*." or "#"

Indexed == {Hash[i] : i \in DOMAIN Hash}
Bare == {normalizeName[t] : t \in Texts} \ (Dotted \cup {""})
KeyNames == Texts \cup Wild

ASSUME TextsAssumption ==
  /\ {"", "true", "false"} \subseteq Texts
  /\ folded \in [Texts -> Texts] /\ normalizeName \in [Texts -> Texts]
  /\ \A t \in Texts : normalizeName[folded[t]] = normalizeName[t]
  /\ folded[""] = "" /\ normalizeName[""] = "" /\ "" \notin Dotted
  /\ Domains \subseteq Texts \ {""} /\ \A d \in Domains : normalizeName[d] = d
  /\ Under \in [Bare \X Domains -> Texts \cap Dotted]
  /\ \A n, m \in Bare, d \in Domains : Under[<<n, d>>] = Under[<<m, d>>] => n = m
  /\ DOMAIN Hash \subseteq Nat \ {0}
  /\ Indexed \cup {"*"} \subseteq Wild

IsLabels(l) ==
  /\ l.exclude \in Texts /\ l.dns \in Texts
  /\ l.aliases \in Seq(Texts) /\ DOMAIN l.aliases \subseteq DOMAIN Hash
  /\ DOMAIN l.port \subseteq KeyNames /\ \A k \in DOMAIN l.port : l.port[k] \in Texts
  /\ DOMAIN l.host \subseteq KeyNames /\ \A k \in DOMAIN l.host : l.host[k] \in Texts

-----------------------------------------------------------------------------
(* The labels *)

isExcluded(l) == folded[l.exclude] = "true"

\* proxy.dns="false": no output at all.
DNSOff(l) == folded[l.dns] = "false"

dnsOutputType(l) == IF folded[l.dns] = "true" THEN "" ELSE folded[l.dns]

\* A port is any text but white space.
HasPort(l, k) == k \in DOMAIN l.port /\ folded[l.port[k]] # ""

HostLabel(l, k) == IF k \in DOMAIN l.host THEN normalizeName[l.host[k]] ELSE ""

hasPortForAlias(l, alias, i) ==
  HasPort(l, alias) \/ HasPort(l, Hash[i]) \/ HasPort(l, "*")

\* A label of three parts names an alias; one with a dot in its name has more.
supportedNamedPortAlias(k) == k \in Texts \ (Dotted \cup Wild \cup {""})

hasWildcardOrIndexedPort(l) == \E k \in Wild : HasPort(l, k)

\* The positions of proxy.aliases that name an alias which has a port.
Supported(l) ==
  {i \in DOMAIN l.aliases :
     /\ normalizeName[l.aliases[i]] # ""
     /\ hasPortForAlias(l, normalizeName[l.aliases[i]], i)}

\* Wrong variant: an alias given twice counts twice.
SupportedAliases(l) ==
  {[name |-> normalizeName[l.aliases[i]], position |-> i] : i \in Supported(l)}

\* An alias given twice has its first position.
ExplicitAliases(l) ==
  {[name |-> normalizeName[l.aliases[i]], position |-> i] :
     i \in {j \in Supported(l) :
              \A k \in Supported(l) :
                normalizeName[l.aliases[k]] = normalizeName[l.aliases[j]] => j <= k}}

DiscoveredNames(l) ==
  {normalizeName[k] : k \in {n \in DOMAIN l.port : supportedNamedPortAlias(n) /\ HasPort(l, n)}}

NamedAliases(l) ==
  ExplicitAliases(l)
  \cup {[name |-> n, position |-> 0] :
          n \in DiscoveredNames(l) \ {a.name : a \in ExplicitAliases(l)}}

\* A container without an alias goes by its own name, if any port is labelled.
collectAliases(l, display) ==
  IF NamedAliases(l) = {} /\ hasWildcardOrIndexedPort(l) /\ normalizeName[display] # ""
  THEN {[name |-> normalizeName[display], position |-> 0]}
  ELSE NamedAliases(l)

explicitHostOverride(l, a) ==
  LET indexed == IF a.position > 0 THEN HostLabel(l, Hash[a.position]) ELSE ""
  IN IF HostLabel(l, a.name) # "" THEN HostLabel(l, a.name)
     ELSE IF indexed # "" THEN indexed
     ELSE HostLabel(l, "*")

-----------------------------------------------------------------------------
(* The records *)

\* The name of an alias, normalised already, is normalised again.
qualifyHostname(hostname, base) ==
  LET name   == normalizeName[hostname]
      domain == normalizeName[normalizeName[base]]
  IN IF name = "" \/ name \in Dotted \/ domain = "" \/ name = domain
     THEN name ELSE Under[<<name, domain>>]

(***************************************************************************)
(* The answer of a record without an override: host_ip, or the host of an  *)
(* endpoint that is not local.                                             *)
(***************************************************************************)
defaultAnswerTarget(s) ==
  IF normalizeName[s.host_ip] # "" THEN normalizeName[s.host_ip]
  ELSE IF s.local THEN "" ELSE normalizeName[s.endpoint_host]

TargetOf(s, l, a) ==
  IF explicitHostOverride(l, a) # "" THEN explicitHostOverride(l, a)
  ELSE normalizeName[defaultAnswerTarget(s)]

\* The target is normalised again, after Publishable has seen it.
RecordOf(s, l, a) ==
  [alias |-> a.name, hostname |-> qualifyHostname(a.name, s.base_domain),
   answer |-> normalizeName[TargetOf(s, l, a)], output |-> dnsOutputType(l)]

\* Wrong variant: an alias without an answer is published.
PublishedUnanswered(s, l, a) == qualifyHostname(a.name, s.base_domain) # ""

Publishable(s, l, a) ==
  qualifyHostname(a.name, s.base_domain) # "" /\ TargetOf(s, l, a) # ""

\* The alias of a record is kept for the properties only.
deriveDesiredRecords(s, l, display) ==
  IF isExcluded(l) \/ DNSOff(l) THEN {}
  ELSE {RecordOf(s, l, a) : a \in {b \in collectAliases(l, display) : Publishable(s, l, b)}}

-----------------------------------------------------------------------------
(* The events *)

\* Wrong variant: a port for every alias is taken for no alias at all.
RelevantWhenNamed(l) ==
  ~isExcluded(l) /\ (Supported(l) # {} \/ DiscoveredNames(l) # {})

hasRelevantWatchLabels(l) ==
  /\ ~isExcluded(l)
  /\ Supported(l) # {} \/ DiscoveredNames(l) # {} \/ hasWildcardOrIndexedPort(l)

\* Wrong variant: a container that was killed is thought to have been stopped.
ActionsWithoutDie == {"create", "start", "stop", "destroy", "rename", "update"}

HintActions == {"create", "start", "stop", "die", "destroy", "rename", "update"}

shouldTriggerContainerWatchHint(e) == e.action \in HintActions /\ hasRelevantWatchLabels(e.labels)

\* Events of a network have no labels of containers: any attachment counts.
shouldTriggerNetworkWatchHint(e) == e.action \in {"connect", "disconnect"} /\ e.attached

shouldTriggerWatchHint(e) ==
  \/ e.type = "container" /\ shouldTriggerContainerWatchHint(e)
  \/ e.type = "network" /\ shouldTriggerNetworkWatchHint(e)
=============================================================================
