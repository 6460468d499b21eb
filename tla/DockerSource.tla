---------------------------- MODULE DockerSource ----------------------------
(***************************************************************************)
(* The Docker source at work: containers come, go and are renamed; Docker  *)
(* reports it in events; Provider.Watch makes hints of some of them; and   *)
(* the runtime lists the containers when it has taken a hint, or for a     *)
(* reason of its own.  WatchLoop is about streams that break and about     *)
(* the runtime's loop, and takes for granted that a change is hinted at;   *)
(* whether it is depends on labels, and is the question here.              *)
(***************************************************************************)
EXTENDS DockerLabels

CONSTANTS
  ContainerIds,  \* containers, each of which is created once
  Names,         \* what containers may be called
  LabelSets,     \* the labels containers may have
  Settings,      \* the configurations of the source
  MaxStream      \* bound: events Docker may owe the provider

ASSUME SourceAssumption ==
  /\ Names \subseteq Texts /\ \A n \in Names : normalizeName[n] # ""
  /\ \A l \in LabelSets : IsLabels(l)
  /\ \A s \in Settings : /\ {s.host_ip, s.endpoint_host, s.base_domain} \subseteq Texts
                         /\ s.local \in BOOLEAN
                         /\ normalizeName[s.base_domain] \in Domains \cup {""}
  /\ MaxStream \in Nat

VARIABLES
  setting,   \* the configuration of the source
  state,     \* container -> the State of its listing, or "absent" or "gone"
  name,      \* container -> its name
  labels,    \* container -> its labels, which never change
  stream,    \* the events Docker owes the provider
  hint,      \* a hint waits in the channel of the watch
  due,       \* the runtime took a hint and owes a pass
  listed,    \* container -> the records the last pass got of it
  suspended  \* containers paused or resumed since the last pass

docker == <<state, name, labels, stream>>
vars == <<setting, docker, hint, due, listed, suspended>>

States == {"absent", "created", "running", "paused", "exited", "gone"}

\* Wrong variant: a container that does not run is published.
PublishedAlways(c) == deriveDesiredRecords(setting, labels[c], name[c])

\* A listing without options has no stopped container, and paused ones are
\* skipped by their State.
Published(c) ==
  IF state[c] = "running" THEN deriveDesiredRecords(setting, labels[c], name[c]) ELSE {}

Init ==
  /\ setting \in Settings
  /\ state = [c \in ContainerIds |-> "absent"]
  /\ name \in [ContainerIds -> Names] /\ labels \in [ContainerIds -> LabelSets]
  /\ stream = << >> /\ hint = FALSE /\ due = FALSE
  /\ listed = [c \in ContainerIds |-> {}]
  /\ suspended = {}

-----------------------------------------------------------------------------
(* Docker *)

ContainerEvent(c, a) ==
  [type |-> "container", action |-> a, labels |-> labels[c], attached |-> FALSE]

Happens(c, from, to, action) ==
  /\ Len(stream) < MaxStream
  /\ state[c] \in from /\ state' = [state EXCEPT ![c] = to]
  /\ stream' = Append(stream, ContainerEvent(c, action))
  /\ UNCHANGED <<setting, labels, hint, due, listed>>

Lifecycle(c) ==
  /\ \/ Happens(c, {"absent"}, "created", "create")
     \/ Happens(c, {"created", "exited"}, "running", "start")
     \/ Happens(c, {"running", "paused"}, "exited", "die")
     \/ Happens(c, {"created", "exited"}, "gone", "destroy")
     \/ Happens(c, {"exited"}, "exited", "stop")
     \/ Happens(c, {"running"}, "running", "update")
  /\ UNCHANGED <<name, suspended>>

\* Neither event is one the provider makes a hint of.
PauseOrResume(c) ==
  /\ \/ Happens(c, {"running"}, "paused", "pause")
     \/ Happens(c, {"paused"}, "running", "unpause")
  /\ suspended' = suspended \cup {c}
  /\ UNCHANGED name

Rename(c) ==
  /\ Happens(c, {"created", "running", "paused", "exited"}, state[c], "rename")
  /\ \E n \in Names : name' = [name EXCEPT ![c] = n]
  /\ UNCHANGED suspended

\* A network is created, or a container attached to one.
Network ==
  /\ Len(stream) < MaxStream
  /\ \E c \in ContainerIds, e \in {[action |-> "connect", attached |-> TRUE],
                                   [action |-> "create", attached |-> FALSE]} :
       stream' = Append(stream, [type |-> "network", action |-> e.action,
                                 labels |-> labels[c], attached |-> e.attached])
  /\ UNCHANGED <<setting, state, name, labels, hint, due, listed, suspended>>

-----------------------------------------------------------------------------
(* The provider and the runtime *)

\* A hint that finds another one waiting is dropped.
ReadEvent ==
  /\ stream # << >>
  /\ stream' = Tail(stream)
  /\ hint' = (hint \/ shouldTriggerWatchHint(Head(stream)))
  /\ UNCHANGED <<setting, state, name, labels, due, listed, suspended>>

TakeHint ==
  /\ hint /\ hint' = FALSE /\ due' = TRUE
  /\ UNCHANGED <<setting, docker, listed, suspended>>

ListDesired ==
  /\ listed' = [c \in ContainerIds |-> Published(c)]
  /\ due' = FALSE /\ suspended' = {}
  /\ UNCHANGED <<setting, docker, hint>>

Next ==
  \/ \E c \in ContainerIds : Lifecycle(c) \/ PauseOrResume(c) \/ Rename(c)
  \/ Network \/ ReadEvent \/ TakeHint \/ ListDesired

Spec == Init /\ [][Next]_vars

-----------------------------------------------------------------------------
(* Properties *)

DesiredTypes == [alias : Texts, hostname : Texts, answer : Texts, output : Texts]
Actions == HintActions \cup {"pause", "unpause", "connect"}
EventTypes ==
  [type : {"container", "network"}, action : Actions, labels : LabelSets, attached : BOOLEAN]

\* Every variable has its type, and a container that never ran is not listed.
TypeOK ==
  /\ setting \in Settings /\ state \in [ContainerIds -> States]
  /\ name \in [ContainerIds -> Names] /\ labels \in [ContainerIds -> LabelSets]
  /\ stream \in Seq(EventTypes) /\ Len(stream) <= MaxStream
  /\ hint \in BOOLEAN /\ due \in BOOLEAN
  /\ listed \in [ContainerIds -> SUBSET DesiredTypes] /\ suspended \subseteq ContainerIds
  /\ \A c \in ContainerIds : listed[c] # {} => state[c] \notin {"absent", "created"}

(***************************************************************************)
(* A pass is on its way: one is due, a hint waits, or Docker owes the      *)
(* provider an event it will make a hint of.                               *)
(***************************************************************************)
PassComes == due \/ hint \/ \E i \in DOMAIN stream : shouldTriggerWatchHint(stream[i])

(***************************************************************************)
(* Whenever a container publishes something else than the last pass got of *)
(* it, a pass is on its way, or the container was paused or resumed, which *)
(* no event the provider heeds reports.                                    *)
(***************************************************************************)
ChangesHinted ==
  \A c \in ContainerIds : Published(c) # listed[c] => PassComes \/ c \in suspended

(***************************************************************************)
(* The filter of events and the derivation of records read the labels in   *)
(* code of their own and agree: an event of a container that is not        *)
(* excluded is worth a hint if and only if the container has an alias.     *)
(***************************************************************************)
FilterAgrees ==
  \A c \in ContainerIds :
    hasRelevantWatchLabels(labels[c])
      <=> ~isExcluded(labels[c]) /\ collectAliases(labels[c], name[c]) # {}

\* The texts that an answer may be made of.
TargetTexts(s, l) == {s.host_ip, s.endpoint_host} \cup {l.host[k] : k \in DOMAIN l.host}

\* Normalising the text does not settle it: it ends in two dots.
Unsettled(t) == normalizeName[normalizeName[t]] # normalizeName[t]

(***************************************************************************)
(* No record without a hostname or an answer is handed on: the Cloudflare  *)
(* output fails for good on one, which ends the daemon.  The exception is  *)
(* an answer that passes the check for a blank one and is normalised again *)
(* to nothing: "..", which is "." when it is checked.                      *)
(***************************************************************************)
NothingBlank ==
  \A c \in ContainerIds : \A r \in listed[c] :
    /\ r.hostname # ""
    /\ r.answer = "" => \E t \in TargetTexts(setting, labels[c]) : Unsettled(t)

(***************************************************************************)
(* One container asks for one host twice only when one of its aliases is   *)
(* the qualified form of another, or two aliases are the same but for a    *)
(* dot that normalising once has left: two answers for one host never come *)
(* of an alias that is positioned or discovered in two ways.               *)
(***************************************************************************)
HostsOnce ==
  \A c \in ContainerIds : \A r, s \in listed[c] :
    r.hostname = s.hostname /\ r # s =>
      /\ r.alias # s.alias
      /\ \/ normalizeName[r.alias] = normalizeName[s.alias]
         \/ r.hostname \in {normalizeName[r.alias], normalizeName[s.alias]}
=============================================================================
