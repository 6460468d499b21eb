------------------------------ MODULE Records ------------------------------
(***************************************************************************)
(* The records docker-dns-sync exchanges between its Docker sources, its   *)
(* DNS outputs and its ownership snapshot, and the keys it compares them   *)
(* by.                                                                     *)
(*                                                                         *)
(* Names and answers are opaque members of small sets.  What the code does *)
(* to their text (case folding, trimming, a final dot, the zone suffix) is *)
(* kept as functions on those sets, so that two spellings of one name stay *)
(* two values until the code normalises them.                              *)
(***************************************************************************)
EXTENDS Naturals, Sequences

CONSTANTS
  SourceOrder,        \* the configured sources, in configuration order
  OutputOrder,        \* the enabled outputs, in configuration order
  Kind,               \* the type of each output: "adguard" or "cloudflare"
  Hosts,              \* hostnames, in every spelling that occurs
  Answers,            \* answer targets, in every spelling that occurs
  ContainerIds,       \* Docker container IDs
  ContainerNames,     \* Docker container display names
  Ids,                \* identities of the entries an output stores
  NoProvenance,       \* a nil RecordProvenance, or one with an empty RemoteID
  normalizeHostname,  \* spelling of a hostname -> its canonical spelling
  normalizeAnswer,    \* spelling of an answer -> its canonical spelling
  Rank                \* position of a canonical name in string order

Outputs == {OutputOrder[i] : i \in 1..Len(OutputOrder)}
Sources == {SourceOrder[i] : i \in 1..Len(SourceOrder)}

(***************************************************************************)
(* config.Validate asks for at least one source; it accepts a file whose   *)
(* outputs are all disabled, so OutputOrder may be empty.                  *)
(***************************************************************************)
ASSUME OrderAssumption ==
  /\ SourceOrder \in Seq(Sources) /\ SourceOrder # << >>
  /\ OutputOrder \in Seq(Outputs)
  /\ \A i, j \in 1..Len(SourceOrder) : SourceOrder[i] = SourceOrder[j] => i = j
  /\ \A i, j \in 1..Len(OutputOrder) : OutputOrder[i] = OutputOrder[j] => i = j
  /\ Kind \in [Outputs -> {"adguard", "cloudflare"}]

(***************************************************************************)
(* Normalising takes one final dot away, if any: texts that end in several *)
(* are no members of Hosts and Answers, and one normalisation settles the  *)
(* others.                                                                 *)
(***************************************************************************)
ASSUME NamesAssumption ==
  /\ normalizeHostname \in [Hosts -> Hosts]
  /\ normalizeAnswer \in [Answers -> Answers]
  /\ \A h \in Hosts : normalizeHostname[normalizeHostname[h]] = normalizeHostname[h]
  /\ \A a \in Answers : normalizeAnswer[normalizeAnswer[a]] = normalizeAnswer[a]
  /\ Rank \in [Hosts \cup Answers -> Nat]
  /\ NoProvenance \notin Ids

-----------------------------------------------------------------------------
(* The record types *)

\* A proxy.dns label selects every output (""), one output type, or a type
\* that no output has.
OutputLabels == {"", "adguard", "cloudflare", "other"}

Provenances == Ids \cup {NoProvenance}

SourceObjects ==
  [provider : Sources, id : ContainerIds, name : ContainerNames]

DesiredRecords ==
  [hostname : Hosts, answer : Answers, source : SourceObjects,
   output : OutputLabels]

\* row tells two entries with the same text apart; the planner never reads it.
VisibleRecords ==
  [output : Outputs, hostname : Hosts, answer : Answers,
   provenance : Provenances, row : Ids]

\* LastAppliedAt is written and never read, so it is left out.
ManagedRecords ==
  [output : Outputs, source : SourceObjects, hostname : Hosts,
   answer : Answers, provenance : Provenances]

-----------------------------------------------------------------------------
(* Keys *)

hostKey(r) == normalizeHostname[r.hostname]

visibleRecordKey(r) == <<normalizeHostname[r.hostname], normalizeAnswer[r.answer]>>

ownedLineageKey(o, source, hostname) ==
  <<o, source.provider, source.id, normalizeHostname[hostname]>>

ownedDisplayLineageKey(o, source, hostname) ==
  <<o, source.provider, source.name, normalizeHostname[hostname]>>

desiredRecordLineageKey(o, d) == ownedLineageKey(o, d.source, d.hostname)

managedRecordLineageKey(m) == ownedLineageKey(m.output, m.source, m.hostname)

\* The string order on visible keys: hostname first, then answer.
KeyLess(k, l) ==
  \/ Rank[k[1]] < Rank[l[1]]
  \/ k[1] = l[1] /\ Rank[k[2]] < Rank[l[2]]

-----------------------------------------------------------------------------
(* Provenance *)

hasRecordProvenance(p) == p # NoProvenance

sameRecordProvenance(managed, visible) ==
  /\ hasRecordProvenance(managed)
  /\ hasRecordProvenance(visible)
  /\ managed = visible

nextManagedProvenance(primary, fallback) ==
  IF hasRecordProvenance(primary) THEN primary ELSE fallback

-----------------------------------------------------------------------------
(* Desired records *)

filterDesiredForOutput(desired, o) == {d \in desired : d.output \in {"", Kind[o]}}

SourceIndex(d) == CHOOSE i \in 1..Len(SourceOrder) : SourceOrder[i] = d.source.provider

(***************************************************************************)
(* reconcileOnce appends the sources in order and each source sorts its    *)
(* records by hostname, answer and container ID.                           *)
(***************************************************************************)
ListedBefore(d, e) ==
  \/ SourceIndex(d) < SourceIndex(e)
  \/ /\ SourceIndex(d) = SourceIndex(e)
     /\ KeyLess(<<d.hostname, d.answer>>, <<e.hostname, e.answer>>)

-----------------------------------------------------------------------------
(* Small sets *)

One(S) == \E x \in S : \A y \in S : y = x
Many(S) == \E x, y \in S : x # y
=============================================================================
