--------------------------- MODULE OutputContract ---------------------------
(***************************************************************************)
(* What contracts.Output lets the runtime see of a DNS service.  A service *)
(* keeps rows; a call on it ends in one of several outcomes: the rows it   *)
(* leaves, what a Cloudflare provider has cached of its last listing, the  *)
(* answer the runtime gets and the provenance in it.                       *)
(*                                                                         *)
(* The runtime distinguishes three answers: success, an error whose        *)
(* Temporary() is true (retried), and any other error, which includes a    *)
(* call that ran into the operation timeout (never retried).               *)
(***************************************************************************)
EXTENDS Records

CONSTANTS
  Qualify,   \* canonical hostname -> the fully qualified name of the zone
  Faults     \* which failures may happen, see the definitions below

FaultKinds ==
  { "call",    \* a call is refused and changes nothing
    "lost",    \* a call takes effect and its answer does not arrive
    "disk",    \* reading or writing the ownership snapshot fails
    "stop",    \* the process ends between two outputs or while idle
    "crash" }  \* the process ends anywhere

ASSUME QualifyAssumption ==
  /\ Qualify \in [Hosts -> Hosts]
  /\ \A h \in Hosts : Qualify[Qualify[h]] = Qualify[h]
ASSUME FaultsAssumption == Faults \subseteq FaultKinds

\* maker is no part of the service: it tells the properties who added a row.
Makers == {"operator", "daemon"}

Rows == [id : Ids, hostname : Hosts, answer : Answers, maker : Makers]

rowKey(r) == <<normalizeHostname[r.hostname], normalizeAnswer[r.answer]>>

Replies == {"ok", "temporary", "fatal"}

Succeeds(rows, listed, provenance) ==
  [rows |-> rows, listed |-> listed, reply |-> "ok", provenance |-> provenance]

Rejects(rows, listed, reply) ==
  [rows |-> rows, listed |-> listed, reply |-> reply, provenance |-> NoProvenance]

(***************************************************************************)
(* The outcomes of a call that the service would answer with one of        *)
(* outcomes, once the network may refuse it or lose its answer.            *)
(***************************************************************************)
Attempt(rows, listed, outcomes) ==
  outcomes
  \cup {x \in {Rejects(rows, listed, k) : k \in {"temporary", "fatal"}} : "call" \in Faults}
  \cup {x \in {Rejects(y.rows, y.listed, k) : y \in outcomes, k \in {"temporary", "fatal"}} :
          "lost" \in Faults}
=============================================================================
