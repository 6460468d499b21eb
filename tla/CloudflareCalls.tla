-------------------------- MODULE CloudflareCalls --------------------------
(***************************************************************************)
(* The Cloudflare provider call by call.  CloudflareOutput has each of its *)
(* operations happen at once; here a listing is a lookup of the zone and   *)
(* one request per page, and a create that meets a duplicate is a create,  *)
(* a listing and an update, while an operator works on the same zone.      *)
(*                                                                         *)
(* A page holds one record, in the order of the IDs: the worst case of a   *)
(* listing that moves under the reader.                                    *)
(***************************************************************************)
EXTENDS CloudflareOutput, FiniteSets

CONSTANTS
  Wanted,    \* the records the runtime may want: hostname and answer
  Texts      \* what an operator writes: the same, fully qualified

ASSUME WantedAssumption ==
  /\ Wanted \subseteq [hostname : Hosts, answer : Answers]
  /\ Texts \subseteq [hostname : Hosts, answer : Answers]
  /\ \A t \in Texts : Qualify[normalizeHostname[t.hostname]] = t.hostname
  /\ \A h \in Hosts :
       normalizeHostname[Qualify[normalizeHostname[h]]] = Qualify[normalizeHostname[h]]
  /\ Ids \subseteq Nat
  /\ \E o \in Outputs : Kind[o] = "cloudflare"

VARIABLES
  rows,      \* the records of the zone
  zoneName,  \* the provider knows the name of the zone
  visible,   \* the cache of the last listing: Metas
  held,      \* what the last listing gave to the runtime: records
  pc,        \* the request the provider is about to make
  op,        \* the operation under way or the last one
  listing,   \* the records read by the listing under way
  target,    \* the record an update or delete is about
  reply,     \* the answer of the last operation and its provenance
  touched    \* the rows the operator changed since the operation began

provider == <<zoneName, visible, held, pc, op, listing, target, reply>>
vars == <<rows, provider, touched>>

Requests == {"idle", "zone", "page", "post", "put", "delete"}
Operations == {"none", "list", "create", "update", "delete"}

NoRecord == [hostname |-> NoProvenance]
NoOp == [kind |-> "none", d |-> NoRecord]
Reply(k, p) == [reply |-> k, provenance |-> p]
NoReply == Reply("ok", NoProvenance)

Init ==
  /\ rows = {} /\ zoneName = FALSE /\ visible = {} /\ held = {}
  /\ pc = "idle" /\ op = NoOp /\ listing = << >> /\ target = NoRecord
  /\ reply = NoReply /\ touched = {}

\* The operation under way makes another request, or returns.
GoTo(request) == pc' = request /\ UNCHANGED <<op, reply, touched>>

Returns(k, p) ==
  /\ pc' = "idle" /\ reply' = Reply(k, p)
  /\ op' = NoOp /\ target' = NoRecord /\ listing' = << >> /\ touched' = {}

\* A request fails.  Which errors are temporary is a matter of Failures.
Fails == "call" \in Faults /\ Returns("fatal", NoProvenance)

UsedIds ==
  {r.id : r \in rows} \cup {x.id : x \in visible} \cup {v.provenance : v \in held}
  \cup {listing[i].id : i \in DOMAIN listing} \cup touched

FreshIds == Ids \ UsedIds

-----------------------------------------------------------------------------
(* The operations begin *)

BeginOp(kind, d, request, v) ==
  /\ pc = "idle" /\ pc' = request
  /\ op' = [kind |-> kind, d |-> d] /\ target' = v
  /\ reply' = NoReply
  /\ UNCHANGED <<rows, zoneName, visible, listing, touched>>

\* Wrong variant: the records are listed before the name of the zone is known.
ListingUnnamed == "page"

FirstOfListing == IF zoneName THEN "page" ELSE "zone"

\* The listing that fails leaves its caller without the earlier one.
ListVisible == BeginOp("list", NoRecord, FirstOfListing, NoRecord) /\ held' = {}

Create(d) == BeginOp("create", d, "post", NoRecord) /\ UNCHANGED held

\* Update and Delete ask for the cached identity first, and fail without it.
Update(v, d) ==
  visibleRemoteID(visible, v) /\ BeginOp("update", d, "put", v) /\ UNCHANGED held

Delete(v) ==
  visibleRemoteID(visible, v) /\ BeginOp("delete", NoRecord, "delete", v) /\ UNCHANGED held

Unidentified(v) ==
  /\ pc = "idle" /\ ~visibleRemoteID(visible, v)
  /\ Returns("fatal", NoProvenance)
  /\ UNCHANGED <<rows, zoneName, visible, held>>

-----------------------------------------------------------------------------
(* The listing *)

ensureZoneName ==
  /\ pc = "zone"
  /\ \/ GoTo("page") /\ zoneName' = TRUE /\ UNCHANGED <<listing, target>>
     \/ Fails /\ UNCHANGED zoneName
  /\ UNCHANGED <<rows, visible, held>>

\* The page after those that were read.
Page == {r \in rows : Cardinality({q \in rows : q.id < r.id}) = Len(listing)}

\* The request for it fails, too, when it would find no further page.
ReadPage ==
  /\ pc = "page"
  /\ \/ /\ \E r \in Page : listing' = Append(listing, r)
        /\ GoTo("page") /\ UNCHANGED target
     \/ Fails
  /\ UNCHANGED <<rows, zoneName, visible, held>>

\* Wrong variant: the cache of each page replaces that of the page before.
CachedLastPage ==
  {[key |-> rowKey(listing[i]), id |-> listing[i].id] : i \in {j \in DOMAIN listing : j = Len(listing)}}

\* Of two records listed under one key, the cache has the later.
Cached ==
  {[key |-> rowKey(listing[i]), id |-> listing[i].id] :
     i \in {j \in DOMAIN listing :
              \A k \in DOMAIN listing : k > j => rowKey(listing[k]) # rowKey(listing[j])}}

ref == CHOOSE o \in Outputs : Kind[o] = "cloudflare"

Listed == CloudflareListVisible(ref, {listing[i] : i \in DOMAIN listing})

\* Wrong variant: a record of any host is taken for the duplicate.
AnyMatch == DOMAIN listing

Matches == {i \in DOMAIN listing : hostnamesEquivalent(listing[i], op.d)}

Entry(i) == CHOOSE v \in Listed : v.provenance = listing[i].id

\* Wrong variant: a duplicate that cannot be told is created again.
RecoverTryingAgain ==
  IF ~One(Matches) THEN GoTo("post") /\ listing' = << >> /\ UNCHANGED target
  ELSE \E i \in Matches : target' = Entry(i) /\ GoTo("put") /\ listing' = << >>

\* Wrong variant: the duplicate is adopted with whatever it answers.
RecoverAsIs ==
  IF ~One(Matches) THEN Returns("fatal", NoProvenance)
  ELSE \E i \in Matches : Returns("ok", listing[i].id)

(***************************************************************************)
(* The rest of a create that met a duplicate, after its listing: the only  *)
(* record of the host is taken over, with an update when it answers        *)
(* something else.                                                         *)
(***************************************************************************)
Recover ==
  IF ~One(Matches) THEN Returns("fatal", NoProvenance)
  ELSE \E i \in Matches :
         IF normalizeAnswer[listing[i].answer] = normalizeAnswer[op.d.answer]
         THEN Returns("ok", listing[i].id)
         ELSE target' = Entry(i) /\ GoTo("put") /\ listing' = << >>

EndListing ==
  /\ pc = "page" /\ Page = {}
  /\ visible' = Cached
  /\ IF op.kind = "list"
     THEN Returns("ok", NoProvenance) /\ held' = Listed
     ELSE Recover /\ UNCHANGED held
  /\ UNCHANGED <<rows, zoneName>>

-----------------------------------------------------------------------------
(* The other requests *)

\* The request is answered as the service does, or refused, or its answer lost.
Answered(outcomes) ==
  \E y \in Attempt(rows, visible, outcomes) :
    /\ y.reply # "temporary"
    /\ rows' = y.rows
    /\ Returns(y.reply, y.provenance)

Added(id) ==
  [id |-> id, hostname |-> fullName(op.d), answer |-> normalizeAnswer[op.d.answer],
   maker |-> "daemon"]

\* The service refuses an identical record and may refuse another of the host.
Post ==
  /\ pc = "post"
  /\ \/ /\ Identical(rows, op.d) = {}
        /\ \E id \in FreshIds : Answered({Succeeds(rows \cup {Added(id)}, visible, id)})
     \/ /\ \E r \in rows : hostnamesEquivalent(r, op.d)
        /\ GoTo(FirstOfListing) /\ UNCHANGED <<rows, listing, target>>
     \/ Fails /\ UNCHANGED rows
  /\ UNCHANGED <<zoneName, visible, held>>

\* Recover's update asks for the cached identity, too.
Put ==
  /\ pc = "put"
  /\ Answered(CloudflareUpdate(rows, visible, target, op.d))
  /\ UNCHANGED <<zoneName, visible, held>>

DeleteRequest ==
  /\ pc = "delete"
  /\ Answered(CloudflareDelete(rows, visible, target))
  /\ UNCHANGED <<zoneName, visible, held>>

-----------------------------------------------------------------------------
(* The operator *)

\* No property of this module asks who made a record.
Row(id, t) == [id |-> id, hostname |-> t.hostname, answer |-> t.answer, maker |-> "daemon"]

Touches(id) == touched' = IF pc = "idle" THEN {} ELSE touched \cup {id}

Operator ==
  /\ \E t \in Texts :
       /\ Identical(rows, t) = {}
       /\ \/ \E id \in FreshIds : rows' = rows \cup {Row(id, t)} /\ Touches(id)
          \/ \E r \in rows : rows' = (rows \ {r}) \cup {Row(r.id, t)} /\ Touches(r.id)
     \/ \E r \in rows : rows' = rows \ {r} /\ Touches(r.id)
  /\ UNCHANGED provider

Begin ==
  \/ ListVisible
  \/ \E d \in Wanted : Create(d)
  \/ \E v \in held, d \in Wanted : hostnamesEquivalent(v, d) /\ Update(v, d)
  \/ \E v \in held : Delete(v)
  \/ \E v \in held : Unidentified(v)

Request == ensureZoneName \/ ReadPage \/ EndListing \/ Post \/ Put \/ DeleteRequest

Next == Begin \/ Request \/ Operator

Spec == Init /\ [][Next]_vars

\* Every request is answered, or runs into the operation timeout.
FairSpec == Spec /\ WF_vars(Request)

-----------------------------------------------------------------------------
(* Properties *)

\* Every variable has its type; an update or delete has a record to act on.
TypeOK ==
  /\ rows \subseteq Rows /\ zoneName \in BOOLEAN /\ visible \subseteq Metas
  /\ held \subseteq VisibleRecords
  /\ pc \in Requests /\ op.kind \in Operations /\ op.d \in Wanted \cup {NoRecord}
  /\ listing \in Seq(Rows) /\ target \in VisibleRecords \cup {NoRecord}
  /\ reply.reply \in Replies /\ reply.provenance \in Provenances
  /\ touched \subseteq Ids
  /\ pc \in {"put", "delete"} => target \in VisibleRecords
  /\ pc = "page" => zoneName

Completed == pc # "idle" /\ pc' = "idle"

\* What the operation may do as one step of CloudflareOutput.
AtomicOutcomes ==
  Attempt(rows, visible,
    CASE op.kind = "create" -> UNION {CloudflareCreate(rows, visible, op.d, id) : id \in Ids}
      [] op.kind = "update" -> CloudflareUpdate(rows, visible, target, op.d)
      [] op.kind = "delete" -> CloudflareDelete(rows, visible, target)
      [] OTHER -> {Succeeds(rows, visibleMeta(rows), NoProvenance)})

(***************************************************************************)
(* An operation during which nobody else touches the zone does to the      *)
(* zone and to its caller what the same operation of CloudflareOutput may  *)
(* do in one step, and when it succeeds, to the cache: the pass that a     *)
(* failure ends leaves the cache to the listing of the next.               *)
(***************************************************************************)
AtomicUndisturbed ==
  [][Completed /\ touched = {} =>
       \E y \in AtomicOutcomes :
         /\ rows' = y.rows /\ reply' = Reply(y.reply, y.provenance)
         /\ y.reply = "ok" => visible' = y.listed]_vars

(***************************************************************************)
(* The identity a create or an update returns, which the snapshot will     *)
(* hold as proof of ownership, is that of a record that shows what was     *)
(* wanted, unless the operator touched that very record meanwhile.         *)
(***************************************************************************)
ReplyHolds ==
  [][Completed /\ op.kind \in {"create", "update"} /\ reply'.reply = "ok"
       /\ reply'.provenance \notin touched =>
       \E r \in rows' :
         /\ r.id = reply'.provenance
         /\ hostnamesEquivalent(r, op.d)
         /\ normalizeAnswer[r.answer] = normalizeAnswer[op.d.answer]]_vars

(***************************************************************************)
(* No request changes or removes a record but the one the runtime named,   *)
(* or, for a create, one of the host that is wanted or one the operator is *)
(* changing meanwhile.                                                     *)
(***************************************************************************)
OthersUntouched ==
  [][pc' # pc =>
       \A r \in rows \ rows' :
         IF op.kind = "create" THEN hostnamesEquivalent(r, op.d) \/ r.id \in touched
         ELSE r.id = target.provenance]_vars

\* Every operation comes to an end, whatever the operator goes on doing.
CallsEnd == pc # "idle" ~> pc = "idle"
=============================================================================
