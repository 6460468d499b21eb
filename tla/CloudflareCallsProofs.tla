------------------------ MODULE CloudflareCallsProofs ------------------------
(***************************************************************************)
(* Proofs about the Cloudflare provider request by request, for any zone,  *)
(* any operator and any records that are wanted.                           *)
(*                                                                         *)
(* What a listing has read may be out of date when the create that asked   *)
(* for it acts on it.  The invariant says how much of it can be relied on: *)
(* a record that was read is still in the zone as it was read, or the      *)
(* operator touched it since.  While he touches nothing, a listing reads   *)
(* the records of the zone in the order of their IDs and ends with all of  *)
(* them, and an operation is as good as a single step.                     *)
(***************************************************************************)
EXTENDS CloudflareCalls, FiniteSetTheorems, WellFoundedInduction, TLAPS

Pairs == [hostname : Hosts, answer : Answers]

\* What holds of the operation at each of its requests.
Places ==
  /\ pc = "idle" => touched = {}
  /\ pc # "page" => listing = << >>
  /\ pc \in {"zone", "page"} => op.kind \in {"list", "create"}
  /\ pc = "post" => op.kind = "create"
  /\ pc = "put" => op.kind \in {"create", "update"}
  /\ pc = "delete" => op.kind = "delete"
  /\ op.kind \in {"create", "update"} => op.d \in Wanted

IdsUnique(zone) == \A r, s \in zone : r.id = s.id => r = s

ListingHolds == \A i \in DOMAIN listing : listing[i] \in rows \/ listing[i].id \in touched

\* The record that a duplicate recovery is about to rewrite.
TargetHolds ==
  pc = "put" /\ op.kind = "create" =>
    \A r \in rows : r.id = target.provenance => hostnamesEquivalent(r, op.d) \/ r.id \in touched

IInv == TypeOK /\ Places /\ IdsUnique(rows) /\ ListingHolds /\ TargetHolds

-----------------------------------------------------------------------------
(* Lemmas about names, rows and the outcomes of a request *)

LEMMA Assumed ==
  /\ Wanted \subseteq Pairs /\ Texts \subseteq Pairs
  /\ ref \in Outputs
  /\ NoProvenance \notin Ids
BY WantedAssumption, NamesAssumption DEF Pairs, ref

LEMMA FullNames ==
  ASSUME NEW d \in Pairs
  PROVE  /\ fullName(d) \in Hosts /\ normalizeAnswer[d.answer] \in Answers
         /\ Qualify[normalizeHostname[fullName(d)]] = fullName(d)
         /\ normalizeAnswer[normalizeAnswer[d.answer]] = normalizeAnswer[d.answer]
<1>1. d.hostname \in Hosts /\ d.answer \in Answers
  BY DEF Pairs
<1>2. normalizeHostname[d.hostname] \in Hosts /\ normalizeAnswer[d.answer] \in Answers
  BY <1>1, NamesAssumption
<1>3. normalizeHostname[Qualify[normalizeHostname[d.hostname]]] = Qualify[normalizeHostname[d.hostname]]
  BY <1>1, WantedAssumption
<1>4. /\ Qualify[normalizeHostname[d.hostname]] \in Hosts
      /\ Qualify[Qualify[normalizeHostname[d.hostname]]] = Qualify[normalizeHostname[d.hostname]]
  BY <1>2, QualifyAssumption
<1>5. normalizeAnswer[normalizeAnswer[d.answer]] = normalizeAnswer[d.answer]
  BY <1>1, NamesAssumption
<1> QED
  BY <1>2, <1>3, <1>4, <1>5 DEF fullName

\* A row shows what is wanted.
Shows(r, d) ==
  hostnamesEquivalent(r, d) /\ normalizeAnswer[r.answer] = normalizeAnswer[d.answer]

LEMMA RenamedRow ==
  ASSUME NEW r \in Rows, NEW d \in Pairs
  PROVE  Renamed(r, d) \in Rows /\ Renamed(r, d).id = r.id /\ Shows(Renamed(r, d), d)
BY FullNames DEF Renamed, Rows, Shows, hostnamesEquivalent

LEMMA AddedRow ==
  ASSUME op.d \in Pairs, NEW id \in Ids
  PROVE  Added(id) \in Rows /\ Added(id).id = id /\ Shows(Added(id), op.d)
BY FullNames DEF Added, Rows, Makers, Shows, hostnamesEquivalent

\* What may happen to a request on the way to the service and back.
LEMMA Attempted ==
  ASSUME NEW zone, NEW listed, NEW outcomes, NEW y \in Attempt(zone, listed, outcomes)
  PROVE  \/ y \in outcomes
         \/ /\ y.rows = zone \/ \E z \in outcomes : y.rows = z.rows
            /\ y.reply \in {"temporary", "fatal"} /\ y.provenance = NoProvenance
BY DEF Attempt, Rejects

LEMMA Updates ==
  ASSUME rows \subseteq Rows, IdsUnique(rows), NEW v, NEW d \in Pairs,
         NEW y \in Attempt(rows, visible, CloudflareUpdate(rows, visible, v, d))
  PROVE  /\ y.rows \subseteq Rows /\ IdsUnique(y.rows)
         /\ y.reply \in Replies /\ y.provenance \in Provenances
         /\ \A r \in rows \ y.rows : r.id = v.provenance
         /\ y.reply = "ok" => \E r \in y.rows : r.id = y.provenance /\ Shows(r, d)
<1> DEFINE named  == {r \in rows : r.id = v.provenance}
           others == rows \ named
           after(r) == others \cup {Renamed(r, d)}
<1>1. ASSUME NEW z \in CloudflareUpdate(rows, visible, v, d)
      PROVE  \/ z = Rejects(rows, visible, "fatal")
             \/ \E r \in named : z = Succeeds(after(r), visible, r.id)
  BY DEF CloudflareUpdate
<1>2. ASSUME NEW r \in named
      PROVE  /\ after(r) \subseteq Rows /\ IdsUnique(after(r))
             /\ \A q \in rows \ after(r) : q.id = v.provenance
             /\ r.id \in Provenances
             /\ Renamed(r, d).id = r.id /\ Shows(Renamed(r, d), d)
  <2>1. r \in Rows /\ r.id \in Ids
    BY DEF Rows
  <2>2. Renamed(r, d) \in Rows /\ Renamed(r, d).id = r.id /\ Shows(Renamed(r, d), d)
    BY <2>1, RenamedRow
  <2>3. \A q \in others : q.id # r.id
    OBVIOUS
  <2> QED
    BY <2>1, <2>2, <2>3 DEF IdsUnique, Provenances
<1>3. CASE y \in CloudflareUpdate(rows, visible, v, d)
  <2>1. CASE y = Rejects(rows, visible, "fatal")
    BY <2>1 DEF Rejects, Replies, Provenances
  <2>2. CASE \E r \in named : y = Succeeds(after(r), visible, r.id)
    <3>1. PICK r \in named : y = Succeeds(after(r), visible, r.id)
      BY <2>2
    <3>2. y.rows = after(r) /\ y.reply = "ok" /\ y.provenance = r.id
      BY <3>1 DEF Succeeds
    <3> QED
      BY <1>2, <3>2 DEF Replies
  <2> QED
    BY <1>1, <1>3, <2>1, <2>2
<1>4. CASE y \notin CloudflareUpdate(rows, visible, v, d)
  <2>1. /\ y.rows = rows \/ \E r \in named : y.rows = after(r)
        /\ y.reply \in {"temporary", "fatal"} /\ y.provenance = NoProvenance
    BY <1>1, <1>4, Attempted DEF Rejects, Succeeds
  <2> QED
    BY <1>2, <2>1 DEF Replies, Provenances
<1> QED
  BY <1>3, <1>4

LEMMA Deletes ==
  ASSUME rows \subseteq Rows, IdsUnique(rows), NEW v,
         NEW y \in Attempt(rows, visible, CloudflareDelete(rows, visible, v))
  PROVE  /\ y.rows \subseteq Rows /\ IdsUnique(y.rows)
         /\ y.reply \in Replies /\ y.provenance \in Provenances
         /\ \A r \in rows \ y.rows : r.id = v.provenance
<1> DEFINE kept == rows \ {r \in rows : r.id = v.provenance}
<1>1. ASSUME NEW z \in CloudflareDelete(rows, visible, v)
      PROVE  /\ z.rows = rows \/ z.rows = kept
             /\ z.reply \in Replies /\ z.provenance = NoProvenance
  BY DEF CloudflareDelete, Rejects, Succeeds, Replies
<1>2. /\ y.rows = rows \/ y.rows = kept
      /\ y.reply \in Replies /\ y.provenance = NoProvenance
  BY <1>1, Attempted DEF Replies
<1> QED
  BY <1>2 DEF IdsUnique, Provenances

LEMMA Adds ==
  ASSUME rows \subseteq Rows, IdsUnique(rows), op.d \in Pairs, NEW id \in FreshIds,
         NEW y \in Attempt(rows, visible, {Succeeds(rows \cup {Added(id)}, visible, id)})
  PROVE  /\ y.rows \subseteq Rows /\ IdsUnique(y.rows) /\ rows \subseteq y.rows
         /\ y.reply \in Replies /\ y.provenance \in Provenances
         /\ y.reply = "ok" => \E r \in y.rows : r.id = y.provenance /\ Shows(r, op.d)
<1>1. id \in Ids /\ \A r \in rows : r.id # id
  BY DEF FreshIds, UsedIds
<1>2. Added(id) \in Rows /\ Added(id).id = id /\ Shows(Added(id), op.d)
  BY <1>1, AddedRow
<1>3. /\ y.rows = rows \/ y.rows = rows \cup {Added(id)}
      /\ y.reply \in Replies /\ y.provenance \in Provenances
      /\ y.reply = "ok" => y.rows = rows \cup {Added(id)} /\ y.provenance = id
  BY <1>1, Attempted DEF Succeeds, Replies, Provenances
<1> QED
  BY <1>1, <1>2, <1>3 DEF IdsUnique

-----------------------------------------------------------------------------
(* The invariant *)

LEMMA InitInv == Init => IInv
<1> SUFFICES ASSUME Init PROVE IInv
  OBVIOUS
<1>1. listing = << >> /\ listing \in Seq(Rows)
  BY DEF Init
<1>2. /\ op.kind = "none" /\ op.d = NoRecord
      /\ reply.reply = "ok" /\ reply.provenance = NoProvenance
  BY DEF Init, NoOp, NoReply, Reply
<1>3. TypeOK
  BY <1>1, <1>2 DEF Init, TypeOK, Requests, Operations, Replies, Provenances
<1>4. Places /\ IdsUnique(rows) /\ ListingHolds /\ TargetHolds
  BY <1>1, <1>2 DEF Init, Places, IdsUnique, ListingHolds, TargetHolds
<1> QED
  BY <1>3, <1>4 DEF IInv

\* An operation returns.
LEMMA ReturnInv ==
  ASSUME IInv, NEW k \in Replies, NEW p \in Provenances, Returns(k, p),
         rows' \subseteq Rows, IdsUnique(rows'), zoneName' \in BOOLEAN,
         visible' \subseteq Metas, held' \subseteq VisibleRecords
  PROVE  IInv'
<1>1. /\ pc' = "idle" /\ op' = NoOp /\ target' = NoRecord /\ touched' = {}
      /\ listing' = << >> /\ listing' \in Seq(Rows)
      /\ reply'.reply = k /\ reply'.provenance = p
  BY DEF Returns, Reply
<1>2. op'.kind = "none" /\ op'.d = NoRecord
  BY <1>1 DEF NoOp
<1> QED
  BY <1>1, <1>2 DEF IInv, TypeOK, Places, ListingHolds, TargetHolds, Requests, Operations

LEMMA FailInv ==
  ASSUME IInv, Fails, UNCHANGED <<rows, zoneName, visible, held>>
  PROVE  IInv'
<1>1. Returns("fatal", NoProvenance) /\ "fatal" \in Replies /\ NoProvenance \in Provenances
  BY DEF Fails, Replies, Provenances
<1> QED
  BY <1>1, ReturnInv DEF IInv, TypeOK

LEMMA BeginInv == IInv /\ Begin => IInv'
<1> SUFFICES ASSUME IInv, Begin PROVE IInv'
  OBVIOUS
<1>1. ASSUME NEW kind \in Operations, NEW d \in Wanted \cup {NoRecord}, NEW request \in Requests,
             NEW v \in VisibleRecords \cup {NoRecord}, BeginOp(kind, d, request, v),
             held' \subseteq VisibleRecords,
             \/ kind = "list" /\ request \in {"zone", "page"} /\ (request = "page" => zoneName)
             \/ kind = "create" /\ request = "post" /\ d \in Wanted
             \/ kind = "update" /\ request = "put" /\ d \in Wanted /\ v \in VisibleRecords
             \/ kind = "delete" /\ request = "delete" /\ v \in VisibleRecords
      PROVE  IInv'
  <2>1. /\ pc = "idle" /\ pc' = request /\ target' = v
        /\ op'.kind = kind /\ op'.d = d
        /\ reply'.reply = "ok" /\ reply'.provenance = NoProvenance
        /\ UNCHANGED <<rows, zoneName, visible, listing, touched>>
    BY <1>1 DEF BeginOp, NoReply, Reply
  <2>2. TypeOK'
    BY <1>1, <2>1 DEF IInv, TypeOK, Replies, Provenances
  <2>3. Places' /\ TargetHolds'
    BY <1>1, <2>1 DEF IInv, Places, TargetHolds
  <2>4. IdsUnique(rows)' /\ ListingHolds'
    BY <2>1 DEF IInv, IdsUnique, ListingHolds
  <2> QED
    BY <2>2, <2>3, <2>4 DEF IInv
<1>2. CASE ListVisible
  <2>1. FirstOfListing \in {"zone", "page"} /\ (FirstOfListing = "page" => zoneName)
    BY DEF FirstOfListing, IInv, TypeOK
  <2>2. BeginOp("list", NoRecord, FirstOfListing, NoRecord) /\ held' = {}
    BY <1>2 DEF ListVisible
  <2> QED
    BY <1>1, <2>1, <2>2 DEF Operations, Requests
<1>3. CASE \E d \in Wanted : Create(d)
  BY <1>1, <1>3 DEF Create, Operations, Requests, IInv, TypeOK
<1>4. CASE \E v \in held, d \in Wanted : Update(v, d)
  BY <1>1, <1>4 DEF Update, Operations, Requests, IInv, TypeOK
<1>5. CASE \E v \in held : Delete(v)
  BY <1>1, <1>5 DEF Delete, Operations, Requests, IInv, TypeOK
<1>6. CASE \E v \in held : Unidentified(v)
  <2>1. /\ Returns("fatal", NoProvenance) /\ "fatal" \in Replies /\ NoProvenance \in Provenances
        /\ UNCHANGED <<rows, zoneName, visible, held>>
    BY <1>6 DEF Unidentified, Replies, Provenances
  <2> QED
    BY <2>1, ReturnInv DEF IInv, TypeOK
<1> QED
  BY <1>2, <1>3, <1>4, <1>5, <1>6 DEF Begin

LEMMA ZoneInv == IInv /\ ensureZoneName => IInv'
<1> SUFFICES ASSUME IInv, ensureZoneName PROVE IInv'
  OBVIOUS
<1>1. CASE Fails /\ UNCHANGED zoneName
  BY <1>1, FailInv DEF ensureZoneName
<1>2. CASE GoTo("page") /\ zoneName' = TRUE /\ UNCHANGED <<listing, target>>
  <2>1. /\ pc = "zone" /\ pc' = "page"
        /\ UNCHANGED <<rows, visible, held, op, reply, touched, listing, target>>
    BY <1>2 DEF ensureZoneName, GoTo
  <2>2. TypeOK'
    BY <1>2, <2>1 DEF IInv, TypeOK, Requests
  <2>3. Places' /\ IdsUnique(rows)' /\ ListingHolds' /\ TargetHolds'
    BY <2>1 DEF IInv, Places, IdsUnique, ListingHolds, TargetHolds
  <2> QED
    BY <2>2, <2>3 DEF IInv
<1> QED
  BY <1>1, <1>2 DEF ensureZoneName

LEMMA PageInv == IInv /\ ReadPage => IInv'
<1> SUFFICES ASSUME IInv, ReadPage PROVE IInv'
  OBVIOUS
<1>1. CASE Fails
  BY <1>1, FailInv DEF ReadPage
<1>2. CASE /\ \E r \in Page : listing' = Append(listing, r)
           /\ GoTo("page") /\ UNCHANGED target
  <2>1. /\ pc = "page" /\ pc' = "page"
        /\ UNCHANGED <<rows, zoneName, visible, held, op, reply, touched, target>>
    BY <1>2 DEF ReadPage, GoTo
  <2>2. PICK r \in rows : listing' = Append(listing, r)
    BY <1>2 DEF Page
  <2>3. listing \in Seq(Rows) /\ r \in Rows
    BY DEF IInv, TypeOK
  <2>4. listing' \in Seq(Rows)
    BY <2>2, <2>3
  <2>5. \A i \in DOMAIN listing' : listing'[i] = r \/ (i \in DOMAIN listing /\ listing'[i] = listing[i])
    BY <2>2, <2>3
  <2>6. ListingHolds'
    BY <2>1, <2>5 DEF IInv, ListingHolds
  <2>7. TypeOK'
    BY <2>1, <2>4 DEF IInv, TypeOK
  <2>8. Places' /\ IdsUnique(rows)' /\ TargetHolds'
    BY <2>1 DEF IInv, Places, IdsUnique, TargetHolds
  <2> QED
    BY <2>6, <2>7, <2>8 DEF IInv
<1> QED
  BY <1>1, <1>2 DEF ReadPage

\* What a finished listing leaves in the cache and gives to the runtime.
LEMMA ListingTypes ==
  ASSUME listing \in Seq(Rows)
  PROVE  /\ Cached \subseteq Metas
         /\ Listed \subseteq VisibleRecords
         /\ \A i \in DOMAIN listing :
              listing[i] \in Rows /\ Entry(i) \in VisibleRecords /\ Entry(i).provenance = listing[i].id
<1>1. \A i \in DOMAIN listing : listing[i] \in Rows
  OBVIOUS
<1>2. \A r \in Rows : rowKey(r) \in Hosts \X Answers
  BY NamesAssumption DEF rowKey, Rows
<1>3. \A r \in Rows : r.id \in Ids
  BY DEF Rows
<1>4. Cached \subseteq Metas
  BY <1>1, <1>2, <1>3 DEF Cached, Metas
<1>5. ASSUME NEW i \in DOMAIN listing
      PROVE  /\ [output |-> ref, hostname |-> normalizeHostname[listing[i].hostname],
                 answer |-> normalizeAnswer[listing[i].answer],
                 provenance |-> listing[i].id, row |-> listing[i].id] \in Listed \cap VisibleRecords
  <2>1. listing[i].hostname \in Hosts /\ listing[i].answer \in Answers /\ listing[i].id \in Ids
    BY <1>1 DEF Rows
  <2>2. /\ normalizeHostname[listing[i].hostname] \in Hosts
        /\ normalizeAnswer[listing[i].answer] \in Answers
    BY <2>1, NamesAssumption
  <2> QED
    BY <2>1, <2>2, Assumed DEF Listed, CloudflareListVisible, VisibleRecords, Provenances
<1>6. Listed \subseteq VisibleRecords
  BY <1>5 DEF Listed, CloudflareListVisible
<1>7. ASSUME NEW i \in DOMAIN listing
      PROVE  Entry(i) \in Listed /\ Entry(i).provenance = listing[i].id
  <2>1. \E v \in Listed : v.provenance = listing[i].id
    BY <1>5
  <2> QED
    BY <2>1 DEF Entry
<1> QED
  BY <1>1, <1>4, <1>6, <1>7

LEMMA EndListingInv == IInv /\ EndListing => IInv'
<1> SUFFICES ASSUME IInv, EndListing PROVE IInv'
  OBVIOUS
<1>1. /\ pc = "page" /\ visible' = Cached /\ UNCHANGED <<rows, zoneName>>
      /\ listing \in Seq(Rows)
  BY DEF EndListing, IInv, TypeOK
<1>2. visible' \subseteq Metas /\ held' \subseteq VisibleRecords
  BY <1>1, ListingTypes DEF EndListing, IInv, TypeOK
<1>3. ASSUME NEW k \in {"ok", "fatal"}, NEW p \in Provenances, Returns(k, p)
      PROVE  IInv'
  BY <1>1, <1>2, <1>3, ReturnInv DEF IInv, TypeOK, Replies
<1>4. CASE op.kind = "list"
  BY <1>3, <1>4 DEF EndListing, Provenances
<1>5. CASE op.kind # "list"
  <2>1. Recover /\ op.kind = "create" /\ op.d \in Wanted
    BY <1>1, <1>5 DEF EndListing, IInv, Places
  <2>2. CASE \E p \in Provenances : Returns("ok", p) \/ Returns("fatal", p)
    BY <1>3, <2>2
  <2>3. CASE \E i \in Matches : target' = Entry(i) /\ GoTo("put") /\ listing' = << >>
    <3>1. PICK i \in DOMAIN listing : /\ hostnamesEquivalent(listing[i], op.d)
                                      /\ target' = Entry(i) /\ GoTo("put") /\ listing' = << >>
      BY <2>3 DEF Matches
    <3>2. /\ target' \in VisibleRecords /\ target'.provenance = listing[i].id
          /\ pc' = "put" /\ UNCHANGED <<op, reply, touched>>
          /\ listing' \in Seq(Rows)
      BY <1>1, <3>1, ListingTypes DEF GoTo
    <3>3. \A r \in rows : r.id = listing[i].id => r = listing[i] \/ r.id \in touched
      BY DEF IInv, IdsUnique, ListingHolds
    <3>4. TargetHolds'
      BY <1>1, <3>1, <3>2, <3>3 DEF TargetHolds
    <3>5. TypeOK'
      BY <1>1, <1>2, <3>2 DEF IInv, TypeOK, Requests
    <3>6. Places' /\ IdsUnique(rows)' /\ ListingHolds'
      BY <1>1, <2>1, <3>1, <3>2 DEF IInv, Places, IdsUnique, ListingHolds
    <3> QED
      BY <3>4, <3>5, <3>6 DEF IInv
  <2>4. \A i \in Matches : listing[i].id \in Provenances
    BY <1>1, ListingTypes DEF Matches, Rows, Provenances
  <2> QED
    BY <2>1, <2>2, <2>3, <2>4 DEF Recover, Provenances
<1> QED
  BY <1>4, <1>5

\* A request has an answer that ends the operation.
LEMMA AnsweredInv ==
  ASSUME IInv, UNCHANGED <<zoneName, visible, held>>, NEW y,
         y.rows \subseteq Rows, IdsUnique(y.rows), y.reply \in Replies, y.provenance \in Provenances,
         rows' = y.rows, Returns(y.reply, y.provenance)
  PROVE  IInv'
BY ReturnInv DEF IInv, TypeOK

LEMMA PostInv == IInv /\ Post => IInv'
<1> SUFFICES ASSUME IInv, Post PROVE IInv'
  OBVIOUS
<1>1. /\ pc = "post" /\ op.kind = "create" /\ op.d \in Pairs /\ op.d \in Wanted
      /\ rows \subseteq Rows /\ IdsUnique(rows)
      /\ UNCHANGED <<zoneName, visible, held>>
  BY Assumed DEF Post, IInv, TypeOK, Places
<1>2. CASE Fails /\ UNCHANGED rows
  BY <1>1, <1>2, FailInv
<1>3. CASE \E id \in FreshIds : Answered({Succeeds(rows \cup {Added(id)}, visible, id)})
  <2>1. PICK id \in FreshIds : Answered({Succeeds(rows \cup {Added(id)}, visible, id)})
    BY <1>3
  <2>2. PICK y \in Attempt(rows, visible, {Succeeds(rows \cup {Added(id)}, visible, id)}) :
          rows' = y.rows /\ Returns(y.reply, y.provenance)
    BY <2>1 DEF Answered
  <2> QED
    BY <1>1, <2>2, Adds, AnsweredInv
<1>4. CASE GoTo(FirstOfListing) /\ UNCHANGED <<rows, listing, target>>
  <2>1. FirstOfListing \in {"zone", "page"} /\ (FirstOfListing = "page" => zoneName)
    BY DEF FirstOfListing, IInv, TypeOK
  <2>2. pc' = FirstOfListing /\ UNCHANGED <<rows, listing, target, op, reply, touched>>
    BY <1>4 DEF GoTo
  <2>3. TypeOK'
    BY <1>1, <2>1, <2>2 DEF IInv, TypeOK, Requests
  <2>4. Places' /\ TargetHolds'
    BY <1>1, <2>1, <2>2 DEF IInv, Places, TargetHolds
  <2>5. IdsUnique(rows)' /\ ListingHolds'
    BY <2>2 DEF IInv, IdsUnique, ListingHolds
  <2> QED
    BY <2>3, <2>4, <2>5 DEF IInv
<1> QED
  BY <1>2, <1>3, <1>4 DEF Post

LEMMA PutInv == IInv /\ Put => IInv'
<1> SUFFICES ASSUME IInv, Put PROVE IInv'
  OBVIOUS
<1>1. /\ op.d \in Pairs /\ rows \subseteq Rows /\ IdsUnique(rows)
      /\ UNCHANGED <<zoneName, visible, held>>
  BY Assumed DEF Put, IInv, TypeOK, Places
<1>2. PICK y \in Attempt(rows, visible, CloudflareUpdate(rows, visible, target, op.d)) :
        rows' = y.rows /\ Returns(y.reply, y.provenance)
  BY DEF Put, Answered
<1> QED
  BY <1>1, <1>2, Updates, AnsweredInv

LEMMA DeleteInv == IInv /\ DeleteRequest => IInv'
<1> SUFFICES ASSUME IInv, DeleteRequest PROVE IInv'
  OBVIOUS
<1>1. /\ rows \subseteq Rows /\ IdsUnique(rows)
      /\ UNCHANGED <<zoneName, visible, held>>
  BY DEF DeleteRequest, IInv, TypeOK
<1>2. PICK y \in Attempt(rows, visible, CloudflareDelete(rows, visible, target)) :
        rows' = y.rows /\ Returns(y.reply, y.provenance)
  BY DEF DeleteRequest, Answered
<1> QED
  BY <1>1, <1>2, Deletes, AnsweredInv

(***************************************************************************)
(* Whatever the operator does to a record while an operation is under way, *)
(* he touches its ID.                                                      *)
(***************************************************************************)
LEMMA OperatorInv == IInv /\ Operator => IInv'
<1> SUFFICES ASSUME IInv, Operator PROVE IInv'
  OBVIOUS
<1>1. UNCHANGED <<zoneName, visible, held, pc, op, listing, target, reply>>
  BY DEF Operator, provider
<1>2. ASSUME NEW id \in Ids, NEW added, Touches(id), rows' = {r \in rows : r.id # id} \cup added,
             \/ added = {}
             \/ \E q \in Rows : q.id = id /\ added = {q}
      PROVE  IInv'
  <2>1. /\ rows' \subseteq Rows
        /\ \A r \in added : r.id = id
        /\ IdsUnique(rows')
    BY <1>2 DEF IInv, TypeOK, IdsUnique
  <2>2. touched' \subseteq Ids /\ (pc = "idle" => touched' = {})
        /\ (pc # "idle" => touched' = touched \cup {id})
    BY <1>2 DEF Touches, IInv, TypeOK
  <2>3. TypeOK'
    BY <1>1, <2>1, <2>2 DEF IInv, TypeOK
  <2>4. Places'
    BY <1>1, <2>2 DEF IInv, Places
  <2>5. ListingHolds'
    <3>1. CASE pc = "page"
      BY <1>1, <1>2, <2>2, <3>1 DEF IInv, ListingHolds
    <3>2. CASE pc # "page"
      BY <1>1, <3>2 DEF IInv, Places, ListingHolds
    <3> QED
      BY <3>1, <3>2
  <2>6. TargetHolds'
    BY <1>1, <1>2, <2>1, <2>2 DEF IInv, TargetHolds, hostnamesEquivalent, fullName
  <2> QED
    BY <2>1, <2>3, <2>4, <2>5, <2>6 DEF IInv
<1>3. ASSUME NEW id \in Ids, NEW t \in Texts
      PROVE  Row(id, t) \in Rows /\ Row(id, t).id = id
  BY Assumed DEF Row, Rows, Pairs, Makers
<1>4. CASE \E t \in Texts, id \in FreshIds : rows' = rows \cup {Row(id, t)} /\ Touches(id)
  <2>1. PICK t \in Texts, id \in FreshIds : rows' = rows \cup {Row(id, t)} /\ Touches(id)
    BY <1>4
  <2>2. id \in Ids /\ rows = {r \in rows : r.id # id}
    BY DEF FreshIds, UsedIds
  <2> QED
    BY <1>2, <1>3, <2>1, <2>2
<1>5. ASSUME NEW r \in rows
      PROVE  r.id \in Ids /\ rows \ {r} = {q \in rows : q.id # r.id}
  BY DEF IInv, TypeOK, IdsUnique, Rows
<1>6. CASE \E t \in Texts, r \in rows : rows' = (rows \ {r}) \cup {Row(r.id, t)} /\ Touches(r.id)
  BY <1>2, <1>3, <1>5, <1>6
<1>7. CASE \E r \in rows : rows' = rows \ {r} /\ Touches(r.id)
  <2>1. PICK r \in rows : rows' = {q \in rows : q.id # r.id} \cup {} /\ Touches(r.id)
    BY <1>5, <1>7
  <2> QED
    BY <1>2, <1>5, <2>1
<1> QED
  BY <1>4, <1>6, <1>7 DEF Operator

LEMMA StepInv == IInv /\ [Next]_vars => IInv'
<1> SUFFICES ASSUME IInv, [Next]_vars PROVE IInv'
  OBVIOUS
<1>1. CASE UNCHANGED vars
  BY <1>1 DEF vars, provider, IInv, TypeOK, Places, IdsUnique, ListingHolds, TargetHolds,
     hostnamesEquivalent, fullName
<1> QED
  BY <1>1, BeginInv, ZoneInv, PageInv, EndListingInv, PostInv, PutInv, DeleteInv, OperatorInv
  DEF Next, Request

-----------------------------------------------------------------------------
(* Theorems *)

(***************************************************************************)
(* The inductive invariant holds in every state, whatever the operator and *)
(* the network do between two requests.                                    *)
(***************************************************************************)
THEOREM Invariance == Spec => []IInv
BY InitInv, StepInv, PTL DEF Spec

(***************************************************************************)
(* Every variable keeps its type: an update or delete has a record to act  *)
(* on, and no page is read before the name of the zone is known.           *)
(***************************************************************************)
THEOREM TypeCorrect == Spec => []TypeOK
<1>1. IInv => TypeOK
  BY DEF IInv
<1> QED
  BY <1>1, Invariance, PTL

\* The operations begin, and the operator works, without a request.
LEMMA OnlyRequests ==
  ASSUME IInv, [Next]_vars
  PROVE  /\ pc' # pc => rows' = rows \/ Post \/ Put \/ DeleteRequest
         /\ Completed => Request
<1>1. CASE Begin
  BY <1>1 DEF Begin, ListVisible, Create, Update, Delete, Unidentified, BeginOp, Completed
<1>2. CASE Operator
  BY <1>2 DEF Operator, provider, Completed
<1>3. CASE Request
  BY <1>3 DEF Request, ensureZoneName, ReadPage, EndListing
<1>4. CASE UNCHANGED vars
  BY <1>4 DEF vars, provider, Completed
<1> QED
  BY <1>1, <1>2, <1>3, <1>4 DEF Next

(***************************************************************************)
(* No request changes or removes a record but the one the runtime named,   *)
(* or, for a create, one of the host that is wanted or one the operator is *)
(* changing meanwhile.                                                     *)
(***************************************************************************)
THEOREM OthersAreUntouched == Spec => OthersUntouched
<1>1. ASSUME IInv, [Next]_vars, pc' # pc, NEW r \in rows \ rows'
      PROVE  IF op.kind = "create" THEN hostnamesEquivalent(r, op.d) \/ r.id \in touched
             ELSE r.id = target.provenance
  <2>1. Post \/ Put \/ DeleteRequest
    BY <1>1, OnlyRequests
  <2>2. rows \subseteq Rows /\ IdsUnique(rows)
    BY <1>1 DEF IInv, TypeOK
  <2>3. CASE Post
    <3>1. op.d \in Pairs
      BY <1>1, <2>3, Assumed DEF Post, IInv, Places
    <3>2. rows \subseteq rows'
      BY <2>2, <2>3, <3>1, Adds DEF Post, Answered
    <3> QED
      BY <1>1, <3>2
  <2>4. CASE Put
    <3>1. pc = "put" /\ op.kind \in {"create", "update"} /\ op.d \in Pairs
      BY <1>1, <2>4, Assumed DEF Put, IInv, Places
    <3>2. r.id = target.provenance
      BY <1>1, <2>2, <2>4, <3>1, Updates DEF Put, Answered
    <3> QED
      BY <1>1, <3>1, <3>2 DEF IInv, TargetHolds
  <2>5. CASE DeleteRequest
    <3>1. op.kind = "delete"
      BY <1>1, <2>5 DEF DeleteRequest, IInv, Places
    <3>2. r.id = target.provenance
      BY <1>1, <2>2, <2>5, Deletes DEF DeleteRequest, Answered
    <3> QED
      BY <3>1, <3>2
  <2> QED
    BY <2>1, <2>3, <2>4, <2>5
<1>2. IInv /\ [Next]_vars
        => [pc' # pc => \A r \in rows \ rows' :
              IF op.kind = "create" THEN hostnamesEquivalent(r, op.d) \/ r.id \in touched
              ELSE r.id = target.provenance]_vars
  BY <1>1
<1> QED
  BY <1>2, Invariance, PTL DEF Spec, OthersUntouched

(***************************************************************************)
(* The identity a create or an update returns is that of a record that     *)
(* shows what was wanted, unless the operator touched that very record     *)
(* while the operation was under way.                                      *)
(***************************************************************************)
THEOREM RepliesHold == Spec => ReplyHolds
<1>1. ASSUME IInv, [Next]_vars, Completed, op.kind \in {"create", "update"},
             reply'.reply = "ok", reply'.provenance \notin touched
      PROVE  \E r \in rows' : r.id = reply'.provenance /\ Shows(r, op.d)
  <2>1. Request /\ pc # "idle" /\ pc' = "idle"
    BY <1>1, OnlyRequests DEF Completed
  <2>2. rows \subseteq Rows /\ IdsUnique(rows) /\ op.d \in Pairs
    BY <1>1, Assumed DEF IInv, TypeOK, Places
  <2>3. ~Fails
    BY <1>1 DEF Fails, Returns, Reply
  <2>4. \A k, p : Returns(k, p) => reply'.reply = k /\ reply'.provenance = p
    BY DEF Returns, Reply
  <2>5. CASE ensureZoneName
    BY <2>1, <2>3, <2>5 DEF ensureZoneName, GoTo
  <2>6. CASE ReadPage
    BY <2>1, <2>3, <2>6 DEF ReadPage, GoTo
  <2>7. CASE EndListing
    <3>1. Recover /\ UNCHANGED rows
      BY <1>1, <2>7 DEF EndListing
    <3>2. PICK i \in Matches : /\ normalizeAnswer[listing[i].answer] = normalizeAnswer[op.d.answer]
                               /\ Returns("ok", listing[i].id)
      BY <1>1, <2>1, <2>4, <3>1 DEF Recover, GoTo
    <3>3. i \in DOMAIN listing /\ hostnamesEquivalent(listing[i], op.d)
      BY DEF Matches
    <3>4. listing[i] \in rows' /\ listing[i].id = reply'.provenance
      BY <1>1, <2>4, <3>1, <3>2, <3>3 DEF IInv, ListingHolds
    <3> QED
      BY <3>2, <3>3, <3>4 DEF Shows
  <2>8. CASE Post
    <3>1. FirstOfListing # "idle"
      BY DEF FirstOfListing
    <3>2. PICK id \in FreshIds : Answered({Succeeds(rows \cup {Added(id)}, visible, id)})
      BY <2>1, <2>3, <2>8, <3>1 DEF Post, GoTo
    <3> QED
      BY <1>1, <2>2, <2>4, <3>2, Adds DEF Answered
  <2>9. CASE Put
    BY <1>1, <2>2, <2>4, <2>9, Updates DEF Put, Answered
  <2>10. CASE DeleteRequest
    BY <1>1, <2>10 DEF DeleteRequest, IInv, Places
  <2> QED
    BY <2>1, <2>5, <2>6, <2>7, <2>8, <2>9, <2>10 DEF Request
<1>2. IInv /\ [Next]_vars
        => [Completed /\ op.kind \in {"create", "update"} /\ reply'.reply = "ok"
              /\ reply'.provenance \notin touched =>
            \E r \in rows' :
              /\ r.id = reply'.provenance
              /\ hostnamesEquivalent(r, op.d)
              /\ normalizeAnswer[r.answer] = normalizeAnswer[op.d.answer]]_vars
  BY <1>1 DEF Shows
<1> QED
  BY <1>2, Invariance, PTL DEF Spec, ReplyHolds
-----------------------------------------------------------------------------
(* An operation alone on the zone *)

\* No two records of the zone are identical.
KeysUnique(zone) ==
  \A r, s \in zone :
    /\ Qualify[normalizeHostname[r.hostname]] = Qualify[normalizeHostname[s.hostname]]
    /\ normalizeAnswer[r.answer] = normalizeAnswer[s.answer]
    => r = s

Below(r) == {q \in rows : q.id < r.id}

\* The pages read so far are the first records of the zone.
InOrder ==
  \A i \in DOMAIN listing : listing[i] \in rows /\ Cardinality(Below(listing[i])) = i - 1

OnHost == {r \in rows : hostnamesEquivalent(r, op.d)}

\* r is what the create under way has to rewrite.
IsDuplicate(r) ==
  /\ OnHost = {r}
  /\ normalizeAnswer[r.answer] # normalizeAnswer[op.d.answer]
  /\ target.provenance = r.id
  /\ visibleRecordKey(target) = rowKey(r)

Alone ==
  pc # "idle" /\ touched = {} =>
    /\ InOrder
    /\ op.kind = "create" /\ pc \in {"zone", "page", "put"} => OnHost # {}
    /\ op.kind = "create" /\ pc = "put" =>
         visible = visibleMeta(rows) /\ \E r \in rows : IsDuplicate(r)

AloneInv == IsFiniteSet(rows) /\ KeysUnique(rows) /\ Alone

LEMMA RanksGrow ==
  ASSUME rows \subseteq Rows, IsFiniteSet(rows), NEW q \in rows, NEW r \in rows, q.id < r.id
  PROVE  /\ Cardinality(Below(q)) \in Nat /\ Cardinality(Below(r)) \in Nat
         /\ Cardinality(Below(q)) < Cardinality(Below(r))
<1>1. \A s \in rows : s.id \in Nat
  BY WantedAssumption DEF Rows
<1>2. Below(q) \in SUBSET Below(r) /\ q \in Below(r) /\ q \notin Below(q)
  BY <1>1 DEF Below
<1>3. Below(r) \in SUBSET rows
  BY DEF Below
<1>4. IsFiniteSet(Below(r)) /\ IsFiniteSet(Below(q))
  BY <1>2, <1>3, FS_Subset
<1>5. Cardinality(Below(q)) <= Cardinality(Below(r)) /\ Cardinality(Below(q)) # Cardinality(Below(r))
  BY <1>2, <1>4, FS_Subset
<1>6. Cardinality(Below(q)) \in Nat /\ Cardinality(Below(r)) \in Nat
  BY <1>4, FS_CardinalityType
<1> QED
  BY <1>5, <1>6

\* A set of records has one without another of the set below it.
LEMMA Lowest ==
  ASSUME rows \subseteq Rows, IsFiniteSet(rows), NEW S \in SUBSET rows, S # {}
  PROVE  \E m \in S : \A q \in S : ~(q.id < m.id)
<1> DEFINE R == StrictSubsetOrdering(rows)
           T == {Below(r) : r \in S}
<1>1. IsWellFoundedOn(R, FiniteSubsetsOf(rows))
  BY FS_StrictSubsetOrderingWellFounded
<1>2. \A r \in S : Below(r) \in SUBSET rows /\ IsFiniteSet(Below(r))
  <2> TAKE r \in S
  <2>1. Below(r) \in SUBSET rows
    BY DEF Below
  <2> QED
    BY <2>1, FS_Subset
<1>3. T \subseteq FiniteSubsetsOf(rows) /\ T # {}
  BY <1>2 DEF FiniteSubsetsOf
<1> HIDE DEF R, T
<1>4. PICK t \in T : \A u \in T : <<u, t>> \notin R
  BY <1>1, <1>3, WFMin
<1>5. PICK m \in S : t = Below(m)
  BY DEF T
<1>6. ASSUME NEW q \in S, q.id < m.id
      PROVE  FALSE
  <2>1. \A s \in rows : s.id \in Nat
    BY WantedAssumption DEF Rows
  <2>2. Below(q) \subseteq Below(m) /\ q \in Below(m) /\ q \notin Below(q)
    BY <1>6, <2>1 DEF Below
  <2>3. <<Below(q), Below(m)>> \in R
    BY <1>2, <2>2 DEF R, StrictSubsetOrdering
  <2>4. Below(q) \in T
    BY DEF T
  <2> QED
    BY <1>4, <1>5, <2>3, <2>4
<1> QED
  BY <1>6

Read == {listing[i] : i \in DOMAIN listing}

\* A listing that finds no further page has read every record.
LEMMA AllRead ==
  ASSUME IInv, IsFiniteSet(rows), InOrder, Page = {}
  PROVE  Read = rows
<1> DEFINE n == Len(listing)
<1>1. /\ rows \subseteq Rows /\ IdsUnique(rows)
      /\ n \in Nat /\ DOMAIN listing = 1..n
  BY DEF IInv, TypeOK
<1>2. Read \subseteq rows
  BY DEF Read, InOrder
<1>3. SUFFICES ASSUME rows \ Read # {} PROVE FALSE
  BY <1>2
<1>4. PICK m \in rows \ Read : \A q \in rows \ Read : ~(q.id < m.id)
  <2>1. rows \ Read \in SUBSET rows
    OBVIOUS
  <2> QED
    BY <1>1, <1>3, <2>1, Lowest
<1>5. Below(m) \in SUBSET Read
  BY <1>4 DEF Below
<1>6. IsFiniteSet(Read) /\ Cardinality(Read) \in Nat /\ Cardinality(Read) <= n
  <2>1. IsFiniteSet(Read)
    BY <1>2, FS_Subset
  <2>2. [i \in 1..n |-> listing[i]] \in Surjection(1..n, Read)
    BY <1>1 DEF Read, Surjection
  <2>3. ExistsSurjection(1..n, Read)
    BY <2>2 DEF ExistsSurjection
  <2> HIDE DEF n
  <2>4. Cardinality(Read) <= n
    BY <1>1, <2>3, FS_SurjCardinalityBound
  <2> QED
    BY <2>1, <2>4, FS_CardinalityType
<1> DEFINE k == Cardinality(Below(m))
<1>7. k \in Nat /\ k <= n
  <2>1. IsFiniteSet(Below(m)) /\ k <= Cardinality(Read)
    BY <1>5, <1>6, FS_Subset
  <2>2. k \in Nat
    BY <2>1, FS_CardinalityType
  <2> HIDE DEF k, n
  <2> QED
    BY <1>1, <1>6, <2>1, <2>2
<1>8. k # n
  BY <1>4 DEF Page, Below
<1>9. k < n
  <2> HIDE DEF k, n
  <2> QED
    BY <1>1, <1>7, <1>8
<1>10. /\ k + 1 \in DOMAIN listing
       /\ listing[k + 1] \in rows /\ Cardinality(Below(listing[k + 1])) = k
  <2>1. k + 1 \in DOMAIN listing /\ (k + 1) - 1 = k
    BY <1>1, <1>7, <1>9
  <2> QED
    BY <2>1 DEF InOrder
<1>11. PICK q \in Read : q \in rows /\ Cardinality(Below(q)) = k
  BY <1>10 DEF Read
<1>12. q.id \in Nat /\ m.id \in Nat /\ q.id # m.id
  BY <1>1, <1>4, <1>11, WantedAssumption DEF IdsUnique, Rows
<1>13. q.id < m.id \/ m.id < q.id
  BY <1>12
<1>14. Cardinality(Below(q)) < Cardinality(Below(m)) \/ Cardinality(Below(m)) < Cardinality(Below(q))
  BY <1>1, <1>4, <1>11, <1>13, RanksGrow
<1> HIDE DEF k
<1> QED
  BY <1>7, <1>11, <1>14 DEF k

\* What such a listing leaves in the cache and gives to its caller.
LEMMA ListedAll ==
  ASSUME IInv, IsFiniteSet(rows), KeysUnique(rows), InOrder, Page = {}
  PROVE  /\ Cached = visibleMeta(rows) /\ Listed = CloudflareListVisible(ref, rows)
         /\ One(Matches) <=> One(OnHost)
         /\ \A i \in Matches : OnHost # {} /\ listing[i] \in OnHost
<1>1. Read = rows
  BY AllRead
<1>2. listing \in Seq(Rows) /\ DOMAIN listing \subseteq Int
  BY DEF IInv, TypeOK
<1>3. \A i, j \in DOMAIN listing : listing[i] = listing[j] => i = j
  <2> TAKE i, j \in DOMAIN listing
  <2>1. i - 1 = Cardinality(Below(listing[i])) /\ j - 1 = Cardinality(Below(listing[j]))
    BY DEF InOrder
  <2>2. i \in Int /\ j \in Int
    BY <1>2
  <2> QED
    BY <2>1, <2>2
<1>4. \A i, j \in DOMAIN listing : rowKey(listing[i]) = rowKey(listing[j]) => i = j
  BY <1>3 DEF InOrder, KeysUnique, rowKey
<1>5. Cached = {[key |-> rowKey(listing[i]), id |-> listing[i].id] : i \in DOMAIN listing}
  <2>1. \A j, k \in DOMAIN listing : k > j => rowKey(listing[k]) # rowKey(listing[j])
    BY <1>2, <1>4
  <2> QED
    BY <2>1 DEF Cached
<1>6. Cached = visibleMeta(rows)
  BY <1>1, <1>5 DEF Read, visibleMeta
<1>7. Listed = CloudflareListVisible(ref, rows)
  BY <1>1 DEF Listed, Read
<1>8. \A i \in Matches : listing[i] \in OnHost
  BY <1>1 DEF Matches, OnHost, Read
<1>9. \A r \in OnHost : \E i \in Matches : listing[i] = r
  BY <1>1 DEF Matches, OnHost, Read
<1>10. One(Matches) <=> One(OnHost)
  <2>1. Matches \subseteq DOMAIN listing
    BY DEF Matches
  <2>2. ASSUME One(Matches) PROVE One(OnHost)
    BY <1>8, <1>9, <2>2 DEF One
  <2>3. ASSUME One(OnHost) PROVE One(Matches)
    BY <1>3, <1>8, <1>9, <2>1, <2>3 DEF One
  <2> QED
    BY <2>2, <2>3
<1> QED
  BY <1>6, <1>7, <1>8, <1>10

LEMMA EntryOf ==
  ASSUME IInv, Listed = CloudflareListVisible(ref, rows), NEW i \in DOMAIN listing,
         listing[i] \in rows
  PROVE  visibleRecordKey(Entry(i)) = rowKey(listing[i]) /\ Entry(i).provenance = listing[i].id
<1>1. /\ listing \in Seq(Rows) /\ rows \subseteq Rows
      /\ \A r \in rows : r.id = listing[i].id => r = listing[i]
  BY DEF IInv, TypeOK, IdsUnique
<1>2. Entry(i).provenance = listing[i].id
  BY <1>1, ListingTypes
<1>3. \E v \in Listed : v.provenance = listing[i].id
  <2> DEFINE e == [output |-> ref, hostname |-> normalizeHostname[listing[i].hostname],
                   answer |-> normalizeAnswer[listing[i].answer],
                   provenance |-> listing[i].id, row |-> listing[i].id]
  <2>1. e \in Listed
    BY DEF CloudflareListVisible
  <2>2. e.provenance = listing[i].id
    OBVIOUS
  <2> QED
    BY <2>1, <2>2
<1>4. Entry(i) \in Listed
  BY <1>3 DEF Entry
<1>5. PICK r \in rows :
        Entry(i) = [output |-> ref, hostname |-> normalizeHostname[r.hostname],
                    answer |-> normalizeAnswer[r.answer], provenance |-> r.id, row |-> r.id]
  BY <1>4 DEF CloudflareListVisible
<1>6. r = listing[i]
  BY <1>1, <1>2, <1>5
<1>7. r.hostname \in Hosts /\ r.answer \in Answers
  BY <1>1 DEF Rows
<1>8. /\ normalizeHostname[normalizeHostname[r.hostname]] = normalizeHostname[r.hostname]
      /\ normalizeAnswer[normalizeAnswer[r.answer]] = normalizeAnswer[r.answer]
  BY <1>7, NamesAssumption
<1> QED
  BY <1>2, <1>5, <1>6, <1>8 DEF visibleRecordKey, rowKey

\* Whatever becomes of a request, the zone stays finite and without identical records.
LEMMA UpdateKeepsKeys ==
  ASSUME rows \subseteq Rows, IsFiniteSet(rows), KeysUnique(rows), NEW v, NEW d \in Pairs,
         NEW y \in Attempt(rows, visible, CloudflareUpdate(rows, visible, v, d))
  PROVE  IsFiniteSet(y.rows) /\ KeysUnique(y.rows)
<1> DEFINE named  == {r \in rows : r.id = v.provenance}
           others == rows \ named
           after(r) == others \cup {Renamed(r, d)}
<1>1. \/ y.rows = rows
      \/ Identical(others, d) = {} /\ \E r \in named : y.rows = after(r)
  <2>1. ASSUME NEW z \in CloudflareUpdate(rows, visible, v, d)
        PROVE  \/ z.rows = rows
               \/ Identical(others, d) = {} /\ \E r \in named : z.rows = after(r)
    <3>1. \/ z = Rejects(rows, visible, "fatal")
          \/ Identical(others, d) = {} /\ \E r \in named : z = Succeeds(after(r), visible, r.id)
      BY DEF CloudflareUpdate
    <3> QED
      BY <3>1 DEF Rejects, Succeeds
  <2> QED
    BY <2>1, Attempted
<1>2. ASSUME NEW r \in named, Identical(others, d) = {}
      PROVE  IsFiniteSet(after(r)) /\ KeysUnique(after(r))
  <2>1. others \in SUBSET rows
    OBVIOUS
  <2>2. IsFiniteSet(others)
    BY <2>1, FS_Subset
  <2>3. IsFiniteSet(after(r))
    BY <2>2, FS_AddElement
  <2>4. Shows(Renamed(r, d), d)
    BY RenamedRow
  <2>5. KeysUnique(after(r))
    BY <1>2, <2>4 DEF KeysUnique, Identical, Shows, hostnamesEquivalent
  <2> QED
    BY <2>3, <2>5
<1> QED
  BY <1>1, <1>2

LEMMA DeleteKeepsKeys ==
  ASSUME IsFiniteSet(rows), KeysUnique(rows), NEW v,
         NEW y \in Attempt(rows, visible, CloudflareDelete(rows, visible, v))
  PROVE  IsFiniteSet(y.rows) /\ KeysUnique(y.rows)
<1>1. \A z \in CloudflareDelete(rows, visible, v) : z.rows \in SUBSET rows
  BY DEF CloudflareDelete, Rejects, Succeeds
<1>2. y.rows \in SUBSET rows
  BY <1>1, Attempted
<1> QED
  BY <1>2, FS_Subset DEF KeysUnique

LEMMA AddKeepsKeys ==
  ASSUME IsFiniteSet(rows), KeysUnique(rows), op.d \in Pairs, Identical(rows, op.d) = {},
         NEW id \in Ids,
         NEW y \in Attempt(rows, visible, {Succeeds(rows \cup {Added(id)}, visible, id)})
  PROVE  IsFiniteSet(y.rows) /\ KeysUnique(y.rows)
<1>1. y.rows = rows \/ y.rows = rows \cup {Added(id)}
  BY Attempted DEF Succeeds
<1>2. IsFiniteSet(rows \cup {Added(id)})
  BY FS_AddElement
<1>3. KeysUnique(rows \cup {Added(id)})
  BY AddedRow DEF KeysUnique, Identical, Shows, hostnamesEquivalent
<1> QED
  BY <1>1, <1>2, <1>3

LEMMA OperatorKeepsKeys ==
  ASSUME IInv, IsFiniteSet(rows), KeysUnique(rows), Operator
  PROVE  IsFiniteSet(rows') /\ KeysUnique(rows')
<1>1. ASSUME NEW zone \in SUBSET rows, NEW t \in Texts, NEW id, Identical(rows, t) = {}
      PROVE  IsFiniteSet(zone \cup {Row(id, t)}) /\ KeysUnique(zone \cup {Row(id, t)})
  <2>1. IsFiniteSet(zone)
    BY FS_Subset
  <2>2. IsFiniteSet(zone \cup {Row(id, t)})
    BY <2>1, FS_AddElement
  <2>3. KeysUnique(zone \cup {Row(id, t)})
    BY <1>1 DEF KeysUnique, Identical, Row, hostnamesEquivalent, fullName
  <2> QED
    BY <2>2, <2>3
<1>2. CASE \E t \in Texts, id \in FreshIds :
             Identical(rows, t) = {} /\ rows' = rows \cup {Row(id, t)}
  BY <1>1, <1>2
<1>3. CASE \E t \in Texts, r \in rows :
             Identical(rows, t) = {} /\ rows' = (rows \ {r}) \cup {Row(r.id, t)}
  <2>1. PICK t \in Texts, r \in rows :
          Identical(rows, t) = {} /\ rows' = (rows \ {r}) \cup {Row(r.id, t)}
    BY <1>3
  <2>2. rows \ {r} \in SUBSET rows
    OBVIOUS
  <2> QED
    BY <1>1, <2>1, <2>2
<1>4. CASE \E r \in rows : rows' = rows \ {r}
  BY <1>4, FS_RemoveElement DEF KeysUnique
<1> QED
  BY <1>2, <1>3, <1>4 DEF Operator

\* An operation that begins has read nothing yet and met no duplicate.
LEMMA BeginAlone == IInv /\ AloneInv /\ Begin => AloneInv'
<1> SUFFICES ASSUME IInv, AloneInv, Begin PROVE AloneInv'
  OBVIOUS
<1>1. ASSUME NEW kind, NEW d, NEW request, NEW v, BeginOp(kind, d, request, v),
             kind = "create" => request = "post"
      PROVE  AloneInv'
  <2>1. /\ pc = "idle" /\ pc' = request /\ op'.kind = kind
        /\ UNCHANGED <<rows, listing>>
    BY <1>1 DEF BeginOp
  <2>2. listing = << >>
    BY <2>1 DEF IInv, Places
  <2>3. InOrder'
    BY <2>1, <2>2 DEF InOrder
  <2>4. Alone'
    BY <1>1, <2>1, <2>3 DEF Alone
  <2> QED
    BY <2>1, <2>4 DEF AloneInv, KeysUnique
<1>2. CASE ListVisible
  BY <1>1, <1>2 DEF ListVisible
<1>3. CASE \E d \in Wanted : Create(d)
  BY <1>1, <1>3 DEF Create
<1>4. CASE \E v \in held, d \in Wanted : Update(v, d)
  BY <1>1, <1>4 DEF Update
<1>5. CASE \E v \in held : Delete(v)
  BY <1>1, <1>5 DEF Delete
<1>6. CASE \E v \in held : Unidentified(v)
  BY <1>6 DEF Unidentified, Returns, AloneInv, Alone, KeysUnique
<1> QED
  BY <1>2, <1>3, <1>4, <1>5, <1>6 DEF Begin

\* An operation that returns.
LEMMA ReturnAlone ==
  ASSUME pc' = "idle", IsFiniteSet(rows'), KeysUnique(rows')
  PROVE  AloneInv'
BY DEF AloneInv, Alone, KeysUnique

LEMMA FailAlone ==
  ASSUME AloneInv, Fails, UNCHANGED rows
  PROVE  AloneInv'
BY ReturnAlone DEF AloneInv, Fails, Returns, KeysUnique

LEMMA ZoneAlone == IInv /\ AloneInv /\ ensureZoneName => AloneInv'
<1> SUFFICES ASSUME IInv, AloneInv, ensureZoneName PROVE AloneInv'
  OBVIOUS
<1>1. CASE Fails
  BY <1>1, FailAlone DEF ensureZoneName
<1>2. CASE GoTo("page") /\ UNCHANGED <<listing, target>>
  <2>1. /\ pc = "zone" /\ pc' = "page"
        /\ UNCHANGED <<rows, op, touched, listing>>
    BY <1>2 DEF ensureZoneName, GoTo
  <2>2. InOrder' <=> InOrder
    BY <2>1 DEF InOrder, Below
  <2>3. OnHost' = OnHost
    BY <2>1 DEF OnHost, hostnamesEquivalent, fullName
  <2> QED
    BY <2>1, <2>2, <2>3 DEF AloneInv, Alone, KeysUnique
<1> QED
  BY <1>1, <1>2 DEF ensureZoneName

LEMMA PageAlone == IInv /\ AloneInv /\ ReadPage => AloneInv'
<1> SUFFICES ASSUME IInv, AloneInv, ReadPage PROVE AloneInv'
  OBVIOUS
<1>1. CASE Fails
  BY <1>1, FailAlone DEF ReadPage
<1>2. CASE /\ \E r \in Page : listing' = Append(listing, r)
           /\ GoTo("page")
  <2>1. /\ pc = "page" /\ pc' = "page" /\ UNCHANGED <<rows, op, touched>>
    BY <1>2 DEF ReadPage, GoTo
  <2>2. PICK r \in Page : listing' = Append(listing, r)
    BY <1>2
  <2>3. r \in rows /\ Cardinality(Below(r)) = Len(listing)
    BY DEF Page, Below
  <2>4. listing \in Seq(Rows) /\ r \in Rows
    BY <2>3 DEF IInv, TypeOK
  <2>5. \A q : Below(q)' = Below(q)
    BY <2>1 DEF Below
  <2>6. ASSUME InOrder PROVE InOrder'
    <3>1. \A i \in DOMAIN listing' :
            \/ i \in DOMAIN listing /\ listing'[i] = listing[i]
            \/ i = Len(listing) + 1 /\ listing'[i] = r
      BY <2>2, <2>4
    <3>2. Len(listing) = (Len(listing) + 1) - 1
      BY <2>4
    <3> QED
      BY <2>1, <2>3, <2>6, <3>1, <3>2 DEF InOrder, Below
  <2>7. OnHost' = OnHost
    BY <2>1 DEF OnHost, hostnamesEquivalent, fullName
  <2> QED
    BY <2>1, <2>6, <2>7 DEF AloneInv, Alone, KeysUnique
<1> QED
  BY <1>1, <1>2 DEF ReadPage

LEMMA EndListingAlone == IInv /\ AloneInv /\ EndListing => AloneInv'
<1> SUFFICES ASSUME IInv, AloneInv, EndListing PROVE AloneInv'
  OBVIOUS
<1>1. /\ pc = "page" /\ Page = {} /\ visible' = Cached /\ UNCHANGED rows
      /\ IsFiniteSet(rows) /\ KeysUnique(rows)
  BY DEF EndListing, AloneInv
<1>2. CASE pc' = "idle"
  BY <1>1, <1>2, ReturnAlone DEF KeysUnique
<1>3. CASE pc' # "idle"
  <2>1. PICK i \in Matches :
          /\ One(Matches)
          /\ normalizeAnswer[listing[i].answer] # normalizeAnswer[op.d.answer]
          /\ target' = Entry(i) /\ GoTo("put") /\ listing' = << >>
    BY <1>3 DEF EndListing, Recover, Returns
  <2>2. pc' = "put" /\ UNCHANGED <<op, touched>>
    BY <2>1 DEF GoTo
  <2>3. SUFFICES ASSUME touched = {} PROVE Alone'
    BY <1>1, <2>2 DEF AloneInv, Alone, KeysUnique
  <2>4. InOrder
    BY <1>1, <2>3 DEF AloneInv, Alone
  <2>5. /\ Cached = visibleMeta(rows) /\ Listed = CloudflareListVisible(ref, rows)
        /\ One(OnHost) /\ listing[i] \in OnHost
    BY <1>1, <2>1, <2>4, ListedAll
  <2>6. i \in DOMAIN listing /\ listing[i] \in rows
    BY <2>4 DEF Matches, InOrder
  <2> PICK r \in rows : r = listing[i]
    BY <2>6
  <2>7. OnHost = {r}
    BY <2>5 DEF One
  <2>8. visibleRecordKey(Entry(i)) = rowKey(r) /\ Entry(i).provenance = r.id
    BY <2>5, <2>6, EntryOf
  <2>9. OnHost' = OnHost /\ visibleMeta(rows)' = visibleMeta(rows)
    BY <1>1, <2>2 DEF OnHost, hostnamesEquivalent, fullName, visibleMeta, rowKey
  <2>10. IsDuplicate(r)'
    BY <2>1, <2>2, <2>7, <2>8, <2>9 DEF IsDuplicate, visibleRecordKey, rowKey
  <2>11. InOrder'
    BY <2>1 DEF InOrder
  <2> QED
    BY <1>1, <2>2, <2>5, <2>6, <2>7, <2>9, <2>10, <2>11 DEF Alone
<1> QED
  BY <1>2, <1>3

LEMMA PostAlone == IInv /\ AloneInv /\ Post => AloneInv'
<1> SUFFICES ASSUME IInv, AloneInv, Post PROVE AloneInv'
  OBVIOUS
<1>1. /\ pc = "post" /\ op.d \in Pairs /\ rows \subseteq Rows
      /\ IsFiniteSet(rows) /\ KeysUnique(rows)
  BY Assumed DEF Post, IInv, TypeOK, Places, AloneInv
<1>2. CASE Fails /\ UNCHANGED rows
  BY <1>2, FailAlone
<1>3. CASE /\ Identical(rows, op.d) = {}
           /\ \E id \in FreshIds : Answered({Succeeds(rows \cup {Added(id)}, visible, id)})
  <2>1. PICK id \in FreshIds : Answered({Succeeds(rows \cup {Added(id)}, visible, id)})
    BY <1>3
  <2>2. PICK y \in Attempt(rows, visible, {Succeeds(rows \cup {Added(id)}, visible, id)}) :
          rows' = y.rows /\ Returns(y.reply, y.provenance)
    BY <2>1 DEF Answered
  <2>3. id \in Ids
    BY DEF FreshIds
  <2>4. IsFiniteSet(y.rows) /\ KeysUnique(y.rows)
    BY <1>1, <1>3, <2>3, AddKeepsKeys
  <2> QED
    BY <2>2, <2>4, ReturnAlone DEF Returns
<1>4. CASE /\ \E r \in rows : hostnamesEquivalent(r, op.d)
           /\ GoTo(FirstOfListing) /\ UNCHANGED <<rows, listing, target>>
  <2>1. /\ pc' \in {"zone", "page"} /\ UNCHANGED <<rows, listing, op, touched>>
    BY <1>4 DEF GoTo, FirstOfListing
  <2>2. listing = << >>
    BY <1>1 DEF IInv, Places
  <2>3. InOrder'
    BY <2>1, <2>2 DEF InOrder
  <2>4. OnHost' # {}
    BY <1>4, <2>1 DEF OnHost, hostnamesEquivalent, fullName
  <2> QED
    BY <1>1, <2>1, <2>3, <2>4 DEF AloneInv, Alone, KeysUnique
<1> QED
  BY <1>2, <1>3, <1>4 DEF Post

LEMMA PutAlone == IInv /\ AloneInv /\ Put => AloneInv'
<1> SUFFICES ASSUME IInv, AloneInv, Put PROVE AloneInv'
  OBVIOUS
<1>1. op.d \in Pairs /\ rows \subseteq Rows /\ IsFiniteSet(rows) /\ KeysUnique(rows)
  BY Assumed DEF Put, IInv, TypeOK, Places, AloneInv
<1>2. PICK y \in Attempt(rows, visible, CloudflareUpdate(rows, visible, target, op.d)) :
        rows' = y.rows /\ Returns(y.reply, y.provenance)
  BY DEF Put, Answered
<1> QED
  BY <1>1, <1>2, UpdateKeepsKeys, ReturnAlone DEF Returns

LEMMA DeleteAlone == IInv /\ AloneInv /\ DeleteRequest => AloneInv'
<1> SUFFICES ASSUME IInv, AloneInv, DeleteRequest PROVE AloneInv'
  OBVIOUS
<1>1. PICK y \in Attempt(rows, visible, CloudflareDelete(rows, visible, target)) :
        rows' = y.rows /\ Returns(y.reply, y.provenance)
  BY DEF DeleteRequest, Answered
<1> QED
  BY <1>1, DeleteKeepsKeys, ReturnAlone DEF Returns, AloneInv

\* The operation is not alone any more, or there is none.
LEMMA OperatorAlone == IInv /\ AloneInv /\ Operator => AloneInv'
<1> SUFFICES ASSUME IInv, AloneInv, Operator PROVE AloneInv'
  OBVIOUS
<1>1. IsFiniteSet(rows') /\ KeysUnique(rows')
  BY OperatorKeepsKeys DEF AloneInv
<1>2. pc' = pc /\ (pc # "idle" => touched' # {})
  BY DEF Operator, Touches, provider
<1> QED
  BY <1>1, <1>2 DEF AloneInv, Alone, KeysUnique

LEMMA StepAlone == IInv /\ AloneInv /\ [Next]_vars => AloneInv'
<1> SUFFICES ASSUME IInv, AloneInv, [Next]_vars PROVE AloneInv'
  OBVIOUS
<1>1. CASE UNCHANGED vars
  BY <1>1 DEF vars, provider, AloneInv, KeysUnique, Alone, InOrder, Below, OnHost, IsDuplicate,
     hostnamesEquivalent, fullName, visibleRecordKey, rowKey, visibleMeta
<1> QED
  BY <1>1, BeginAlone, ZoneAlone, PageAlone, EndListingAlone, PostAlone, PutAlone, DeleteAlone,
     OperatorAlone
  DEF Next, Request

LEMMA AloneInvariance == Spec => []AloneInv
<1>1. Init => AloneInv
  BY FS_EmptySet DEF Init, AloneInv, KeysUnique, Alone
<1> QED
  BY <1>1, StepAlone, Invariance, PTL DEF Spec

\* A network that does more to more outcomes has more outcomes.
LEMMA AttemptGrows ==
  ASSUME NEW zone, NEW listed, NEW A, NEW B, A \subseteq B
  PROVE  Attempt(zone, listed, A) \subseteq Attempt(zone, listed, B)
BY DEF Attempt

\* What the recovery from a duplicate does is what a create may do.
LEMMA RecoveryIsCreate ==
  ASSUME rows \subseteq Rows, NEW d, NEW r \in rows, hostnamesEquivalent(r, d)
  PROVE  RecoverDuplicate(rows, d)
           \subseteq UNION {CloudflareCreate(rows, visible, d, id) : id \in Ids}
<1>1. r.id \in Ids
  BY DEF Rows
<1>2. RecoverDuplicate(rows, d) \subseteq CloudflareCreate(rows, visible, d, r.id)
  BY DEF CloudflareCreate
<1> QED
  BY <1>1, <1>2

\* The rewrite of the only record of a host is the update the recovery asks for.
LEMMA RewriteIsRecovery ==
  ASSUME IInv, KeysUnique(rows), visible = visibleMeta(rows), NEW r \in rows, IsDuplicate(r)
  PROVE  CloudflareUpdate(rows, visible, target, op.d) \subseteq RecoverDuplicate(rows, op.d)
<1>1. /\ \A q \in rows : q.id = r.id => q = r
      /\ \A q \in rows : hostnamesEquivalent(q, op.d) => q = r
      /\ hostnamesEquivalent(r, op.d) /\ r \notin Identical(rows, op.d)
      /\ target.provenance = r.id
  BY DEF IInv, IdsUnique, IsDuplicate, OnHost, Identical
<1> DEFINE z == Succeeds((rows \ {r}) \cup {Renamed(r, op.d)}, visible, r.id)
<1>2. r.id # NoProvenance
  BY NamesAssumption DEF IInv, TypeOK, Rows
<1>3. visibleRemoteID(visible, target)
  <2>1. hasRecordProvenance(target.provenance)
    BY <1>1, <1>2 DEF hasRecordProvenance
  <2>2. ASSUME NEW x \in visible, x.key = visibleRecordKey(target)
        PROVE  x.id = target.provenance
    <3>1. PICK q \in rows : x.key = rowKey(q) /\ x.id = q.id
      BY <2>2 DEF visibleMeta
    <3>2. rowKey(q) = rowKey(r)
      BY <2>2, <3>1 DEF IsDuplicate
    <3>3. q = r
      BY <3>2 DEF KeysUnique, rowKey
    <3> QED
      BY <1>1, <3>1, <3>3
  <2> QED
    BY <2>1, <2>2 DEF visibleRemoteID
<1>4. {q \in rows : q.id = target.provenance} = {r}
  BY <1>1
<1>5. CloudflareUpdate(rows, visible, target, op.d) \subseteq {z}
  <2>1. Identical(rows \ {r}, op.d) = {}
    BY <1>1 DEF Identical
  <2>2. ~ \E q \in rows \ {r} : hostnamesEquivalent(q, op.d)
    BY <1>1
  <2> QED
    BY <1>3, <1>4, <2>1, <2>2 DEF CloudflareUpdate
<1>6. {q \in rows : hostnamesEquivalent(q, op.d)} = {r}
  BY <1>1
<1>7. z \in RecoverDuplicate(rows, op.d)
  BY <1>1, <1>6 DEF RecoverDuplicate, One
<1> QED
  BY <1>5, <1>7

\* What an operation that returns has done is y.
Did(y) ==
  /\ rows' = y.rows /\ reply' = Reply(y.reply, y.provenance)
  /\ y.reply = "ok" => visible' = y.listed

CreateOutcomes == UNION {CloudflareCreate(rows, visible, op.d, id) : id \in Ids}

LEMMA OutcomesOf ==
  /\ op.kind = "create" => AtomicOutcomes = Attempt(rows, visible, CreateOutcomes)
  /\ op.kind = "update" =>
       AtomicOutcomes = Attempt(rows, visible, CloudflareUpdate(rows, visible, target, op.d))
  /\ op.kind = "delete" =>
       AtomicOutcomes = Attempt(rows, visible, CloudflareDelete(rows, visible, target))
  /\ op.kind = "list" =>
       AtomicOutcomes = Attempt(rows, visible, {Succeeds(rows, visibleMeta(rows), NoProvenance)})
BY DEF AtomicOutcomes, CreateOutcomes

LEMMA FailDid ==
  ASSUME Fails, UNCHANGED rows
  PROVE  \E y \in AtomicOutcomes : Did(y)
<1> DEFINE y == Rejects(rows, visible, "fatal")
<1>1. y \in AtomicOutcomes
  BY DEF Fails, AtomicOutcomes, Attempt
<1>2. Did(y)
  BY DEF Did, Rejects, Fails, Returns
<1> QED
  BY <1>1, <1>2

\* The answer to a request answers for the operation.
LEMMA AnswerDid ==
  ASSUME NEW A, NEW B, A \subseteq B, AtomicOutcomes = Attempt(rows, visible, B),
         Answered(A), UNCHANGED visible,
         \A y \in A : y.listed = visible
  PROVE  \E y \in AtomicOutcomes : Did(y)
<1>1. PICK y \in Attempt(rows, visible, A) : rows' = y.rows /\ Returns(y.reply, y.provenance)
  BY DEF Answered
<1>2. y \in AtomicOutcomes
  BY AttemptGrows
<1>3. y.reply = "ok" => y.listed = visible
  BY Attempted
<1>4. Did(y)
  BY <1>1, <1>3 DEF Did, Returns
<1> QED
  BY <1>2, <1>4

LEMMA EndListingDid ==
  ASSUME IInv, AloneInv, EndListing, touched = {}, pc' = "idle"
  PROVE  \E y \in AtomicOutcomes : Did(y)
<1>1. /\ pc = "page" /\ Page = {} /\ visible' = Cached /\ UNCHANGED rows
      /\ IsFiniteSet(rows) /\ KeysUnique(rows) /\ InOrder
      /\ rows \subseteq Rows
  BY DEF EndListing, AloneInv, Alone, IInv, TypeOK
<1>2. /\ visible' = visibleMeta(rows)
      /\ One(Matches) <=> One(OnHost)
      /\ \A i \in Matches : listing[i] \in OnHost
  BY <1>1, ListedAll
<1>3. CASE op.kind = "list"
  <2> DEFINE y == Succeeds(rows, visibleMeta(rows), NoProvenance)
  <2>1. y \in AtomicOutcomes
    BY <1>3, OutcomesOf DEF Attempt
  <2>2. Did(y)
    BY <1>1, <1>2, <1>3 DEF EndListing, Returns, Did, Succeeds
  <2> QED
    BY <2>1, <2>2
<1>4. CASE op.kind # "list"
  <2>1. op.kind = "create" /\ Recover
    BY <1>1, <1>4 DEF EndListing, IInv, Places
  <2>2. PICK r \in rows : hostnamesEquivalent(r, op.d)
    BY <1>1, <2>1 DEF AloneInv, Alone, OnHost
  <2>3. RecoverDuplicate(rows, op.d) \subseteq AtomicOutcomes
    BY <1>1, <2>1, <2>2, OutcomesOf, RecoveryIsCreate DEF Attempt, CreateOutcomes
  <2>4. CASE ~One(Matches)
    <3> DEFINE y == Rejects(rows, visibleMeta(rows), "fatal")
    <3>1. y \in RecoverDuplicate(rows, op.d)
      BY <1>2, <2>4 DEF RecoverDuplicate, OnHost
    <3>2. Did(y)
      BY <1>1, <2>1, <2>4 DEF Recover, Returns, Did, Rejects
    <3> QED
      BY <2>3, <3>1, <3>2
  <2>5. CASE One(Matches)
    <3>1. PICK i \in Matches :
            /\ normalizeAnswer[listing[i].answer] = normalizeAnswer[op.d.answer]
            /\ Returns("ok", listing[i].id)
      BY <2>1, <2>5 DEF Recover, GoTo
    <3> DEFINE found == listing[i]
               y == Succeeds(rows, visibleMeta(rows), found.id)
    <3>2. found \in OnHost /\ One(OnHost) /\ found \in Identical(rows, op.d)
      BY <1>2, <2>5, <3>1 DEF OnHost, Identical
    <3>3. y \in RecoverDuplicate(rows, op.d)
      BY <3>2 DEF RecoverDuplicate, OnHost
    <3>4. Did(y)
      BY <1>1, <1>2, <3>1 DEF Returns, Did, Succeeds
    <3> QED
      BY <2>3, <3>3, <3>4
  <2> QED
    BY <2>4, <2>5
<1> QED
  BY <1>3, <1>4

LEMMA PostDid ==
  ASSUME IInv, Post, pc' = "idle"
  PROVE  \E y \in AtomicOutcomes : Did(y)
<1>1. op.kind = "create" /\ UNCHANGED visible
  BY DEF Post, IInv, Places
<1>2. CASE Fails /\ UNCHANGED rows
  BY <1>2, FailDid
<1>3. CASE /\ Identical(rows, op.d) = {}
           /\ \E id \in FreshIds : Answered({Succeeds(rows \cup {Added(id)}, visible, id)})
  <2>1. PICK id \in FreshIds : Answered({Succeeds(rows \cup {Added(id)}, visible, id)})
    BY <1>3
  <2> DEFINE A == {Succeeds(rows \cup {Added(id)}, visible, id)}
  <2>2. id \in Ids
    BY DEF FreshIds
  <2>3. A \subseteq CloudflareCreate(rows, visible, op.d, id)
    BY <1>3 DEF CloudflareCreate, Added
  <2>4. A \subseteq CreateOutcomes
    BY <2>2, <2>3 DEF CreateOutcomes
  <2>5. \A y \in A : y.listed = visible
    BY DEF Succeeds
  <2> QED
    BY <1>1, <2>1, <2>4, <2>5, OutcomesOf, AnswerDid
<1>4. ~GoTo(FirstOfListing)
  BY DEF GoTo, FirstOfListing
<1> QED
  BY <1>2, <1>3, <1>4 DEF Post

LEMMA PutDid ==
  ASSUME IInv, AloneInv, Put, touched = {}
  PROVE  \E y \in AtomicOutcomes : Did(y)
<1> DEFINE A == CloudflareUpdate(rows, visible, target, op.d)
<1>1. /\ pc = "put" /\ op.kind \in {"create", "update"} /\ UNCHANGED visible
      /\ rows \subseteq Rows /\ Answered(A)
  BY DEF Put, IInv, TypeOK, Places
<1>2. \A y \in A : y.listed = visible
  BY DEF CloudflareUpdate, Succeeds, Rejects
<1>3. CASE op.kind = "update"
  BY <1>1, <1>2, <1>3, OutcomesOf, AnswerDid
<1>4. CASE op.kind = "create"
  <2>1. PICK r \in rows : visible = visibleMeta(rows) /\ IsDuplicate(r)
    BY <1>1, <1>4 DEF AloneInv, Alone
  <2>2. hostnamesEquivalent(r, op.d)
    BY <2>1 DEF IsDuplicate, OnHost
  <2>3. A \subseteq CreateOutcomes
    BY <1>1, <2>1, <2>2, RewriteIsRecovery, RecoveryIsCreate DEF CreateOutcomes, AloneInv
  <2> QED
    BY <1>1, <1>2, <1>4, <2>3, OutcomesOf, AnswerDid
<1> QED
  BY <1>1, <1>3, <1>4

LEMMA DeleteDid ==
  ASSUME IInv, DeleteRequest
  PROVE  \E y \in AtomicOutcomes : Did(y)
<1> DEFINE A == CloudflareDelete(rows, visible, target)
<1>1. op.kind = "delete" /\ UNCHANGED visible /\ Answered(A)
  BY DEF DeleteRequest, IInv, Places
<1>2. \A y \in A : y.listed = visible
  BY DEF CloudflareDelete, Succeeds, Rejects
<1> QED
  BY <1>1, <1>2, OutcomesOf, AnswerDid

(***************************************************************************)
(* An operation during which nobody else touches the zone does to the      *)
(* zone, its caller and, when it succeeds, the cache what the operation of *)
(* CloudflareOutput may do in one step, for any zone and any number of     *)
(* pages: its listing reads every record once and in order.                *)
(***************************************************************************)
THEOREM UndisturbedIsAtomic == Spec => AtomicUndisturbed
<1>1. ASSUME IInv, AloneInv, [Next]_vars, Completed, touched = {}
      PROVE  \E y \in AtomicOutcomes : Did(y)
  <2>1. Request /\ pc' = "idle"
    BY <1>1, OnlyRequests DEF Completed
  <2>2. CASE ensureZoneName
    BY <2>1, <2>2, FailDid DEF ensureZoneName, GoTo
  <2>3. CASE ReadPage
    BY <2>1, <2>3, FailDid DEF ReadPage, GoTo
  <2> QED
    BY <1>1, <2>1, <2>2, <2>3, EndListingDid, PostDid, PutDid, DeleteDid DEF Request
<1>2. IInv /\ AloneInv /\ [Next]_vars
        => [Completed /\ touched = {} =>
              \E y \in AtomicOutcomes :
                /\ rows' = y.rows /\ reply' = Reply(y.reply, y.provenance)
                /\ y.reply = "ok" => visible' = y.listed]_vars
  BY <1>1 DEF Did
<1> QED
  BY <1>2, Invariance, AloneInvariance, PTL DEF Spec, AtomicUndisturbed
=============================================================================
