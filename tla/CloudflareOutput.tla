-------------------------- MODULE CloudflareOutput --------------------------
(***************************************************************************)
(* The Cloudflare output.  A record has an ID, which is its provenance,    *)
(* and a fully qualified name: the service completes a name without a dot  *)
(* with the zone (Qualify).  Only A, AAAA and CNAME records are rows; the  *)
(* listing leaves the others out.                                          *)
(***************************************************************************)
EXTENDS OutputContract

fullName(d) == Qualify[normalizeHostname[d.hostname]]

CloudflareListVisible(o, rows) ==
  {[output |-> o, hostname |-> normalizeHostname[r.hostname],
    answer |-> normalizeAnswer[r.answer],
    provenance |-> r.id, row |-> r.id] : r \in rows}

\* The cache of the last listing: which ID a key was listed under.
Metas == [key : Hosts \X Answers, id : Ids]
visibleMeta(rows) == {[key |-> rowKey(r), id |-> r.id] : r \in rows}

visibleRemoteID(listed, v) ==
  /\ hasRecordProvenance(v.provenance)
  /\ \A x \in listed : x.key = visibleRecordKey(v) => x.id = v.provenance

hostnamesEquivalent(r, d) == Qualify[normalizeHostname[r.hostname]] = fullName(d)

Identical(rows, d) ==
  {r \in rows : /\ hostnamesEquivalent(r, d)
                /\ normalizeAnswer[r.answer] = normalizeAnswer[d.answer]}

Renamed(r, d) == [r EXCEPT !.hostname = fullName(d), !.answer = normalizeAnswer[d.answer]]

(***************************************************************************)
(* Update by ID.  The service refuses an unknown ID and a text another     *)
(* record has; a record of another type on the host may make it refuse.    *)
(***************************************************************************)
CloudflareUpdate(rows, listed, v, d) ==
  LET named  == {r \in rows : r.id = v.provenance}
      others == rows \ named
      done   == {Succeeds(others \cup {Renamed(r, d)}, listed, r.id) : r \in named}
      refused == {Rejects(rows, listed, "fatal")}
  IN IF ~visibleRemoteID(listed, v) \/ named = {} \/ Identical(others, d) # {} THEN refused
     ELSE IF \E r \in others : hostnamesEquivalent(r, d) THEN done \cup refused
     ELSE done

CloudflareDelete(rows, listed, v) ==
  LET named == {r \in rows : r.id = v.provenance}
  IN IF ~visibleRemoteID(listed, v) \/ named = {} THEN {Rejects(rows, listed, "fatal")}
     ELSE {Succeeds(rows \ named, listed, NoProvenance)}

(***************************************************************************)
(* The service calls a record a duplicate: the provider lists the zone     *)
(* again and takes the only record of that host for its own, rewriting it  *)
(* when it answers something else.                                         *)
(***************************************************************************)
RecoverDuplicate(rows, d) ==
  LET listed  == visibleMeta(rows)
      matches == {r \in rows : hostnamesEquivalent(r, d)}
  IN IF ~One(matches) THEN {Rejects(rows, listed, "fatal")}
     ELSE {IF r \in Identical(rows, d)
           THEN Succeeds(rows, listed, r.id)
           ELSE Succeeds((rows \ {r}) \cup {Renamed(r, d)}, listed, r.id) : r \in matches}

(***************************************************************************)
(* Create.  The service refuses a second identical record, and may refuse  *)
(* a second record of the host (a CNAME excludes any other record).        *)
(***************************************************************************)
CloudflareCreate(rows, listed, d, id) ==
  LET added == [id |-> id, hostname |-> fullName(d),
                answer |-> normalizeAnswer[d.answer], maker |-> "daemon"]
      done  == {Succeeds(rows \cup {added}, listed, id)}
  IN IF Identical(rows, d) # {} THEN RecoverDuplicate(rows, d)
     ELSE IF \E r \in rows : hostnamesEquivalent(r, d)
     THEN done \cup RecoverDuplicate(rows, d)
     ELSE done
=============================================================================
