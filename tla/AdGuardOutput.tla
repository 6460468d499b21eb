--------------------------- MODULE AdGuardOutput ---------------------------
(***************************************************************************)
(* The AdGuard Home output.  Its rewrites are pairs of a domain and an     *)
(* answer with no identity of their own: a listing carries no provenance,  *)
(* and an update or a delete names the pair it means.                      *)
(***************************************************************************)
EXTENDS OutputContract

\* AdGuard keeps the text it is given; the listing only trims it.
AdGuardListVisible(o, rows) ==
  {[output |-> o, hostname |-> r.hostname, answer |-> r.answer,
    provenance |-> NoProvenance, row |-> r.id] : r \in rows}

\* /control/rewrite/add appends, whether or not the pair is there already.
AdGuardCreate(rows, d, id) ==
  {Succeeds(rows \cup {[id |-> id, hostname |-> d.hostname, answer |-> d.answer,
                        maker |-> "daemon"]},
            {}, NoProvenance)}

Spelled(rows, v) == {r \in rows : r.hostname = v.hostname /\ r.answer = v.answer}

\* /control/rewrite/update replaces one rewrite and refuses an unknown target.
AdGuardUpdate(rows, v, d) ==
  IF Spelled(rows, v) = {} THEN {Rejects(rows, {}, "fatal")}
  ELSE {Succeeds((rows \ {r}) \cup {[r EXCEPT !.hostname = d.hostname, !.answer = d.answer]},
                 {}, NoProvenance) : r \in Spelled(rows, v)}

\* /control/rewrite/delete removes every rewrite spelled like the target.
AdGuardDelete(rows, v) == {Succeeds(rows \ Spelled(rows, v), {}, NoProvenance)}
=============================================================================
