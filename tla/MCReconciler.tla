---------------------------- MODULE MCReconciler ----------------------------
(***************************************************************************)
(* Small instances of Reconciler for TLC.                                  *)
(***************************************************************************)
EXTENDS Reconciler

OneSource == <<"docker">>
TwoSources == <<"docker", "edge">>

OnlyAdGuard == <<"ag">>
OnlyCloudflare == <<"cf">>
BothOutputs == <<"ag", "cf">>

KindOf == [o \in Outputs |-> IF o = "ag" THEN "adguard" ELSE "cloudflare"]

\* Two hosts in canonical spelling; one host in two spellings.
TwoHosts == {"h1", "h2"}
TwoSpellings == {"h1", "H1"}
TwoAnswers == {"a1", "a2"}
SameHost == [h \in Hosts |-> h]
Folded == [h \in Hosts |-> "h1"]
SameAnswer == [a \in Answers |-> a]

RankOf == [x \in Hosts \cup Answers |-> IF x \in {"h1", "a1"} THEN 1 ELSE 2]

Ids4 == 1..4

Pub(h, a) == [hostname |-> h, answer |-> a]
Container(source, id, name, label, pubs) ==
  [provider |-> source, id |-> id, name |-> name, output |-> label, pubs |-> pubs]

\* A service; recreated with another answer; recreated for Cloudflare only; a
\* second container that publishes the same; a container of another source.
Web     == Container("docker", "c1", "web", "", {Pub("h1", "a1")})
WebNew  == Container("docker", "c2", "web", "", {Pub("h1", "a2")})
WebOnly == Container("docker", "c6", "web", "cloudflare", {Pub("h1", "a1")})
Twin    == Container("docker", "c8", "twin", "", {Pub("h1", "a1")})
EdgeApp == Container("edge", "c1", "app", "", {Pub("h2", "a2")})

IdsUsed == {"c1", "c2", "c6", "c8"}
NamesUsed == {"web", "twin", "app"}

\* In each of these sets no two containers share a name or claim a host.
Everything == {{}, {WebOnly}, {Twin, EdgeApp}, {WebNew}}
\* The service stops, starts, and comes back with another answer.
Replaced == {{}, {Web}, {WebNew}}

\* Two containers may publish the same record, as during a rolling update.
Twins == SUBSET {Web, Twin}

NoRows == {}
EveryTime == {"down", "load", "sources", "outputs", "mutate", "savePartial", "failed", "idle"}
BetweenPasses == {"failed", "idle"}

\* An operator's rewrite in another spelling of the host, and his record.
ManualRows ==
  {[output |-> "ag", hostname |-> "H1", answer |-> "a1"]}
  \cup {[output |-> "cf", hostname |-> "h1", answer |-> "a1"]}
=============================================================================
