------------------------- MODULE MCCloudflareCalls -------------------------
(***************************************************************************)
(* A small instance of CloudflareCalls for TLC: a host without a dot, its  *)
(* fully qualified name, and a host of its own.                            *)
(***************************************************************************)
EXTENDS CloudflareCalls

OneSource == <<"docker">>
OneOutput == <<"cf">>
KindOf == [o \in Outputs |-> "cloudflare"]

HostsUsed == {"web", "web.lan", "db.lan"}
InZone == [h \in HostsUsed |-> IF h = "web" THEN "web.lan" ELSE h]
AnswersUsed == {"a1", "a2"}
SameHost == [h \in HostsUsed |-> h]
SameAnswer == [a \in AnswersUsed |-> a]
RankOf == [x \in HostsUsed \cup AnswersUsed |-> 1]
TwoIds == 1..2
NoContainers == {}

Pair(h, a) == [hostname |-> h, answer |-> a]
WantedUsed == {Pair("web", "a1"), Pair("db.lan", "a1")}
TextsUsed == {Pair("web.lan", "a1"), Pair("web.lan", "a2")}
=============================================================================
