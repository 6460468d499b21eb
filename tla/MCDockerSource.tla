--------------------------- MODULE MCDockerSource ---------------------------
(***************************************************************************)
(* A small instance of DockerSource for TLC: one container at a time, with *)
(* labels that name it in every way the code reads, in order and out of    *)
(* order, spelled well and badly.                                          *)
(***************************************************************************)
EXTENDS DockerSource

NamesInUse == {"web", "app", "box", "lan", "*"}
Words == {"true", "false", "80", "cloudflare"}
DomainsUsed == {"lan"}
In(n, d) == n \o "." \o d

Qualified == {In(n, d) : n \in NamesInUse \cup Words, d \in DomainsUsed}
DottedUsed == {".", "..", "web.", "web..", "10.0.0.8", "10.0.0.9"} \cup Qualified
TextsUsed == {"", " ", "True", "Web"} \cup NamesInUse \cup Words \cup DottedUsed

FoldedUsed ==
  [t \in TextsUsed |->
     CASE t = " " -> "" [] t = "Web" -> "web" [] t = "True" -> "true" [] OTHER -> t]
NormalUsed ==
  [t \in TextsUsed |->
     CASE t = "." -> "" [] t = ".." -> "." [] t = "web." -> "web" [] t = "web.." -> "web."
       [] OTHER -> FoldedUsed[t]]
UnderUsed == [p \in (NamesInUse \cup Words) \X DomainsUsed |-> In(p[1], p[2])]
HashUsed == [i \in 1..2 |-> IF i = 1 THEN "#1" ELSE "#2"]
WildUsed == {"*", "#1", "#2", "#9", "*.x"}

OneContainer == {"c1"}
NamesUsed == {"box", "web"}

None == [k \in {} |-> ""]
All(keys, t) == [k \in keys |-> t]

Plain == [exclude |-> "", dns |-> "", aliases |-> << >>, port |-> None, host |-> None]

Aliases ==
  {<< >>, <<"web">>, <<" ", "Web">>, <<"Web", "web">>, <<"web", "web.lan">>, <<"app", "lan">>,
   <<"*">>, <<"web..", "web">>}

Ports ==
  {None, All({"Web"}, "80"), All({"*"}, "80"), All({"#2"}, "80"), All({"web", "Web"}, "80"),
   All({"web.lan"}, "80"), All({"web"}, " "), All({"."}, "80"),
   All({"#9"}, "80"), All({"*.x"}, "80")}

HostLabels ==
  {None, All({"web"}, "10.0.0.9"), All({"Web"}, "10.0.0.9"), All({"*"}, "10.0.0.9"),
   [k \in {"#1", "#2"} |-> IF k = "#1" THEN "10.0.0.8" ELSE "10.0.0.9"],
   All({"web"}, "."), All({"*"}, "..")}

LabelsUsed ==
  {[Plain EXCEPT !.port = p] : p \in Ports}
  \cup {[Plain EXCEPT !.aliases = a, !.port = All({k}, "80")] : a \in Aliases, k \in {"*", "#2"}}
  \cup {[Plain EXCEPT !.aliases = a, !.port = All({"*"}, "80"), !.host = h] :
          a \in {<<" ", "Web">>, <<"Web", "web">>, <<"web..", "web">>}, h \in HostLabels}
  \cup {[Plain EXCEPT !.port = All({"web"}, "80"), !.dns = t] :
          t \in {" ", "True", "false", "cloudflare"}}
  \cup {[Plain EXCEPT !.port = All({"web"}, "80"), !.exclude = t] : t \in {"True", "80"}}

SettingsUsed ==
  {[host_ip |-> "10.0.0.8", local |-> TRUE, endpoint_host |-> "", base_domain |-> "lan"],
   [host_ip |-> " ", local |-> TRUE, endpoint_host |-> "", base_domain |-> ""],
   [host_ip |-> "", local |-> FALSE, endpoint_host |-> "web.lan", base_domain |-> "lan"]}
=============================================================================
