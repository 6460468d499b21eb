------------------------------ MODULE MCAppRun ------------------------------
(***************************************************************************)
(* A small instance of AppRun for TLC: files that are right, and files     *)
(* that are wrong, or oddly written, in one field.                         *)
(***************************************************************************)
EXTENDS AppRun

Durations == {"1s", "2s", "3s", " 2s ", "0s", "-1s"}
Endpoint == {"unix://s", "unix://", " tcp://h", "tcp://h", "http://h"}
Plain == {"docker", "adguard", "cloudflare", "x", "info", "trace", "json",
          "10.0.0.1", "lan", "soon", "other"}

TextsUsed ==
  {"", " ", " docker", "AdGuard", "Docker", "ENV:KEY", " ENV:KEY", "KEY", "ENV: ", "ENV:", "-lan"}
  \cup Durations \cup Endpoint \cup Plain

Trimmed ==
  [t \in TextsUsed |->
     CASE t = " " -> "" [] t = " docker" -> "docker" [] t = " ENV:KEY" -> "ENV:KEY"
       [] t = " tcp://h" -> "tcp://h" [] t = " 2s " -> "2s" [] t = "ENV: " -> "ENV:"
       [] OTHER -> t]

Folded ==
  [t \in TextsUsed |->
     IF t = "AdGuard" THEN "adguard" ELSE IF t = "Docker" THEN "docker" ELSE Trimmed[t]]

DurationOf ==
  [t \in Durations \ {" 2s "} |->
     CASE t = "1s" -> 1 [] t = "2s" -> 2 [] t = "3s" -> 3 [] t = "0s" -> 0 [] t = "-1s" -> -1]

RefOf == [t \in {"ENV:KEY"} |-> "KEY"]
NamesUsed == {"KEY"}
SchemesUsed == {"unix://s", "unix://", "tcp://h"}
DialableUsed == {"unix://s", " tcp://h", "tcp://h"}
AddressesUsed == {"10.0.0.1"}
DomainsUsed == {"lan"}

NoKey == << >>
Key == [n \in NamesUsed |-> "x"]
BlankKey == [n \in NamesUsed |-> " "]
EnvsUsed == {NoKey, Key, BlankKey}

GoodSource ==
  [type |-> "docker", name |-> "x", endpoint |-> "unix://s", host_ip |-> "", base_domain |-> ""]

NoOutput ==
  [type |-> "", name |-> "x", enabled |-> TRUE, url |-> "", username |-> "", password |-> "",
   password_ref |-> "", zone_id |-> "", api_key |-> "", api_key_ref |-> ""]
AdGuard ==
  [NoOutput EXCEPT !.type = "adguard", !.url = "x", !.username = "x", !.password_ref = "ENV:KEY"]
Cloudflare == [NoOutput EXCEPT !.type = "cloudflare", !.zone_id = "x", !.api_key = "x"]
Disabled == [NoOutput EXCEPT !.type = "other", !.enabled = FALSE]

GoodConfig ==
  [sources |-> <<GoodSource>>, outputs |-> <<AdGuard, Cloudflare>>, path |-> "x",
   level |-> "info", format |-> "json", operation_timeout |-> "2s",
   initial_interval |-> "1s", max_interval |-> "2s", max_elapsed_time |-> "3s"]

\* The records that differ from r in one field.
Differing(r, fields, texts) == {[r EXCEPT ![f] = t] : f \in fields, t \in texts}

OddSources ==
  Differing(GoodSource, {"type", "name"}, {" ", "docker", " docker", "Docker"})
  \cup Differing(GoodSource, {"endpoint"}, Endpoint \cup {""})
  \cup Differing(GoodSource, {"host_ip", "base_domain"}, {" ", "lan", "-lan", "10.0.0.1"})

OddOutputs ==
  Differing(AdGuard, {"type", "name", "url", "username"}, {"", " ", "x", "AdGuard"})
  \cup Differing(AdGuard, {"password", "password_ref", "api_key_ref"},
                 {"", " ", "x", " ENV:KEY", "KEY", "ENV: "})
  \cup Differing(Cloudflare, {"zone_id", "api_key"}, {"", " "})
  \cup {[Cloudflare EXCEPT !.api_key = t, !.api_key_ref = "ENV:KEY"] : t \in {"", "x"}}
  \cup {Disabled}

OddConfigs ==
  {[GoodConfig EXCEPT !.sources = <<s>>] : s \in OddSources}
  \cup {[GoodConfig EXCEPT !.outputs = <<o>>] : o \in OddOutputs}
  \cup {[GoodConfig EXCEPT !.sources = << >>], [GoodConfig EXCEPT !.outputs = << >>]}
  \cup Differing(GoodConfig, {"path", "level", "format"}, {" ", "x", "trace"})
  \cup Differing(GoodConfig,
         {"operation_timeout", "initial_interval", "max_interval", "max_elapsed_time"},
         Durations \cup {"", "soon"})

FilesUsed ==
  {[reading |-> "whole", config |-> c] : c \in OddConfigs}
  \cup {[reading |-> r, config |-> GoodConfig] : r \in Readings}
=============================================================================
