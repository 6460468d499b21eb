------------------------------ MODULE Failures ------------------------------
(***************************************************************************)
(* What can go wrong with a call on a service, and what the providers and  *)
(* the runtime make of it: Temporary says whether the error that reaches   *)
(* App.reconcile is one it retries.                                        *)
(***************************************************************************)

Events ==
  { "refused",     \* the connection fails, not by a timeout
    "netTimeout",  \* a timeout of the network, which is no ended context
    "deadline",    \* the call runs into the operation timeout
    "busy",        \* the service answers 408, 429 or 5xx
    "denied",      \* the service answers any other status than success
    "garbled" }    \* the service answers something that cannot be read

\* Everything the Docker client reports, but for an ended context.
dockerTemporary(event) == event # "deadline"

adguardTemporary(event) == event \in {"refused", "netTimeout", "busy"}

\* Wrong variant: a status is an answer, so there is nothing to retry.
TemporaryNetworkOnly(event) == event = "netTimeout"

cloudflareTemporary(event) == event \in {"netTimeout", "busy"}

providerTemporary(kind, event) ==
  CASE kind = "docker" -> dockerTemporary(event)
    [] kind = "adguard" -> adguardTemporary(event)
    [] kind = "cloudflare" -> cloudflareTemporary(event)

isTemporaryError(kind, event) == event # "deadline" /\ providerTemporary(kind, event)
=============================================================================
