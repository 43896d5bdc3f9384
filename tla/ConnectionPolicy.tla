-------------------------- MODULE ConnectionPolicy --------------------------
(***************************************************************************)
(* The decision tables of pb-network that depend on the mode: the choice   *)
(* of the resolver (dns/whitelist.rs), what follows a DoH failure          *)
(* (dns/fallback.rs), Encrypted Client Hello (tls/ech.rs), certificate     *)
(* transparency (tls/ct.rs), and the one ClientHello of every connection   *)
(* (client_hello.rs, tls/chain.rs).  Modes are "Standard" and "Strict".    *)
(***************************************************************************)

Endpoint == {"quad9", "cloudflare", "nextdns", "custom https"}

\* Whitelist::lookup: an endpoint, "none" for the system resolver, or an error.  A custom
\* address is refused unless it is https.
Lookup(provider, mode) ==
  CASE provider \in Endpoint -> provider
    [] provider = "system" /\ mode = "Strict" -> "SystemDnsForbidden"
    [] provider = "system" /\ mode = "Standard" -> "none"
    [] OTHER -> "CustomNotHttps"

\* FallbackPolicy::decide.
DecideForAnyMode(optIn, mode, failure) ==
  IF failure = "Definitive" THEN "Surface"
  ELSE IF optIn THEN "SystemDns" ELSE "Outage"

Decide(optIn, mode, failure) ==
  IF failure = "Definitive" THEN "Surface"
  ELSE IF mode = "Standard" /\ optIn THEN "SystemDns" ELSE "Outage"

\* EchPolicyBundle::policy_for; the settings toggle reaches the Standard policy only.
EchPolicy(mode, standardDisabled) ==
  IF mode = "Strict" THEN "Mandatory"
  ELSE IF standardDisabled THEN "Disabled" ELSE "Preferred"

EchFailure == {"ConfigParseFailed", "UnknownVersion", "EchRequiredAlert",
               "RetryWithNewConfigExhausted", "MandatoryButPlaintextSniRequired",
               "HpkeSealFailed"}
EchOutcome == {"Encrypted", "NotOffered", "NotAttempted"} \cup EchFailure

EchDecideWarningOnFailure(policy, outcome) ==
  CASE policy = "Disabled" \/ outcome = "Encrypted" -> "Allow"
    [] outcome = "EchRequiredAlert" -> "Retry"
    [] policy = "Mandatory" -> "WarnAndAllow"
    [] OTHER -> "FallbackPlaintext"

\* EchPolicy::decide, its arms in order.
EchDecide(policy, outcome) ==
  CASE policy = "Disabled" \/ outcome = "Encrypted" -> "Allow"
    [] policy # "Disabled" /\ outcome = "EchRequiredAlert" -> "Retry"
    [] policy = "Mandatory" /\ outcome \in {"NotOffered", "NotAttempted"} -> "WarnAndAllow"
    [] policy = "Mandatory" /\ outcome \in EchFailure \ {"EchRequiredAlert"} -> "Block"
    [] policy = "Preferred" /\ outcome \notin {"Encrypted", "EchRequiredAlert"} ->
         "FallbackPlaintext"

\* CtPolicyBundle::policy_for and CtPolicy::decide.
CtPolicy(mode) == IF mode = "Strict" THEN "HardFail" ELSE "WarnAndOffer"
CtOutcome == {"Verified", "NotEnforced", "Failed"}
CtDecide(policy, outcome) ==
  IF policy = "Disabled" \/ outcome # "Failed" THEN "Allow"
  ELSE IF policy = "HardFail" THEN "Block" ELSE "Warn"

\* The default verifiers look at nothing; those of production may give any verdict.
EchVerify(verifier) == IF verifier = "NoOp" THEN {"NotAttempted"} ELSE EchOutcome
CtVerify(verifier) == IF verifier = "NoOp" THEN {"NotEnforced"} ELSE CtOutcome

TrustAnchorChoice == {"WebpkiRoots", "System"}

\* No self-signed certificate has been granted to a host (and nobody asks yet).
DenyAllGrants == {}

\* ChainValidator::webpki_roots and system_roots.
ChainValidator(anchors) ==
  [anchors |-> anchors, grants |-> DenyAllGrants, ct |-> "NoOp",
   ech |-> "NoOp", standardDisabled |-> FALSE]

\* with_ct and with_ech, the latter also for the toggle of the settings.
WithVerifiers(validator) == [validator EXCEPT !.ct = "Production", !.ech = "Production"]
WithStandardDisabled(validator) == [validator EXCEPT !.standardDisabled = TRUE]

\* What the ClientHello of a connection shows: locked versions, suites and groups in
\* locked order, and no certificate of the client.
ClientHello(mode) ==
  [versions |-> "TLS13,TLS12", suites |-> "locked nine", groups |-> "X25519,P256,P384",
   client_auth |-> FALSE]

\* build_client_config: either choice of anchors gives the bundled roots.
BuildClientConfig(validator, mode) == [hello |-> ClientHello(mode), roots |-> "webpki"]

\* NetworkError.  A clone, which is what the followers of a flight and the cache get, has
\* lost the source of the two that carry one.
ResolveError ==
  {"Resolve", "ResolveNxDomain", "ResolveProtocol", "ResolveTimeout", "ResolveTransport",
   "ResolveCertPin", "ResolveOutage", "ResolveRebinding"}
NetworkError ==
  {"PartitionMismatch", "HttpsOnlyDowngrade", "Ipc", "Sandbox", "Config", "InvalidUrl",
   "Cancelled", "Blocked", "Tls", "TlsCtFailed", "TlsEchFailed"} \cup ResolveError

Cloned(error) == IF error \in {"Ipc", "Sandbox"} THEN "Resolve" ELSE error
=============================================================================
