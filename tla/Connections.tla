---------------------------- MODULE Connections ----------------------------
(***************************************************************************)
(* The network broker under the settings it was started with: bootstrap    *)
(* takes a snapshot of the configuration (coordinator.rs), and every       *)
(* connection then goes through the choice of the resolver, the DoH        *)
(* client, the fallback policy, ECH and certificate transparency.  The     *)
(* orchestrator that drives these calls, the verifiers and the system      *)
(* resolver are not in the repository.  One connection at a time: the      *)
(* decisions share no state.                                               *)
(***************************************************************************)
EXTENDS SettingsFiles, ConnectionPolicy, DohClient, WebRtc

CONSTANTS
  Query,        \* the names that are looked up, as labels
  Response,     \* what the DoH transport may come back with
  SystemAnswer, \* addresses the system resolver may give
  MaxRetries    \* how often the model lets the ECH verifier ask for another try

\* The wire format gives an address record 4 or 16 bytes.
ASSUME ResponseAssumption ==
  \A response \in Response : \A i \in DOMAIN response.answers :
    response.answers[i].type \in QueryType => response.answers[i].address \in Address

VARIABLES
  broker,   \* NoBroker, or the coordinator with its snapshot
  conn      \* NoConn or the connection being made

NoBroker == [provider |-> "none"]
NoConn == [stage |-> "none"]
vars == <<settingsVars, rtcVars, broker, conn>>

Init == SettingsInit /\ RtcInit /\ broker = NoBroker /\ conn = NoConn

AsMode(m) == IF m = "strict" THEN "Strict" ELSE "Standard"

\* bootstrap: a wrong sandbox class is refused; the system-DNS opt-in starts as FALSE.
Bootstrap(sandboxClass, anchors) ==
  /\ Running /\ broker = NoBroker
  /\ sandboxClass = "Network"
  /\ broker' = [provider |-> config.network.provider,
                default_mode |-> AsMode(config.privacy.default_mode),
                optIn |-> FALSE, validator |-> ChainValidator(anchors)]
  /\ UNCHANGED <<settingsVars, rtcVars, conn>>

\* The wizard's opt-in (set_fallback_policy) at any time; at boot also what replaces the
\* default bundles of the validator: production verifiers and the ECH toggle.
ChangePolicy ==
  /\ broker # NoBroker
  /\ \/ broker' = [broker EXCEPT !.optIn = ~@]
     \/ conn = NoConn /\ broker' = [broker EXCEPT !.validator = WithVerifiers(@)]
     \/ conn = NoConn /\ broker' = [broker EXCEPT !.validator = WithStandardDisabled(@)]
  /\ UNCHANGED <<settingsVars, rtcVars, conn>>

ConnUnchanged == UNCHANGED <<settingsVars, rtcVars, broker>>
Fail(error) == conn' = [conn EXCEPT !.stage = "failed", !.error = error]

\* A tab of any mode opens a connection: the configured default does not bind it.
Open(mode) ==
  /\ broker # NoBroker
  /\ conn.stage \in {"none", "up", "failed"}
  /\ conn' = [stage |-> "lookup", mode |-> mode, via |-> "none", address |-> <<>>,
              told |-> FALSE, optedIn |-> FALSE, offered |-> FALSE, retracted |-> FALSE,
              retries |-> 0, sni |-> "none", warned |-> FALSE, ct |-> "none",
              error |-> "none",
              client |-> BuildClientConfig(broker.validator, mode)]
  /\ ConnUnchanged

Resolved(via, address) ==
  conn' = [conn EXCEPT !.stage = "handshake", !.via = via, !.address = address]

\* As what the caller may report an error of the resolver.  ServFail, which is to be
\* definitive, reaches it as the same error as an exchange that failed: it cannot tell.
FailureKinds(error) ==
  CASE error = "ResolveTransport" -> {"Transport", "Definitive"}
    [] error = "ResolveProtocol" -> {"Protocol"}
    [] error = "ResolveTimeout" -> {"Timeout"}
    [] OTHER -> {"Definitive"}

ChooseResolver ==
  /\ conn.stage = "lookup"
  /\ LET endpoint == Lookup(broker.provider, conn.mode)
     IN  CASE endpoint \in Endpoint -> conn' = [conn EXCEPT !.stage = "doh", !.via = "doh"]
           [] endpoint = "none" -> conn' = [conn EXCEPT !.stage = "system"]
           [] OTHER -> Fail(endpoint)
  /\ ConnUnchanged

\* What the client makes of a name, a type and a response, as a follower of the flight
\* and the cache get it.
DohResult(labels, qtype, response) ==
  LET result == DohResolve(labels, qtype, response)
  IN  IF result.kind = "Error" THEN [result EXCEPT !.error = Cloned(@)] ELSE result

\* The server has told what there is to the name: it sent a message that can be read and
\* that says that there is no such name, or which records there are.
Tells(response) ==
  /\ response.transport = "ok" /\ response.size = "fits" /\ response.questions = 1
  /\ \/ response.rcode = 3
     \/ response.rcode = 0 /\ \A i \in DOMAIN response.answers : response.answers[i].intact

\* The question, and what follows its answer.  `told` and `optedIn` are histories.
AskDoh ==
  /\ conn.stage = "doh"
  /\ \E labels \in Query, qtype \in QueryType, response \in Response :
       LET result == DohResult(labels, qtype, response)
           asked == [conn EXCEPT !.told = Encodable(labels) /\ Tells(response),
                                 !.optedIn = broker.optIn]
       IN  \/ /\ result.kind = "Records"
              /\ \E r \in result.records :
                   conn' = [asked EXCEPT !.stage = "handshake", !.address = r.address]
           \/ /\ result.kind = "Error"
              /\ \E kind \in FailureKinds(result.error) :
                   LET next == Decide(broker.optIn, conn.mode, kind)
                   IN  CASE next = "SystemDns" -> conn' = [asked EXCEPT !.stage = "system"]
                         [] next = "Surface" ->
                              conn' = [asked EXCEPT !.stage = "failed", !.error = result.error]
                         [] next = "Outage" ->
                              conn' = [asked EXCEPT !.stage = "failed",
                                                    !.error = "ResolveOutage"]
  /\ ConnUnchanged

AskSystem ==
  /\ conn.stage = "system"
  /\ \E address \in SystemAnswer : Resolved("system", address)
  /\ ConnUnchanged

\* One try.  What the verifier says is free: the code asks it to bound the retries, and not
\* to stand by an offer.  `retracted` is set when it says after an offer that there is none.
Handshake ==
  /\ conn.stage = "handshake"
  /\ \E outcome \in EchVerify(broker.validator.ech) :
       LET decision == EchDecide(EchPolicy(conn.mode, broker.validator.standardDisabled),
                                 outcome)
           offer == outcome \in EchFailure \cup {"Encrypted"}
           seen == [conn EXCEPT !.offered = @ \/ offer,
                                !.retracted = conn.offered /\ ~offer]
           sni == IF outcome = "Encrypted" THEN "encrypted" ELSE "plain"
       IN  CASE decision = "Block" ->
                  conn' = [seen EXCEPT !.stage = "failed", !.error = "TlsEchFailed"]
             [] decision = "Retry" ->
                  conn.retries < MaxRetries /\ conn' = [seen EXCEPT !.retries = @ + 1]
             [] OTHER -> conn' = [seen EXCEPT !.stage = "chain", !.sni = sni,
                                              !.warned = (decision = "WarnAndAllow")]
  /\ ConnUnchanged

CheckTransparency ==
  /\ conn.stage = "chain"
  /\ \E outcome \in CtVerify(broker.validator.ct) :
       IF CtDecide(CtPolicy(conn.mode), outcome) = "Block" THEN Fail("TlsCtFailed")
       ELSE conn' = [conn EXCEPT !.stage = "up", !.ct = outcome]
  /\ ConnUnchanged

\* The settings process and its broker end together.
SettingsStep ==
  /\ SettingsNext
  /\ IF Running /\ ~Running' THEN broker' = NoBroker /\ conn' = NoConn
     ELSE UNCHANGED <<broker, conn>>
  /\ UNCHANGED rtcVars

RtcStep ==
  /\ \/ ChangeGrant
     \/ \E mode \in {"Standard", "Strict"}, p \in RtcPartition : Gather(mode, p)
     \/ \E p, asker \in RtcPartition : ResolveName(p, asker)
  /\ UNCHANGED <<settingsVars, broker, conn>>

ConnectionStep ==
  \/ \E class \in {"Network", "Storage"}, anchors \in TrustAnchorChoice :
       Bootstrap(class, anchors)
  \/ ChangePolicy
  \/ \E mode \in {"Standard", "Strict"} : Open(mode)
  \/ ChooseResolver \/ AskDoh \/ AskSystem \/ Handshake \/ CheckTransparency

Next == SettingsStep \/ ConnectionStep \/ RtcStep

Spec == Init /\ [][Next]_vars

-----------------------------------------------------------------------------
\* L21: a Strict connection never asks the system resolver, whatever the configuration,
\* the opt-in and the failures; a Standard one only if the user chose it, or had opted in
\* when DoH failed, and not once the DoH server has told that there is no such name or
\* what its records are: a name the rebinding filter refused is not asked for again where
\* nothing filters.  ServFail is not among this (FailureKinds).
StrictStaysOnDoh ==
  conn.stage # "none" /\ (conn.via = "system" \/ conn.stage = "system") =>
    /\ conn.mode = "Standard"
    /\ (conn.optedIn /\ ~conn.told) \/ broker.provider = "system"

\* The rebinding filter: an address that came over DoH is in none of the blocks that are
\* not public, whatever records the answer mixed it with.
DohAddressIsPublic ==
  conn.stage # "none" /\ conn.via = "doh" /\ conn.address # <<>> =>
    \A block \in NonPublicBlocks : ~InBlock(conn.address, block)

\* L34, section 3.3: once a server has offered an ECH configuration, at any try, no
\* Strict connection to it comes up with a plain SNI, unless the verifier itself takes the
\* offer back at the last try; with a plain SNI it comes up with a warning; and none comes
\* up over a certificate that fails transparency.
StrictHandshakeHolds ==
  conn.stage = "up" /\ conn.mode = "Strict" =>
    /\ conn.sni = "encrypted" \/ (conn.warned /\ (conn.offered => conn.retracted))
    /\ conn.ct # "Failed"
=============================================================================
