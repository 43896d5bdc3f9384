------------------------- MODULE Connections_proofs -------------------------
(***************************************************************************)
(* What a connection, a page and a start may count on, for every           *)
(* configuration, every answer of the resolvers, every verdict of the      *)
(* verifiers, and every crash and edit.  In this order: a Strict           *)
(* connection stays on DoH, and behind ECH and transparency (ConnInv,      *)
(* HandshakeInv); WebRTC hides the local network (RtcInv); an address that *)
(* came over DoH is public (AddressInv); a start finds what was saved      *)
(* (SettingsInv).                                                          *)
(***************************************************************************)
EXTENDS Connections, FiniteSetTheorems, SequenceTheorems, TLAPS

BrokerFields == {"provider", "default_mode", "optIn", "validator"}
ConnFields == {"stage", "mode", "via", "address", "told", "optedIn", "offered", "retracted",
               "retries", "sni", "warned", "ct", "error", "client"}

\* A connection has its broker, and its mode is one of the two.
ConnTypeOK ==
  /\ broker = NoBroker \/ DOMAIN broker = BrokerFields
  /\ broker = NoBroker => conn.stage = "none"
  /\ conn.stage # "none" => DOMAIN conn = ConnFields /\ conn.mode \in {"Standard", "Strict"}

\* A lookup over DoH has not been anywhere else.
AtDoh == conn.stage = "doh" => conn.via = "doh"

ConnInv == ConnTypeOK /\ AtDoh /\ StrictStaysOnDoh

\* A broker that runs is not the mark of its absence.
LEMMA BrokerDiffers ==
  ASSUME NEW b, DOMAIN b = BrokerFields
  PROVE  b # NoBroker
<1>1. DOMAIN NoBroker = {"provider"}
  BY DEF NoBroker
<1>2. "optIn" \in BrokerFields /\ "optIn" \notin {"provider"}
  BY DEF BrokerFields
<1> QED BY <1>1, <1>2

\* The broker comes up with no connection.
LEMMA BootstrapKeepsInv ==
  ASSUME ConnInv, NEW class, NEW anchors, Bootstrap(class, anchors)
  PROVE  ConnInv'
<1>1. DOMAIN broker' = BrokerFields
  BY DEF Bootstrap, BrokerFields
<1>2. conn' = conn /\ conn.stage = "none"
  BY DEF Bootstrap, ConnInv, ConnTypeOK
<1> QED BY <1>1, <1>2, BrokerDiffers DEF ConnInv, ConnTypeOK, AtDoh, StrictStaysOnDoh

\* The opt-in and the toggles leave the choice of the provider alone.
LEMMA PolicyKeepsInv == ConnInv /\ ChangePolicy => ConnInv'
<1> SUFFICES ASSUME ConnInv, ChangePolicy PROVE ConnInv'
  OBVIOUS
<1>1. broker # NoBroker /\ DOMAIN broker = BrokerFields /\ conn' = conn
  BY DEF ChangePolicy, ConnInv, ConnTypeOK
<1>2. DOMAIN broker' = BrokerFields /\ broker'.provider = broker.provider
  BY <1>1 DEF ChangePolicy, BrokerFields
<1> QED BY <1>1, <1>2, BrokerDiffers DEF ConnInv, ConnTypeOK, AtDoh, StrictStaysOnDoh

\* A connection starts with no resolver chosen.
LEMMA OpenKeepsInv ==
  ASSUME ConnInv, NEW mode \in {"Standard", "Strict"}, Open(mode)
  PROVE  ConnInv'
<1>1. /\ DOMAIN conn' = ConnFields /\ conn'.stage = "lookup" /\ conn'.via = "none"
      /\ conn'.mode = mode
  BY DEF Open, ConnFields
<1>2. broker # NoBroker /\ broker' = broker
  BY DEF Open, ConnUnchanged
<1> QED BY <1>1, <1>2 DEF ConnInv, ConnTypeOK, AtDoh, StrictStaysOnDoh

\* A step of a connection that keeps its mode, and goes over the system resolver only as
\* the policy allows.
LEMMA StepKeepsInv ==
  ASSUME ConnInv, conn.stage # "none",
         broker' = broker, DOMAIN conn' = DOMAIN conn, conn'.mode = conn.mode,
         conn'.stage # "none", conn'.stage = "doh" => conn'.via = "doh",
         conn'.via = "system" \/ conn'.stage = "system" =>
           /\ conn.mode = "Standard"
           /\ (conn'.optedIn /\ ~conn'.told) \/ broker.provider = "system"
  PROVE  ConnInv'
  BY DEF ConnInv, ConnTypeOK, AtDoh, StrictStaysOnDoh

\* resolver.rs: a Strict connection is never sent to the system resolver.
LEMMA ChooseKeepsInv == ConnInv /\ ChooseResolver => ConnInv'
<1> SUFFICES ASSUME ConnInv, ChooseResolver PROVE ConnInv'
  OBVIOUS
<1> DEFINE endpoint == Lookup(broker.provider, conn.mode)
<1>1. /\ conn.stage = "lookup" /\ DOMAIN conn = ConnFields /\ broker' = broker
      /\ conn.mode \in {"Standard", "Strict"}
  BY DEF ChooseResolver, ConnInv, ConnTypeOK, ConnUnchanged
<1>2. conn.via = "system" =>
        /\ conn.mode = "Standard"
        /\ (conn.optedIn /\ ~conn.told) \/ broker.provider = "system"
  BY <1>1 DEF ConnInv, StrictStaysOnDoh
<1>3. \/ conn' = [conn EXCEPT !.stage = "doh", !.via = "doh"]
      \/ endpoint = "none" /\ conn' = [conn EXCEPT !.stage = "system"]
      \/ conn' = [conn EXCEPT !.stage = "failed", !.error = endpoint]
  BY DEF ChooseResolver, Fail
<1>4. endpoint = "none" => conn.mode = "Standard" /\ broker.provider = "system"
  BY <1>1 DEF Lookup, Endpoint
<1> HIDE DEF endpoint
<1>5. CASE conn' = [conn EXCEPT !.stage = "doh", !.via = "doh"]
  BY <1>1, <1>5, StepKeepsInv DEF ConnFields
<1>6. CASE endpoint = "none" /\ conn' = [conn EXCEPT !.stage = "system"]
  BY <1>1, <1>4, <1>6, StepKeepsInv DEF ConnFields
<1>7. CASE conn' = [conn EXCEPT !.stage = "failed", !.error = endpoint]
  BY <1>1, <1>2, <1>7, StepKeepsInv DEF ConnFields
<1> QED BY <1>3, <1>5, <1>6, <1>7

\* The client answers with records or with an error, also through the cache; and when the
\* server has told what there is to the name, the error says so.
LEMMA DohAnswers ==
  ASSUME NEW labels, NEW qtype, NEW response
  PROVE  LET result == DohResult(labels, qtype, response)
         IN  /\ result.kind \in {"Records", "Error"}
             /\ result.kind = "Error" /\ Encodable(labels) /\ Tells(response) =>
                  result.error \in {"ResolveNxDomain", "ResolveRebinding"}
<1> DEFINE direct == DohResolve(labels, qtype, response)
           result == DohResult(labels, qtype, response)
           told == Encodable(labels) /\ Tells(response)
           Final(e) == e \in {"ResolveNxDomain", "ResolveRebinding"}
<1>1. ASSUME NEW e PROVE /\ Failure(e).kind = "Error" /\ Failure(e).error = e
                         /\ DOMAIN Failure(e) = {"kind", "error"}
  BY DEF Failure
<1>2. ASSUME NEW d PROVE \/ Selected(qtype, d) = Failure("ResolveNxDomain")
                         \/ Selected(qtype, d).kind = "Records"
  BY DEF Selected
<1>3. ASSUME NEW d PROVE \/ \E e : Answer(qtype, d) = Failure(e) /\ Final(e)
                         \/ Answer(qtype, d).kind = "Records"
  BY <1>2 DEF Answer
<1>4. told => /\ TransportError(response) = "none"
              /\ DecodeError(response) \in {"none", "NxDomain"}
  BY DEF Tells, TransportError, DecodeError
<1>5. MapWireError("NxDomain") = "ResolveNxDomain"
  BY DEF MapWireError
<1>6. \/ \E e : direct = Failure(e) /\ (told => Final(e))
      \/ direct.kind = "Records"
  <2>1. CASE ~Encodable(labels) \/ TransportError(response) # "none"
    <3>1. ~told
      BY <1>4, <2>1
    <3>2. \/ direct = Failure("ResolveProtocol")
          \/ direct = Failure(TransportError(response))
      BY <2>1 DEF DohResolve
    <3> HIDE DEF direct, told
    <3> QED BY <3>1, <3>2
  <2>2. CASE /\ Encodable(labels) /\ TransportError(response) = "none"
             /\ DecodeError(response) # "none"
    <3>1. direct = Failure(MapWireError(DecodeError(response)))
      BY <2>2 DEF DohResolve
    <3>2. told => Final(MapWireError(DecodeError(response)))
      BY <1>4, <1>5, <2>2
    <3> HIDE DEF direct, told, Final
    <3> QED BY <3>1, <3>2
  <2>3. CASE /\ Encodable(labels) /\ TransportError(response) = "none"
             /\ DecodeError(response) = "none"
    <3>1. direct = Answer(qtype, Decoded(response))
      BY <2>3 DEF DohResolve
    <3> HIDE DEF direct, told, Final
    <3> QED BY <1>3, <3>1
  <2> QED BY <2>1, <2>2, <2>3
<1>7. result = IF direct.kind = "Error" THEN [direct EXCEPT !.error = Cloned(@)] ELSE direct
  BY DEF DohResult
<1> HIDE DEF direct, told, result
<1>8. CASE direct.kind = "Records"
  BY <1>7, <1>8 DEF result, told
<1>9. ASSUME NEW e, direct = Failure(e), told => Final(e)
      PROVE  result.kind = "Error" /\ (told => Final(result.error))
  <2>1. /\ direct.kind = "Error" /\ direct.error = e
        /\ DOMAIN direct = {"kind", "error"}
    BY <1>1, <1>9
  <2>2. result.kind = "Error" /\ result.error = Cloned(e)
    BY <1>7, <2>1
  <2>3. Final(e) => Cloned(e) = e
    BY DEF Cloned
  <2> QED BY <1>9, <2>2, <2>3
<1> QED BY <1>6, <1>8, <1>9 DEF result, told

\* Where the question leaves a connection.
LEMMA AskDohEffect ==
  ASSUME AskDoh, DOMAIN conn = ConnFields
  PROVE  /\ conn.stage = "doh" /\ broker' = broker
         /\ DOMAIN conn' = ConnFields /\ conn'.stage \in {"handshake", "system", "failed"}
         /\ conn'.mode = conn.mode /\ conn'.via = conn.via /\ conn'.offered = conn.offered
         /\ conn'.stage = "system" =>
              conn.mode = "Standard" /\ conn'.optedIn /\ ~conn'.told
         /\ \/ conn'.address = conn.address
            \/ \E labels \in Query, qtype \in QueryType, response \in Response :
                 LET result == DohResult(labels, qtype, response)
                 IN  /\ result.kind = "Records"
                     /\ \E r \in result.records : conn'.address = r.address
<1>1. conn.stage = "doh" /\ broker' = broker
  BY DEF AskDoh, ConnUnchanged
<1>2. PICK labels \in Query, qtype \in QueryType, response \in Response :
        LET result == DohResult(labels, qtype, response)
            asked == [conn EXCEPT !.told = Encodable(labels) /\ Tells(response),
                                  !.optedIn = broker.optIn]
        IN  \/ /\ result.kind = "Records"
               /\ \E r \in result.records :
                    conn' = [asked EXCEPT !.stage = "handshake", !.address = r.address]
            \/ /\ result.kind = "Error"
               /\ \E kind \in FailureKinds(result.error) :
                    LET next == Decide(broker.optIn, conn.mode, kind)
                    IN  CASE next = "SystemDns" -> conn' = [asked EXCEPT !.stage = "system"]
                          [] next = "Surface" ->
                               conn' = [asked EXCEPT !.stage = "failed",
                                                     !.error = result.error]
                          [] next = "Outage" ->
                               conn' = [asked EXCEPT !.stage = "failed",
                                                     !.error = "ResolveOutage"]
  BY DEF AskDoh
<1> DEFINE result == DohResult(labels, qtype, response)
           told == Encodable(labels) /\ Tells(response)
           asked == [conn EXCEPT !.told = told, !.optedIn = broker.optIn]
<1>3. result.kind = "Error" /\ told => result.error \in {"ResolveNxDomain", "ResolveRebinding"}
  BY DohAnswers
<1>4. result.error \in {"ResolveNxDomain", "ResolveRebinding"} =>
        FailureKinds(result.error) = {"Definitive"}
  BY DEF FailureKinds
<1>5. ASSUME NEW kind
      PROVE  LET next == Decide(broker.optIn, conn.mode, kind)
             IN  /\ next \in {"SystemDns", "Surface", "Outage"}
                 /\ next = "SystemDns" => /\ conn.mode = "Standard" /\ broker.optIn
                                          /\ kind # "Definitive"
  BY DEF Decide
<1>6. /\ DOMAIN asked = ConnFields /\ asked.told = told /\ asked.optedIn = broker.optIn
      /\ asked.mode = conn.mode /\ asked.via = conn.via /\ asked.offered = conn.offered
      /\ asked.address = conn.address
  <2> HIDE DEF told
  <2> QED BY DEF ConnFields
<1>7. \/ /\ result.kind = "Records"
         /\ \E r \in result.records :
              conn' = [asked EXCEPT !.stage = "handshake", !.address = r.address]
      \/ /\ conn' = [asked EXCEPT !.stage = "system"]
         /\ conn.mode = "Standard" /\ broker.optIn /\ ~told
      \/ \E e : conn' = [asked EXCEPT !.stage = "failed", !.error = e]
  <2>1. CASE /\ result.kind = "Records"
             /\ \E r \in result.records :
                  conn' = [asked EXCEPT !.stage = "handshake", !.address = r.address]
    BY <2>1
  <2>2. ASSUME result.kind = "Error", NEW kind \in FailureKinds(result.error),
               LET next == Decide(broker.optIn, conn.mode, kind)
               IN  CASE next = "SystemDns" -> conn' = [asked EXCEPT !.stage = "system"]
                     [] next = "Surface" ->
                          conn' = [asked EXCEPT !.stage = "failed", !.error = result.error]
                     [] next = "Outage" ->
                          conn' = [asked EXCEPT !.stage = "failed", !.error = "ResolveOutage"]
        PROVE  \/ /\ conn' = [asked EXCEPT !.stage = "system"]
                  /\ conn.mode = "Standard" /\ broker.optIn /\ ~told
               \/ \E e : conn' = [asked EXCEPT !.stage = "failed", !.error = e]
    <3>1. kind # "Definitive" => ~told
      BY <1>3, <1>4, <2>2
    <3> HIDE DEF asked, result, told
    <3> QED BY <1>5, <2>2, <3>1
  <2> QED BY <1>2, <2>1, <2>2
<1> HIDE DEF asked, told
<1>8. CASE /\ result.kind = "Records"
           /\ \E r \in result.records :
                conn' = [asked EXCEPT !.stage = "handshake", !.address = r.address]
  <2>1. PICK r \in result.records :
               conn' = [asked EXCEPT !.stage = "handshake", !.address = r.address]
    BY <1>8
  <2>2. /\ DOMAIN conn' = ConnFields /\ conn'.stage = "handshake"
        /\ conn'.mode = conn.mode /\ conn'.via = conn.via /\ conn'.offered = conn.offered
        /\ conn'.address = r.address
    <3> HIDE DEF result
    <3> QED BY <1>6, <2>1 DEF ConnFields
  <2> QED BY <1>1, <1>8, <2>2
<1>9. CASE /\ conn' = [asked EXCEPT !.stage = "system"]
           /\ conn.mode = "Standard" /\ broker.optIn /\ ~told
  BY <1>1, <1>6, <1>9 DEF ConnFields
<1>10. ASSUME NEW e, conn' = [asked EXCEPT !.stage = "failed", !.error = e]
       PROVE  /\ DOMAIN conn' = ConnFields /\ conn'.stage = "failed"
              /\ conn'.mode = conn.mode /\ conn'.via = conn.via
              /\ conn'.offered = conn.offered /\ conn'.address = conn.address
  BY <1>6, <1>10 DEF ConnFields
<1> HIDE DEF result
<1> QED BY <1>1, <1>7, <1>8, <1>9, <1>10

\* fallback.rs: only a Standard connection falls back to the system resolver.
LEMMA AskDohKeepsInv == ConnInv /\ AskDoh => ConnInv'
<1> SUFFICES ASSUME ConnInv, AskDoh PROVE ConnInv'
  OBVIOUS
<1>1. conn.stage = "doh"
  BY DEF AskDoh
<1>2. DOMAIN conn = ConnFields /\ conn.via = "doh"
  BY <1>1 DEF ConnInv, ConnTypeOK, AtDoh
<1>3. /\ broker' = broker
      /\ DOMAIN conn' = ConnFields /\ conn'.stage \in {"handshake", "system", "failed"}
      /\ conn'.mode = conn.mode /\ conn'.via = conn.via
      /\ conn'.stage = "system" => conn.mode = "Standard" /\ conn'.optedIn /\ ~conn'.told
  BY <1>2, AskDohEffect
<1> QED BY <1>1, <1>2, <1>3, StepKeepsInv

\* A try of the handshake: what it learns, and where it leads.
LEMMA HandshakeEffect ==
  ASSUME Handshake, DOMAIN conn = ConnFields
  PROVE  \E outcome \in EchVerify(broker.validator.ech) :
           LET decision == EchDecide(EchPolicy(conn.mode, broker.validator.standardDisabled),
                                     outcome)
               offer == outcome \in EchFailure \cup {"Encrypted"}
           IN  /\ conn.stage = "handshake" /\ broker' = broker /\ DOMAIN conn' = ConnFields
               /\ conn'.mode = conn.mode /\ conn'.via = conn.via
               /\ conn'.address = conn.address /\ conn'.told = conn.told
               /\ conn'.optedIn = conn.optedIn
               /\ conn'.offered = (conn.offered \/ offer)
               /\ conn'.retracted = (conn.offered /\ ~offer)
               /\ \/ conn'.stage \in {"failed", "handshake"}
                  \/ /\ conn'.stage = "chain" /\ decision \notin {"Block", "Retry"}
                     /\ conn'.sni = IF outcome = "Encrypted" THEN "encrypted" ELSE "plain"
                     /\ conn'.warned = (decision = "WarnAndAllow")
<1>1. conn.stage = "handshake" /\ broker' = broker
  BY DEF Handshake, ConnUnchanged
<1>2. PICK outcome \in EchVerify(broker.validator.ech) :
        LET decision == EchDecide(EchPolicy(conn.mode, broker.validator.standardDisabled),
                                  outcome)
            offer == outcome \in EchFailure \cup {"Encrypted"}
            seen == [conn EXCEPT !.offered = @ \/ offer,
                                 !.retracted = conn.offered /\ ~offer]
            sni == IF outcome = "Encrypted" THEN "encrypted" ELSE "plain"
        IN  CASE decision = "Block" ->
                   conn' = [seen EXCEPT !.stage = "failed", !.error = "TlsEchFailed"]
              [] decision = "Retry" ->
                   conn.retries < MaxRetries /\ conn' = [seen EXCEPT !.retries = @ + 1]
              [] OTHER -> conn' = [seen EXCEPT !.stage = "chain", !.sni = sni,
                                               !.warned = (decision = "WarnAndAllow")]
  BY DEF Handshake
<1> DEFINE decision == EchDecide(EchPolicy(conn.mode, broker.validator.standardDisabled),
                                 outcome)
           offered == conn.offered \/ outcome \in EchFailure \cup {"Encrypted"}
           retracted == conn.offered /\ ~(outcome \in EchFailure \cup {"Encrypted"})
           seen == [conn EXCEPT !.offered = offered, !.retracted = retracted]
           sni == IF outcome = "Encrypted" THEN "encrypted" ELSE "plain"
           warned == decision = "WarnAndAllow"
<1>3. \/ conn' = [seen EXCEPT !.stage = "failed", !.error = "TlsEchFailed"]
      \/ conn' = [seen EXCEPT !.retries = @ + 1]
      \/ /\ decision \notin {"Block", "Retry"}
         /\ conn' = [seen EXCEPT !.stage = "chain", !.sni = sni, !.warned = warned]
  BY <1>2
<1> HIDE DEF decision, offered, retracted, sni, warned
<1>4. /\ DOMAIN seen = ConnFields /\ seen.stage = conn.stage /\ seen.mode = conn.mode
      /\ seen.via = conn.via /\ seen.address = conn.address /\ seen.told = conn.told
      /\ seen.optedIn = conn.optedIn /\ seen.offered = offered /\ seen.retracted = retracted
  BY DEF ConnFields
<1> HIDE DEF seen
<1>5. /\ DOMAIN conn' = ConnFields /\ conn'.mode = conn.mode /\ conn'.via = conn.via
      /\ conn'.address = conn.address /\ conn'.told = conn.told
      /\ conn'.optedIn = conn.optedIn /\ conn'.offered = offered
      /\ conn'.retracted = retracted
      /\ \/ conn'.stage \in {"failed", "handshake"}
         \/ /\ conn'.stage = "chain" /\ decision \notin {"Block", "Retry"}
            /\ conn'.sni = sni /\ conn'.warned = warned
  <2>1. CASE conn' = [seen EXCEPT !.stage = "failed", !.error = "TlsEchFailed"]
    BY <1>1, <1>4, <2>1 DEF ConnFields
  <2>2. CASE conn' = [seen EXCEPT !.retries = @ + 1]
    BY <1>1, <1>4, <2>2 DEF ConnFields
  <2>3. CASE /\ decision \notin {"Block", "Retry"}
             /\ conn' = [seen EXCEPT !.stage = "chain", !.sni = sni, !.warned = warned]
    BY <1>1, <1>4, <2>3 DEF ConnFields
  <2> QED BY <1>3, <2>1, <2>2, <2>3
<1> QED BY <1>1, <1>5 DEF decision, offered, retracted, sni, warned

\* The steps after the address is known do not touch how it was found.
LEMMA LaterKeepsInv == ConnInv /\ (AskSystem \/ Handshake \/ CheckTransparency) => ConnInv'
<1> SUFFICES ASSUME ConnInv, AskSystem \/ Handshake \/ CheckTransparency PROVE ConnInv'
  OBVIOUS
<1>1. /\ conn.stage # "none" /\ DOMAIN conn = ConnFields /\ broker' = broker
  BY DEF AskSystem, Handshake, CheckTransparency, ConnInv, ConnTypeOK, ConnUnchanged
<1>2. conn.via = "system" \/ conn.stage = "system" =>
        /\ conn.mode = "Standard"
        /\ (conn.optedIn /\ ~conn.told) \/ broker.provider = "system"
  BY <1>1 DEF ConnInv, StrictStaysOnDoh
<1>3. CASE AskSystem
  <2>1. PICK address : conn' = [conn EXCEPT !.stage = "handshake", !.via = "system",
                                            !.address = address]
    BY <1>3 DEF AskSystem, Resolved
  <2>2. conn.stage = "system"
    BY <1>3 DEF AskSystem
  <2> QED BY <1>1, <1>2, <2>1, <2>2, StepKeepsInv DEF ConnFields
<1>4. CASE Handshake
  <2>1. /\ DOMAIN conn' = ConnFields /\ conn'.stage \in {"failed", "chain", "handshake"}
        /\ conn'.via = conn.via /\ conn'.mode = conn.mode /\ conn'.told = conn.told
        /\ conn'.optedIn = conn.optedIn
    BY <1>1, <1>4, HandshakeEffect
  <2> QED BY <1>1, <1>2, <2>1, StepKeepsInv
<1>5. CASE CheckTransparency
  <2>1. \/ conn' = [conn EXCEPT !.stage = "failed", !.error = "TlsCtFailed"]
        \/ \E o : conn' = [conn EXCEPT !.stage = "up", !.ct = o]
    BY <1>5 DEF CheckTransparency, Fail
  <2>2. CASE conn' = [conn EXCEPT !.stage = "failed", !.error = "TlsCtFailed"]
    BY <1>1, <1>2, <2>2, StepKeepsInv DEF ConnFields
  <2>3. ASSUME NEW o, conn' = [conn EXCEPT !.stage = "up", !.ct = o] PROVE ConnInv'
    BY <1>1, <1>2, <2>3, StepKeepsInv DEF ConnFields
  <2> QED BY <2>1, <2>2, <2>3
<1> QED BY <1>3, <1>4, <1>5

\* Every step of the settings, of a connection and of WebRTC keeps the invariant.
LEMMA ConnStepKeepsInv == ConnInv /\ [Next]_vars => ConnInv'
<1> SUFFICES ASSUME ConnInv, [Next]_vars PROVE ConnInv'
  OBVIOUS
<1>1. CASE UNCHANGED <<broker, conn>>
  BY <1>1 DEF ConnInv, ConnTypeOK, AtDoh, StrictStaysOnDoh
<1>2. CASE SettingsStep
  <2>1. CASE broker' = NoBroker /\ conn' = NoConn
    BY <2>1 DEF ConnInv, ConnTypeOK, AtDoh, StrictStaysOnDoh, NoConn
  <2> QED BY <1>1, <1>2, <2>1 DEF SettingsStep
<1>3. CASE RtcStep \/ UNCHANGED vars
  BY <1>1, <1>3 DEF RtcStep, vars
<1>4. CASE ConnectionStep
  BY <1>4, BootstrapKeepsInv, PolicyKeepsInv, OpenKeepsInv, ChooseKeepsInv, AskDohKeepsInv,
     LaterKeepsInv DEF ConnectionStep
<1> QED BY <1>2, <1>3, <1>4 DEF Next

\* L21, whatever configurations are saved or edited by hand, whatever the resolvers answer and
\* however often the opt-in is toggled while a lookup is under way; and no name that the DoH
\* server has told about, or that the rebinding filter refused, is asked for again outside.
THEOREM StrictAlwaysStaysOnDoh == Spec => []StrictStaysOnDoh
<1>1. Init => ConnInv
  BY DEF Init, ConnInv, ConnTypeOK, AtDoh, StrictStaysOnDoh, NoConn
<1>2. ConnInv /\ [Next]_vars => ConnInv'
  BY ConnStepKeepsInv
<1>3. ConnInv => StrictStaysOnDoh
  BY DEF ConnInv
<1> QED BY <1>1, <1>2, <1>3, PTL DEF Spec

-----------------------------------------------------------------------------
(* The handshake, for every verdict of the verifiers.                      *)

\* What a Strict connection brings past the handshake and the transparency check.
HandshakeInv ==
  /\ conn.stage \in {"chain", "up"} /\ conn.mode = "Strict" =>
       conn.sni = "encrypted" \/ (conn.warned /\ (conn.offered => conn.retracted))
  /\ conn.stage = "up" /\ conn.mode = "Strict" => conn.ct # "Failed"

\* Before the handshake nothing of this changes.
LEMMA EarlierKeepsHandshake ==
  ConnInv /\ HandshakeInv /\ (ChooseResolver \/ AskDoh \/ AskSystem) => HandshakeInv'
<1> SUFFICES ASSUME ConnInv, HandshakeInv, ChooseResolver \/ AskDoh \/ AskSystem
             PROVE  HandshakeInv'
  OBVIOUS
<1>1. /\ conn.stage # "none" /\ DOMAIN conn = ConnFields /\ broker' = broker
      /\ conn.mode \in {"Standard", "Strict"}
  BY DEF AskSystem, AskDoh, ChooseResolver, ConnInv, ConnTypeOK, ConnUnchanged
<1>2. conn'.stage \notin {"chain", "up"}
  <2>1. CASE ChooseResolver
    BY <1>1, <2>1 DEF ChooseResolver, Fail, ConnFields
  <2>2. CASE AskDoh
    BY <1>1, <2>2, AskDohEffect
  <2>3. CASE AskSystem
    BY <1>1, <2>3 DEF AskSystem, Resolved, ConnFields
  <2> QED BY <2>1, <2>2, <2>3
<1> QED BY <1>2 DEF HandshakeInv

\* ech.rs: what the decision on an outcome lets through.
LEMMA HandshakeKeepsHandshake == ConnInv /\ HandshakeInv /\ Handshake => HandshakeInv'
<1> SUFFICES ASSUME ConnInv, HandshakeInv, Handshake PROVE HandshakeInv'
  OBVIOUS
<1>1. conn.stage = "handshake" /\ DOMAIN conn = ConnFields
  BY DEF Handshake, ConnInv, ConnTypeOK
<1> DEFINE Decision(outcome) ==
             EchDecide(EchPolicy(conn.mode, broker.validator.standardDisabled), outcome)
<1>2. PICK outcome \in EchVerify(broker.validator.ech) :
        /\ conn'.mode = conn.mode
        /\ conn'.offered = (conn.offered \/ outcome \in EchFailure \cup {"Encrypted"})
        /\ conn'.retracted = (conn.offered /\ ~(outcome \in EchFailure \cup {"Encrypted"}))
        /\ \/ conn'.stage \in {"failed", "handshake"}
           \/ /\ conn'.stage = "chain" /\ Decision(outcome) \notin {"Block", "Retry"}
              /\ conn'.sni = IF outcome = "Encrypted" THEN "encrypted" ELSE "plain"
              /\ conn'.warned = (Decision(outcome) = "WarnAndAllow")
  BY <1>1, HandshakeEffect
<1>3. outcome \in EchOutcome
  BY DEF EchVerify, EchOutcome
<1>4. conn.mode = "Strict" =>
        \/ Decision(outcome) \in {"Block", "Retry"}
        \/ Decision(outcome) = "Allow" /\ outcome = "Encrypted"
        \/ Decision(outcome) = "WarnAndAllow" /\ outcome \in {"NotOffered", "NotAttempted"}
  BY <1>3 DEF EchPolicy, EchDecide, EchOutcome, EchFailure
<1>5. outcome \in {"NotOffered", "NotAttempted"} => outcome \notin EchFailure \cup {"Encrypted"}
  BY DEF EchFailure
<1> HIDE DEF Decision
<1>6. ASSUME conn'.stage = "chain", conn'.mode = "Strict"
      PROVE  conn'.sni = "encrypted" \/ (conn'.warned /\ (conn'.offered => conn'.retracted))
  <2>1. CASE outcome = "Encrypted"
    BY <1>2, <1>6, <2>1
  <2>2. CASE Decision(outcome) = "WarnAndAllow" /\ outcome \in {"NotOffered", "NotAttempted"}
    BY <1>2, <1>5, <1>6, <2>2
  <2> QED BY <1>2, <1>4, <1>6, <2>1, <2>2
<1> QED BY <1>2, <1>6 DEF HandshakeInv

\* ct.rs: a certificate that fails does not come up under Strict.
LEMMA TransparencyKeepsHandshake ==
  ConnInv /\ HandshakeInv /\ CheckTransparency => HandshakeInv'
<1> SUFFICES ASSUME ConnInv, HandshakeInv, CheckTransparency PROVE HandshakeInv'
  OBVIOUS
<1>1. conn.stage = "chain" /\ DOMAIN conn = ConnFields /\ broker' = broker
  BY DEF CheckTransparency, ConnInv, ConnTypeOK, ConnUnchanged
<1>2. PICK outcome :
        \/ conn' = [conn EXCEPT !.stage = "failed", !.error = "TlsCtFailed"]
        \/ /\ CtDecide(CtPolicy(conn.mode), outcome) # "Block"
           /\ conn' = [conn EXCEPT !.stage = "up", !.ct = outcome]
  BY DEF CheckTransparency, Fail
<1>3. conn.mode = "Strict" /\ CtDecide(CtPolicy(conn.mode), outcome) # "Block" =>
        outcome # "Failed"
  BY DEF CtDecide, CtPolicy
<1>4. CASE conn' = [conn EXCEPT !.stage = "failed", !.error = "TlsCtFailed"]
  BY <1>1, <1>4 DEF HandshakeInv, ConnFields
<1>5. CASE /\ CtDecide(CtPolicy(conn.mode), outcome) # "Block"
           /\ conn' = [conn EXCEPT !.stage = "up", !.ct = outcome]
  <2>1. /\ conn'.stage = "up" /\ conn'.ct = outcome /\ conn'.mode = conn.mode
        /\ conn'.offered = conn.offered /\ conn'.sni = conn.sni /\ conn'.warned = conn.warned
        /\ conn'.retracted = conn.retracted
    BY <1>1, <1>5 DEF ConnFields
  <2> QED BY <1>1, <1>3, <1>5, <2>1 DEF HandshakeInv
<1> QED BY <1>2, <1>4, <1>5

\* Every step keeps what was learnt in the handshake.
LEMMA HandshakeStep == ConnInv /\ HandshakeInv /\ [Next]_vars => HandshakeInv'
<1> SUFFICES ASSUME ConnInv, HandshakeInv, [Next]_vars PROVE HandshakeInv'
  OBVIOUS
<1>1. CASE UNCHANGED <<broker, conn>>
  BY <1>1 DEF HandshakeInv
<1>2. CASE SettingsStep
  <2>1. CASE broker' = NoBroker /\ conn' = NoConn
    BY <2>1 DEF HandshakeInv, NoConn
  <2> QED BY <1>1, <1>2, <2>1 DEF SettingsStep
<1>3. CASE RtcStep \/ UNCHANGED vars
  BY <1>1, <1>3 DEF RtcStep, vars
<1>4. ASSUME NEW class, NEW anchors, Bootstrap(class, anchors) PROVE HandshakeInv'
  BY <1>4 DEF Bootstrap, ConnInv, ConnTypeOK, HandshakeInv
<1>5. CASE ChangePolicy
  <2>1. conn' = conn /\ DOMAIN broker = BrokerFields
    BY <1>5 DEF ChangePolicy, ConnInv, ConnTypeOK
  <2>2. conn = NoConn \/ broker'.validator = broker.validator
    BY <1>5, <2>1 DEF ChangePolicy, BrokerFields
  <2> QED BY <2>1, <2>2 DEF HandshakeInv, NoConn
<1>6. ASSUME NEW mode, Open(mode) PROVE HandshakeInv'
  BY <1>6 DEF Open, HandshakeInv
<1> QED BY <1>2, <1>3, <1>4, <1>5, <1>6, EarlierKeepsHandshake, HandshakeKeepsHandshake,
           TransparencyKeepsHandshake DEF Next, ConnectionStep

\* L34, for every verdict of the verifiers, every retry budget and every toggle between
\* connections: no Strict connection comes up with a plain SNI after an offer.
THEOREM StrictHandshakeAlwaysHolds == Spec => []StrictHandshakeHolds
<1>1. Init => ConnInv /\ HandshakeInv
  BY DEF Init, ConnInv, ConnTypeOK, AtDoh, StrictStaysOnDoh, HandshakeInv, NoConn
<1>2. ConnInv /\ HandshakeInv /\ [Next]_vars => (ConnInv /\ HandshakeInv)'
  BY ConnStepKeepsInv, HandshakeStep
<1>3. HandshakeInv => StrictHandshakeHolds
  BY DEF HandshakeInv, StrictHandshakeHolds
<1> QED BY <1>1, <1>2, <1>3, PTL DEF Spec
-----------------------------------------------------------------------------
(* The address filter: an address that is public is in none of the blocks. *)

\* The order of IPv4 addresses, octet by octet.
AtMost4(a, b) ==
  \/ a[1] < b[1]
  \/ a[1] = b[1] /\ \/ a[2] < b[2]
                    \/ a[2] = b[2] /\ \/ a[3] < b[3]
                                      \/ a[3] = b[3] /\ a[4] <= b[4]

\* The order of two addresses, spelled out.
LEMMA AtMostIsByOctet ==
  ASSUME NEW a \in [1..4 -> Nat], NEW b \in [1..4 -> Nat], AtMost(a, b)
  PROVE  AtMost4(a, b)
<1>1. CASE a = b
  BY <1>1 DEF AtMost4
<1>2. CASE a # b
  <2>1. PICK i \in 1..4 : a[i] < b[i] /\ \A j \in 1..(i - 1) : a[j] = b[j]
    BY <1>2 DEF AtMost
  <2>2. CASE i = 1
    BY <2>1, <2>2 DEF AtMost4
  <2>3. CASE i = 2
    <3>1. a[1] = b[1]
      BY <2>1, <2>3
    <3> QED BY <2>1, <2>3, <3>1 DEF AtMost4
  <2>4. CASE i = 3
    <3>1. a[1] = b[1] /\ a[2] = b[2]
      BY <2>1, <2>4
    <3> QED BY <2>1, <2>4, <3>1 DEF AtMost4
  <2>5. CASE i = 4
    <3>1. a[1] = b[1] /\ a[2] = b[2] /\ a[3] = b[3]
      BY <2>1, <2>5
    <3> QED BY <2>1, <2>5, <3>1 DEF AtMost4
  <2> QED BY <2>2, <2>3, <2>4, <2>5
<1> QED BY <1>1, <1>2

\* Segment by segment for IPv6, as far as the blocks look: the first two, and all of them
\* below an address that is zero up to its last segment.
LEMMA AtMostBySegment ==
  ASSUME NEW a \in [1..8 -> Nat], NEW b \in [1..8 -> Nat], AtMost(a, b)
  PROVE  /\ a[1] <= b[1]
         /\ a[1] = b[1] => a[2] <= b[2]
         /\ (\A k \in 1..7 : b[k] = 0) => (\A k \in 1..7 : a[k] = 0) /\ a[8] <= b[8]
<1>1. CASE a = b
  BY <1>1
<1>2. CASE a # b
  <2>1. PICK i \in 1..8 : a[i] < b[i] /\ \A j \in 1..(i - 1) : a[j] = b[j]
    BY <1>2 DEF AtMost
  <2>2. a[1] <= b[1]
    <3>1. CASE i = 1
      BY <2>1, <3>1
    <3>2. CASE i # 1
      <4>1. 1 \in 1..(i - 1)
        BY <3>2
      <4> QED BY <2>1, <4>1
    <3> QED BY <3>1, <3>2
  <2>3. a[1] = b[1] => a[2] <= b[2]
    <3>1. CASE i = 1
      BY <2>1, <3>1
    <3>2. CASE i = 2
      BY <2>1, <3>2
    <3>3. CASE i \notin {1, 2}
      <4>1. 2 \in 1..(i - 1)
        BY <3>3
      <4> QED BY <2>1, <4>1
    <3> QED BY <3>1, <3>2, <3>3
  <2>4. (\A k \in 1..7 : b[k] = 0) => (\A k \in 1..7 : a[k] = 0) /\ a[8] <= b[8]
    <3> SUFFICES ASSUME \A k \in 1..7 : b[k] = 0
                 PROVE  (\A k \in 1..7 : a[k] = 0) /\ a[8] <= b[8]
      OBVIOUS
    <3>1. i = 8
      BY <2>1
    <3>2. \A k \in 1..7 : a[k] = b[k]
      BY <2>1, <3>1
    <3> QED BY <2>1, <3>1, <3>2
  <2> QED BY <2>2, <2>3, <2>4
<1> QED BY <1>1, <1>2

\* What the two classifications call public, arm by arm.
LEMMA PublicV4 ==
  ASSUME NEW a \in [1..4 -> Octet], ClassifyV4(a) = "Public"
  PROVE  /\ a[1] \notin {0, 10, 127} \cup (224..239)
         /\ a[1] = 100 => a[2] \notin 64..127
         /\ a[1] = 169 => a[2] # 254
         /\ a[1] = 172 => a[2] \notin 16..31
         /\ a[1] = 192 => a[2] # 168 /\ ~(a[2] = 0 /\ a[3] = 2)
         /\ ~(a[1] = 198 /\ a[2] = 51 /\ a[3] = 100)
         /\ ~(a[1] = 203 /\ a[2] = 0 /\ a[3] = 113)
         /\ ~(a[1] = 255 /\ a[2] = 255 /\ a[3] = 255 /\ a[4] = 255)
<1>1. SubSeq(a, 1, 3) = <<a[1], a[2], a[3]>>
  <2>1. \A i \in 1..3 : a[i] \in Octet
    OBVIOUS
  <2> DEFINE head == SubSeq(a, 1, 3)
  <2>2. /\ head \in Seq(Octet) /\ Len(head) = 3
        /\ \A i \in 1..3 : head[i] = a[i]
    <3>1. /\ head \in Seq(Octet) /\ Len(head) = IF 1 <= 3 THEN 3 - 1 + 1 ELSE 0
          /\ \A i \in 1..(3 - 1 + 1) : head[i] = a[1 + i - 1]
      BY <2>1, SubSeqProperties
    <3>2. \A i \in 1..3 : 1 + i - 1 = i
      OBVIOUS
    <3> QED BY <3>1, <3>2
  <2> HIDE DEF head
  <2>3. head = <<head[1], head[2], head[3]>>
    BY <2>2
  <2> QED BY <2>2, <2>3 DEF head
<1>2. /\ ~(a[1] = 127) /\ ~(a[1] = 169 /\ a[2] = 254)
      /\ ~(a[1] = 10) /\ ~(a[1] = 172 /\ a[2] \in 16..31) /\ ~(a[1] = 192 /\ a[2] = 168)
      /\ ~(a[1] \in 224..239) /\ a # <<255, 255, 255, 255>>
      /\ SubSeq(a, 1, 3) \notin {<<192, 0, 2>>, <<198, 51, 100>>, <<203, 0, 113>>}
      /\ ~(a[1] = 100 /\ a[2] \in 64..127)
      /\ ~(a[1] = 0 /\ a # <<0, 0, 0, 0>>) /\ a # <<0, 0, 0, 0>>
  BY DEF ClassifyV4
<1>3. a[1] # 0
  BY <1>2
<1>4. ~(a[1] = 255 /\ a[2] = 255 /\ a[3] = 255 /\ a[4] = 255)
  <2>1. a = <<a[1], a[2], a[3], a[4]>>
    OBVIOUS
  <2> QED BY <1>2, <2>1
<1>5. /\ ~(a[1] = 192 /\ a[2] = 0 /\ a[3] = 2)
      /\ ~(a[1] = 198 /\ a[2] = 51 /\ a[3] = 100)
      /\ ~(a[1] = 203 /\ a[2] = 0 /\ a[3] = 113)
  BY <1>1, <1>2
<1> QED BY <1>2, <1>3, <1>4, <1>5

\* The segments of an IPv6 address are numbers.
LEMMA SegmentsAreNumbers == \A a \in [1..8 -> Segment] : a \in [1..8 -> Nat]
<1>1. \A high : 0..high \subseteq Nat
  OBVIOUS
<1>2. Segment \subseteq Nat
  BY <1>1 DEF Segment
<1> QED BY <1>2

\* What rebinding.rs calls public of the IPv6 addresses.
LEMMA PublicV6 ==
  ASSUME NEW a \in [1..8 -> Segment], ClassifyV6(a) = "Public"
  PROVE  /\ ~((\A i \in 1..7 : a[i] = 0) /\ (a[8] = 0 \/ a[8] = 1))
         /\ ~(64512 <= a[1] /\ a[1] <= 65023)
         /\ ~(65152 <= a[1] /\ a[1] <= 65215)
         /\ ~(65280 <= a[1] /\ a[1] <= 65535)
         /\ ~(a[1] = 8193 /\ a[2] = 3512)
<1> DEFINE Zero == \A i \in 1..7 : a[i] = 0
<1>1. /\ ~(Zero /\ a[8] = 0) /\ ~(Zero /\ a[8] = 1)
      /\ a[1] \div 256 # 255 /\ a[1] \div 64 # 1018 /\ a[1] \div 512 # 126
      /\ ~(a[1] = 8193 /\ a[2] = 3512)
  <2> HIDE DEF Zero
  <2> QED BY DEF ClassifyV6, Zero
<1>2. \A s \in Nat : s \div 256 # 255 => ~(65280 <= s /\ s <= 65535)
  OBVIOUS
<1>3. \A s \in Nat : s \div 64 # 1018 => ~(65152 <= s /\ s <= 65215)
  OBVIOUS
<1>4. \A s \in Nat : s \div 512 # 126 => ~(64512 <= s /\ s <= 65023)
  OBVIOUS
<1>5. a[1] \in Nat
  BY SegmentsAreNumbers
<1> QED BY <1>1, <1>2, <1>3, <1>4, <1>5

\* No block of IPv4 holds an address that is called public.
LEMMA PublicIsOutsideV4 ==
  ASSUME NEW a \in [1..4 -> Octet], ClassifyV4(a) = "Public",
         NEW block \in V4Blocks, AtMost(block[1], a), AtMost(a, block[2])
  PROVE  FALSE
<1> DEFINE low == block[1]  high == block[2]
<1>1. a \in [1..4 -> Nat]
  BY DEF Octet
<1>2. low \in [1..4 -> Nat] /\ high \in [1..4 -> Nat]
  BY DEF V4Blocks
<1>3. AtMost4(low, a) /\ AtMost4(a, high)
  BY <1>1, <1>2, AtMostIsByOctet
<1>4. PICK a1 \in Nat, a2 \in Nat, a3 \in Nat, a4 \in Nat :
        a1 = a[1] /\ a2 = a[2] /\ a3 = a[3] /\ a4 = a[4]
  BY <1>1
<1>5. /\ a1 \notin {0, 10, 127} \cup (224..239)
      /\ a1 = 100 => a2 \notin 64..127
      /\ a1 = 169 => a2 # 254
      /\ a1 = 172 => a2 \notin 16..31
      /\ a1 = 192 => a2 # 168 /\ ~(a2 = 0 /\ a3 = 2)
      /\ ~(a1 = 198 /\ a2 = 51 /\ a3 = 100)
      /\ ~(a1 = 203 /\ a2 = 0 /\ a3 = 113)
      /\ ~(a1 = 255 /\ a2 = 255 /\ a3 = 255 /\ a4 = 255)
  BY <1>4, PublicV4
<1> QED BY <1>3, <1>4, <1>5 DEF AtMost4, V4Blocks

\* No block of IPv6 holds an address that is called public.
LEMMA PublicIsOutsideV6 ==
  ASSUME NEW a \in [1..8 -> Segment], ClassifyV6(a) = "Public",
         NEW block \in V6Blocks, AtMost(block[1], a), AtMost(a, block[2])
  PROVE  FALSE
<1> DEFINE low == block[1]  high == block[2]
<1>1. a \in [1..8 -> Nat]
  BY SegmentsAreNumbers
<1>2. low \in [1..8 -> Nat] /\ high \in [1..8 -> Nat]
  BY DEF V6Blocks
<1>3. /\ low[1] <= a[1] /\ (low[1] = a[1] => low[2] <= a[2])
      /\ a[1] <= high[1] /\ (a[1] = high[1] => a[2] <= high[2])
      /\ (\A k \in 1..7 : high[k] = 0) => (\A k \in 1..7 : a[k] = 0) /\ a[8] <= high[8]
  BY <1>1, <1>2, AtMostBySegment
<1>4. /\ ~((\A i \in 1..7 : a[i] = 0) /\ (a[8] = 0 \/ a[8] = 1))
      /\ ~(64512 <= a[1] /\ a[1] <= 65023)
      /\ ~(65152 <= a[1] /\ a[1] <= 65215)
      /\ ~(65280 <= a[1] /\ a[1] <= 65535)
      /\ ~(a[1] = 8193 /\ a[2] = 3512)
  BY PublicV6
<1>5. a[1] \in Nat /\ a[2] \in Nat /\ a[8] \in Nat
  BY <1>1
<1> QED BY <1>3, <1>4, <1>5 DEF V6Blocks

\* The length of a tuple.
LEMMA LengthOfTuple ==
  ASSUME NEW n \in Nat, NEW S, NEW a \in [1..n -> S]
  PROVE  Len(a) = n
<1>1. a \in Seq(S)
  OBVIOUS
<1> QED BY <1>1, LenProperties

\* The classification calls no address public that lies in a block that is not.
THEOREM PublicIsOutsideBlocks ==
  ASSUME NEW a \in Address, IsPublic(a)
  PROVE  \A block \in NonPublicBlocks : ~InBlock(a, block)
<1> SUFFICES ASSUME NEW block \in NonPublicBlocks, InBlock(a, block) PROVE FALSE
  OBVIOUS
<1>1. Len(a) = Len(block[1]) /\ AtMost(block[1], a) /\ AtMost(a, block[2])
  BY DEF InBlock
<1>2. /\ block \in V4Blocks => Len(block[1]) = 4
      /\ block \in V6Blocks => Len(block[1]) = 8
  BY DEF V4Blocks, V6Blocks
<1>3. CASE a \in [1..4 -> Octet]
  <2>1. Len(a) = 4
    BY <1>3, LengthOfTuple
  <2> QED BY <1>1, <1>2, <1>3, <2>1, PublicIsOutsideV4
         DEF NonPublicBlocks, IsPublic, Classify, IsV4
<1>4. CASE a \in [1..8 -> Segment]
  <2>1. Len(a) = 8
    BY <1>4, LengthOfTuple
  <2> QED BY <1>1, <1>2, <1>4, <2>1, PublicIsOutsideV6
         DEF NonPublicBlocks, IsPublic, Classify, IsV4
<1> QED BY <1>3, <1>4 DEF Address

-----------------------------------------------------------------------------
(* What a page is shown of the candidates.                                 *)

\* A candidate with a public address that is not the machine's, or a name of the partition.
MayBeShown(p, s) ==
  \/ \E n \in DOMAIN mdns[p] : s = Mdns(n)
  \/ s \in Candidate /\ s.type # "Host" /\ IsPublic(s.address)

\* Every name stands in one map and was shown to the pages of its partition.
RtcInv ==
  /\ DOMAIN mdns = RtcPartition /\ DOMAIN shown = RtcPartition
  /\ \A p \in RtcPartition : \A s \in shown[p] : MayBeShown(p, s)
  /\ \A p \in RtcPartition : \A n \in DOMAIN mdns[p] : Mdns(n) \in shown[p]
  /\ \A p, q \in RtcPartition : p # q => DOMAIN mdns[p] \cap DOMAIN mdns[q] = {}
  /\ resolved # NoResolution =>
       /\ resolved.asker \in RtcPartition
       /\ resolved.name \in DOMAIN mdns[resolved.asker]
       /\ mdns[resolved.asker][resolved.name] = resolved.address

\* No page was shown anything at the start.
LEMMA RtcInitInv == RtcInit => RtcInv
<1> SUFFICES ASSUME RtcInit PROVE RtcInv
  OBVIOUS
<1>1. \A p \in RtcPartition : DOMAIN mdns[p] = {} /\ shown[p] = {}
  BY DEF RtcInit, EmptyMap
<1> QED BY <1>1 DEF RtcInit, RtcInv

\* A candidate that is shown as it is.
LEMMA ShowKeepsInv ==
  ASSUME RtcInv, NEW p \in RtcPartition, NEW c \in Candidate, c.type # "Host",
         IsPublic(c.address), shown' = [shown EXCEPT ![p] = @ \cup {c}],
         UNCHANGED <<mdns, resolved>>
  PROVE  RtcInv'
<1>1. /\ DOMAIN shown' = RtcPartition
      /\ \A q \in RtcPartition : shown[q] \subseteq shown'[q]
      /\ \A q \in RtcPartition : \A s \in shown'[q] : s \in shown[q] \/ s = c
  BY DEF RtcInv
<1>2. \A q \in RtcPartition : \A s : MayBeShown(q, s) => MayBeShown(q, s)'
  BY DEF MayBeShown
<1>3. \A q \in RtcPartition : MayBeShown(q, c)'
  BY DEF MayBeShown
<1>4. \A q \in RtcPartition : \A s \in shown'[q] : MayBeShown(q, s)'
  BY <1>1, <1>2, <1>3 DEF RtcInv
<1>5. \A q \in RtcPartition : \A n \in DOMAIN mdns'[q] : Mdns(n) \in shown'[q]
  BY <1>1 DEF RtcInv
<1> QED BY <1>1, <1>4, <1>5 DEF RtcInv

\* A candidate that gets a name.
LEMMA NameKeepsInv ==
  ASSUME RtcInv, NEW p \in RtcPartition, NEW address, NEW n \in FreshName,
         mdns' = [mdns EXCEPT ![p] = Put(@, n, address)],
         shown' = [shown EXCEPT ![p] = @ \cup {Mdns(n)}], UNCHANGED resolved
  PROVE  RtcInv'
<1>1. /\ DOMAIN shown' = RtcPartition /\ DOMAIN mdns' = RtcPartition
      /\ shown'[p] = shown[p] \cup {Mdns(n)}
      /\ \A q \in RtcPartition \ {p} : shown'[q] = shown[q] /\ mdns'[q] = mdns[q]
  BY DEF RtcInv
<1>2. /\ DOMAIN mdns'[p] = DOMAIN mdns[p] \cup {n}
      /\ \A m \in DOMAIN mdns[p] : m # n => mdns'[p][m] = mdns[p][m]
  BY DEF RtcInv, Put
<1>3. \A q \in RtcPartition : n \notin DOMAIN mdns[q]
  BY DEF FreshName
<1>4. \A q \in RtcPartition : \A s : MayBeShown(q, s) => MayBeShown(q, s)'
  BY <1>1, <1>2 DEF MayBeShown
<1>5. MayBeShown(p, Mdns(n))'
  BY <1>2 DEF MayBeShown
<1>6. \A q \in RtcPartition : \A s \in shown'[q] : MayBeShown(q, s)'
  BY <1>1, <1>4, <1>5 DEF RtcInv
<1>7. \A q \in RtcPartition : \A m \in DOMAIN mdns'[q] : Mdns(m) \in shown'[q]
  BY <1>1, <1>2 DEF RtcInv
<1>8. \A q, r \in RtcPartition : q # r => DOMAIN mdns'[q] \cap DOMAIN mdns'[r] = {}
  BY <1>1, <1>2, <1>3 DEF RtcInv
<1>9. resolved' # NoResolution =>
        /\ resolved'.asker \in RtcPartition
        /\ resolved'.name \in DOMAIN mdns'[resolved'.asker]
        /\ mdns'[resolved'.asker][resolved'.name] = resolved'.address
  BY <1>1, <1>2, <1>3 DEF RtcInv
<1> QED BY <1>1, <1>6, <1>7, <1>8, <1>9 DEF RtcInv

\* Every grant, candidate and resolution keeps the invariant.
LEMMA RtcStepKeepsInv == RtcInv /\ [Next]_vars => RtcInv'
<1> SUFFICES ASSUME RtcInv, [Next]_vars PROVE RtcInv'
  OBVIOUS
<1>1. CASE UNCHANGED <<mdns, shown, resolved>>
  BY <1>1 DEF RtcInv, MayBeShown
<1>2. CASE SettingsStep \/ ConnectionStep \/ UNCHANGED vars
  BY <1>1, <1>2 DEF SettingsStep, ConnectionStep, Bootstrap, ChangePolicy, Open, ChooseResolver,
     AskDoh, AskSystem, Handshake, CheckTransparency, ConnUnchanged, vars, rtcVars
<1>3. CASE ChangeGrant
  BY <1>1, <1>3 DEF ChangeGrant
<1>4. ASSUME NEW mode, NEW p \in RtcPartition, Gather(mode, p) PROVE RtcInv'
  <2>1. PICK c \in Candidate : Filter(p, c)
    BY <1>4 DEF Gather
  <2>2. UNCHANGED resolved
    BY <1>4 DEF Gather
  <2>3. CASE c.type = "Host"
    BY <2>1, <2>2, <2>3, NameKeepsInv DEF Filter
  <2>4. CASE c.type # "Host"
    BY <1>1, <2>1, <2>2, <2>4, ShowKeepsInv DEF Filter
  <2> QED BY <2>3, <2>4
<1>5. ASSUME NEW p \in RtcPartition, NEW asker \in RtcPartition, ResolveName(p, asker)
      PROVE  RtcInv'
  <2>1. UNCHANGED <<mdns, shown>>
    BY <1>5 DEF ResolveName
  <2>2. PICK n \in MdnsName :
          \/ /\ asker = p /\ n \in DOMAIN mdns[p]
             /\ resolved' = [name |-> n, asker |-> asker, address |-> mdns[p][n]]
          \/ resolved' = NoResolution
    BY <1>5 DEF ResolveName
  <2>3. resolved' # NoResolution =>
          /\ resolved'.asker \in RtcPartition
          /\ resolved'.name \in DOMAIN mdns[resolved'.asker]
          /\ mdns[resolved'.asker][resolved'.name] = resolved'.address
    BY <2>2
  <2> QED BY <2>1, <2>3 DEF RtcInv, MayBeShown
<1> QED BY <1>2, <1>3, <1>4, <1>5 DEF Next, RtcStep

\* What the invariant says of the pages.
LEMMA RtcInvHides == RtcInv => CandidatesHideTheLan
<1> SUFFICES ASSUME RtcInv PROVE CandidatesHideTheLan
  OBVIOUS
<1>1. \A n : Mdns(n).type = "Mdns" /\ Mdns(n).name = n
  BY DEF Mdns
<1>2. \A c \in Candidate : c.type \in CandidateType /\ c.address \in Address
  BY CandidateAssumption
<1>3. "Mdns" \notin CandidateType
  BY DEF CandidateType
<1>4. ASSUME NEW p \in RtcPartition, NEW s \in shown[p]
      PROVE  \/ s.type = "Mdns" /\ \A q \in RtcPartition \ {p} : s \notin shown[q]
             \/ /\ s.type \in CandidateType \ {"Host"}
                /\ \A block \in NonPublicBlocks : ~InBlock(s.address, block)
  <2>1. CASE s \in Candidate /\ s.type # "Host" /\ IsPublic(s.address)
    BY <1>2, <2>1, PublicIsOutsideBlocks
  <2>2. CASE \E n \in DOMAIN mdns[p] : s = Mdns(n)
    <3>1. PICK n \in DOMAIN mdns[p] : s = Mdns(n)
      BY <2>2
    <3>2. ASSUME NEW q \in RtcPartition \ {p}, s \in shown[q] PROVE FALSE
      <4>1. MayBeShown(q, s)
        BY <3>2 DEF RtcInv
      <4>2. s \notin Candidate
        BY <1>1, <1>2, <1>3, <3>1
      <4>3. PICK m \in DOMAIN mdns[q] : s = Mdns(m)
        BY <4>1, <4>2 DEF MayBeShown
      <4>4. m = n
        BY <1>1, <3>1, <4>3
      <4> QED BY <3>1, <4>3, <4>4 DEF RtcInv
    <3> QED BY <1>1, <3>1, <3>2
  <2> QED BY <2>1, <2>2 DEF RtcInv, MayBeShown
<1>5. resolved # NoResolution =>
        /\ [type |-> "Mdns", name |-> resolved.name] \in shown[resolved.asker]
        /\ mdns[resolved.asker][resolved.name] = resolved.address
  BY DEF RtcInv, Mdns
<1> QED BY <1>4, <1>5 DEF CandidatesHideTheLan

\* L35, for every set of candidates, partitions and names, and whatever grants change between
\* two of them: no page learns a local address or a name of another partition.
THEOREM CandidatesAlwaysHideTheLan == Spec => []CandidatesHideTheLan
<1>1. Init => RtcInv
  BY RtcInitInv DEF Init
<1>2. RtcInv /\ [Next]_vars => RtcInv'
  BY RtcStepKeepsInv
<1>3. RtcInv => CandidatesHideTheLan
  BY RtcInvHides
<1> QED BY <1>1, <1>2, <1>3, PTL DEF Spec

-----------------------------------------------------------------------------
(* What an answer of the DoH client gives.                                 *)

\* Every record that comes out of the client is of the type asked for and public.
LEMMA RecordsArePublic ==
  ASSUME NEW labels \in Query, NEW qtype \in QueryType, NEW response \in Response,
         DohResult(labels, qtype, response).kind = "Records",
         NEW r \in DohResult(labels, qtype, response).records
  PROVE  r.address \in Address /\ IsPublic(r.address)
<1> DEFINE result == DohResult(labels, qtype, response)
<1>1. LET direct == DohResolve(labels, qtype, response)
      IN  result = IF direct.kind = "Error" THEN [direct EXCEPT !.error = Cloned(@)]
                   ELSE direct
  BY DEF DohResult
<1> DEFINE direct == DohResolve(labels, qtype, response)
           decoded == Decoded(response)
<1>2. ASSUME NEW e PROVE Failure(e).kind = "Error" /\ "kind" \in DOMAIN Failure(e)
  BY DEF Failure
<1>3. \/ \E e : direct = Failure(e)
      \/ direct = Answer(qtype, decoded)
  BY DEF DohResolve
<1>4. \/ \E e : Answer(qtype, decoded) = Failure(e)
      \/ /\ \A q \in decoded.records : IsPublic(q.address)
         /\ Answer(qtype, decoded) = Selected(qtype, decoded)
  BY DEF Answer
<1>5. \/ \E e : Selected(qtype, decoded) = Failure(e)
      \/ /\ Selected(qtype, decoded).kind = "Records"
         /\ Selected(qtype, decoded).records = {q \in decoded.records : q.type = qtype}
  BY DEF Selected
<1> HIDE DEF result, direct, decoded
<1>6. direct.kind # "Error"
  <2>1. CASE \E e : direct = Failure(e)
    <3>1. direct.kind = "Error" /\ "kind" \in DOMAIN direct
      BY <1>2, <2>1
    <3>2. [direct EXCEPT !.error = Cloned(@)].kind = "Error"
      BY <3>1
    <3>3. result.kind = "Records"
      BY DEF result
    <3> QED BY <1>1, <3>1, <3>2, <3>3 DEF direct
  <2>2. CASE direct.kind = "Records"
    BY <2>2
  <2> QED BY <1>2, <1>3, <1>4, <1>5, <2>1, <2>2
<1>7. result = direct
  BY <1>1, <1>6 DEF direct
<1>8. r \in decoded.records /\ IsPublic(r.address)
  <2>1. r \in result.records
    BY DEF result
  <2> QED BY <1>2, <1>3, <1>4, <1>5, <1>6, <1>7, <2>1
<1>9. PICK i \in DOMAIN response.answers : r = response.answers[i] /\ r.type \in QueryType
  BY <1>8 DEF decoded, Decoded, ToSet
<1> QED BY <1>8, <1>9, ResponseAssumption

\* An address that came over DoH is public; before the choice of the resolver there is none.
AddressInv ==
  conn.stage # "none" =>
    /\ conn.stage = "lookup" => conn.address = <<>>
    /\ conn.via = "doh" /\ conn.address # <<>> =>
         conn.address \in Address /\ IsPublic(conn.address)

\* Every step of a connection keeps its address public.
LEMMA AddressStep == ConnInv /\ AddressInv /\ [Next]_vars => AddressInv'
<1> SUFFICES ASSUME ConnInv, AddressInv, [Next]_vars PROVE AddressInv'
  OBVIOUS
<1>1. CASE UNCHANGED conn
  BY <1>1 DEF AddressInv
<1>2. CASE SettingsStep
  <2>1. CASE conn' = NoConn
    BY <2>1 DEF AddressInv, NoConn
  <2> QED BY <1>1, <1>2, <2>1 DEF SettingsStep
<1>3. CASE RtcStep \/ UNCHANGED vars
  BY <1>1, <1>3 DEF RtcStep, vars
<1>4. ASSUME NEW class, NEW anchors, Bootstrap(class, anchors) PROVE AddressInv'
  BY <1>1, <1>4 DEF Bootstrap
<1>5. CASE ChangePolicy
  BY <1>1, <1>5 DEF ChangePolicy, ConnInv, ConnTypeOK, BrokerFields
<1>6. ASSUME NEW mode, Open(mode) PROVE AddressInv'
  BY <1>6 DEF Open, AddressInv
<1>7. CASE ChooseResolver
  <2>1. /\ conn.stage = "lookup" /\ DOMAIN conn = ConnFields /\ conn.address = <<>>
        /\ conn.mode \in {"Standard", "Strict"}
    BY <1>7 DEF ChooseResolver, ConnInv, ConnTypeOK, AddressInv
  <2> DEFINE endpoint == Lookup(broker.provider, conn.mode)
  <2>2. \/ conn' = [conn EXCEPT !.stage = "doh", !.via = "doh"]
        \/ conn' = [conn EXCEPT !.stage = "system"]
        \/ conn' = [conn EXCEPT !.stage = "failed", !.error = endpoint]
    BY <1>7 DEF ChooseResolver, Fail
  <2> HIDE DEF endpoint
  <2>3. conn'.address = <<>>
    BY <2>1, <2>2 DEF ConnFields
  <2> QED BY <2>3 DEF AddressInv
<1>8. CASE AskDoh
  <2>1. conn.stage = "doh" /\ DOMAIN conn = ConnFields
    BY <1>8 DEF AskDoh, ConnInv, ConnTypeOK
  <2>2. /\ conn'.stage \in {"handshake", "system", "failed"} /\ conn'.via = conn.via
        /\ \/ conn'.address = conn.address
           \/ \E labels \in Query, qtype \in QueryType, response \in Response :
                LET result == DohResult(labels, qtype, response)
                IN  /\ result.kind = "Records"
                    /\ \E r \in result.records : conn'.address = r.address
    BY <1>8, <2>1, AskDohEffect
  <2>3. \/ conn'.address = conn.address
        \/ conn'.address \in Address /\ IsPublic(conn'.address)
    BY <2>2, RecordsArePublic
  <2> QED BY <2>1, <2>2, <2>3 DEF AddressInv
<1>9. CASE AskSystem
  <2>1. conn.stage = "system" /\ DOMAIN conn = ConnFields
    BY <1>9 DEF AskSystem, ConnInv, ConnTypeOK
  <2>2. conn'.stage = "handshake" /\ conn'.via = "system"
    BY <1>9, <2>1 DEF AskSystem, Resolved, ConnFields
  <2> QED BY <2>2 DEF AddressInv
<1>10. CASE Handshake \/ CheckTransparency
  <2>1. conn.stage \in {"handshake", "chain"} /\ DOMAIN conn = ConnFields
    BY <1>10 DEF Handshake, CheckTransparency, ConnInv, ConnTypeOK
  <2>2. conn'.via = conn.via /\ conn'.address = conn.address /\ conn'.stage # "lookup"
    <3>1. CASE Handshake
      BY <2>1, <3>1, HandshakeEffect
    <3>2. CASE CheckTransparency
      <4>1. \/ conn' = [conn EXCEPT !.stage = "failed", !.error = "TlsCtFailed"]
            \/ \E o : conn' = [conn EXCEPT !.stage = "up", !.ct = o]
        BY <3>2 DEF CheckTransparency, Fail
      <4> QED BY <2>1, <4>1 DEF ConnFields
    <3> QED BY <1>10, <3>1, <3>2
  <2> QED BY <2>1, <2>2 DEF AddressInv
<1> QED BY <1>2, <1>3, <1>4, <1>5, <1>6, <1>7, <1>8, <1>9, <1>10 DEF Next, ConnectionStep

\* The rebinding filter, for every message a DoH server may send: whatever records an answer
\* mixes, no connection goes to an address of a block that is not public.
THEOREM DohAddressIsAlwaysPublic == Spec => []DohAddressIsPublic
<1>1. Init => ConnInv /\ AddressInv
  BY DEF Init, ConnInv, ConnTypeOK, AtDoh, StrictStaysOnDoh, AddressInv, NoConn
<1>2. ConnInv /\ AddressInv /\ [Next]_vars => (ConnInv /\ AddressInv)'
  BY ConnStepKeepsInv, AddressStep
<1>3. AddressInv => DohAddressIsPublic
  BY PublicIsOutsideBlocks DEF AddressInv, DohAddressIsPublic
<1> QED BY <1>1, <1>2, <1>3, PTL DEF Spec

-----------------------------------------------------------------------------
(* The settings files: what is written is what is read.                    *)

\* A field that may be None can be left out of a file, and is None if it is.
NoneIsDefault(fields) ==
  \A f \in DOMAIN fields :
    None \in fields[f].values => fields[f].optional /\ fields[f].default = None

\* serde's skipped fields come back as what they were: in every section of the schema.
LEMMA NoneIsDefaultEverywhere == \A s \in DOMAIN Section : NoneIsDefault(Section[s])
<1> USE DEF Field, Optional, Toggle, OnByDefault, NoneIsDefault
<1>1. NoneIsDefault(PrivacyConfig)
  BY NoneAssumption DEF PrivacyConfig
<1>2. NoneIsDefault(NetworkConfig)
  BY NoneAssumption DEF NetworkConfig
<1>3. NoneIsDefault(StorageConfig)
  <2>1. /\ DOMAIN StorageConfig = {"data_dir", "strict_wipe_on_close"}
        /\ StorageConfig["data_dir"].optional /\ StorageConfig["data_dir"].default = None
        /\ StorageConfig["strict_wipe_on_close"].values = BOOLEAN
    BY DEF StorageConfig
  <2> QED BY <2>1, NoneAssumption
<1>4. NoneIsDefault(SearchConfig)
  BY NoneAssumption DEF SearchConfig
<1>5. NoneIsDefault(UiConfig)
  BY NoneAssumption DEF UiConfig
<1>6. NoneIsDefault(HistoryConfig)
  BY NoneAssumption DEF HistoryConfig
<1>7. NoneIsDefault(LoggingConfig)
  BY NoneAssumption DEF LoggingConfig
<1>8. NoneIsDefault(WizardConfig)
  BY NoneAssumption DEF WizardConfig
<1>9. NoneIsDefault(SyncConfig)
  BY NoneAssumption DEF SyncConfig
<1>10. NoneIsDefault(TelemetryConfig)
  BY NoneAssumption DEF TelemetryConfig
<1>11. NoneIsDefault(ProtectionConfig)
  BY NoneAssumption DEF ProtectionConfig
<1>12. NoneIsDefault(EchConfig)
  BY NoneAssumption DEF EchConfig
<1>13. NoneIsDefault(WebRtcConfig)
  BY NoneAssumption DEF WebRtcConfig
<1>14. NoneIsDefault(BounceTrackerConfig)
  BY NoneAssumption DEF BounceTrackerConfig
<1>15. NoneIsDefault(CookieBannerConfig)
  BY NoneAssumption DEF CookieBannerConfig
<1>16. NoneIsDefault(GpuConfig)
  BY NoneAssumption DEF GpuConfig
<1> QED
  <2> HIDE DEF Field, Optional, Toggle, OnByDefault, NoneIsDefault
  <2> QED BY <1>1, <1>2, <1>3, <1>4, <1>5, <1>6, <1>7, <1>8, <1>9, <1>10, <1>11, <1>12, <1>13,
     <1>14, <1>15, <1>16 DEF Section

\* "version" is no name of a section.
LEMMA VersionIsNoSection == "version" \notin DOMAIN Section
  BY DEF Section

\* loader.rs: save and load are inverse to each other on the valid configurations.
THEOREM WhatIsSavedLoads ==
  ASSUME NEW c \in ConfigValue, Validate(c),
         NEW file, file.mode = OwnerOnly, file.content = AsConfigFile(c)
  PROVE  LoadConfig(file) = c
<1> DEFINE sections == [s \in DOMAIN Section |->
                          [f \in {g \in DOMAIN Section[s] : c[s][g] # None} |-> c[s][f]]]
<1>1. file.content.version = c.version /\ file.content.sections = sections
  BY DEF AsConfigFile
<1>2. IsConfig(c)
  BY ConfigAssumption
<1>3. /\ DOMAIN sections = DOMAIN Section
      /\ \A s \in DOMAIN Section :
           /\ DOMAIN sections[s] = {f \in DOMAIN Section[s] : c[s][f] # None}
           /\ \A f \in DOMAIN sections[s] : sections[s][f] = c[s][f]
  OBVIOUS
<1> HIDE DEF sections
<1>4. \A s \in DOMAIN Section : \A f \in DOMAIN Section[s] :
        /\ c[s][f] \in Section[s][f].values
        /\ c[s][f] = None => Section[s][f].optional /\ Section[s][f].default = None
  BY <1>2, NoneIsDefaultEverywhere DEF IsConfig, NoneIsDefault
<1>5. Parses(file.content)
  BY <1>1, <1>3, <1>4 DEF Parses, ParsesSection
<1>6. Completed(c.version, sections) = c
  <2> DEFINE read == Completed(c.version, sections)
  <2>1. /\ DOMAIN read = DOMAIN c
        /\ read = [s \in DOMAIN read |-> read[s]]
    BY <1>2 DEF Completed, IsConfig
  <2>2. read["version"] = c["version"]
    BY DEF Completed
  <2>3. ASSUME NEW s \in DOMAIN Section PROVE read[s] = c[s]
    <3>1. read[s] = [f \in DOMAIN Section[s] |->
                       IF s \in DOMAIN sections /\ f \in DOMAIN sections[s] THEN sections[s][f]
                       ELSE Section[s][f].default]
      BY VersionIsNoSection DEF Completed
    <3>2. \A f \in DOMAIN Section[s] : read[s][f] = c[s][f]
      BY <1>3, <1>4, <3>1
    <3>3. DOMAIN c[s] = DOMAIN Section[s] /\ c[s] = [f \in DOMAIN c[s] |-> c[s][f]]
      BY <1>2 DEF IsConfig
    <3> QED BY <3>1, <3>2, <3>3
  <2> HIDE DEF read
  <2>4. \A s \in DOMAIN c : read[s] = c[s]
    BY <1>2, <2>2, <2>3 DEF IsConfig
  <2>5. c = [s \in DOMAIN c |-> c[s]]
    BY <1>2 DEF IsConfig
  <2>6. read = c
    BY <2>1, <2>4, <2>5
  <2> QED BY <2>6 DEF read
<1>7. Readable(file)
  <2>1. file # Missing
    BY DEF Missing, OwnerOnly
  <2>2. "sections" \in DOMAIN AsConfigFile(c) /\ "sections" \notin DOMAIN Torn
    BY DEF AsConfigFile, Torn
  <2> QED BY <2>1, <2>2 DEF Readable
<1> QED BY <1>1, <1>5, <1>6, <1>7 DEF LoadConfig

\* The profiles that a registry in memory may hold.
GoodProfiles(ps) ==
  /\ IsFiniteSet(ps) /\ ps \subseteq ProfileType
  /\ \A p \in ps : p.name \notin {"", "too long"}
  /\ \A p, q \in ps : p.id = q.id => p = q

\* The sorted file of a registry lists its profiles, each once.
LEMMA SortedListsOnce ==
  ASSUME NEW ps, GoodProfiles(ps)
  PROVE  /\ ById(ps) \in Seq(ps)
         /\ \A i, j \in DOMAIN ById(ps) : ById(ps)[i].id = ById(ps)[j].id => i = j
<1> DEFINE UpTo(p) == {q \in ps : q.id <= p.id}
           rank == [p \in ps |-> Cardinality(UpTo(p))]
           n == Cardinality(ps)
<1>1. n \in Nat /\ IsFiniteSet(1..n) /\ Cardinality(1..n) = n
  <2>1. n \in Nat
    BY FS_CardinalityType DEF GoodProfiles
  <2>2. IsFiniteSet(1..n) /\ Cardinality(1..n) = IF 1 > n THEN 0 ELSE n - 1 + 1
    BY <2>1, FS_Interval
  <2> HIDE DEF n
  <2> QED BY <2>1, <2>2
<1>2. \A p \in ps : p.id \in Nat
  BY DEF GoodProfiles, ProfileType
<1>3. ASSUME NEW p \in ps PROVE rank[p] \in 1..n
  <2>1. UpTo(p) \subseteq ps /\ p \in UpTo(p)
    BY <1>2
  <2>2. /\ IsFiniteSet(UpTo(p)) /\ Cardinality(UpTo(p)) \in Nat
        /\ Cardinality(UpTo(p)) <= n
    BY <2>1, FS_Subset, FS_CardinalityType DEF GoodProfiles
  <2>3. Cardinality(UpTo(p)) # 0
    BY <2>1, <2>2, FS_EmptySet
  <2> HIDE DEF UpTo, n
  <2> QED BY <1>1, <2>2, <2>3
<1>4. ASSUME NEW p \in ps, NEW q \in ps, p.id < q.id PROVE rank[p] < rank[q]
  <2>1. UpTo(p) \subseteq UpTo(q) /\ q \in UpTo(q) /\ q \notin UpTo(p)
    BY <1>2, <1>4
  <2>2. UpTo(q) \subseteq ps /\ IsFiniteSet(UpTo(q))
    BY FS_Subset DEF GoodProfiles
  <2>3. UpTo(p) # UpTo(q)
    BY <2>1
  <2>4. /\ IsFiniteSet(UpTo(p)) /\ Cardinality(UpTo(p)) <= Cardinality(UpTo(q))
        /\ Cardinality(UpTo(p)) = Cardinality(UpTo(q)) => UpTo(p) = UpTo(q)
    BY <2>1, <2>2, FS_Subset
  <2>5. Cardinality(UpTo(p)) \in Nat /\ Cardinality(UpTo(q)) \in Nat
    BY <2>2, <2>4, FS_CardinalityType
  <2> HIDE DEF UpTo
  <2> QED BY <2>3, <2>4, <2>5
<1>5. rank \in [ps -> 1..n] /\ \A p, q \in ps : rank[p] = rank[q] => p = q
  <2>1. \A p \in ps : rank[p] \in Nat
    BY <1>1, <1>3
  <2> HIDE DEF rank
  <2>2. ASSUME NEW p \in ps, NEW q \in ps, rank[p] = rank[q] PROVE p = q
    <3>1. ~(p.id < q.id) /\ ~(q.id < p.id)
      BY <1>4, <2>1, <2>2
    <3>2. p.id = q.id
      BY <1>2, <3>1
    <3> QED BY <3>2 DEF GoodProfiles
  <2>3. rank \in [ps -> 1..n]
    BY <1>3 DEF rank
  <2> QED BY <2>2, <2>3
<1>6. \A i \in 1..n : \E p \in ps : rank[p] = i
  <2> HIDE DEF rank
  <2>1. rank \in Injection(ps, 1..n)
    BY <1>5 DEF Injection, IsInjective
  <2>2. rank \in Surjection(ps, 1..n)
    BY <1>1, <2>1, FS_Injection
  <2> QED BY <2>2 DEF Surjection
<1>7. DOMAIN ById(ps) = 1..n
  BY DEF ById
<1>8. ASSUME NEW i \in 1..n PROVE ById(ps)[i] \in ps /\ rank[ById(ps)[i]] = i
  <2>1. PICK p \in ps : Cardinality(UpTo(p)) = i
    BY <1>6
  <2>2. ById(ps)[i] = CHOOSE q \in ps : Cardinality(UpTo(q)) = i
    BY DEF ById
  <2>3. ById(ps)[i] \in ps /\ Cardinality(UpTo(ById(ps)[i])) = i
    BY <2>1, <2>2
  <2> QED BY <2>3
<1> HIDE DEF rank, UpTo
<1>9. ById(ps) \in Seq(ps)
  <2> DEFINE at(i) == CHOOSE p \in ps : Cardinality({q \in ps : q.id <= p.id}) = i
  <2>1. ById(ps) = [i \in 1..n |-> at(i)]
    BY DEF ById
  <2> HIDE DEF n, at
  <2>2. ById(ps) \in [1..n -> ps]
    BY <1>8, <2>1
  <2> QED BY <1>1, <2>2
<1>10. ASSUME NEW i \in 1..n, NEW j \in 1..n, ById(ps)[i].id = ById(ps)[j].id PROVE i = j
  <2>1. ById(ps)[i] = ById(ps)[j]
    BY <1>8, <1>10 DEF GoodProfiles
  <2> QED BY <1>8, <2>1
<1> QED BY <1>7, <1>9, <1>10

\* registry.rs: what save writes of a registry passes the checks of load.
LEMMA WhatIsRegisteredLoads ==
  ASSUME NEW ps, GoodProfiles(ps),
         NEW file, file.mode = OwnerOnly, file.content = AsFile(ps)
  PROVE  LoadRegistry(file) = ToSet(file.content.profiles)
<1>1. /\ file.content.version = RegistrySchemaVersion
      /\ file.content.profiles = ById(ps)
  BY DEF AsFile
<1>2. /\ \A i \in DOMAIN ById(ps) : ById(ps)[i] \in ps
      /\ \A i, j \in DOMAIN ById(ps) : ById(ps)[i].id = ById(ps)[j].id => i = j
  BY SortedListsOnce
<1>3. ValidRegistry(file.content)
  BY <1>1, <1>2 DEF ValidRegistry, ToSet, GoodProfiles
<1>4. Readable(file) /\ file # Missing
  <2>1. file # Missing
    BY DEF Missing, OwnerOnly
  <2>2. "profiles" \in DOMAIN AsFile(ps) /\ "profiles" \notin DOMAIN Torn
    BY DEF AsFile, Torn
  <2> QED BY <2>1, <2>2 DEF Readable
<1> QED BY <1>3, <1>4 DEF LoadRegistry

\* What may be at the path of the registry.
RegistryFileOK(file) ==
  file # Missing /\ file.content # Torn => file.content.profiles \in Seq(ProfileType)

\* What load lets through, also of a file that was edited by hand.
LEMMA LoadedProfilesAreGood ==
  ASSUME NEW file, RegistryFileOK(file), LoadRegistry(file) # None
  PROVE  GoodProfiles(LoadRegistry(file))
<1>1. CASE file = Missing
  <2>1. LoadRegistry(file) = {}
    BY <1>1 DEF LoadRegistry
  <2>2. IsFiniteSet({})
    BY FS_EmptySet
  <2> QED BY <2>1, <2>2 DEF GoodProfiles
<1>2. CASE file # Missing
  <2> DEFINE list == file.content.profiles
  <2>1. /\ Readable(file) /\ ValidRegistry(file.content)
        /\ LoadRegistry(file) = ToSet(list)
    BY <1>2 DEF LoadRegistry
  <2>2. list \in Seq(ProfileType)
    BY <1>2, <2>1 DEF RegistryFileOK, Readable
  <2>3. /\ \A p \in ToSet(list) : p.name \notin {"", "too long"}
        /\ \A i, j \in DOMAIN list : list[i].id = list[j].id => i = j
    BY <2>1 DEF ValidRegistry
  <2> HIDE DEF list
  <2>4. Len(list) \in Nat /\ DOMAIN list = 1..Len(list) /\ list \in [1..Len(list) -> ProfileType]
    BY <2>2, LenProperties
  <2>5. ToSet(list) \subseteq ProfileType
    BY <2>4 DEF ToSet
  <2>6. IsFiniteSet(ToSet(list))
    <3>1. list \in Surjection(1..Len(list), ToSet(list))
      BY <2>4 DEF Surjection, ToSet
    <3>2. IsFiniteSet(1..Len(list))
      BY <2>4, FS_Interval
    <3> QED BY <3>1, <3>2, FS_Surjection
  <2>7. \A p, q \in ToSet(list) : p.id = q.id => p = q
    BY <2>3 DEF ToSet
  <2> DEFINE ps == ToSet(list)
  <2> HIDE DEF ps
  <2>8. GoodProfiles(ps)
    BY <2>3, <2>5, <2>6, <2>7, Zenon DEF GoodProfiles, ps
  <2> QED BY <2>1, <2>8, Zenon DEF ps, list
<1> QED BY <1>1, <1>2

\* What a save of a file may write.
Savable(f, content) ==
  IF f = "config" THEN \E c \in ConfigValue : Validate(c) /\ content = AsConfigFile(c)
  ELSE \E ps : GoodProfiles(ps) /\ content = AsFile(ps)

\* How far a save has come with the file beside; and that the file at the path is the one of
\* the last save that ended.
FileOK(f, atPath, beside, save, last) ==
  /\ save # None =>
       /\ DOMAIN save = {"stage", "content"}
       /\ save.stage \in {"write", "fill", "lock", "rename"}
       /\ Savable(f, save.content)
       /\ save.stage # "write" => DOMAIN beside = {"content", "mode"}
       /\ save.stage \in {"lock", "rename"} => beside.content = save.content
       /\ save.stage = "rename" => beside.mode = OwnerOnly
  /\ last # None => Savable(f, last) /\ atPath.content = last /\ atPath.mode = OwnerOnly

SettingsInv ==
  /\ DOMAIN disk = File /\ DOMAIN tmp = File /\ DOMAIN saving = File /\ DOMAIN saved = File
  /\ \A f \in File : FileOK(f, disk[f], tmp[f], saving[f], saved[f])
  /\ profiles # None => GoodProfiles(profiles)
  /\ RegistryFileOK(disk["registry"])

\* At the start there are no files and nothing is being saved.
LEMMA SettingsInitInv == SettingsInit => SettingsInv
<1> SUFFICES ASSUME SettingsInit PROVE SettingsInv
  OBVIOUS
<1>1. \A f \in File : /\ disk[f] = Missing /\ saving[f] = None /\ saved[f] = None
  BY DEF SettingsInit
<1> QED BY <1>1 DEF SettingsInit, SettingsInv, FileOK, RegistryFileOK, File

\* A step that touches what belongs to one file.
LEMMA OneFileStep ==
  ASSUME SettingsInv, NEW f \in File,
         DOMAIN disk' = File, DOMAIN tmp' = File, DOMAIN saving' = File, DOMAIN saved' = File,
         \A g \in File \ {f} : /\ disk'[g] = disk[g] /\ tmp'[g] = tmp[g]
                               /\ saving'[g] = saving[g] /\ saved'[g] = saved[g],
         FileOK(f, disk'[f], tmp'[f], saving'[f], saved'[f]),
         f = "registry" => RegistryFileOK(disk'["registry"]),
         profiles' # None => GoodProfiles(profiles')
  PROVE  SettingsInv'
<1>1. \A g \in File : FileOK(g, disk'[g], tmp'[g], saving'[g], saved'[g])
  BY DEF SettingsInv
<1>2. RegistryFileOK(disk'["registry"])
  BY DEF SettingsInv, File
<1> QED BY <1>1, <1>2 DEF SettingsInv

\* A save begins with what may be written.
LEMMA BeginKeepsInv ==
  ASSUME SettingsInv, NEW f \in File, NEW content, Savable(f, content), Begin(f, content)
  PROVE  SettingsInv'
<1>1. /\ saving' = [saving EXCEPT ![f] = [stage |-> "write", content |-> content]]
      /\ UNCHANGED <<disk, tmp, profiles, saved>>
  BY DEF Begin
<1>2. FileOK(f, disk[f], tmp[f], saving[f], saved[f])
  BY DEF SettingsInv
<1>3. saving'[f] = [stage |-> "write", content |-> content]
  BY <1>1 DEF SettingsInv
<1>4. FileOK(f, disk'[f], tmp'[f], saving'[f], saved'[f])
  BY <1>1, <1>2, <1>3 DEF FileOK
<1> QED BY <1>1, <1>4, OneFileStep DEF SettingsInv

\* save: writing the file beside and locking it, step by step.
LEMMA SaveStepKeepsInv ==
  ASSUME SettingsInv, NEW f \in File, OpenTmp(f) \/ FillTmp(f) \/ LockTmp(f)
  PROVE  SettingsInv'
<1> DEFINE save == saving[f]
<1>1. /\ UNCHANGED <<disk, saved, profiles>> /\ save # None
      /\ FileOK(f, disk[f], tmp[f], save, saved[f])
  BY DEF OpenTmp, FillTmp, LockTmp, SaveUnchanged, At, SettingsInv
<1>2. PICK stage, file :
        /\ saving' = [saving EXCEPT ![f].stage = stage] /\ tmp' = [tmp EXCEPT ![f] = file]
        /\ \/ save.stage = "write" /\ stage = "fill" /\ file = Truncated(tmp[f])
           \/ /\ save.stage = "fill" /\ stage = "lock"
              /\ file = [tmp[f] EXCEPT !.content = save.content]
           \/ /\ save.stage = "lock" /\ stage = "rename"
              /\ file = [tmp[f] EXCEPT !.mode = OwnerOnly]
  <2>1. DOMAIN tmp = File
    BY DEF SettingsInv
  <2> QED BY <2>1 DEF OpenTmp, FillTmp, LockTmp, At, Goto
<1>3. saving'[f] = [save EXCEPT !.stage = stage] /\ tmp'[f] = file
  BY <1>2 DEF SettingsInv
<1>4. /\ DOMAIN save = {"stage", "content"} /\ Savable(f, save.content)
      /\ save.stage # "write" => DOMAIN tmp[f] = {"content", "mode"}
      /\ save.stage \in {"lock", "rename"} => tmp[f].content = save.content
  BY <1>1 DEF FileOK
<1>5. /\ DOMAIN file = {"content", "mode"}
      /\ stage \in {"fill", "lock", "rename"}
      /\ stage \in {"lock", "rename"} => file.content = save.content
      /\ stage = "rename" => file.mode = OwnerOnly
  BY <1>2, <1>4 DEF Truncated
<1> HIDE DEF save
<1>6. /\ DOMAIN saving'[f] = {"stage", "content"} /\ saving'[f].stage = stage
      /\ saving'[f].content = save.content
  BY <1>3, <1>4
<1>7. FileOK(f, disk'[f], tmp'[f], saving'[f], saved'[f])
  BY <1>1, <1>3, <1>4, <1>5, <1>6 DEF FileOK
<1> QED BY <1>1, <1>2, <1>7, OneFileStep DEF SettingsInv

\* save: the rename puts what was written and locked at the path.
LEMMA RenameKeepsInv ==
  ASSUME SettingsInv, NEW f \in File, Rename(f)
  PROVE  SettingsInv'
<1>1. /\ saving[f] # None /\ saving[f].stage = "rename" /\ UNCHANGED profiles
      /\ disk'[f] = tmp[f] /\ saved'[f] = saving[f].content /\ saving'[f] = None
      /\ FileOK(f, disk[f], tmp[f], saving[f], saved[f])
  BY DEF Rename, At, SaveUnchanged, SettingsInv
<1>2. /\ Savable(f, saving[f].content) /\ tmp[f].content = saving[f].content
      /\ tmp[f].mode = OwnerOnly
  BY <1>1 DEF FileOK
<1>3. FileOK(f, disk'[f], tmp'[f], saving'[f], saved'[f])
  BY <1>1, <1>2 DEF FileOK
<1>4. ASSUME f = "registry" PROVE RegistryFileOK(disk'["registry"])
  <2>1. PICK ps : GoodProfiles(ps) /\ tmp[f].content = AsFile(ps)
    BY <1>2, <1>4 DEF Savable
  <2>2. ById(ps) \in Seq(ps) /\ ps \subseteq ProfileType
    BY <2>1, SortedListsOnce DEF GoodProfiles
  <2>3. ById(ps) \in Seq(ProfileType)
    <3>1. Len(ById(ps)) \in Nat /\ ById(ps) \in [1..Len(ById(ps)) -> ps]
      BY <2>2, LenProperties
    <3>2. ById(ps) \in [1..Len(ById(ps)) -> ProfileType]
      BY <2>2, <3>1
    <3> QED BY <3>1, <3>2
  <2>4. AsFile(ps).profiles = ById(ps)
    BY DEF AsFile
  <2> QED BY <1>1, <1>4, <2>1, <2>3, <2>4 DEF RegistryFileOK
<1> QED BY <1>1, <1>3, <1>4, OneFileStep DEF Rename, SettingsInv

\* A hand edit ends what is known of the last save.
LEMMA HandEditKeepsInv ==
  ASSUME SettingsInv, NEW f \in File, HandEdit(f)
  PROVE  SettingsInv'
<1>1. /\ saved' = [saved EXCEPT ![f] = None] /\ UNCHANGED <<tmp, saving, profiles>>
      /\ saving[f] = None
  BY DEF HandEdit
<1>2. PICK file :
        /\ disk' = [disk EXCEPT ![f] = file]
        /\ \/ file = Missing
           \/ \E content \in Edits(f) \cup {Torn}, mode \in {OwnerOnly, UmaskMode} :
                file = [content |-> content, mode |-> mode]
  BY DEF HandEdit
<1>3. FileOK(f, disk'[f], tmp'[f], saving'[f], saved'[f])
  BY <1>1 DEF FileOK, SettingsInv
<1>4. ASSUME f = "registry" PROVE RegistryFileOK(disk'["registry"])
  <2>1. disk'["registry"] = file
    BY <1>2, <1>4 DEF SettingsInv
  <2>2. Edits(f) = RegistryEdit
    BY <1>4 DEF Edits
  <2>3. file # Missing /\ file.content # Torn => file.content \in RegistryEdit
    BY <1>2, <2>2
  <2> QED BY <2>1, <2>3, ProfileAssumption DEF RegistryFileOK
<1> QED BY <1>1, <1>2, <1>3, <1>4, OneFileStep DEF SettingsInv

\* ProfileRegistry::insert and remove.
LEMMA RegistryKeepsInv == SettingsInv /\ ChangeRegistry => SettingsInv'
<1> SUFFICES ASSUME SettingsInv, ChangeRegistry PROVE SettingsInv'
  OBVIOUS
<1>1. UNCHANGED <<disk, tmp, saving, saved>> /\ GoodProfiles(profiles)
  BY DEF ChangeRegistry, Running, SettingsInv
<1>2. ASSUME NEW p \in Profile, p.name \notin {"", "too long"},
             \A q \in profiles : q.id # p.id, profiles' = profiles \cup {p}
      PROVE  GoodProfiles(profiles')
  <2>1. IsFiniteSet(profiles \cup {p})
    BY <1>1, FS_AddElement DEF GoodProfiles
  <2>2. p \in ProfileType
    BY ProfileAssumption
  <2> QED BY <1>1, <1>2, <2>1, <2>2 DEF GoodProfiles
<1>3. ASSUME NEW p \in profiles, profiles' = profiles \ {p}
      PROVE  GoodProfiles(profiles')
  <2>1. IsFiniteSet(profiles \ {p})
    BY <1>1, FS_RemoveElement DEF GoodProfiles
  <2> QED BY <1>1, <1>3, <2>1 DEF GoodProfiles
<1>4. GoodProfiles(profiles')
  BY <1>2, <1>3 DEF ChangeRegistry
<1> QED BY <1>1, <1>4 DEF SettingsInv

\* Every step of the two files, of the process and of the user keeps the invariant.
LEMMA SettingsStepKeepsInv == SettingsInv /\ SettingsNext => SettingsInv'
<1> SUFFICES ASSUME SettingsInv, SettingsNext PROVE SettingsInv'
  OBVIOUS
<1>1. CASE Start
  <2>1. /\ UNCHANGED <<disk, tmp, saving, saved>>
        /\ profiles' = LoadRegistry(disk["registry"]) /\ profiles' # None
    BY <1>1 DEF Start
  <2>2. GoodProfiles(profiles')
    BY <2>1, LoadedProfilesAreGood DEF SettingsInv
  <2> QED BY <2>1, <2>2 DEF SettingsInv
<1>2. CASE Exit
  <2>1. /\ UNCHANGED <<disk, tmp, saved>> /\ profiles' = None
        /\ saving' = [f \in File |-> None]
    BY <1>2 DEF Exit
  <2>2. \A f \in File : FileOK(f, disk'[f], tmp'[f], saving'[f], saved'[f])
    BY <2>1 DEF SettingsInv, FileOK
  <2> QED BY <2>1, <2>2 DEF SettingsInv
<1>3. CASE SaveRegistry
  <2>1. GoodProfiles(profiles)
    BY <1>3 DEF SaveRegistry, Begin, Running, SettingsInv
  <2>2. Savable("registry", AsFile(profiles))
    BY <2>1 DEF Savable
  <2> QED BY <1>3, <2>2, BeginKeepsInv DEF SaveRegistry, File
<1>4. ASSUME NEW c \in ConfigValue, SaveConfig(c) PROVE SettingsInv'
  <2>1. Savable("config", AsConfigFile(c))
    BY <1>4 DEF Savable, SaveConfig
  <2> QED BY <1>4, <2>1, BeginKeepsInv DEF SaveConfig, File
<1>5. ASSUME NEW f \in File, SaveFails(f) PROVE SettingsInv'
  <2>1. /\ saving' = [saving EXCEPT ![f] = None] /\ UNCHANGED <<disk, tmp, saved, profiles>>
    BY <1>5 DEF SaveFails, SaveUnchanged
  <2>2. FileOK(f, disk'[f], tmp'[f], saving'[f], saved'[f])
    BY <2>1 DEF SettingsInv, FileOK
  <2> QED BY <2>1, <2>2, OneFileStep DEF SettingsInv
<1> QED BY <1>1, <1>2, <1>3, <1>4, <1>5, RegistryKeepsInv, SaveStepKeepsInv, RenameKeepsInv,
           HandEditKeepsInv DEF SettingsNext

\* What the invariant says of the next start.
LEMMA SettingsInvLoads == SettingsInv => SavedFileLoads
<1> SUFFICES ASSUME SettingsInv PROVE SavedFileLoads
  OBVIOUS
<1>1. "config" \in File /\ "registry" \in File
  BY DEF File
<1>2. ASSUME saved["config"] # None
      PROVE  LET c == LoadConfig(disk["config"])
             IN  c # None /\ AsConfigFile(c) = saved["config"]
  <2>1. /\ Savable("config", saved["config"]) /\ disk["config"].content = saved["config"]
        /\ disk["config"].mode = OwnerOnly
    BY <1>1, <1>2 DEF SettingsInv, FileOK
  <2>2. PICK c \in ConfigValue : Validate(c) /\ saved["config"] = AsConfigFile(c)
    BY <2>1 DEF Savable
  <2>3. LoadConfig(disk["config"]) = c
    BY <2>1, <2>2, WhatIsSavedLoads
  <2> QED BY <2>2, <2>3, NoneAssumption
<1>3. ASSUME saved["registry"] # None
      PROVE  LoadRegistry(disk["registry"]) = ToSet(saved["registry"].profiles)
  <2>1. /\ Savable("registry", saved["registry"])
        /\ disk["registry"].content = saved["registry"]
        /\ disk["registry"].mode = OwnerOnly
    BY <1>1, <1>3 DEF SettingsInv, FileOK
  <2>2. PICK ps : GoodProfiles(ps) /\ saved["registry"] = AsFile(ps)
    BY <2>1 DEF Savable
  <2> QED BY <2>1, <2>2, WhatIsRegisteredLoads
<1> QED BY <1>2, <1>3 DEF SavedFileLoads

\* A crash between any two steps of a save, a save that fails at any step, a hand edit and any
\* order of them: what the last completed save wrote is what the next start reads.
THEOREM SavedFileAlwaysLoads == Spec => []SavedFileLoads
<1>1. Init => SettingsInv
  BY SettingsInitInv DEF Init
<1>2. SettingsInv /\ [Next]_vars => SettingsInv'
  <2> SUFFICES ASSUME SettingsInv, [Next]_vars PROVE SettingsInv'
    OBVIOUS
  <2>1. CASE UNCHANGED settingsVars
    BY <2>1 DEF settingsVars, SettingsInv
  <2>2. CASE RtcStep \/ ConnectionStep \/ UNCHANGED vars
    BY <2>1, <2>2 DEF RtcStep, ConnectionStep, Bootstrap, ChangePolicy, Open, ChooseResolver,
       AskDoh, AskSystem, Handshake, CheckTransparency, ConnUnchanged, vars
  <2>3. CASE SettingsStep
    BY <2>3, SettingsStepKeepsInv DEF SettingsStep
  <2> QED BY <2>2, <2>3 DEF Next
<1>3. SettingsInv => SavedFileLoads
  BY SettingsInvLoads
<1> QED BY <1>1, <1>2, <1>3, PTL DEF Spec

=============================================================================
