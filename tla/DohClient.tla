----------------------------- MODULE DohClient -----------------------------
(***************************************************************************)
(* The DNS-over-HTTPS client (dns/doh_client.rs) over the DNS wire format  *)
(* (dns/wire.rs) and the rebinding filter.                                 *)
(*                                                                         *)
(* A query is its name, as the sequence of its labels, and its type.  A    *)
(* response is what the transport came back with: a DNS message, or the    *)
(* way it failed.  Names and record data are abstracted to what decides    *)
(* between the errors: a label is [length, clean], an answer record is     *)
(* `intact` if its name, header and rdata can be read.                     *)
(***************************************************************************)
EXTENDS Rebinding, FiniteSetsExt, SequencesExt

CONSTANTS
  MaxLabelLen,      \* MAX_LABEL_LEN, 63
  MaxNameLen,       \* MAX_NAME_LEN, 255
  MaxRecordTtl      \* MAX_POSITIVE_TTL, 24 hours

QueryType == {"A", "Aaaa"}

\* encode_name: no empty label, none too long, letters, digits, '-' and '_' only, and
\* the name within its limit at every label.
Encodable(labels) ==
  /\ labels # <<>>
  /\ \A i \in DOMAIN labels :
       /\ labels[i].length \in 1..MaxLabelLen
       /\ labels[i].clean
       /\ FoldLeft(LAMBDA sum, label : sum + 1 + label.length, 0, SubSeq(labels, 1, i))
            <= MaxNameLen

\* post_dns_message: the ways the exchange fails before there is a message.  The 5 s
\* budget is on the request only; a body that never ends gives no response at all.
TransportError(response) ==
  CASE response.transport = "timed out" -> "ResolveTimeout"
    [] response.transport \in {"bad uri", "refused", "status", "body"} ->
         "ResolveTransport"
    [] OTHER -> "none"

\* decode_response, up to the error it gives ("none" if it gives an answer).  The
\* message is read in this order: sizes, question count, rcode, answer section.
DecodeError(m) ==
  CASE m.size = "large" -> "MessageTooLarge"
    [] m.size = "short" -> "Truncated"
    [] m.questions # 1 -> "UnexpectedQuestionCount"
    [] m.rcode = 1 -> "FormatError"
    [] m.rcode = 2 -> "ServerFailure"
    [] m.rcode = 3 -> "NxDomain"
    [] m.rcode > 3 -> "UnknownRcode"
    [] m.rcode = 0 /\ \E i \in DOMAIN m.answers : ~m.answers[i].intact ->
         "RdataLengthMismatch"
    [] OTHER -> "none"

\* Records of other types are skipped over; the TTL is the least of those kept.  No one
\* looks at the order of the records, which is left out.
Decoded(m) ==
  LET records == {r \in ToSet(m.answers) : r.type \in QueryType}
  IN  [records |-> records,
       minTtl |-> IF records = {} THEN 0 ELSE Min({r.ttl : r \in records})]

MapWireError(e) ==
  CASE e = "NxDomain" -> "ResolveNxDomain"
    [] e \in {"ServerFailure", "FormatError"} -> "ResolveTransport"
    [] OTHER -> "ResolveProtocol"

Failure(e) == [kind |-> "Error", error |-> e]

\* With every record public, those of the type asked for, if any.
Selected(qtype, decoded) ==
  LET wanted == {r \in decoded.records : r.type = qtype}
  IN  IF wanted = {} THEN Failure("ResolveNxDomain")
      ELSE [kind |-> "Records", records |-> wanted,
            ttl |-> Min({Max({decoded.minTtl, 1}), MaxRecordTtl})]

\* One address that is not public spoils the whole answer, whatever was asked for.
AnswerCheckingFirst(qtype, decoded) ==
  IF decoded.records # {} /\ ~IsPublic((CHOOSE r \in decoded.records : TRUE).address)
  THEN Failure("ResolveRebinding") ELSE Selected(qtype, decoded)

Answer(qtype, decoded) ==
  IF \E r \in decoded.records : ~IsPublic(r.address)
  THEN Failure("ResolveRebinding") ELSE Selected(qtype, decoded)

\* DohClient::resolve.
DohResolve(labels, qtype, response) ==
  IF ~Encodable(labels) THEN Failure("ResolveProtocol")
  ELSE IF TransportError(response) # "none" THEN Failure(TransportError(response))
  ELSE IF DecodeError(response) # "none" THEN Failure(MapWireError(DecodeError(response)))
  ELSE Answer(qtype, Decoded(response))
=============================================================================
