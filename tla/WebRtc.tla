------------------------------- MODULE WebRtc -------------------------------
(***************************************************************************)
(* The WebRTC constraint (webrtc.rs): whether a page may gather candidates *)
(* at all, what of a gathered ICE candidate it gets to see, and the mDNS   *)
(* names that stand for local addresses, one map per partition.            *)
(***************************************************************************)
EXTENDS Rebinding, HashMap

CONSTANTS
  RtcPartition,   \* partitions of the tabs
  Candidate,      \* gathered candidates: [type, address]
  MdnsName        \* bound: the random names that are ever drawn

CandidateType == {"Host", "ServerReflexive", "Relayed", "PeerReflexive"}
ASSUME CandidateAssumption == Candidate \subseteq [type : CandidateType, address : Address]

VARIABLES
  granted,   \* origins with a grant; an origin is identified with its partition
  mdns,      \* partition -> name -> address
  shown,     \* partition -> what pages of it were shown
  resolved   \* the last answer of MdnsHostnameMap::resolve: [asker, name, address]

rtcVars == <<granted, mdns, shown, resolved>>

NoResolution == [name |-> "none"]

RtcInit ==
  /\ granted = {}
  /\ mdns = [p \in RtcPartition |-> EmptyMap]
  /\ shown = [p \in RtcPartition |-> {}]
  /\ resolved = NoResolution

RtcDenyReason == {"StrictModeDisabled", "NoPermissionGrant"}

\* WebRtcConstraint::evaluate.
Evaluate(mode, p) ==
  IF mode = "Strict" THEN "StrictModeDisabled"
  ELSE IF p \in granted THEN "Allow" ELSE "NoPermissionGrant"

\* The permission center grants or revokes.
ChangeGrant ==
  /\ \E p \in RtcPartition : granted' = (granted \cup {p}) \/ granted' = granted \ {p}
  /\ UNCHANGED <<mdns, shown, resolved>>

\* Uuid::new_v4: a name that was never drawn.
FreshName == {n \in MdnsName : \A p \in RtcPartition : n \notin DOMAIN mdns[p]}

\* What becomes of a host candidate on its way out: the address stays in the map.
Mdns(n) == [type |-> "Mdns", name |-> n]

\* IceCandidateFilter::filter: a host candidate gets a new name whatever its address;
\* any other passes if its address is public, and is dropped if not.
FilterByAddress(p, c) ==
  IF IsPublic(c.address)
  THEN shown' = [shown EXCEPT ![p] = @ \cup {c}] /\ UNCHANGED mdns
  ELSE \E n \in FreshName :
         /\ mdns' = [mdns EXCEPT ![p] = Put(@, n, c.address)]
         /\ shown' = [shown EXCEPT ![p] = @ \cup {Mdns(n)}]

Filter(p, c) ==
  \/ /\ c.type = "Host"
     /\ \E n \in FreshName :
          /\ mdns' = [mdns EXCEPT ![p] = Put(@, n, c.address)]
          /\ shown' = [shown EXCEPT ![p] = @ \cup {Mdns(n)}]
  \/ /\ c.type # "Host"
     /\ IF IsPublic(c.address) THEN shown' = [shown EXCEPT ![p] = @ \cup {c}]
        ELSE UNCHANGED shown
     /\ UNCHANGED mdns

Gather(mode, p) ==
  /\ Evaluate(mode, p) \notin RtcDenyReason
  /\ \E c \in Candidate : Filter(p, c)
  /\ UNCHANGED <<granted, resolved>>

\* MdnsHostnameMap::resolve on the map of partition p.
ResolveName(p, asker) ==
  /\ \E n \in MdnsName :
       resolved' = IF asker = p /\ n \in DOMAIN mdns[p]
                   THEN [name |-> n, asker |-> asker, address |-> mdns[p][n]]
                   ELSE NoResolution
  /\ UNCHANGED <<granted, mdns, shown>>

-----------------------------------------------------------------------------
\* L35: a page never learns a local address, and cannot link what it is shown to what
\* another partition is shown: it sees public addresses that are not the machine's own,
\* and mDNS names, each drawn for one candidate of one partition and resolved for that
\* partition only.
CandidatesHideTheLan ==
  /\ \A p \in RtcPartition : \A s \in shown[p] :
       \/ s.type = "Mdns" /\ \A q \in RtcPartition \ {p} : s \notin shown[q]
       \/ /\ s.type \in CandidateType \ {"Host"}
          /\ \A block \in NonPublicBlocks : ~InBlock(s.address, block)
  /\ resolved # NoResolution =>
       /\ [type |-> "Mdns", name |-> resolved.name] \in shown[resolved.asker]
       /\ mdns[resolved.asker][resolved.name] = resolved.address
=============================================================================
