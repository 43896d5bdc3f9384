---------------------------- MODULE SingleFlight ----------------------------
(***************************************************************************)
(* Single-flight resolution of pb-network (dns/single_flight.rs): the      *)
(* first caller for a key leads and runs the inner resolver, callers that  *)
(* come while it runs follow and wait on a oneshot channel.  A caller is   *)
(* one future of resolve(); dropping that future cancels the caller.       *)
(***************************************************************************)
EXTENDS HashMap

CONSTANTS
  Caller,   \* concurrent calls
  Key,      \* (partition_key, qname, qtype)
  Outcome   \* what the inner resolver may return

VARIABLES
  inflight,   \* key -> the callers whose Sender is in the slot
  phase,      \* where each caller is
  key,        \* the key it called with
  handed,     \* leader: the waiters it took out of the slot
  answer      \* the outcome a caller has: from the resolver or its channel

flightVars == <<inflight, phase, key, handed, answer>>

Phase == {"idle", "leading", "sending", "following", "returned"}
NoKey == <<>>
NoAnswer == [from |-> NoKey]
\* An answer remembers which caller's flight produced it, and for which key.
Answer == [from : Key, value : Outcome] \cup {NoAnswer}

FlightInit ==
  /\ inflight = EmptyMap
  /\ phase = [c \in Caller |-> "idle"]
  /\ key = [c \in Caller |-> NoKey]
  /\ handed = [c \in Caller |-> {}]
  /\ answer = [c \in Caller |-> NoAnswer]

-----------------------------------------------------------------------------
\* The role is taken under the map lock when resolve() is called.
AlwaysLead(c, k) ==
  /\ phase' = [phase EXCEPT ![c] = "leading"]
  /\ inflight' = Put(inflight, k, {})

JoinAnyFlight(c, k) ==
  \/ /\ DOMAIN inflight # {}
     /\ phase' = [phase EXCEPT ![c] = "following"]
     /\ \E any \in DOMAIN inflight : inflight' = [inflight EXCEPT ![any] = @ \cup {c}]
  \/ /\ DOMAIN inflight = {}
     /\ phase' = [phase EXCEPT ![c] = "leading"]
     /\ inflight' = Put(inflight, k, {})

TakeRole(c, k) ==
  \/ /\ k \in DOMAIN inflight
     /\ phase' = [phase EXCEPT ![c] = "following"]
     /\ inflight' = [inflight EXCEPT ![k] = @ \cup {c}]
  \/ /\ k \notin DOMAIN inflight
     /\ phase' = [phase EXCEPT ![c] = "leading"]
     /\ inflight' = Put(inflight, k, {})

Call(c, k) ==
  /\ phase[c] = "idle"
  /\ TakeRole(c, k)
  /\ key' = [key EXCEPT ![c] = k]
  /\ UNCHANGED <<handed, answer>>

\* inner.resolve(query).await is over: take the slot out under the lock.
ForgetWaiters(c, o) ==
  /\ phase[c] = "leading"
  /\ phase' = [phase EXCEPT ![c] = "sending"]
  /\ answer' = [answer EXCEPT ![c] = [from |-> key[c], value |-> o]]
  /\ inflight' = Without(inflight, key[c])
  /\ UNCHANGED <<handed, key>>

LeaderAnswers(c, o) ==
  /\ phase[c] = "leading"
  /\ phase' = [phase EXCEPT ![c] = "sending"]
  /\ answer' = [answer EXCEPT ![c] = [from |-> key[c], value |-> o]]
  /\ handed' = [handed EXCEPT ![c] = inflight[key[c]]]
  /\ inflight' = Without(inflight, key[c])
  /\ UNCHANGED key

\* The fan-out loop, after the lock is released.
SendToOne(c) ==
  /\ phase[c] = "sending"
  /\ LET one == IF handed[c] = {} THEN {} ELSE {CHOOSE w \in handed[c] : TRUE}
     IN  answer' = [w \in Caller |-> IF w \in one THEN answer[c] ELSE answer[w]]
  /\ handed' = [handed EXCEPT ![c] = {}]
  /\ phase' = [phase EXCEPT ![c] = "returned"]
  /\ UNCHANGED <<inflight, key>>

LeaderSends(c) ==
  /\ phase[c] = "sending"
  /\ answer' = [w \in Caller |-> IF w \in handed[c] THEN answer[c] ELSE answer[w]]
  /\ handed' = [handed EXCEPT ![c] = {}]
  /\ phase' = [phase EXCEPT ![c] = "returned"]
  /\ UNCHANGED <<inflight, key>>

\* rx.await is over.
FollowerWakes(c) ==
  /\ phase[c] = "following"
  /\ answer[c] # NoAnswer
  /\ phase' = [phase EXCEPT ![c] = "returned"]
  /\ UNCHANGED <<inflight, key, handed, answer>>

\* The caller's future is dropped at its await.  A follower's Receiver goes with
\* it, so its Sender, wherever it is, sends to nobody; a leader leaves its slot
\* in the map.
Cancel(c) ==
  /\ phase[c] \in {"leading", "following"}
  /\ phase' = [phase EXCEPT ![c] = "idle"]
  /\ key' = [key EXCEPT ![c] = NoKey]
  /\ answer' = [answer EXCEPT ![c] = NoAnswer]
  /\ inflight' = [k \in DOMAIN inflight |-> inflight[k] \ {c}]
  /\ handed' = [l \in Caller |-> handed[l] \ {c}]

Return(c) ==
  /\ phase[c] = "returned"
  /\ phase' = [phase EXCEPT ![c] = "idle"]
  /\ key' = [key EXCEPT ![c] = NoKey]
  /\ answer' = [answer EXCEPT ![c] = NoAnswer]
  /\ UNCHANGED <<inflight, handed>>

FlightNext ==
  \E c \in Caller :
    \/ \E k \in Key : Call(c, k)
    \/ \E o \in Outcome : LeaderAnswers(c, o)
    \/ LeaderSends(c) \/ FollowerWakes(c) \/ Cancel(c) \/ Return(c)

\* The runtime polls every task that can go on.  That the inner resolver answers is an
\* assumption: the DoH client bounds the wait for a response head (DOH_QUERY_TIMEOUT)
\* but not the reading of its body.  Nothing forces a cancellation.
FlightFairness ==
  \A c \in Caller :
    /\ WF_flightVars(\E o \in Outcome : LeaderAnswers(c, o))
    /\ WF_flightVars(LeaderSends(c))
    /\ WF_flightVars(FollowerWakes(c))

FlightSpec == FlightInit /\ [][FlightNext]_flightVars /\ FlightFairness

-----------------------------------------------------------------------------
\* Types of the dispatch map and of the callers.
FlightTypeOK ==
  /\ IsMap(inflight, Key, SUBSET Caller)
  /\ phase \in [Caller -> Phase]
  /\ key \in [Caller -> Key \cup {NoKey}]
  /\ handed \in [Caller -> SUBSET Caller]
  /\ answer \in [Caller -> Answer]

\* Concurrent calls for one key cost one upstream resolution: never two leaders
\* of the same key at work in the inner resolver, also across cancellations.
OneFlightPerKey ==
  \A c, d \in Caller :
    phase[c] = "leading" /\ phase[d] = "leading" /\ key[c] = key[d] => c = d

\* An answer handed to a caller is for the key it asked for: a late send of an
\* earlier flight cannot reach a caller that asked for something else.
AnswerForOwnKey ==
  \A c \in Caller : answer[c] # NoAnswer => answer[c].from = key[c]

\* The flight of k has been abandoned: its slot is there and nobody leads.
Abandoned(k) ==
  /\ k \in DOMAIN inflight
  /\ \A l \in Caller : ~(phase[l] = "leading" /\ key[l] = k)

\* A waiting follower is never forgotten: its Sender is in the slot of its key, or
\* a leader is about to send to it, or its answer has come.
NoForgottenFollower ==
  \A c \in Caller : phase[c] = "following" =>
    \/ answer[c] # NoAnswer
    \/ key[c] \in DOMAIN inflight /\ c \in inflight[key[c]]
    \/ \E l \in Caller : phase[l] = "sending" /\ c \in handed[l] /\ key[l] = key[c]

\* A follower's wait ends, unless the leader of its flight was cancelled: then the
\* slot stays in the map with nobody to answer it.
FollowerEndsUnlessAbandoned ==
  \A c \in Caller :
    phase[c] = "following" ~> (phase[c] # "following" \/ Abandoned(key[c]))

\* What the module comment of single_flight.rs says of cancellation: when the
\* leader is cancelled its followers' receivers resolve, so no follower waits for
\* ever.
FollowerEnds ==
  \A c \in Caller : phase[c] = "following" ~> phase[c] # "following"
=============================================================================
