--------------------------- MODULE Network_proofs ---------------------------
(***************************************************************************)
(* For every set of callers, partitions, names, requests and published     *)
(* manifests: the single-flight resolver, the refresh of the blocklist and *)
(* the network coordinator.                                                *)
(***************************************************************************)
EXTENDS NetworkCoordinator, BlocklistScheduler, FiniteSetTheorems, SequenceTheorems,
        WellFoundedInduction, TLAPS

(* The single-flight resolver, with cancellations at any await: one        *)
(* upstream resolution per key, no answer to another question, and no      *)
(* follower left out of the fan-out.                                       *)

\* A caller that waits is the only one its answer can go to: it is in the slot of its own
\* key or in the hands of one sending leader of that key, never in both, and it has no
\* answer as long as it is in either.
WaitersWait ==
  /\ \A k \in DOMAIN inflight : \A w \in inflight[k] :
       phase[w] = "following" /\ key[w] = k /\ answer[w] = NoAnswer
  /\ \A l \in Caller : \A w \in handed[l] :
       /\ phase[w] = "following" /\ key[w] = key[l] /\ answer[w] = NoAnswer
       /\ phase[l] = "sending"

\* Being in a slot and being handed to a leader exclude each other, and so do two leaders.
OneSender ==
  /\ \A l \in Caller : \A k \in DOMAIN inflight : handed[l] \cap inflight[k] = {}
  /\ \A l, m \in Caller : l # m => handed[l] \cap handed[m] = {}

\* A leader at work has its slot in the map.
LeaderHasSlot == \A l \in Caller : phase[l] = "leading" => key[l] \in DOMAIN inflight

\* Who has not been answered has no answer, and who sends or returns has one.
AnswersFollowPhase ==
  \A c \in Caller :
    /\ phase[c] \in {"idle", "leading"} => answer[c] = NoAnswer
    /\ phase[c] \in {"sending", "returned"} => answer[c] # NoAnswer

FlightIInv ==
  /\ FlightTypeOK
  /\ WaitersWait
  /\ OneSender
  /\ LeaderHasSlot
  /\ OneFlightPerKey
  /\ AnswersFollowPhase
  /\ AnswerForOwnKey
  /\ NoForgottenFollower

-----------------------------------------------------------------------------
\* An answer that came back is not the mark of a request that waits.
LEMMA AnswerDiffers ==
  ASSUME NEW k, NEW o
  PROVE  [from |-> k, value |-> o] # NoAnswer
<1>1. DOMAIN [from |-> k, value |-> o] = {"from", "value"}
  OBVIOUS
<1>2. DOMAIN NoAnswer = {"from"}
  BY DEF NoAnswer
<1>3. "value" \notin {"from"}
  OBVIOUS
<1> QED BY <1>1, <1>2, <1>3

\* Nobody waits and nothing is in flight at the start.
LEMMA FlightInitInv == FlightInit => FlightIInv
  BY DEF FlightInit, FlightIInv, FlightTypeOK, WaitersWait, OneSender, LeaderHasSlot,
         OneFlightPerKey, AnswersFollowPhase, AnswerForOwnKey, NoForgottenFollower,
         IsMap, EmptyMap, Phase, Answer, NoAnswer

\* A caller joins the flight of its key.
LEMMA FollowKeepsInv ==
  ASSUME FlightIInv, NEW c \in Caller, NEW k \in DOMAIN inflight, phase[c] = "idle",
         phase' = [phase EXCEPT ![c] = "following"],
         inflight' = [inflight EXCEPT ![k] = @ \cup {c}],
         key' = [key EXCEPT ![c] = k],
         UNCHANGED <<handed, answer>>
  PROVE  FlightIInv'
<1> USE DEF FlightIInv
<1>1. k \in Key /\ answer[c] = NoAnswer
  BY DEF FlightTypeOK, IsMap, AnswersFollowPhase
<1>2. /\ DOMAIN inflight' = DOMAIN inflight
      /\ inflight'[k] = inflight[k] \cup {c}
      /\ \A x \in DOMAIN inflight : x # k => inflight'[x] = inflight[x]
  BY DEF FlightTypeOK, IsMap
<1>3. /\ phase'[c] = "following" /\ key'[c] = k
      /\ \A d \in Caller : d # c => phase'[d] = phase[d] /\ key'[d] = key[d]
  BY DEF FlightTypeOK
<1>4. /\ \A l \in Caller : c \notin handed[l]
      /\ \A x \in DOMAIN inflight : c \notin inflight[x]
      /\ handed[c] = {}
  BY DEF WaitersWait, FlightTypeOK
<1>5. FlightTypeOK'
  BY <1>1, <1>2 DEF FlightTypeOK, IsMap, Phase
<1>6. WaitersWait'
  <2>1. \A x \in DOMAIN inflight : inflight[x] \subseteq Caller
    BY DEF FlightTypeOK, IsMap
  <2>2. \A l \in Caller : handed[l] \subseteq Caller
    BY DEF FlightTypeOK
  <2> QED BY <1>1, <1>2, <1>3, <1>4, <2>1, <2>2 DEF WaitersWait
<1>7. OneSender'
  BY <1>2, <1>4 DEF OneSender
<1>8. LeaderHasSlot' /\ OneFlightPerKey'
  BY <1>2, <1>3 DEF LeaderHasSlot, OneFlightPerKey
<1>9. AnswersFollowPhase' /\ AnswerForOwnKey'
  BY <1>1, <1>3 DEF AnswersFollowPhase, AnswerForOwnKey
<1>10. NoForgottenFollower'
  BY <1>2, <1>3, <1>4 DEF NoForgottenFollower, WaitersWait
<1> QED BY <1>5, <1>6, <1>7, <1>8, <1>9, <1>10

\* A caller opens a flight of its own: nobody leads its key.
LEMMA LeadKeepsInv ==
  ASSUME FlightIInv, NEW c \in Caller, NEW k \in Key, k \notin DOMAIN inflight,
         phase[c] = "idle",
         phase' = [phase EXCEPT ![c] = "leading"],
         inflight' = Put(inflight, k, {}),
         key' = [key EXCEPT ![c] = k],
         UNCHANGED <<handed, answer>>
  PROVE  FlightIInv'
<1> USE DEF FlightIInv
<1>1. answer[c] = NoAnswer
  BY DEF AnswersFollowPhase
<1>2. /\ DOMAIN inflight' = DOMAIN inflight \cup {k}
      /\ inflight'[k] = {}
      /\ \A x \in DOMAIN inflight : inflight'[x] = inflight[x]
  BY DEF Put
<1>3. /\ phase'[c] = "leading" /\ key'[c] = k
      /\ \A d \in Caller : d # c => phase'[d] = phase[d] /\ key'[d] = key[d]
  BY DEF FlightTypeOK
<1>4. /\ \A l \in Caller : c \notin handed[l]
      /\ \A x \in DOMAIN inflight : c \notin inflight[x]
      /\ handed[c] = {}
  BY DEF WaitersWait, FlightTypeOK
<1>5. FlightTypeOK'
  <2>1. IsMap(Put(inflight, k, {}), Key, SUBSET Caller)
    BY DEF FlightTypeOK, IsMap, Put
  <2> QED BY <2>1 DEF FlightTypeOK, Phase
<1>6. WaitersWait'
  <2>1. \A x \in DOMAIN inflight : inflight[x] \subseteq Caller
    BY DEF FlightTypeOK, IsMap
  <2>2. \A l \in Caller : handed[l] \subseteq Caller
    BY DEF FlightTypeOK
  <2> QED BY <1>2, <1>3, <1>4, <2>1, <2>2 DEF WaitersWait
<1>7. OneSender'
  BY <1>2 DEF OneSender
<1>8. LeaderHasSlot' /\ OneFlightPerKey'
  BY <1>2, <1>3 DEF LeaderHasSlot, OneFlightPerKey
<1>9. AnswersFollowPhase' /\ AnswerForOwnKey'
  BY <1>1, <1>3 DEF AnswersFollowPhase, AnswerForOwnKey
<1>10. NoForgottenFollower'
  BY <1>2, <1>3 DEF NoForgottenFollower
<1> QED BY <1>5, <1>6, <1>7, <1>8, <1>9, <1>10

\* The leader has its answer and takes the waiters out of the map.
LEMMA AnswersKeepsInv ==
  ASSUME FlightIInv, NEW c \in Caller, NEW o \in Outcome, LeaderAnswers(c, o)
  PROVE  FlightIInv'
<1> USE DEF FlightIInv
<1> DEFINE k == key[c]
           reply == [from |-> k, value |-> o]
<1>1. /\ phase[c] = "leading" /\ k \in DOMAIN inflight /\ k \in Key
      /\ inflight[k] \subseteq Caller
  BY DEF LeaderAnswers, LeaderHasSlot, FlightTypeOK, IsMap
<1>2. reply # NoAnswer /\ reply \in Answer /\ reply.from = k
  BY <1>1, AnswerDiffers DEF Answer
<1>3. /\ DOMAIN inflight' = DOMAIN inflight \ {k}
      /\ \A x \in DOMAIN inflight' : inflight'[x] = inflight[x]
  BY DEF LeaderAnswers, Without, Restrict
<1>4. /\ phase'[c] = "sending" /\ handed'[c] = inflight[k] /\ answer'[c] = reply
      /\ \A d \in Caller : d # c =>
           phase'[d] = phase[d] /\ handed'[d] = handed[d] /\ answer'[d] = answer[d]
      /\ key' = key
  BY DEF LeaderAnswers, FlightTypeOK
<1>5. /\ \A l \in Caller : c \notin handed[l]
      /\ \A x \in DOMAIN inflight : c \notin inflight[x]
      /\ handed[c] = {}
  BY <1>1 DEF WaitersWait, FlightTypeOK
<1> HIDE DEF reply, k
<1>6. FlightTypeOK'
  <2>1. IsMap(inflight', Key, SUBSET Caller)
    <3>1. inflight' = [x \in DOMAIN inflight \ {key[c]} |-> inflight[x]]
      BY DEF LeaderAnswers, Without, Restrict
    <3> QED BY <3>1 DEF FlightTypeOK, IsMap
  <2>2. phase' \in [Caller -> Phase]
    BY DEF LeaderAnswers, FlightTypeOK, Phase
  <2>3. handed' \in [Caller -> SUBSET Caller]
    BY <1>1 DEF LeaderAnswers, FlightTypeOK, k
  <2>4. answer' \in [Caller -> Answer]
    BY <1>2 DEF LeaderAnswers, FlightTypeOK, reply, k
  <2> QED BY <2>1, <2>2, <2>3, <2>4, <1>4 DEF FlightTypeOK
<1>7. WaitersWait'
  <2>1. \A x \in DOMAIN inflight : inflight[x] \subseteq Caller
    BY DEF FlightTypeOK, IsMap
  <2>2. \A l \in Caller : handed[l] \subseteq Caller
    BY DEF FlightTypeOK
  <2>3. k = key[c]
    BY DEF k
  <2> QED BY <1>1, <1>3, <1>4, <1>5, <2>1, <2>2, <2>3 DEF WaitersWait
<1>8. OneSender'
  <2>1. \A x \in DOMAIN inflight' : x # k /\ x \in DOMAIN inflight
    BY <1>3
  <2>2. \A x \in DOMAIN inflight' : inflight[k] \cap inflight[x] = {}
    BY <1>1, <2>1 DEF WaitersWait
  <2> QED BY <1>1, <1>3, <1>4, <1>5, <2>1, <2>2 DEF OneSender
<1>9. LeaderHasSlot' /\ OneFlightPerKey'
  BY <1>1, <1>3, <1>4 DEF LeaderHasSlot, OneFlightPerKey, k
<1>10. AnswersFollowPhase' /\ AnswerForOwnKey'
  BY <1>2, <1>4 DEF AnswersFollowPhase, AnswerForOwnKey, k
<1>11. NoForgottenFollower'
  BY <1>1, <1>3, <1>4 DEF NoForgottenFollower, k
<1> QED BY <1>6, <1>7, <1>8, <1>9, <1>10, <1>11

\* The fan-out.
LEMMA SendsKeepsInv ==
  ASSUME FlightIInv, NEW c \in Caller, LeaderSends(c)
  PROVE  FlightIInv'
<1> USE DEF FlightIInv
<1>1. /\ phase[c] = "sending" /\ answer[c] # NoAnswer /\ answer[c].from = key[c]
  BY DEF LeaderSends, AnswersFollowPhase, AnswerForOwnKey
<1>2. /\ phase'[c] = "returned" /\ handed'[c] = {}
      /\ \A d \in Caller : d # c => phase'[d] = phase[d] /\ handed'[d] = handed[d]
      /\ inflight' = inflight /\ key' = key
  BY DEF LeaderSends, FlightTypeOK
<1>3. \A w \in Caller : answer'[w] = IF w \in handed[c] THEN answer[c] ELSE answer[w]
  BY DEF LeaderSends
<1>4. /\ handed[c] \subseteq Caller /\ c \notin handed[c]
      /\ \A w \in handed[c] : phase[w] = "following" /\ key[w] = key[c]
  BY <1>1 DEF WaitersWait, FlightTypeOK
<1>5. FlightTypeOK'
  BY DEF LeaderSends, FlightTypeOK, Phase
<1>6. WaitersWait'
  <2>1. \A x \in DOMAIN inflight : inflight[x] \subseteq Caller
    BY DEF FlightTypeOK, IsMap
  <2>2. \A l \in Caller : handed[l] \subseteq Caller
    BY DEF FlightTypeOK
  <2>3. \A x \in DOMAIN inflight : \A w \in inflight[x] : w \notin handed[c]
    BY DEF OneSender
  <2>4. \A l \in Caller : l # c => \A w \in handed[l] : w \notin handed[c]
    BY DEF OneSender
  <2>5. \A w \in Caller : phase[w] = "following" => phase'[w] = "following"
    BY <1>1, <1>2
  <2> QED BY <1>2, <1>3, <2>1, <2>2, <2>3, <2>4, <2>5 DEF WaitersWait
<1>7. OneSender'
  BY <1>2 DEF OneSender
<1>8. LeaderHasSlot' /\ OneFlightPerKey'
  BY <1>2 DEF LeaderHasSlot, OneFlightPerKey
<1>9. AnswersFollowPhase' /\ AnswerForOwnKey'
  BY <1>1, <1>2, <1>3, <1>4 DEF AnswersFollowPhase, AnswerForOwnKey
<1>10. NoForgottenFollower'
  BY <1>1, <1>2, <1>3 DEF NoForgottenFollower
<1> QED BY <1>5, <1>6, <1>7, <1>8, <1>9, <1>10

\* A future is dropped.
LEMMA CancelKeepsInv ==
  ASSUME FlightIInv, NEW c \in Caller, Cancel(c)
  PROVE  FlightIInv'
<1> USE DEF FlightIInv
<1>1. /\ phase'[c] = "idle" /\ key'[c] = NoKey /\ answer'[c] = NoAnswer
      /\ \A d \in Caller : d # c =>
           phase'[d] = phase[d] /\ key'[d] = key[d] /\ answer'[d] = answer[d]
  BY DEF Cancel, FlightTypeOK
<1>2. /\ DOMAIN inflight' = DOMAIN inflight
      /\ \A x \in DOMAIN inflight : inflight'[x] = inflight[x] \ {c}
      /\ \A l \in Caller : handed'[l] = handed[l] \ {c}
  BY DEF Cancel
<1>3. /\ phase[c] \in {"leading", "following"} /\ handed[c] = {}
  BY DEF Cancel, WaitersWait, FlightTypeOK
<1>4. /\ \A x \in DOMAIN inflight : inflight[x] \subseteq Caller
      /\ \A l \in Caller : handed[l] \subseteq Caller
  BY DEF FlightTypeOK, IsMap
<1>5. FlightTypeOK'
  BY DEF Cancel, FlightTypeOK, IsMap, Phase, Answer
<1>6. WaitersWait'
  BY <1>1, <1>2, <1>3, <1>4 DEF WaitersWait
<1>7. OneSender'
  BY <1>2 DEF OneSender
<1>8. LeaderHasSlot' /\ OneFlightPerKey'
  BY <1>1, <1>2 DEF LeaderHasSlot, OneFlightPerKey
<1>9. AnswersFollowPhase' /\ AnswerForOwnKey'
  BY <1>1 DEF AnswersFollowPhase, AnswerForOwnKey
<1>10. NoForgottenFollower'
  BY <1>1, <1>2, <1>3 DEF NoForgottenFollower
<1> QED BY <1>5, <1>6, <1>7, <1>8, <1>9, <1>10

\* A follower goes on with its answer, or a caller is done with it.
LEMMA EndsKeepInv ==
  ASSUME FlightIInv, NEW c \in Caller, FollowerWakes(c) \/ Return(c)
  PROVE  FlightIInv'
<1> USE DEF FlightIInv
<1>1. /\ \A d \in Caller : d # c =>
           phase'[d] = phase[d] /\ key'[d] = key[d] /\ answer'[d] = answer[d]
      /\ inflight' = inflight /\ handed' = handed
      /\ \/ phase[c] = "following" /\ answer[c] # NoAnswer /\ phase'[c] = "returned"
            /\ key'[c] = key[c] /\ answer'[c] = answer[c]
         \/ phase[c] = "returned" /\ phase'[c] = "idle" /\ answer'[c] = NoAnswer
  BY DEF FollowerWakes, Return, FlightTypeOK
<1>2. /\ \A x \in DOMAIN inflight : c \notin inflight[x] /\ inflight[x] \subseteq Caller
      /\ \A l \in Caller : c \notin handed[l] /\ handed[l] \subseteq Caller
      /\ handed[c] = {}
  BY <1>1 DEF WaitersWait, FlightTypeOK, IsMap
<1>3. FlightTypeOK'
  BY DEF FollowerWakes, Return, FlightTypeOK, Phase, Answer
<1>4. WaitersWait'
  BY <1>1, <1>2 DEF WaitersWait
<1>5. OneSender'
  BY <1>1 DEF OneSender
<1>6. LeaderHasSlot' /\ OneFlightPerKey'
  BY <1>1 DEF LeaderHasSlot, OneFlightPerKey
<1>7. AnswersFollowPhase' /\ AnswerForOwnKey'
  BY <1>1 DEF AnswersFollowPhase, AnswerForOwnKey
<1>8. NoForgottenFollower'
  BY <1>1, <1>2 DEF NoForgottenFollower
<1> QED BY <1>3, <1>4, <1>5, <1>6, <1>7, <1>8

\* Every step of a caller, of the leader's task and of a cancellation keeps the invariant.
LEMMA FlightNextKeepsInv == FlightIInv /\ [FlightNext]_flightVars => FlightIInv'
<1> SUFFICES ASSUME FlightIInv, [FlightNext]_flightVars PROVE FlightIInv'
  OBVIOUS
<1>1. ASSUME NEW c \in Caller, NEW k \in Key, Call(c, k) PROVE FlightIInv'
  BY <1>1, FollowKeepsInv, LeadKeepsInv DEF Call, TakeRole
<1>2. ASSUME NEW c \in Caller, NEW o \in Outcome, LeaderAnswers(c, o) PROVE FlightIInv'
  BY <1>2, AnswersKeepsInv
<1>3. ASSUME NEW c \in Caller, LeaderSends(c) PROVE FlightIInv'
  BY <1>3, SendsKeepsInv
<1>4. ASSUME NEW c \in Caller, FollowerWakes(c) \/ Return(c) PROVE FlightIInv'
  BY <1>4, EndsKeepInv
<1>5. ASSUME NEW c \in Caller, Cancel(c) PROVE FlightIInv'
  BY <1>5, CancelKeepsInv
<1>6. CASE UNCHANGED flightVars
  BY <1>6 DEF flightVars, FlightIInv, FlightTypeOK, WaitersWait, OneSender, LeaderHasSlot,
     OneFlightPerKey, AnswersFollowPhase, AnswerForOwnKey, NoForgottenFollower
<1> QED BY <1>1, <1>2, <1>3, <1>4, <1>5, <1>6 DEF FlightNext

-----------------------------------------------------------------------------
\* The types of the dispatch map and of the callers, over any history of calls, answers and
\* cancellations.
THEOREM FlightInvariant == FlightSpec => []FlightIInv
<1>1. FlightInit => FlightIInv
  BY FlightInitInv
<1>2. FlightIInv /\ [FlightNext]_flightVars => FlightIInv'
  BY FlightNextKeepsInv
<1> QED BY <1>1, <1>2, PTL DEF FlightSpec

\* No caller is handed the answer to another question: a late send of an earlier flight finds
\* only followers of its own key (single_flight.rs, the fan-out after the lock).
THEOREM AnswersAreForOwnKey == FlightSpec => []AnswerForOwnKey
<1>1. FlightIInv => AnswerForOwnKey
  BY DEF FlightIInv
<1> QED BY <1>1, FlightInvariant, PTL

\* Nobody who waits is left out: its Sender is in its slot or with the leader that took the
\* slot out, whoever was cancelled in between.
THEOREM NobodyIsForgotten == FlightSpec => []NoForgottenFollower
<1>1. FlightIInv => NoForgottenFollower
  BY DEF FlightIInv
<1> QED BY <1>1, FlightInvariant, PTL

\* The resolver costs one upstream resolution per key at a time: two leaders of one key are
\* never at work together.
THEOREM OneLeaderPerKey == FlightSpec => []OneFlightPerKey
<1>1. FlightIInv => OneFlightPerKey
  BY DEF FlightIInv
<1> QED BY <1>1, FlightInvariant, PTL

-----------------------------------------------------------------------------
(* The refresh of the blocklist, with whatever the versions publish.       *)

\* What tick_once read is still live when the loader answers: there is one task, and it alone
\* swaps.
SeenIsLive == live \in Version /\ (task = "loading" => seen = live)

RefreshInv == SeenIsLive

\* Every step of the loop of scheduler.rs, of its owner and of the manifest keeps it.
LEMMA RefreshStepKeepsInv == RefreshInv /\ [SchedulerNext]_schedulerVars => RefreshInv'
<1> SUFFICES ASSUME RefreshInv, [SchedulerNext]_schedulerVars PROVE RefreshInv'
  OBVIOUS
<1> USE DEF RefreshInv, SeenIsLive
<1>1. CASE Wait \/ ObserveStop \/ TimerFires \/ LoadFails
  BY <1>1 DEF Wait, ObserveStop, TimerFires, LoadFails
<1>2. CASE LoadSucceeds
  BY <1>2 DEF LoadSucceeds, Swap, NewContent
<1>3. CASE StopCalled \/ StopReturns \/ DropHandle
  BY <1>3 DEF StopCalled, StopReturns, DropHandle
<1>4. CASE UNCHANGED schedulerVars
  BY <1>4 DEF schedulerVars
<1> QED BY <1>1, <1>2, <1>3, <1>4 DEF SchedulerNext

\* The invariant of the scheduler, for every number of ticks, failures and stops.
THEOREM RefreshInvariant == SchedulerSpec => []RefreshInv
<1>1. SchedulerInit => RefreshInv
  BY VersionAssumption
  DEF SchedulerInit, BlocklistInit, RefreshInv, SeenIsLive, Version
<1>2. RefreshInv /\ [SchedulerNext]_schedulerVars => RefreshInv'
  BY RefreshStepKeepsInv
<1> QED BY <1>1, <1>2, PTL DEF SchedulerSpec

\* A refresh never puts an older list back: what the tick compared with before it loaded is
\* still the live one when it swaps, and the swap does not look again.
THEOREM ListOnlyMovesForward == SchedulerSpec => VersionNeverRollsBack
<1>1. RefreshInv /\ [SchedulerNext]_schedulerVars => [live' > live]_live
  <2> SUFFICES ASSUME RefreshInv, [SchedulerNext]_schedulerVars, live' # live
               PROVE  live' > live
    OBVIOUS
  <2>1. LoadSucceeds
    BY DEF schedulerVars, SchedulerNext, Wait, ObserveStop, TimerFires, LoadFails,
       StopCalled, StopReturns, DropHandle
  <2> QED BY <2>1 DEF LoadSucceeds, Swap, NewContent, RefreshInv, SeenIsLive
<1> QED BY <1>1, RefreshInvariant, PTL DEF SchedulerSpec, VersionNeverRollsBack
-----------------------------------------------------------------------------
(* Queues without repetitions.                                             *)

\* Every set of naturals that is not empty has a least element: what induction over the
\* length of a queue comes down to.
LEMMA LeastNat ==
  ASSUME NEW S \in SUBSET Nat, S # {}
  PROVE  \E m \in S : \A n \in S : m <= n
<1> DEFINE R == {ss \in Nat \X Nat : ss[1] < ss[2]}
<1>1. IsWellFoundedOn(R, Nat)
  BY NatLessThanWellFounded DEF OpToRel
<1>2. \A x, y \in Nat : <<x, y>> \in R <=> x < y
  OBVIOUS
<1> HIDE DEF R
<1>3. PICK m \in S : \A n \in S : ~(<<n, m>> \in R)
  BY <1>1, WFMin
<1>4. ASSUME NEW n \in S PROVE m <= n
  <2>1. m \in Nat /\ n \in Nat
    OBVIOUS
  <2>2. ~(n < m)
    BY <1>2, <1>3, <2>1
  <2> QED BY <2>1, <2>2
<1> QED BY <1>4

\* Induction over the rounds of a loop: if the start is right and no round goes wrong first,
\* none goes wrong.
LEMMA NoFirstWrong ==
  ASSUME NEW n \in Nat, NEW Wrong \in SUBSET (0..n), 0 \notin Wrong,
         \A k \in 1..n : k \in Wrong => k - 1 \in Wrong
  PROVE  Wrong = {}
<1> SUFFICES ASSUME Wrong # {} PROVE FALSE
  OBVIOUS
<1>1. PICK m \in Wrong : \A k \in Wrong : m <= k
  BY LeastNat
<1>2. m \in 1..n
  OBVIOUS
<1>3. m - 1 \in Wrong /\ ~(m <= m - 1)
  BY <1>2
<1> QED BY <1>1, <1>3

\* What CHOOSE finds when it looks for the least number.
LEMMA LeastIs ==
  ASSUME NEW S \in SUBSET Nat, NEW m \in S, \A n \in S : m <= n
  PROVE  (CHOOSE k \in S : \A n \in S : k <= n) = m
<1> DEFINE P(k) == k \in S /\ \A n \in S : k <= n
<1>1. P(m) /\ \A k : P(k) => k = m
  <2>1. ASSUME NEW k, P(k) PROVE k = m
    <3>1. k \in Nat /\ m \in Nat /\ k <= m /\ m <= k
      BY <2>1
    <3> QED BY <3>1
  <2> QED BY <2>1
<1>2. (CHOOSE k : P(k)) = m
  <2> HIDE DEF P
  <2>1. P(CHOOSE k : P(k))
    BY <1>1
  <2> QED BY <1>1, <2>1
<1> QED BY <1>2

\* The least number of a set, as Min finds it.
LEMMA MinIs ==
  ASSUME NEW S \in SUBSET Nat, S # {}
  PROVE  Min(S) \in S /\ \A n \in S : Min(S) <= n
  BY LeastNat DEF Min

\* VecDeque::remove: the elements behind the position move up by one.
LEMMA RemoveAtIs ==
  ASSUME NEW S, NEW s \in Seq(S), NEW i \in 1..Len(s)
  PROVE  /\ RemoveAt(s, i) \in Seq(S)
         /\ Len(RemoveAt(s, i)) = Len(s) - 1
         /\ \A j \in 1..(Len(s) - 1) : RemoveAt(s, i)[j] = IF j < i THEN s[j] ELSE s[j + 1]
<1> DEFINE a == SubSeq(s, 1, i - 1)
           b == SubSeq(s, i + 1, Len(s))
<1>1. Len(s) \in Nat /\ i \in Nat /\ i >= 1 /\ i <= Len(s)
  OBVIOUS
<1>2. /\ a \in Seq(S) /\ Len(a) = i - 1
      /\ \A j \in 1..(i - 1) : a[j] = s[j]
  BY <1>1
<1>3. /\ b \in Seq(S) /\ Len(b) = Len(s) - i
      /\ \A j \in 1..(Len(s) - i) : b[j] = s[i + j]
  BY <1>1
<1>4. RemoveAt(s, i) = a \o b
  BY DEF RemoveAt
<1> HIDE DEF a, b
<1>5. /\ a \o b \in Seq(S)
      /\ Len(a \o b) = Len(s) - 1
  <2>1. a \o b \in Seq(S) /\ Len(a \o b) = Len(a) + Len(b)
    BY <1>2, <1>3, ConcatProperties
  <2> QED BY <1>1, <1>2, <1>3, <2>1
<1>6. ASSUME NEW j \in 1..(Len(s) - 1)
      PROVE  (a \o b)[j] = IF j < i THEN s[j] ELSE s[j + 1]
  <2>1. CASE j < i
    BY <1>1, <1>2, <1>3, <2>1
  <2>2. CASE ~(j < i)
    <3>1. (a \o b)[j] = b[j - Len(a)]
      BY <1>1, <1>2, <1>3, <2>2
    <3>2. j - (i - 1) \in 1..(Len(s) - i)
      BY <1>1, <2>2
    <3>3. i + (j - (i - 1)) = j + 1 /\ ~(j < i)
      BY <1>1, <2>2
    <3>4. b[j - (i - 1)] = s[j + 1]
      BY <1>3, <3>2, <3>3
    <3>5. (a \o b)[j] = s[j + 1]
      BY <1>2, <3>1, <3>4
    <3> HIDE DEF a, b
    <3> QED BY <1>1, <2>2, <3>3, <3>5
  <2> QED BY <2>1, <2>2
<1> QED BY <1>4, <1>5, <1>6

\* position, then remove: what the cache and the egress map do to forget one key.
LEMMA RemoveFirstIs ==
  ASSUME NEW S, NEW s \in Seq(S), NEW e
  PROVE  /\ e \notin ToSet(s) => RemoveFirst(s, e) = s
         /\ e \in ToSet(s) => \E i \in 1..Len(s) : s[i] = e /\ RemoveFirst(s, e) = RemoveAt(s, i)
<1> DEFINE I == {i \in 1..Len(s) : s[i] = e}
<1>1. e \in ToSet(s) <=> I # {}
  BY DEF ToSet
<1>2. RemoveFirst(s, e) = IF I # {} THEN RemoveAt(s, Min(I)) ELSE s
  BY DEF RemoveFirst, SelectInSeq
<1>3. I # {} => Min(I) \in I
  <2>1. I \in SUBSET Nat
    OBVIOUS
  <2> HIDE DEF I
  <2> QED BY <2>1, MinIs
<1> QED BY <1>1, <1>2, <1>3

\* A queue without repetitions stays one, and lists what it listed but the one forgotten.
LEMMA RemoveFirstFacts ==
  ASSUME NEW S, NEW s \in Seq(S), IsInjective(s), NEW e
  PROVE  /\ RemoveFirst(s, e) \in Seq(S)
         /\ IsInjective(RemoveFirst(s, e))
         /\ ToSet(RemoveFirst(s, e)) = ToSet(s) \ {e}
         /\ Len(RemoveFirst(s, e)) <= Len(s)
<1>1. CASE e \notin ToSet(s)
  BY <1>1, RemoveFirstIs
<1>2. CASE e \in ToSet(s)
  <2>1. PICK i \in 1..Len(s) : s[i] = e /\ RemoveFirst(s, e) = RemoveAt(s, i)
    BY <1>2, RemoveFirstIs
  <2> DEFINE r == RemoveAt(s, i)
  <2>2. /\ r \in Seq(S) /\ Len(r) = Len(s) - 1
        /\ \A j \in 1..(Len(s) - 1) : r[j] = IF j < i THEN s[j] ELSE s[j + 1]
    BY RemoveAtIs
  <2> HIDE DEF r
  <2>3. \A a, b \in 1..Len(s) : s[a] = s[b] => a = b
    BY DEF IsInjective
  <2>4. IsInjective(r)
    <3> DEFINE from(j) == IF j < i THEN j ELSE j + 1
    <3>1. /\ DOMAIN r = 1..(Len(s) - 1) /\ Len(s) \in Nat
          /\ \A j \in 1..(Len(s) - 1) : from(j) \in 1..Len(s) /\ r[j] = s[from(j)]
      BY <2>2
    <3>2. \A j, k \in 1..(Len(s) - 1) : from(j) = from(k) => j = k
      BY <3>1
    <3> HIDE DEF from
    <3>3. ASSUME NEW j \in DOMAIN r, NEW k \in DOMAIN r, r[j] = r[k] PROVE j = k
      <4>1. s[from(j)] = s[from(k)] /\ from(j) \in 1..Len(s) /\ from(k) \in 1..Len(s)
        BY <3>1, <3>3
      <4>2. from(j) = from(k)
        BY <2>3, <4>1, Zenon
      <4> QED BY <3>1, <3>2, <4>2, Zenon
    <3> QED BY <3>3, Zenon DEF IsInjective
  <2>5. ToSet(r) \subseteq ToSet(s) \ {e}
    BY <2>1, <2>2, <2>3 DEF ToSet
  <2>6. ASSUME NEW j \in 1..Len(s), s[j] # e PROVE s[j] \in ToSet(r)
    <3>1. CASE j < i
      BY <2>2, <3>1 DEF ToSet
    <3>2. CASE j > i
      <4>1. r[j - 1] = s[j] /\ j - 1 \in 1..Len(r)
        BY <2>2, <3>2
      <4> QED BY <2>2, <4>1 DEF ToSet
    <3> QED BY <2>1, <2>6, <3>1, <3>2
  <2>7. ToSet(r) = ToSet(s) \ {e}
    <3>1. ASSUME NEW x \in ToSet(s) \ {e} PROVE x \in ToSet(r)
      <4>1. PICK j \in 1..Len(s) : x = s[j]
        BY DEF ToSet
      <4> QED BY <2>6, <4>1
    <3> QED BY <2>5, <3>1
  <2> QED BY <2>1, <2>2, <2>4, <2>7 DEF r
<1> QED BY <1>1, <1>2

\* A queue without repetitions stays one when a key that is not in it goes to its back.
LEMMA AppendNew ==
  ASSUME NEW S, NEW s \in Seq(S), IsInjective(s), NEW e \in S, e \notin ToSet(s)
  PROVE  /\ Append(s, e) \in Seq(S) /\ IsInjective(Append(s, e))
         /\ ToSet(Append(s, e)) = ToSet(s) \cup {e}
         /\ Len(Append(s, e)) = Len(s) + 1
<1> DEFINE t == Append(s, e)
<1>1. /\ t \in Seq(S) /\ Len(t) = Len(s) + 1 /\ t[Len(s) + 1] = e
      /\ \A i \in 1..Len(s) : t[i] = s[i]
  BY AppendProperties
<1> HIDE DEF t
<1>2. IsInjective(t)
  BY <1>1 DEF IsInjective, ToSet
<1>3. ToSet(t) = ToSet(s) \cup {e}
  BY <1>1 DEF ToSet
<1> QED BY <1>1, <1>2, <1>3 DEF t

\* Its length is the number of keys it lists.
LEMMA InjectiveCount ==
  ASSUME NEW S, NEW s \in Seq(S), IsInjective(s)
  PROVE  IsFiniteSet(ToSet(s)) /\ Cardinality(ToSet(s)) = Len(s)
<1>1. s \in Bijection(1..Len(s), ToSet(s))
  <2>1. DOMAIN s = 1..Len(s) /\ ToSet(s) = {s[i] : i \in 1..Len(s)}
    BY DEF ToSet
  <2>2. s \in [1..Len(s) -> ToSet(s)]
    BY <2>1
  <2>3. s \in Injection(1..Len(s), ToSet(s))
    BY <2>1, <2>2 DEF Injection, IsInjective
  <2>4. s \in Surjection(1..Len(s), ToSet(s))
    BY <2>1, <2>2 DEF Surjection
  <2> QED BY <2>3, <2>4, Zenon DEF Bijection
<1>2. IsFiniteSet(1..Len(s)) /\ Cardinality(1..Len(s)) = Len(s)
  <2> DEFINE n == Len(s)
  <2>1. n \in Nat
    OBVIOUS
  <2> HIDE DEF n
  <2>2. IsFiniteSet(1..n) /\ Cardinality(1..n) = n
    BY <2>1, FS_Interval
  <2> QED BY <2>2 DEF n
<1> QED BY <1>1, <1>2, FS_Bijection DEF ExistsBijection

-----------------------------------------------------------------------------
(* The DNS cache: the map and the order of one partition.                  *)

\* What a partition of the cache keeps to: the order lists the stored names, each once,
\* and no more than the cap allows.
PartOk(part) ==
  /\ part = [entries |-> part.entries, order |-> part.order]
  /\ IsMap(part.entries, Name, Entry)
  /\ part.order \in Seq(Name)
  /\ IsInjective(part.order)
  /\ ToSet(part.order) = DOMAIN part.entries
  /\ Len(part.order) <= MaxEntries

\* A part of the cache from its entries and the order they were used in.
LEMMA PartOkIf ==
  ASSUME NEW f, NEW s, IsMap(f, Name, Entry), s \in Seq(Name), IsInjective(s),
         ToSet(s) = DOMAIN f, Len(s) <= MaxEntries
  PROVE  PartOk([entries |-> f, order |-> s])
<1>1. [entries |-> f, order |-> s].entries = f /\ [entries |-> f, order |-> s].order = s
  OBVIOUS
<1> QED BY <1>1 DEF PartOk

\* A partition that was never asked anything has a sound part.
LEMMA EmptyPartOk == PartOk(NoEntries) /\ DOMAIN NoEntries.entries = {}
  BY CacheAssumption
  DEF PartOk, NoEntries, EmptyMap, IsMap, IsInjective, ToSet

\* evict_if_full pops one name if the map is at the cap, and none below it: the map is
\* never above the cap, and the name it pops is always stored.
LEMMA EvictionsAre ==
  ASSUME NEW part, PartOk(part)
  PROVE  /\ Len(part.order) < MaxEntries => Evictions(part) = 0
         /\ Len(part.order) = MaxEntries => Evictions(part) = 1
<1> DEFINE s == part.order
           LeftAfter(k) == DOMAIN part.entries \ {s[i] : i \in 1..k}
           Stops == {k \in 0..Len(s) : Cardinality(LeftAfter(k)) < MaxEntries \/ k = Len(s)}
<1>1. /\ s \in Seq(Name) /\ IsInjective(s) /\ Len(s) \in Nat /\ Len(s) <= MaxEntries
      /\ MaxEntries \in Nat \ {0}
      /\ ToSet(s) = DOMAIN part.entries
  BY CacheAssumption DEF PartOk
<1>2. IsFiniteSet(ToSet(s)) /\ Cardinality(ToSet(s)) = Len(s)
  BY <1>1, InjectiveCount
<1>3. Evictions(part) = CHOOSE k \in Stops : \A l \in Stops : k <= l
  BY DEF Evictions
<1>4. LeftAfter(0) = ToSet(s)
  BY <1>1
<1>5. Len(s) # 0 => LeftAfter(1) = ToSet(s) \ {s[1]} /\ s[1] \in ToSet(s)
  <2>1. {s[i] : i \in 1..1} = {s[1]}
    OBVIOUS
  <2> QED BY <1>1, <2>1 DEF ToSet
<1>6. Len(s) # 0 => Cardinality(LeftAfter(1)) = Len(s) - 1
  <2>1. IsFiniteSet(ToSet(s)) => \A x \in ToSet(s) :
          Cardinality(ToSet(s) \ {x}) = Cardinality(ToSet(s)) - 1
    BY FS_RemoveElement
  <2> HIDE DEF s, LeftAfter
  <2> QED BY <1>2, <1>5, <2>1
<1> HIDE DEF LeftAfter
<1>7. ASSUME Len(s) < MaxEntries PROVE Evictions(part) = 0
  <2>1. 0 \in Stops /\ \A l \in Stops : 0 <= l
    BY <1>1, <1>2, <1>4, <1>7
  <2>2. Stops \subseteq Nat
    BY <1>1
  <2> HIDE DEF Stops
  <2> QED BY <1>3, <2>1, <2>2, LeastIs
<1>8. ASSUME Len(s) = MaxEntries PROVE Evictions(part) = 1
  <2>1. 0 \notin Stops /\ 1 \in Stops
    BY <1>1, <1>2, <1>4, <1>6, <1>8
  <2>2. Stops \subseteq Nat
    BY <1>1
  <2> HIDE DEF Stops
  <2>3. \A l \in Stops : 1 <= l
    BY <2>1, <2>2
  <2> QED BY <1>3, <2>1, <2>2, <2>3, LeastIs
<1> QED BY <1>7, <1>8

\* dns/cache.rs, evict_if_full: room for one more entry, the others as they were.
LEMMA EvictKeepsPart ==
  ASSUME NEW part, PartOk(part)
  PROVE  /\ PartOk(EvictIfFull(part))
         /\ Len(EvictIfFull(part).order) < MaxEntries
         /\ DOMAIN EvictIfFull(part).entries \subseteq DOMAIN part.entries
         /\ \A n \in DOMAIN EvictIfFull(part).entries :
              EvictIfFull(part).entries[n] = part.entries[n]
<1> DEFINE s == part.order
           k == Evictions(part)
           gone == {s[i] : i \in 1..k}
           left == KeepOnly(part.entries, DOMAIN part.entries \ gone)
           rest == SubSeq(s, k + 1, Len(s))
<1>1. /\ s \in Seq(Name) /\ Len(s) \in Nat /\ Len(s) <= MaxEntries
      /\ MaxEntries \in Nat \ {0}
      /\ ToSet(s) = DOMAIN part.entries
      /\ IsMap(part.entries, Name, Entry)
      /\ \A i, j \in 1..Len(s) : s[i] = s[j] => i = j
  BY CacheAssumption DEF PartOk, IsInjective
<1>2. k \in {0, 1} /\ k <= Len(s) /\ Len(s) - k < MaxEntries
  BY <1>1, EvictionsAre
<1>3. EvictIfFull(part) = [entries |-> left, order |-> rest]
  BY DEF EvictIfFull
<1>4. /\ rest \in Seq(Name) /\ Len(rest) = Len(s) - k
      /\ \A i \in 1..(Len(s) - k) : rest[i] = s[k + i]
  <2> HIDE DEF k, s
  <2> QED BY <1>1, <1>2
<1> HIDE DEF rest
<1>5. IsInjective(rest)
  <2> HIDE DEF k, s
  <2>1. DOMAIN rest = 1..(Len(s) - k)
    BY <1>1, <1>2, <1>4
  <2>2. \A i \in 1..(Len(s) - k) : k + i \in 1..Len(s)
    BY <1>1, <1>2
  <2>3. \A i, j \in 1..(Len(s) - k) : k + i = k + j => i = j
    BY <1>1, <1>2
  <2> QED BY <1>1, <1>4, <2>1, <2>2, <2>3 DEF IsInjective
<1>6. ToSet(rest) = ToSet(s) \ gone
  <2> HIDE DEF k, s
  <2>1. ASSUME NEW i \in 1..Len(rest) PROVE rest[i] \in ToSet(s) \ gone
    <3>1. k + i \in 1..Len(s) /\ rest[i] = s[k + i] /\ \A j \in 1..k : j # k + i /\ j \in 1..Len(s)
      BY <1>1, <1>2, <1>4
    <3>2. s[k + i] \in ToSet(s)
      BY <1>1, <3>1 DEF ToSet
    <3>3. s[k + i] \notin gone
      BY <1>1, <3>1
    <3> QED BY <3>1, <3>2, <3>3
  <2>2. ASSUME NEW j \in 1..Len(s), s[j] \notin gone PROVE s[j] \in ToSet(rest)
    <3>1. j - k \in 1..Len(rest) /\ rest[j - k] = s[j]
      BY <1>1, <1>2, <1>4, <2>2
    <3> QED BY <1>4, <3>1 DEF ToSet
  <2>3. ASSUME NEW x \in ToSet(s) \ gone PROVE x \in ToSet(rest)
    <3>1. PICK j \in 1..Len(s) : x = s[j]
      BY <1>1 DEF ToSet
    <3> QED BY <2>2, <3>1
  <2>4. \A x \in ToSet(rest) : \E i \in 1..Len(rest) : x = rest[i]
    BY <1>4 DEF ToSet
  <2> QED BY <2>1, <2>3, <2>4
<1>7. /\ IsMap(left, Name, Entry)
      /\ DOMAIN left = DOMAIN part.entries \ gone
      /\ \A n \in DOMAIN left : left[n] = part.entries[n]
  <2> HIDE DEF gone
  <2> QED BY <1>1 DEF IsMap, KeepOnly, Restrict
<1>8. Len(rest) < MaxEntries /\ Len(rest) <= MaxEntries
  BY <1>1, <1>2, <1>4
<1>9. ToSet(rest) = DOMAIN left
  BY <1>1, <1>6, <1>7
<1> HIDE DEF left, s, k, gone
<1>10. PartOk([entries |-> left, order |-> rest])
  BY <1>4, <1>5, <1>7, <1>8, <1>9, PartOkIf
<1> QED BY <1>1, <1>3, <1>7, <1>8, <1>10

\* insert stores one entry in a partition that has room.
LEMMA StoreKeepsPart ==
  ASSUME NEW part, PartOk(part), Len(part.order) < MaxEntries, NEW n \in Name, NEW e \in Entry
  PROVE  PartOk([entries |-> Put(part.entries, n, e), order |-> OrderAfterInsert(part, n)])
<1> DEFINE s == part.order
           t == OrderAfterInsert(part, n)
           f == Put(part.entries, n, e)
<1>1. /\ s \in Seq(Name) /\ Len(s) \in Nat /\ Len(s) < MaxEntries
      /\ MaxEntries \in Nat \ {0}
      /\ ToSet(s) = DOMAIN part.entries
      /\ IsMap(part.entries, Name, Entry)
      /\ IsInjective(s)
  BY CacheAssumption DEF PartOk
<1>2. IsMap(f, Name, Entry) /\ DOMAIN f = DOMAIN part.entries \cup {n}
  BY <1>1 DEF IsMap, Put
<1>3. CASE n \in DOMAIN part.entries
  <2>1. t = s
    BY <1>3 DEF OrderAfterInsert
  <2> HIDE DEF t, f, s
  <2>2. DOMAIN f = DOMAIN part.entries
    BY <1>2, <1>3
  <2>3. Len(s) <= MaxEntries
    BY <1>1
  <2>4. PartOk([entries |-> f, order |-> t])
    BY <1>1, <1>2, <2>1, <2>2, <2>3, PartOkIf
  <2> QED BY <2>4 DEF f, t
<1>4. CASE n \notin DOMAIN part.entries
  <2>1. t = Append(s, n)
    BY <1>4 DEF OrderAfterInsert
  <2>2. /\ t \in Seq(Name) /\ Len(t) = Len(s) + 1 /\ t[Len(s) + 1] = n
        /\ \A i \in 1..Len(s) : t[i] = s[i]
    BY <1>1, <2>1, AppendProperties
  <2>3. n \notin ToSet(s)
    BY <1>1, <1>4
  <2> HIDE DEF t, f
  <2>4. IsInjective(t) /\ ToSet(t) = ToSet(s) \cup {n}
    <3>1. s \in Seq(Name) /\ IsInjective(s)
      BY <1>1, Zenon
    <3> HIDE DEF s
    <3>2. /\ IsInjective(Append(s, n))
          /\ ToSet(Append(s, n)) = ToSet(s) \cup {n}
      BY <2>3, <3>1, AppendNew
    <3> QED BY <2>1, <3>2, Zenon
  <2>6. Len(t) <= MaxEntries /\ ToSet(t) = DOMAIN f
    BY <1>1, <1>2, <2>2, <2>4
  <2> HIDE DEF s
  <2>7. PartOk([entries |-> f, order |-> t])
    BY <1>2, <2>2, <2>4, <2>6, PartOkIf
  <2> QED BY <2>7 DEF f, t
<1> QED BY <1>3, <1>4

\* get forgets an entry that has expired.
LEMMA ExpelKeepsPart ==
  ASSUME NEW part, PartOk(part), NEW n \in DOMAIN part.entries
  PROVE  /\ PartOk(Expelled(part, n))
         /\ DOMAIN Expelled(part, n).entries = DOMAIN part.entries \ {n}
         /\ \A m \in DOMAIN Expelled(part, n).entries :
              Expelled(part, n).entries[m] = part.entries[m]
<1> DEFINE f == Without(part.entries, n)
           t == RemoveFirst(part.order, n)
<1>1. /\ part.order \in Seq(Name) /\ Len(part.order) \in Nat
      /\ IsInjective(part.order) /\ Len(part.order) <= MaxEntries
      /\ ToSet(part.order) = DOMAIN part.entries
      /\ IsMap(part.entries, Name, Entry)
  BY DEF PartOk
<1>2. /\ IsMap(f, Name, Entry) /\ DOMAIN f = DOMAIN part.entries \ {n}
      /\ \A m \in DOMAIN f : f[m] = part.entries[m]
  BY <1>1 DEF IsMap, Without, Restrict
<1>3. /\ t \in Seq(Name) /\ IsInjective(t)
      /\ ToSet(t) = ToSet(part.order) \ {n} /\ Len(t) <= Len(part.order)
  BY <1>1, RemoveFirstFacts
<1>4. Expelled(part, n) = [entries |-> f, order |-> t]
  BY DEF Expelled
<1>5. Len(t) \in Nat /\ Len(t) <= MaxEntries
  BY <1>1, <1>3, CacheAssumption
<1>6. ToSet(t) = DOMAIN f
  BY <1>1, <1>2, <1>3
<1> HIDE DEF f, t
<1>7. PartOk([entries |-> f, order |-> t])
  BY <1>2, <1>3, <1>5, <1>6, PartOkIf
<1> QED BY <1>2, <1>4, <1>7

\* The deadline of an entry is at most the cap of its answer away.
TtlCap(a) == IF a = "NxDomain" THEN MaxNegativeTtl ELSE MaxPositiveTtl

\* An entry that is made lives as long as the cap of its kind lets it.
LEMMA NewEntryFacts ==
  ASSUME now \in Nat, NEW a \in {"Positive", "NxDomain"}, NEW ttl \in Nat, NEW t \in Nat
  PROVE  /\ NewEntry(a, ttl, t) \in Entry
         /\ NewEntry(a, ttl, t).expires - now <= TtlCap(a)
         /\ NewEntry(a, ttl, t).answer = a
         /\ NewEntry(a, ttl, t).teardown = t
<1>1. CappedTtl(a, ttl) \in Nat /\ CappedTtl(a, ttl) <= TtlCap(a)
  BY CacheAssumption DEF CappedTtl, TtlCap
<1> HIDE DEF CappedTtl
<1>2. TtlCap(a) \in Nat
  BY CacheAssumption DEF TtlCap
<1>3. PICK d \in Nat, cap \in Nat : d = CappedTtl(a, ttl) /\ cap = TtlCap(a) /\ d <= cap
  BY <1>1, <1>2
<1>4. now + d \in Nat /\ (now + d) - now <= cap
  BY <1>3
<1>5. PICK due \in Nat : due = now + d /\ due - now <= cap
  BY <1>4
<1>6. NewEntry(a, ttl, t) = [answer |-> a, expires |-> due, teardown |-> t]
  BY <1>3, <1>5 DEF NewEntry
<1> QED BY <1>3, <1>5, <1>6 DEF Entry

-----------------------------------------------------------------------------
(* The coordinator: resolutions, routes and teardowns together.            *)

CacheInv ==
  /\ now \in Nat
  /\ DOMAIN cache \subseteq Partition
  /\ \A p \in DOMAIN cache : PartOk(cache[p])
  /\ TtlCapped

\* A call remembers the teardown count of its partition, which cannot change under it:
\* drop_partition waits for &mut self.
CallsInv ==
  /\ drops \in [Partition -> Nat]
  /\ asking \in [Caller -> Calls]
  /\ \A c \in Caller :
       asking[c].stage # "none" => asking[c].teardown = drops[asking[c].key[1]]

\* What resolve() and drop_partition() keep.
ResolveIInv == FlightIInv /\ CacheInv /\ CallsInv /\ NoEntryOutlivesDrop

\* The resolver starts with no entries, no lookups and no flights.
LEMMA ResolveInitInv == Init => ResolveIInv
<1> SUFFICES ASSUME Init PROVE ResolveIInv
  OBVIOUS
<1>1. FlightIInv
  BY FlightInitInv DEF Init
<1>2. CacheInv /\ NoEntryOutlivesDrop
  BY DEF Init, CacheInit, EmptyMap, CacheInv, TtlCapped, NoEntryOutlivesDrop
<1>3. CallsInv
  BY DEF Init, CallsInv, Calls, NoCall
<1> QED BY <1>1, <1>2, <1>3 DEF ResolveIInv

\* What a caller is doing belongs to one partition.
LEMMA CallKey ==
  ASSUME CallsInv, NEW c \in Caller, asking[c].stage # "none"
  PROVE  /\ asking[c].key \in Key
         /\ asking[c].key[1] \in Partition /\ asking[c].key[2] \in Name
         /\ asking[c].teardown = drops[asking[c].key[1]]
         /\ asking[c].teardown \in Nat
<1>1. asking[c] \in [stage : {"missed", "resolving"}, teardown : Nat, key : Key]
  BY DEF CallsInv, Calls, NoCall
<1>2. asking[c].key \in Partition \X Name
  BY <1>1, RequestAssumption
<1> QED BY <1>1, <1>2 DEF CallsInv

\* get only ever takes an entry away.
LEMMA GetKeeps ==
  ASSUME CacheInv, NoEntryOutlivesDrop, NEW p \in Partition, NEW n \in Name,
         cache' = AfterGet(p, n), UNCHANGED <<now, drops>>
  PROVE  CacheInv' /\ NoEntryOutlivesDrop'
<1>1. CASE cache' = cache
  BY <1>1 DEF CacheInv, TtlCapped, NoEntryOutlivesDrop
<1>2. CASE p \in DOMAIN cache /\ n \in DOMAIN cache[p].entries
           /\ cache' = [cache EXCEPT ![p] = Expelled(@, n)]
  <2>1. /\ DOMAIN cache' = DOMAIN cache
        /\ cache'[p] = Expelled(cache[p], n)
        /\ \A q \in DOMAIN cache : q # p => cache'[q] = cache[q]
    BY <1>2
  <2>2. /\ PartOk(cache'[p])
        /\ DOMAIN cache'[p].entries = DOMAIN cache[p].entries \ {n}
        /\ \A m \in DOMAIN cache'[p].entries : cache'[p].entries[m] = cache[p].entries[m]
    BY <1>2, <2>1, ExpelKeepsPart DEF CacheInv
  <2>3. \A q \in DOMAIN cache' :
          /\ PartOk(cache'[q])
          /\ DOMAIN cache'[q].entries \subseteq DOMAIN cache[q].entries
          /\ \A m \in DOMAIN cache'[q].entries : cache'[q].entries[m] = cache[q].entries[m]
    BY <2>1, <2>2 DEF CacheInv
  <2>4. TtlCapped'
    BY <2>1, <2>3 DEF CacheInv, TtlCapped
  <2>5. NoEntryOutlivesDrop'
    BY <2>1, <2>3 DEF NoEntryOutlivesDrop
  <2> QED BY <2>1, <2>3, <2>4, <2>5 DEF CacheInv
<1> QED BY <1>1, <1>2 DEF AfterGet

\* insert after eviction: the new entry, and some of the old ones of its partition.
LEMMA InsertKeeps ==
  ASSUME CacheInv, NoEntryOutlivesDrop, NEW p \in Partition, NEW n \in Name,
         NEW e \in Entry, e.expires - now <= TtlCap(e.answer), e.teardown = drops[p],
         cache' = Inserted(p, n, e), UNCHANGED <<now, drops>>
  PROVE  CacheInv' /\ NoEntryOutlivesDrop'
<1> DEFINE before == IF p \in DOMAIN cache THEN cache[p] ELSE NoEntries
           part == EvictIfFull(before)
           after == [entries |-> Put(part.entries, n, e), order |-> OrderAfterInsert(part, n)]
<1>1. PartOk(before)
  BY EmptyPartOk DEF CacheInv
<1>2. /\ PartOk(part) /\ Len(part.order) < MaxEntries
      /\ DOMAIN part.entries \subseteq DOMAIN before.entries
      /\ \A m \in DOMAIN part.entries : part.entries[m] = before.entries[m]
  <2> HIDE DEF before
  <2> QED BY <1>1, EvictKeepsPart
<1>3. PartOk(after)
  <2> HIDE DEF part
  <2> QED BY <1>2, StoreKeepsPart
<1>4. cache' = Put(cache, p, after)
  BY DEF Inserted
<1>5. /\ DOMAIN after.entries = DOMAIN part.entries \cup {n}
      /\ after.entries[n] = e
      /\ \A m \in DOMAIN part.entries : m # n => after.entries[m] = part.entries[m]
  <2> HIDE DEF part
  <2> QED BY DEF Put
<1>6. \A m \in DOMAIN before.entries : p \in DOMAIN cache /\ before = cache[p]
  BY EmptyPartOk
<1> HIDE DEF before, part, after
<1>7. /\ DOMAIN cache' = DOMAIN cache \cup {p}
      /\ cache'[p] = after
      /\ \A q \in DOMAIN cache : q # p => cache'[q] = cache[q]
  BY <1>4 DEF Put
<1>8. \A m \in DOMAIN after.entries :
        \/ after.entries[m] = e
        \/ p \in DOMAIN cache /\ m \in DOMAIN cache[p].entries
             /\ after.entries[m] = cache[p].entries[m]
  BY <1>2, <1>5, <1>6
<1>9. \A q \in DOMAIN cache' : \A m \in DOMAIN cache'[q].entries :
        \/ q = p /\ cache'[q].entries[m] = e
        \/ q \in DOMAIN cache /\ m \in DOMAIN cache[q].entries
             /\ cache'[q].entries[m] = cache[q].entries[m]
  BY <1>7, <1>8
<1>10. TtlCapped'
  <2> SUFFICES ASSUME NEW q \in DOMAIN cache', NEW m \in DOMAIN cache'[q].entries
               PROVE  cache'[q].entries[m].expires - now
                        <= TtlCap(cache'[q].entries[m].answer)
    BY DEF TtlCapped, TtlCap
  <2> QED BY <1>9 DEF CacheInv, TtlCapped, TtlCap
<1>11. NoEntryOutlivesDrop'
  BY <1>9 DEF NoEntryOutlivesDrop
<1>12. DOMAIN cache' \subseteq Partition /\ \A q \in DOMAIN cache' : PartOk(cache'[q])
  BY <1>3, <1>7 DEF CacheInv
<1> QED BY <1>10, <1>11, <1>12 DEF CacheInv

\* Every step of a lookup, of the teardown and of the clock keeps the invariant.
LEMMA ResolveStepKeepsInv == ResolveIInv /\ [Next]_vars => ResolveIInv'
<1> SUFFICES ASSUME ResolveIInv, [Next]_vars PROVE ResolveIInv'
  OBVIOUS
<1> USE DEF ResolveIInv
<1>1. ASSUME UNCHANGED cacheVars PROVE CacheInv'
  BY <1>1 DEF cacheVars, CacheInv, TtlCapped
<1>2. ASSUME UNCHANGED <<cacheVars, drops>> PROVE NoEntryOutlivesDrop'
  BY <1>2 DEF cacheVars, NoEntryOutlivesDrop
<1>3. ASSUME UNCHANGED <<asking, drops>> PROVE CallsInv'
  BY <1>3 DEF CallsInv
<1>4. ASSUME UNCHANGED flightVars PROVE FlightIInv'
  BY <1>4, FlightNextKeepsInv
<1>5. ASSUME NEW c \in Caller, UNCHANGED drops, asking' = [asking EXCEPT ![c] = NoCall]
      PROVE  CallsInv'
  <2>1. asking \in [Caller -> Calls] /\ NoCall \in Calls
    BY DEF CallsInv, Calls
  <2>2. asking' \in [Caller -> Calls] /\ asking'[c] = NoCall
        /\ \A d \in Caller : d # c => asking'[d] = asking[d]
    BY <1>5, <2>1
  <2> QED BY <1>5, <2>2 DEF CallsInv, NoCall
<1>6. ASSUME SetResolver \/ RouteStep \/ CancelRequest \/ SwapManifest PROVE ResolveIInv'
  <2>1. UNCHANGED <<cacheVars, flightVars, asking, drops>>
    BY <1>6 DEF SetResolver, RouteStep, CancelRequest, SwapManifest, resolveVars
  <2> QED BY <1>1, <1>2, <1>3, <1>4, <2>1
<1>7. ASSUME NEW c \in Caller, NEW k \in Key, Lookup(c, k) PROVE ResolveIInv'
  <2>1. k[1] \in Partition /\ k[2] \in Name
    BY RequestAssumption
  <2>2. CacheInv' /\ NoEntryOutlivesDrop'
    BY <1>7, <2>1, GetKeeps DEF Lookup
  <2>3. FlightIInv'
    BY <1>4, <1>7 DEF Lookup
  <2> DEFINE call == [stage |-> "missed", teardown |-> drops[k[1]], key |-> k]
  <2>4. asking' = [asking EXCEPT ![c] = NoCall] \/ asking' = [asking EXCEPT ![c] = call]
    BY <1>7 DEF Lookup
  <2>5. CASE asking' = [asking EXCEPT ![c] = call]
    <3>1. asking \in [Caller -> Calls] /\ drops[k[1]] \in Nat
      BY <2>1 DEF CallsInv
    <3>2. call \in Calls /\ call.stage = "missed" /\ call.teardown = drops[call.key[1]]
      BY <3>1 DEF Calls
    <3> HIDE DEF call
    <3>3. asking' \in [Caller -> Calls] /\ asking'[c] = call
          /\ \A d \in Caller : d # c => asking'[d] = asking[d]
      BY <2>5, <3>1, <3>2
    <3>4. drops' = drops
      BY <1>7 DEF Lookup
    <3>5. CallsInv'
      BY <3>2, <3>3, <3>4 DEF CallsInv
    <3> QED BY <2>2, <2>3, <3>5
  <2>6. CASE asking' = [asking EXCEPT ![c] = NoCall]
    BY <1>5, <1>7, <2>2, <2>3, <2>6 DEF Lookup
  <2> QED BY <2>4, <2>5, <2>6
<1>8. ASSUME NEW c \in Caller, CallResolver(c) PROVE ResolveIInv'
  <2>1. asking[c].stage = "missed" /\ asking[c].key \in Key
    BY <1>8, CallKey DEF CallResolver
  <2>2. FlightIInv'
    BY <1>8, <2>1, FlightNextKeepsInv DEF CallResolver, FlightNext
  <2>3. CacheInv' /\ NoEntryOutlivesDrop'
    BY <1>1, <1>2, <1>8 DEF CallResolver
  <2>4. asking[c] \in [stage : {"missed", "resolving"}, teardown : Nat, key : Key]
        /\ asking \in [Caller -> Calls]
    BY <2>1 DEF CallsInv, Calls, NoCall
  <2> DEFINE call == [asking[c] EXCEPT !.stage = "resolving"]
  <2>5. call \in Calls /\ call.teardown = asking[c].teardown /\ call.key = asking[c].key
    BY <2>4 DEF Calls
  <2>6. asking' = [asking EXCEPT ![c] = call] /\ drops' = drops
    BY <1>8 DEF CallResolver
  <2> HIDE DEF call
  <2>7. asking' \in [Caller -> Calls] /\ asking'[c] = call
        /\ \A d \in Caller : d # c => asking'[d] = asking[d]
    BY <2>4, <2>5, <2>6
  <2>8. asking[c].teardown = drops[asking[c].key[1]]
    BY <2>1, CallKey
  <2>9. CallsInv'
    BY <2>5, <2>6, <2>7, <2>8 DEF CallsInv
  <2> QED BY <2>2, <2>3, <2>9
<1>9. ASSUME NEW c \in Caller, Finish(c) PROVE ResolveIInv'
  <2> DEFINE k == asking[c].key
             o == answer[c].value
  <2>1. /\ asking[c].stage = "resolving" /\ phase[c] = "returned"
        /\ k[1] \in Partition /\ k[2] \in Name
        /\ asking[c].teardown = drops[k[1]] /\ asking[c].teardown \in Nat
    BY <1>9, CallKey DEF Finish, Return
  <2>2. answer[c] \in [from : Key, value : Outcome]
    BY <2>1 DEF FlightIInv, FlightTypeOK, AnswersFollowPhase, Answer
  <2>3. o \in Outcome
    BY <2>2
  <2>4. o.kind \in {"Positive", "NxDomain", "Failed"} /\ o.ttl \in Nat
    BY <2>3, RequestAssumption
  <2>5. cache' = Cached(k, o, asking[c].teardown) /\ UNCHANGED <<now, drops>>
    BY <1>9 DEF Finish
  <2> HIDE DEF k, o
  <2>6. CacheInv' /\ NoEntryOutlivesDrop'
    <3>1. CASE o.kind = "Failed"
      BY <1>1, <1>2, <2>5, <3>1 DEF Cached, cacheVars
    <3>2. CASE o.kind # "Failed"
      <4> DEFINE e == NewEntry(o.kind, o.ttl, asking[c].teardown)
      <4>1. /\ e \in Entry /\ e.expires - now <= TtlCap(e.answer)
            /\ e.teardown = drops[k[1]]
        BY <2>1, <2>4, <3>2, NewEntryFacts DEF CacheInv
      <4>2. cache' = Inserted(k[1], k[2], e)
        BY <2>5, <3>2 DEF Cached
      <4> HIDE DEF e
      <4> QED BY <2>1, <2>5, <4>1, <4>2, InsertKeeps
    <3> QED BY <3>1, <3>2
  <2>7. FlightIInv'
    BY <1>9, FlightNextKeepsInv DEF Finish, FlightNext
  <2>8. CallsInv'
    BY <1>5, <1>9 DEF Finish
  <2> QED BY <2>6, <2>7, <2>8
<1>10. ASSUME NEW c \in Caller, DropResolve(c) PROVE ResolveIInv'
  <2>1. FlightIInv'
    BY <1>10, FlightNextKeepsInv DEF DropResolve, FlightNext
  <2> QED BY <1>1, <1>2, <1>5, <1>10, <2>1 DEF DropResolve
<1>11. CASE ResolverStep
  <2>1. FlightIInv'
    BY <1>11, FlightNextKeepsInv DEF ResolverStep, FlightNext
  <2> QED BY <1>1, <1>2, <1>3, <1>11, <2>1 DEF ResolverStep, resolveVars
<1>12. CASE TimePasses
  <2>1. now' = now + 1 /\ cache' = cache
        /\ UNCHANGED <<flightVars, asking, drops>>
    BY <1>12 DEF TimePasses, Tick, resolveVars
  <2>2. NoEntryOutlivesDrop'
    BY <2>1 DEF NoEntryOutlivesDrop
  <2>3. \A p \in DOMAIN cache : \A n \in DOMAIN cache[p].entries :
          cache[p].entries[n].expires \in Nat
    BY DEF CacheInv, PartOk, IsMap, Entry
  <2>4. now' \in Nat /\ TtlCapped'
    <3> SUFFICES ASSUME NEW p \in DOMAIN cache, NEW n \in DOMAIN cache[p].entries
                 PROVE  cache[p].entries[n].expires - (now + 1)
                          <= TtlCap(cache[p].entries[n].answer)
      BY <2>1 DEF TtlCapped, TtlCap, CacheInv
    <3>1. cache[p].entries[n].expires - now <= TtlCap(cache[p].entries[n].answer)
      BY DEF CacheInv, TtlCapped, TtlCap
    <3>2. cache[p].entries[n].expires \in Nat /\ now \in Nat
          /\ TtlCap(cache[p].entries[n].answer) \in Nat
      BY <2>3, CacheAssumption DEF CacheInv, TtlCap
    <3> QED BY <3>1, <3>2
  <2>5. CacheInv'
    BY <2>1, <2>4 DEF CacheInv
  <2> QED BY <1>3, <1>4, <2>1, <2>2, <2>5
<1>13. ASSUME NEW p \in Partition, DropPartition(p) PROVE ResolveIInv'
  <2>1. cache' = Without(cache, p) /\ drops' = [drops EXCEPT ![p] = @ + 1]
        /\ UNCHANGED <<now, flightVars, asking>>
    BY <1>13 DEF DropPartition, resolveVars
  <2>2. /\ DOMAIN cache' = DOMAIN cache \ {p}
        /\ \A q \in DOMAIN cache' : cache'[q] = cache[q]
    BY <2>1 DEF Without, Restrict
  <2>3. CacheInv'
    <3>1. TtlCapped'
      BY <2>1, <2>2 DEF CacheInv, TtlCapped
    <3> QED BY <2>1, <2>2, <3>1 DEF CacheInv
  <2>4. drops' \in [Partition -> Nat] /\ \A q \in Partition : q # p => drops'[q] = drops[q]
    BY <2>1 DEF CallsInv
  <2>5. NoEntryOutlivesDrop'
    BY <2>2, <2>4 DEF CacheInv, NoEntryOutlivesDrop
  <2>6. CallsInv'
    BY <1>13, <2>1, <2>4 DEF DropPartition, Exclusive, Idle, CallsInv
  <2> QED BY <1>4, <2>1, <2>3, <2>5, <2>6
<1>14. CASE UNCHANGED vars
  <2>1. UNCHANGED <<cacheVars, flightVars, asking, drops>>
    BY <1>14 DEF vars, resolveVars
  <2> QED BY <1>1, <1>2, <1>3, <1>4, <2>1
<1> QED BY <1>6, <1>7, <1>8, <1>9, <1>10, <1>11, <1>12, <1>13, <1>14 DEF Next

\* The cache, the flights and the lookups agree, for every order of lookups and teardowns.
THEOREM ResolveInvariant == Spec => []ResolveIInv
<1> QED BY ResolveInitInv, ResolveStepKeepsInv, PTL DEF Spec

\* Partition teardown is final: whatever resolutions raced with drop_partition, no answer
\* asked for before it is in the cache after it.
THEOREM NoEntryOutlivesDropHolds == Spec => []NoEntryOutlivesDrop
<1>1. ResolveIInv => NoEntryOutlivesDrop
  BY DEF ResolveIInv
<1> QED BY <1>1, ResolveInvariant, PTL

-----------------------------------------------------------------------------
(* The egress map: what is evicted is the least recently used.             *)

\* s is the recent end of t.
EndsIn(s, t) ==
  /\ Len(s) <= Len(t)
  /\ \A i \in 1..Len(s) : s[i] = t[Len(t) - Len(s) + i]

\* The blocklist's test for an end, as the suffix it looks for.
LEMMA EndsInIsSuffix ==
  ASSUME NEW S, NEW s \in Seq(S), NEW t \in Seq(S), EndsIn(s, t)
  PROVE  IsSuffix(s, t)
<1> DEFINE rs == Reverse(s)
           rt == Reverse(t)
<1>1. /\ rs \in Seq(S) /\ Len(rs) = Len(s)
      /\ \A i \in 1..Len(s) : rs[i] = s[Len(s) - i + 1]
  BY DEF Reverse
<1>2. /\ rt \in Seq(S) /\ Len(rt) = Len(t)
      /\ \A i \in 1..Len(t) : rt[i] = t[Len(t) - i + 1]
  BY DEF Reverse
<1>3. PICK m \in Nat, n \in Nat : m = Len(s) /\ n = Len(t) /\ m <= n
  BY DEF EndsIn
<1> HIDE DEF rs, rt
<1>4. ASSUME NEW i \in 1..m PROVE rs[i] = rt[i]
  <2>1. m - i + 1 \in 1..m /\ n - m + (m - i + 1) = n - i + 1 /\ i \in 1..n
    BY <1>3
  <2>2. s[m - i + 1] = t[n - i + 1]
    BY <1>3, <2>1 DEF EndsIn
  <2> QED BY <1>1, <1>2, <1>3, <2>1, <2>2
<1>5. /\ SubSeq(rs, 1, m) \in Seq(S) /\ Len(SubSeq(rs, 1, m)) = m
      /\ \A i \in 1..m : SubSeq(rs, 1, m)[i] = rs[i]
  BY <1>1, <1>3
<1>6. /\ SubSeq(rt, 1, m) \in Seq(S) /\ Len(SubSeq(rt, 1, m)) = m
      /\ \A i \in 1..m : SubSeq(rt, 1, m)[i] = rt[i]
  BY <1>2, <1>3
<1>7. SubSeq(rs, 1, m) = SubSeq(rt, 1, m)
  <2>1. \A i \in 1..m : SubSeq(rs, 1, m)[i] = SubSeq(rt, 1, m)[i]
    BY <1>4, <1>5, <1>6
  <2> QED BY <1>5, <1>6, <2>1, SeqEqual
<1> QED BY <1>1, <1>2, <1>3, <1>7 DEF IsSuffix, IsPrefix, rs, rt

\* Forgetting one key on both sides.
LEMMA EndsInRemove ==
  ASSUME NEW S, NEW s \in Seq(S), NEW t \in Seq(S), IsInjective(t), EndsIn(s, t), NEW e
  PROVE  EndsIn(RemoveFirst(s, e), RemoveFirst(t, e))
<1>1. PICK m \in Nat, n \in Nat : m = Len(s) /\ n = Len(t) /\ m <= n
  BY DEF EndsIn
<1>2. \A i \in 1..m : s[i] = t[n - m + i]
  BY <1>1 DEF EndsIn
<1>3. \A i, j \in 1..n : t[i] = t[j] => i = j
  BY <1>1 DEF IsInjective
<1>4. CASE e \notin ToSet(t)
  <2>1. e \notin ToSet(s)
    <3> SUFFICES ASSUME NEW i \in 1..m, s[i] = e PROVE FALSE
      BY <1>1 DEF ToSet
    <3>1. n - m + i \in 1..n /\ t[n - m + i] = e
      BY <1>1, <1>2
    <3> QED BY <1>1, <1>4, <3>1 DEF ToSet
  <2> QED BY <1>4, <2>1, RemoveFirstIs
<1>5. CASE e \in ToSet(t)
  <2>1. PICK j \in 1..n : t[j] = e /\ RemoveFirst(t, e) = RemoveAt(t, j)
    BY <1>1, <1>5, RemoveFirstIs
  <2>2. PICK r : /\ r = RemoveAt(t, j) /\ Len(r) = n - 1
                 /\ \A i \in 1..(n - 1) : r[i] = IF i < j THEN t[i] ELSE t[i + 1]
    BY <1>1, RemoveAtIs
  <2>3. CASE e \notin ToSet(s)
    <3>1. RemoveFirst(s, e) = s
      BY <2>3, RemoveFirstIs
    <3>2. ~(j > n - m)
      <4> SUFFICES ASSUME j > n - m PROVE FALSE
        OBVIOUS
      <4>1. j - (n - m) \in 1..m /\ n - m + (j - (n - m)) = j
        BY <1>1
      <4>2. s[j - (n - m)] = e
        BY <1>2, <2>1, <4>1
      <4> QED BY <1>1, <2>3, <4>1, <4>2 DEF ToSet
    <3>3. m <= n - 1
      BY <1>1, <3>2
    <3>4. ASSUME NEW i \in 1..m PROVE s[i] = r[n - 1 - m + i]
      <4>1. /\ n - 1 - m + i \in 1..(n - 1) /\ ~(n - 1 - m + i < j)
            /\ n - 1 - m + i + 1 = n - m + i
        BY <1>1, <3>2, <3>3
      <4> QED BY <1>2, <2>2, <4>1
    <3> QED BY <1>1, <2>1, <2>2, <3>1, <3>3, <3>4 DEF EndsIn
  <2>4. CASE e \in ToSet(s)
    <3>1. PICK k \in 1..m : s[k] = e /\ RemoveFirst(s, e) = RemoveAt(s, k)
      BY <1>1, <2>4, RemoveFirstIs
    <3>2. PICK q : /\ q = RemoveAt(s, k) /\ Len(q) = m - 1
                   /\ \A i \in 1..(m - 1) : q[i] = IF i < k THEN s[i] ELSE s[i + 1]
      BY <1>1, RemoveAtIs
    <3>3. j = n - m + k
      <4>1. n - m + k \in 1..n /\ t[n - m + k] = e
        BY <1>1, <1>2, <3>1
      <4> QED BY <1>3, <2>1, <4>1
    <3>4. ASSUME NEW i \in 1..(m - 1) PROVE q[i] = r[(n - 1) - (m - 1) + i]
      <4>1. (n - 1) - (m - 1) + i = n - m + i /\ n - m + i \in 1..(n - 1)
        BY <1>1
      <4>2. CASE i < k
        <5>1. n - m + i < j /\ i \in 1..m
          BY <1>1, <3>3, <4>2
        <5> QED BY <1>2, <2>2, <3>2, <4>1, <4>2, <5>1
      <4>3. CASE ~(i < k)
        <5>1. ~(n - m + i < j) /\ i + 1 \in 1..m /\ n - m + (i + 1) = n - m + i + 1
          BY <1>1, <3>3, <4>3
        <5> QED BY <1>2, <2>2, <3>2, <4>1, <4>3, <5>1
      <4> QED BY <4>2, <4>3
    <3>5. m - 1 <= n - 1
      BY <1>1
    <3> QED BY <2>1, <2>2, <3>1, <3>2, <3>4, <3>5 DEF EndsIn
  <2> QED BY <2>3, <2>4
<1> QED BY <1>4, <1>5

\* Using one key on both sides.
LEMMA EndsInAppend ==
  ASSUME NEW S, NEW s \in Seq(S), NEW t \in Seq(S), EndsIn(s, t), NEW e \in S
  PROVE  EndsIn(Append(s, e), Append(t, e))
<1>1. PICK m \in Nat, n \in Nat : m = Len(s) /\ n = Len(t) /\ m <= n
  BY DEF EndsIn
<1> DEFINE a == Append(s, e)
           b == Append(t, e)
<1>2. Len(a) = m + 1 /\ a[m + 1] = e /\ \A i \in 1..m : a[i] = s[i]
  BY <1>1, AppendProperties
<1>3. Len(b) = n + 1 /\ b[n + 1] = e /\ \A i \in 1..n : b[i] = t[i]
  BY <1>1, AppendProperties
<1> HIDE DEF a, b
<1>4. ASSUME NEW i \in 1..(m + 1) PROVE a[i] = b[(n + 1) - (m + 1) + i]
  <2>1. CASE i = m + 1
    <3>1. (n + 1) - (m + 1) + i = n + 1
      BY <1>1, <2>1
    <3> QED BY <1>2, <1>3, <2>1, <3>1
  <2>2. CASE i # m + 1
    <3>1. i \in 1..m /\ (n + 1) - (m + 1) + i = n - m + i /\ n - m + i \in 1..n
      BY <1>1, <2>2
    <3>2. s[i] = t[n - m + i]
      BY <1>1, <3>1 DEF EndsIn
    <3> QED BY <1>2, <1>3, <3>1, <3>2
  <2> QED BY <2>1, <2>2
<1>5. m + 1 <= n + 1
  BY <1>1
<1> QED BY <1>2, <1>3, <1>4, <1>5 DEF EndsIn, a, b

\* Popping the front of the shorter one.
LEMMA EndsInTail ==
  ASSUME NEW S, NEW s \in Seq(S), NEW t \in Seq(S), s # <<>>, EndsIn(s, t)
  PROVE  EndsIn(Tail(s), t)
<1>1. PICK m \in Nat, n \in Nat : m = Len(s) /\ n = Len(t) /\ m <= n /\ m >= 1
  BY EmptySeq DEF EndsIn
<1> DEFINE a == Tail(s)
<1>2. Len(a) = m - 1 /\ \A i \in 1..(m - 1) : a[i] = s[i + 1]
  BY <1>1, HeadTailProperties
<1> HIDE DEF a
<1>3. ASSUME NEW i \in 1..(m - 1) PROVE a[i] = t[n - (m - 1) + i]
  <2>1. i + 1 \in 1..m /\ n - m + (i + 1) = n - (m - 1) + i
    BY <1>1
  <2> QED BY <1>1, <1>2, <2>1 DEF EndsIn
<1>4. m - 1 <= n
  BY <1>1
<1> QED BY <1>1, <1>2, <1>3, <1>4 DEF EndsIn, a

\* What is left of an order when its oldest member goes.
LEMMA TailFacts ==
  ASSUME NEW S, NEW s \in Seq(S), IsInjective(s), s # <<>>
  PROVE  /\ Tail(s) \in Seq(S) /\ IsInjective(Tail(s))
         /\ ToSet(Tail(s)) = ToSet(s) \ {Head(s)}
         /\ Len(Tail(s)) = Len(s) - 1
<1> DEFINE t == Tail(s)
<1>1. /\ t \in Seq(S) /\ Len(t) = Len(s) - 1 /\ Len(s) >= 1 /\ Head(s) = s[1]
      /\ \A i \in 1..(Len(s) - 1) : t[i] = s[i + 1]
  BY HeadTailProperties, EmptySeq
<1> HIDE DEF t
<1>2. IsInjective(t)
  <2>1. DOMAIN t = 1..(Len(s) - 1) /\ DOMAIN s = 1..Len(s) /\ Len(s) \in Nat
    BY <1>1
  <2>2. /\ \A i \in 1..(Len(s) - 1) : i + 1 \in 1..Len(s)
        /\ \A i, j \in 1..(Len(s) - 1) : i + 1 = j + 1 => i = j
    BY <2>1
  <2>3. \A i, j \in 1..Len(s) : s[i] = s[j] => i = j
    BY <2>1, Zenon DEF IsInjective
  <2>4. ASSUME NEW i \in DOMAIN t, NEW j \in DOMAIN t, t[i] = t[j] PROVE i = j
    <3>1. s[i + 1] = s[j + 1]
      BY <1>1, <2>1, <2>4, Zenon
    <3> QED BY <2>1, <2>2, <2>3, <3>1, Zenon
  <2> QED BY <2>4, Zenon DEF IsInjective
<1>3. ASSUME NEW i \in 1..Len(t) PROVE t[i] \in ToSet(s) \ {Head(s)}
  <2>1. i + 1 \in 1..Len(s) /\ i + 1 # 1 /\ t[i] = s[i + 1] /\ 1 \in 1..Len(s)
    BY <1>1
  <2> QED BY <1>1, <2>1 DEF ToSet, IsInjective
<1>4. ASSUME NEW j \in 1..Len(s), s[j] # Head(s) PROVE s[j] \in ToSet(t)
  <2>1. j - 1 \in 1..Len(t) /\ t[j - 1] = s[j]
    BY <1>1, <1>4
  <2> QED BY <1>1, <2>1 DEF ToSet
<1>5. ToSet(t) = ToSet(s) \ {Head(s)}
  <2>1. \A x \in ToSet(t) : \E i \in 1..Len(t) : x = t[i]
    BY <1>1 DEF ToSet
  <2>2. \A x \in ToSet(s) : \E i \in 1..Len(s) : x = s[i]
    BY DEF ToSet
  <2> QED BY <1>3, <1>4, <2>1, <2>2
<1> QED BY <1>1, <1>2, <1>5 DEF t

\* Map and queue hold the same partitions, each once, within the cap, and the queue is the
\* recent end of the history of routed partitions.
LruInv(e, recent) ==
  /\ e = [map |-> e.map, order |-> e.order]
  /\ e.order \in Seq(Partition) /\ recent \in Seq(Partition)
  /\ IsInjective(e.order) /\ IsInjective(recent)
  /\ ToSet(e.order) = e.map
  /\ Len(e.order) <= MaxPartitions
  /\ EndsIn(e.order, recent)

\* Dropping a partition leaves the stores and the order of the others.
LEMMA DropKeepsLru ==
  ASSUME NEW e, NEW recent, LruInv(e, recent), NEW p \in Partition
  PROVE  LruInv(Removed(e, p), Dropped(recent, p))
<1> DEFINE s == RemoveFirst(e.order, p)
           t == RemoveFirst(recent, p)
<1>1. /\ s \in Seq(Partition) /\ IsInjective(s) /\ ToSet(s) = ToSet(e.order) \ {p}
      /\ Len(s) <= Len(e.order)
  BY RemoveFirstFacts DEF LruInv
<1>2. t \in Seq(Partition) /\ IsInjective(t)
  BY RemoveFirstFacts DEF LruInv
<1>3. EndsIn(s, t)
  BY EndsInRemove DEF LruInv
<1>4. Len(s) <= MaxPartitions
  BY <1>1, EgressAssumption DEF LruInv
<1>5. Removed(e, p) = [map |-> e.map \ {p}, order |-> s] /\ Dropped(recent, p) = t
  BY DEF Removed, Dropped
<1>6. ToSet(s) = e.map \ {p}
  BY <1>1 DEF LruInv
<1> HIDE DEF s, t
<1> QED BY <1>1, <1>2, <1>3, <1>4, <1>5, <1>6 DEF LruInv

\* get_or_insert_default: a hit moves to the back, a miss goes there, in a full queue in
\* place of the front.
LEMMA UseKeepsLru ==
  ASSUME NEW e, NEW recent, LruInv(e, recent), NEW p \in Partition
  PROVE  LruInv(GetOrInsert(e, p), Append(Dropped(recent, p), p))
<1> DEFINE s == RemoveFirst(e.order, p)
           t == RemoveFirst(recent, p)
<1>1. /\ s \in Seq(Partition) /\ IsInjective(s) /\ ToSet(s) = e.map \ {p}
      /\ p \in e.map => Len(s) = Len(e.order) - 1
      /\ p \notin e.map => s = e.order
  <2>1. p \in e.map => Len(s) = Len(e.order) - 1
    BY RemoveFirstIs, RemoveAtIs DEF LruInv
  <2> QED BY <2>1, RemoveFirstFacts, RemoveFirstIs DEF LruInv
<1>2. t \in Seq(Partition) /\ IsInjective(t) /\ p \notin ToSet(t)
  BY RemoveFirstFacts DEF LruInv
<1>3. EndsIn(s, t)
  BY EndsInRemove DEF LruInv
<1>4. Dropped(recent, p) = t
  BY DEF Dropped
<1>5. /\ e.order \in Seq(Partition) /\ IsInjective(e.order) /\ ToSet(e.order) = e.map
      /\ Len(e.order) <= MaxPartitions /\ MaxPartitions \in Nat \ {0}
      /\ e = [map |-> e.map, order |-> e.order]
  BY EgressAssumption DEF LruInv
<1> HIDE DEF s, t
<1>6. Append(t, p) \in Seq(Partition) /\ IsInjective(Append(t, p))
  BY <1>2, AppendNew
<1>7. ASSUME NEW q \in Seq(Partition), IsInjective(q), p \notin ToSet(q),
             Len(q) < MaxPartitions, EndsIn(q, t),
             GetOrInsert(e, p) = [map |-> ToSet(q) \cup {p}, order |-> Append(q, p)]
      PROVE  LruInv(GetOrInsert(e, p), Append(t, p))
  <2>1. /\ Append(q, p) \in Seq(Partition) /\ IsInjective(Append(q, p))
        /\ ToSet(Append(q, p)) = ToSet(q) \cup {p} /\ Len(Append(q, p)) <= MaxPartitions
    BY <1>5, <1>7, AppendNew
  <2>2. EndsIn(Append(q, p), Append(t, p))
    BY <1>2, <1>7, EndsInAppend
  <2> QED BY <1>6, <1>7, <2>1, <2>2 DEF LruInv
<1>8. CASE p \in e.map
  <2>1. GetOrInsert(e, p) = [map |-> ToSet(s) \cup {p}, order |-> Append(s, p)]
    <3>1. GetOrInsert(e, p) = [e EXCEPT !.order = Append(s, p)]
      BY <1>5, <1>8 DEF GetOrInsert, TouchToBack, Dropped, s
    <3> QED BY <1>1, <1>5, <1>8, <3>1
  <2>2. Len(s) < MaxPartitions /\ p \notin ToSet(s)
    BY <1>1, <1>5, <1>8
  <2> QED BY <1>1, <1>3, <1>4, <1>7, <2>1, <2>2
<1>9. CASE p \notin e.map /\ Len(e.order) >= MaxPartitions
  <2>1. e.order # <<>>
    BY <1>5, <1>9
  <2> DEFINE q == Tail(e.order)
  <2>2. /\ q \in Seq(Partition) /\ IsInjective(q)
        /\ ToSet(q) = e.map \ {Head(e.order)} /\ Len(q) < MaxPartitions
    BY <1>5, <2>1, TailFacts
  <2>3. GetOrInsert(e, p) = [map |-> ToSet(q) \cup {p}, order |-> Append(q, p)]
    BY <1>9, <2>2 DEF GetOrInsert
  <2>4. EndsIn(q, t)
    BY <1>1, <1>2, <1>3, <1>5, <1>9, <2>1, EndsInTail
  <2>5. p \notin ToSet(q)
    BY <1>9, <2>2
  <2> HIDE DEF q
  <2> QED BY <1>4, <1>7, <2>2, <2>3, <2>4, <2>5
<1>10. CASE p \notin e.map /\ ~(Len(e.order) >= MaxPartitions)
  <2>1. GetOrInsert(e, p) = [map |-> ToSet(e.order) \cup {p}, order |-> Append(e.order, p)]
    BY <1>5, <1>10 DEF GetOrInsert
  <2>2. Len(e.order) < MaxPartitions /\ EndsIn(e.order, t)
    BY <1>1, <1>3, <1>5, <1>10
  <2> QED BY <1>4, <1>5, <1>7, <1>10, <2>1, <2>2
<1> QED BY <1>8, <1>9, <1>10

-----------------------------------------------------------------------------
(* The route pipeline: what each step has established of the call.         *)

RouteShape(r) ==
  r = [stage |-> r.stage, req |-> r.req, url |-> r.url, headers |-> r.headers,
       start |-> r.start, hostRules |-> r.hostRules, stripRules |-> r.stripRules]

Permitted(req) == req.url.scheme = "https" \/ (req.url.scheme = "http" /\ req.approved)

Unblocked(r) ==
  /\ ParseHost(r.req.url) # <<>>
  /\ MatchTree(FromRules(HostRules[r.hostRules]), ParseHost(r.req.url)) = "none"

Scrubbed(r) ==
  r.headers = Scrub(HeaderPolicyFor(r.req.mode), r.req.origin, r.url, r.req.headers)

\* What is known of a call at its stage, and of the request it returned.
OnItsWay(r) ==
  /\ RouteShape(r)
  /\ r.stage \in RouteStage \cup {"sent"}
  /\ r.req \in Request /\ r.req.derived = r.req.declared
  /\ r.start \in Version /\ r.hostRules \in Version /\ r.stripRules \in Version
  /\ r.start <= r.hostRules
  /\ r.stage # "authorized" => Permitted(r.req)
  /\ r.stage \in {"allowed", "stripped", "scrubbed", "sent"} => Unblocked(r)
  /\ r.stage \in {"authorized", "secure", "allowed"} => r.url = r.req.url
  /\ r.stage \in {"scrubbed", "sent"} => Scrubbed(r)
  /\ r.stage \in {"stripped", "scrubbed", "sent"} =>
       /\ r.hostRules <= r.stripRules
       /\ r.url = StripTrackingParams(r.req.url, StripRules[r.stripRules])

EventOk ==
  event # NoEvent =>
    /\ event.version \in Version
    /\ event.host # <<>>
    /\ \E req \in Request : event.host = ParseHost(req.url)
    /\ event.kind = MatchTree(FromRules(HostRules[event.version]), event.host)
    /\ event.kind # "none"

RouteIInv ==
  /\ live \in Version
  /\ LruInv(egress, recency)
  /\ route.stage # "none" =>
       /\ OnItsWay(route) /\ route.stage \in RouteStage
       /\ route.hostRules <= live
  /\ sent # NoRoute => OnItsWay(sent) /\ sent.stage = "sent"
  /\ EventOk

\* The coordinator starts with empty stores and no requests.
LEMMA RouteInitInv == Init => RouteIInv
<1> SUFFICES ASSUME Init PROVE RouteIInv
  OBVIOUS
<1>1. live \in Version
  BY VersionAssumption DEF Init, BlocklistInit, Version
<1>2. LruInv(egress, recency)
  <2>1. egress = [map |-> {}, order |-> <<>>] /\ recency = <<>>
    BY DEF Init, EmptyLru
  <2>2. <<>> \in Seq(Partition) /\ Len(<<>>) = 0 /\ DOMAIN <<>> = {}
    OBVIOUS
  <2>3. IsInjective(<<>>) /\ ToSet(<<>>) = {} /\ EndsIn(<<>>, <<>>)
    BY DEF IsInjective, ToSet, EndsIn
  <2> QED BY <2>1, <2>2, <2>3, EgressAssumption DEF LruInv
<1>3. route.stage = "none" /\ sent = NoRoute /\ event = NoEvent
  BY DEF Init, NoRoute
<1> QED BY <1>1, <1>2, <1>3 DEF RouteIInv, EventOk

\* Every handler of the coordinator keeps the invariant.
LEMMA RouteStepKeepsInv == RouteIInv /\ [Next]_vars => RouteIInv'
<1> SUFFICES ASSUME RouteIInv, [Next]_vars PROVE RouteIInv'
  OBVIOUS
<1> USE DEF RouteIInv
<1>1. ASSUME UNCHANGED <<egress, recency, live>> PROVE LruInv(egress, recency)' /\ live' \in Version
  BY <1>1 DEF LruInv, EndsIn
<1>2. ASSUME UNCHANGED event PROVE EventOk'
  BY <1>2 DEF EventOk
<1>3. ASSUME UNCHANGED sent
      PROVE  sent' # NoRoute => OnItsWay(sent)' /\ (sent.stage = "sent")'
  BY <1>3 DEF OnItsWay, RouteShape, Unblocked, Permitted, Scrubbed
<1>4. ASSUME route'.stage = "none" \/ UNCHANGED route, UNCHANGED <<egress, recency, sent, event>>,
             live' \in Version, live <= live'
      PROVE  RouteIInv'
  <2>1. LruInv(egress, recency)'
    BY <1>4 DEF LruInv, EndsIn
  <2>2. CASE route'.stage = "none"
    BY <1>2, <1>3, <1>4, <2>1, <2>2
  <2>3. CASE route'.stage # "none" /\ UNCHANGED route
    <3>1. OnItsWay(route)' /\ route'.stage \in RouteStage
      BY <2>3 DEF OnItsWay, RouteShape, Unblocked, Permitted, Scrubbed
    <3>2. route'.hostRules <= live'
      BY <1>4, <2>3 DEF OnItsWay, Version
    <3> QED BY <1>2, <1>3, <1>4, <2>1, <3>1, <3>2
  <2> QED BY <1>4, <2>2, <2>3
<1>5. CASE \/ SetResolver \/ ResolverStep \/ TimePasses \/ CancelRequest
           \/ \E c \in Caller :
                (\E k \in Key : Lookup(c, k)) \/ CallResolver(c) \/ Finish(c) \/ DropResolve(c)
  <2>1. UNCHANGED <<egress, route, sent, event, recency, live>>
    BY <1>5 DEF SetResolver, ResolverStep, TimePasses, CancelRequest, Lookup, CallResolver,
       Finish, DropResolve, routeVars
  <2>2. live' \in Version /\ live <= live'
    BY <2>1 DEF Version
  <2> QED BY <1>4, <2>1, <2>2
<1>6. CASE SwapManifest
  <2>1. live' \in Version /\ live <= live' /\ UNCHANGED <<egress, route, sent, event, recency>>
    BY <1>6 DEF SwapManifest, Swap, Version, routeVars
  <2> QED BY <1>4, <2>1
<1>7. ASSUME NEW p \in Partition, DropPartition(p) PROVE RouteIInv'
  <2>1. /\ egress' = Removed(egress, p) /\ recency' = Dropped(recency, p)
        /\ route.stage = "none" /\ UNCHANGED <<route, sent, event, live>>
    BY <1>7 DEF DropPartition, Exclusive
  <2>2. LruInv(egress', recency')
    BY <2>1, DropKeepsLru
  <2> QED BY <1>2, <1>3, <2>1, <2>2
<1>8. ASSUME NEW req \in Request, RouteStart(req), UNCHANGED <<egress, recency, live>>
      PROVE  RouteIInv'
  <2>1. sent' = NoRoute /\ event' = NoEvent
    BY <1>8 DEF RouteStart
  <2>2. CASE route' = NoRoute
    BY <1>1, <1>8, <2>1, <2>2 DEF NoRoute, EventOk
  <2>3. CASE route' # NoRoute
    <3>1. /\ req.derived = req.declared
          /\ route' = [stage |-> "authorized", req |-> req, url |-> req.url, headers |-> <<>>,
                       start |-> live, hostRules |-> live, stripRules |-> live]
      BY <1>8, <2>3 DEF RouteStart
    <3>2. live <= live /\ live \in Version
      BY DEF Version
    <3>3. OnItsWay(route') /\ route'.stage = "authorized" /\ route'.hostRules = live
      BY <3>1, <3>2 DEF OnItsWay, RouteShape, RouteStage
    <3> QED BY <1>1, <1>8, <2>1, <3>2, <3>3 DEF EventOk, RouteStage
  <2> QED BY <2>2, <2>3
<1>9. CASE EnforceHttpsOnly /\ UNCHANGED <<egress, recency, sent, event, live>>
  <2>1. CASE route' = NoRoute
    BY <1>1, <1>2, <1>3, <1>9, <2>1 DEF NoRoute
  <2>2. CASE route' # NoRoute
    <3>1. /\ route.stage = "authorized" /\ OnItsWay(route)
          /\ route' = [route EXCEPT !.stage = "secure"]
          /\ route.url.scheme = "https" \/ (route.url.scheme = "http" /\ route.req.approved)
      BY <1>9, <2>2 DEF EnforceHttpsOnly, GoOn
    <3>2. route' = [stage |-> "secure", req |-> route.req, url |-> route.url,
                    headers |-> route.headers, start |-> route.start,
                    hostRules |-> route.hostRules, stripRules |-> route.stripRules]
      BY <3>1 DEF OnItsWay, RouteShape
    <3>3. OnItsWay(route') /\ route'.stage \in RouteStage
          /\ route'.hostRules = route.hostRules
      BY <3>1, <3>2 DEF OnItsWay, RouteShape, RouteStage, Permitted
    <3> QED BY <1>1, <1>2, <1>3, <1>9, <3>1, <3>3
  <2> QED BY <2>1, <2>2
<1>10. CASE MatchBlocklist /\ UNCHANGED <<egress, recency, sent, live>>
  <2>1. route.stage = "secure" /\ OnItsWay(route) /\ route.url = route.req.url
    BY <1>10 DEF MatchBlocklist, OnItsWay
  <2>2. HostRules[live] = HostRules[live'] /\ live \in Version /\ live <= live
    BY <1>10 DEF Version
  <2> DEFINE host == ParseHost(route.url)
             kind == MatchHost(host)
  <2>3. CASE host = <<>>
    BY <1>1, <1>2, <1>3, <1>10, <2>3 DEF MatchBlocklist, NoRoute
  <2>4. CASE host # <<>> /\ kind = "none"
    <3>1. route' = [route EXCEPT !.stage = "allowed", !.hostRules = live] /\ event' = event
      BY <1>10, <2>4 DEF MatchBlocklist
    <3>2. route' = [stage |-> "allowed", req |-> route.req, url |-> route.url,
                    headers |-> route.headers, start |-> route.start,
                    hostRules |-> live, stripRules |-> route.stripRules]
      BY <2>1, <3>1 DEF OnItsWay, RouteShape
    <3>3. Unblocked(route')
      BY <2>1, <2>4, <3>2 DEF Unblocked, MatchHost
    <3>4. route.start <= live
      BY <2>1 DEF OnItsWay, Version
    <3>5. OnItsWay(route') /\ route'.stage \in RouteStage /\ route'.hostRules = live
      BY <2>1, <2>2, <3>2, <3>3, <3>4 DEF OnItsWay, RouteShape, RouteStage
    <3> QED BY <1>1, <1>2, <1>3, <1>10, <2>2, <3>1, <3>5
  <2>5. CASE host # <<>> /\ kind # "none"
    <3>1. /\ route' = NoRoute
          /\ event' = [kind |-> kind, partition |-> route.req.derived, host |-> host,
                       version |-> live]
      BY <1>10, <2>5 DEF MatchBlocklist
    <3>2. route.req \in Request /\ host = ParseHost(route.req.url)
      BY <2>1 DEF OnItsWay
    <3>3. kind = MatchTree(FromRules(HostRules[live]), host)
      BY DEF MatchHost
    <3> HIDE DEF host, kind
    <3>4. EventOk'
      BY <2>2, <2>5, <3>1, <3>2, <3>3 DEF EventOk
    <3> QED BY <1>1, <1>3, <1>10, <3>1, <3>4 DEF NoRoute
  <2> QED BY <2>3, <2>4, <2>5
<1>11. CASE StripUrl /\ UNCHANGED <<egress, recency, sent, event, live>>
  <2>1. CASE route' = NoRoute
    BY <1>1, <1>2, <1>3, <1>11, <2>1 DEF NoRoute
  <2>2. CASE route' # NoRoute
    <3> DEFINE url == StripTrackingParams(route.url, UrlParamStripList)
    <3>1. /\ route.stage = "allowed" /\ OnItsWay(route) /\ route.url = route.req.url
          /\ route' = [route EXCEPT !.stage = "stripped", !.stripRules = live, !.url = url]
      BY <1>11, <2>2 DEF StripUrl, GoOn, OnItsWay
    <3>2. url = StripTrackingParams(route.req.url, StripRules[live])
      BY <3>1 DEF UrlParamStripList
    <3> HIDE DEF url
    <3>3. route' = [stage |-> "stripped", req |-> route.req, url |-> url,
                    headers |-> route.headers, start |-> route.start,
                    hostRules |-> route.hostRules, stripRules |-> live]
      BY <3>1 DEF OnItsWay, RouteShape
    <3>4. OnItsWay(route') /\ route'.stage \in RouteStage
          /\ route'.hostRules = route.hostRules
      BY <3>1, <3>2, <3>3 DEF OnItsWay, RouteShape, RouteStage, Unblocked
    <3> QED BY <1>1, <1>2, <1>3, <1>11, <3>1, <3>4
  <2> QED BY <2>1, <2>2
<1>12. CASE ScrubAndLook /\ UNCHANGED <<egress, recency, sent, event, live>>
  <2>1. CASE route' = NoRoute
    BY <1>1, <1>2, <1>3, <1>12, <2>1 DEF NoRoute
  <2>2. CASE route' # NoRoute
    <3>1. /\ route.stage = "stripped" /\ OnItsWay(route)
          /\ route' = [route EXCEPT !.stage = "scrubbed", !.headers = ScrubHeaders]
      BY <1>12, <2>2 DEF ScrubAndLook, GoOn
    <3>2. route' = [stage |-> "scrubbed", req |-> route.req, url |-> route.url,
                    headers |-> ScrubHeaders, start |-> route.start,
                    hostRules |-> route.hostRules, stripRules |-> route.stripRules]
      BY <3>1 DEF OnItsWay, RouteShape
    <3>3. Scrubbed(route') /\ Unblocked(route')
      BY <3>1, <3>2 DEF Scrubbed, ScrubHeaders, OnItsWay, Unblocked
    <3>4. OnItsWay(route') /\ route'.stage \in RouteStage
          /\ route'.hostRules = route.hostRules
      BY <3>1, <3>2, <3>3 DEF OnItsWay, RouteShape, RouteStage
    <3> QED BY <1>1, <1>2, <1>3, <1>12, <3>1, <3>4
  <2> QED BY <2>1, <2>2
<1>12a. CASE Dispatch /\ UNCHANGED <<event, live>>
  <2>1. /\ route.stage = "scrubbed" /\ OnItsWay(route) /\ route'.stage = "none"
        /\ egress' = GetOrInsert(egress, route.req.derived)
        /\ recency' = Append(Dropped(recency, route.req.derived), route.req.derived)
        /\ sent' = [route EXCEPT !.stage = "sent"]
    BY <1>12a DEF Dispatch, NoRoute
  <2>2. route.req.derived \in Partition
    BY <2>1, RequestAssumption DEF OnItsWay, RequestFields
  <2>3. LruInv(egress', recency')
    BY <2>1, <2>2, UseKeepsLru
  <2>4. sent' = [stage |-> "sent", req |-> route.req, url |-> route.url,
                 headers |-> route.headers, start |-> route.start,
                 hostRules |-> route.hostRules, stripRules |-> route.stripRules]
    BY <2>1 DEF OnItsWay, RouteShape
  <2>5. OnItsWay(sent') /\ sent'.stage = "sent"
    BY <2>1, <2>4 DEF OnItsWay, RouteShape, Unblocked, Scrubbed
  <2> QED BY <1>2, <1>12a, <2>1, <2>3, <2>5
<1>13. CASE RouteStep
  BY <1>8, <1>9, <1>10, <1>11, <1>12, <1>12a, <1>13 DEF RouteStep
<1>14. CASE UNCHANGED vars
  <2>1. UNCHANGED <<egress, route, sent, event, recency, live>>
    BY <1>14 DEF vars, routeVars
  <2>2. live' \in Version /\ live <= live'
    BY <2>1 DEF Version
  <2> QED BY <1>4, <2>1, <2>2
<1> QED BY <1>5, <1>6, <1>7, <1>13, <1>14 DEF Next

\* The stores and the requests on their way, for every order of calls and teardowns.
THEOREM RouteInvariant == Spec => []RouteIInv
<1> QED BY RouteInitInv, RouteStepKeepsInv, PTL DEF Spec

\* Where the flag may have risen by the stage of the call: every look sends a call
\* with its flag up away, and MatchBlocklist goes on without one.
LookInv ==
  /\ route.stage # "none" => sent = NoRoute /\ event = NoEvent
  /\ route.stage = "authorized" => cancelled \in {"never", "authorized"}
  /\ route.stage = "secure" => cancelled \in {"never", "secure"}
  /\ route.stage = "allowed" => cancelled \in {"never", "secure", "allowed"}
  /\ route.stage = "stripped" => cancelled \in {"never", "stripped"}
  /\ route.stage = "scrubbed" => cancelled \in {"never", "scrubbed"}
  /\ CancelIsSeen

\* Each step of route() against a flag that rises at any moment.
LEMMA LookKept == RouteIInv /\ LookInv /\ [Next]_vars => LookInv'
<1> SUFFICES ASSUME RouteIInv, LookInv, [Next]_vars PROVE LookInv'
  OBVIOUS
<1> USE DEF LookInv, CancelIsSeen
<1>0. route.stage \in RouteStage \cup {"none"}
  BY DEF RouteIInv
<1>1. ASSUME UNCHANGED <<route, cancelled, sent, event>> PROVE LookInv'
  BY <1>1
<1>2. CASE \/ SetResolver \/ ResolverStep \/ TimePasses \/ SwapManifest
           \/ \E p \in Partition : DropPartition(p)
           \/ \E c \in Caller :
                (\E k \in Key : Lookup(c, k)) \/ CallResolver(c) \/ Finish(c) \/ DropResolve(c)
           \/ UNCHANGED vars
  <2>1. UNCHANGED <<route, cancelled, sent, event>>
    BY <1>2 DEF SetResolver, ResolverStep, TimePasses, SwapManifest, DropPartition, Lookup,
       CallResolver, Finish, DropResolve, routeVars, vars
  <2> QED BY <1>1, <2>1
<1>3. CASE CancelRequest
  BY <1>0, <1>3 DEF CancelRequest, RouteStage
<1>4. ASSUME NEW req \in Request, RouteStart(req) PROVE LookInv'
  BY <1>4 DEF RouteStart, NoRoute
<1>5. CASE EnforceHttpsOnly /\ UNCHANGED <<egress, recency, sent, event, cancelled>>
  <2>1. route' = NoRoute \/ (route' = [route EXCEPT !.stage = "secure"] /\ cancelled = "never")
    BY <1>5 DEF EnforceHttpsOnly, GoOn
  <2>2. route' = NoRoute \/ (route'.stage = "secure" /\ cancelled = "never")
    BY <1>5, <2>1 DEF EnforceHttpsOnly, RouteIInv, OnItsWay, RouteShape
  <2> QED BY <1>5, <2>2 DEF EnforceHttpsOnly, NoRoute
<1>6. CASE MatchBlocklist /\ UNCHANGED <<egress, recency, sent, cancelled>>
  <2>1. route.stage = "secure"
    BY <1>6 DEF MatchBlocklist
  <2>2. \/ route' = NoRoute
        \/ route' = [route EXCEPT !.stage = "allowed", !.hostRules = live] /\ event' = event
    BY <1>6 DEF MatchBlocklist
  <2>3. route' = NoRoute \/ (route'.stage = "allowed" /\ event' = event)
    BY <2>1, <2>2 DEF RouteIInv, OnItsWay, RouteShape
  <2> QED BY <1>6, <2>1, <2>3 DEF NoRoute
<1>7. CASE StripUrl /\ UNCHANGED <<egress, recency, sent, event, cancelled>>
  <2>1. \/ route' = NoRoute
        \/ /\ cancelled = "never"
           /\ route' = [route EXCEPT !.stage = "stripped", !.stripRules = live,
                          !.url = StripTrackingParams(@, UrlParamStripList)]
    BY <1>7 DEF StripUrl, GoOn
  <2>2. route' = NoRoute \/ (route'.stage = "stripped" /\ cancelled = "never")
    BY <1>7, <2>1 DEF StripUrl, RouteIInv, OnItsWay, RouteShape
  <2> QED BY <1>7, <2>2 DEF StripUrl, NoRoute
<1>8. CASE ScrubAndLook /\ UNCHANGED <<egress, recency, sent, event, cancelled>>
  <2>1. \/ route' = NoRoute
        \/ /\ cancelled = "never"
           /\ route' = [route EXCEPT !.stage = "scrubbed", !.headers = ScrubHeaders]
    BY <1>8 DEF ScrubAndLook, GoOn
  <2>2. route' = NoRoute \/ (route'.stage = "scrubbed" /\ cancelled = "never")
    BY <1>8, <2>1 DEF ScrubAndLook, RouteIInv, OnItsWay, RouteShape
  <2> QED BY <1>8, <2>2 DEF ScrubAndLook, NoRoute
<1>9. CASE Dispatch /\ UNCHANGED <<event, cancelled>>
  BY <1>9 DEF Dispatch, NoRoute
<1>10. CASE RouteStep
  BY <1>4, <1>5, <1>6, <1>7, <1>8, <1>9, <1>10 DEF RouteStep
<1> QED BY <1>2, <1>3, <1>10 DEF Next

\* A cancel is missed only when it comes after the last look, and by a report only when
\* it comes after the look before match_host (coordinator.rs, route).
THEOREM CancelIsSeenHolds == Spec => []CancelIsSeen
<1>1. Init => LookInv
  BY DEF Init, LookInv, CancelIsSeen, NoRoute
<1>2. LookInv => CancelIsSeen
  BY DEF LookInv
<1> QED BY <1>1, <1>2, LookKept, RouteInvariant, PTL DEF Spec

\* The two bounded stores stay what they say they are: the cache's map, order and deadlines
\* agree, and the egress map holds the most recently routed partitions and no other.
THEOREM StoresConsistentHolds == Spec => []StoresConsistent
<1>1. ResolveIInv => CacheConsistent
  <2> SUFFICES ASSUME ResolveIInv PROVE CacheConsistent
    OBVIOUS
  <2>1. OrderListsEntries /\ CacheBounded
    <3> SUFFICES ASSUME NEW p \in DOMAIN cache
                 PROVE  /\ ToSet(cache[p].order) = DOMAIN cache[p].entries
                        /\ Len(cache[p].order) = Cardinality(DOMAIN cache[p].entries)
                        /\ Cardinality(DOMAIN cache[p].entries) <= MaxEntries
      BY DEF OrderListsEntries, CacheBounded
    <3> QED BY InjectiveCount DEF ResolveIInv, CacheInv, PartOk
  <2> QED BY <2>1 DEF CacheConsistent, ResolveIInv, CacheInv
<1>2. RouteIInv => EgressBounded /\ LeastRecentlyUsedGoes
  BY InjectiveCount, EndsInIsSuffix DEF RouteIInv, LruInv, EgressBounded, LeastRecentlyUsedGoes
<1> QED BY <1>1, <1>2, ResolveInvariant, RouteInvariant, PTL DEF StoresConsistent

-----------------------------------------------------------------------------
(* The loops over a sequence: the fold that writes them is an iteration    *)
(* from the left, and what holds of every round holds of the result.       *)

\* The greatest number of a set is the one that none exceeds.
LEMMA GreatestIs ==
  ASSUME NEW S \in SUBSET Nat, NEW m \in S, \A n \in S : n <= m
  PROVE  Max(S) = m
<1> DEFINE P(k) == k \in S /\ \A n \in S : k >= n
<1>1. P(m) /\ \A k : P(k) => k = m
  <2>1. ASSUME NEW k, P(k) PROVE k = m
    <3>1. k \in Nat /\ m \in Nat /\ k >= m /\ k <= m
      BY <2>1
    <3> QED BY <3>1
  <2>2. P(m)
    OBVIOUS
  <2> QED BY <2>1, <2>2
<1>2. Max(S) = CHOOSE k : P(k)
  BY DEF Max
<1> HIDE DEF P
<1>3. P(CHOOSE k : P(k))
  BY <1>1
<1> QED BY <1>1, <1>2, <1>3

\* The greatest number of a set with a bound, as Max finds it.
LEMMA MaxIs ==
  ASSUME NEW n \in Nat, NEW S \in SUBSET (0..n), S # {}
  PROVE  Max(S) \in S /\ \A x \in S : x <= Max(S)
<1> DEFINE D == {u \in 0..n : n - u \in S}
<1>1. D # {} /\ D \in SUBSET Nat
  <2>1. PICK x \in S : TRUE
    OBVIOUS
  <2>2. n - x \in 0..n /\ n - (n - x) = x
    OBVIOUS
  <2>3. n - x \in D
    BY <2>2
  <2>4. D \in SUBSET Nat
    OBVIOUS
  <2> HIDE DEF D
  <2> QED BY <2>3, <2>4
<1> HIDE DEF D
<1>2. PICK u \in D : \A v \in D : u <= v
  BY <1>1, LeastNat
<1>3. u \in 0..n /\ n - u \in S
  BY DEF D
<1>4. ASSUME NEW x \in S PROVE x <= n - u
  <2>1. n - x \in 0..n /\ n - (n - x) = x
    OBVIOUS
  <2>2. n - x \in D
    BY <2>1 DEF D
  <2> QED BY <1>2, <1>3, <2>1, <2>2
<1>5. Max(S) = n - u
  BY <1>3, <1>4, GreatestIs
<1> QED BY <1>3, <1>4, <1>5

\* The loops of the model: the one of Omitting, and the one of FromRules.  One turn takes
\* what the loop has made so far and the next element.
OmitLoop(drop) == [of |-> "omit", drop |-> drop]
InsertLoop == [of |-> "insert"]

Start(loop) == IF loop.of = "insert" THEN EmptyTree ELSE <<>>
Turn(loop, before, x) ==
  IF loop.of = "insert" THEN Insert(before, x)
  ELSE IF x \in loop.drop THEN before ELSE Append(before, x)

\* The fold's own recursion runs over the sets of positions that are left.
FoldRound(loop, s, h, t) == Turn(loop, h[t \ {Max(t)}], s[Max(t)])

LoopFold(loop, s, n, h) ==
  h = [t \in SUBSET (1..n) |-> IF t = {} THEN Start(loop) ELSE FoldRound(loop, s, h, t)]

\* A fold over n positions extends to one more.
LEMMA LoopFoldStep ==
  ASSUME NEW loop, NEW s, NEW n \in Nat, NEW h, LoopFold(loop, s, n, h)
  PROVE  \E g : LoopFold(loop, s, n + 1, g)
<1> DEFINE m == n + 1
           G(t) == IF m \in t THEN FoldRound(loop, s, h, t) ELSE h[t]
           g == [t \in SUBSET (1..m) |-> G(t)]
<1>1. ASSUME NEW t \in SUBSET (1..m)
      PROVE  g[t] = IF t = {} THEN Start(loop) ELSE FoldRound(loop, s, g, t)
  <2>1. CASE m \in t
    <3>1. Max(t) = m
      <4>1. t \in SUBSET Nat /\ \A x \in t : x <= m
        OBVIOUS
      <4> QED BY <2>1, <4>1, GreatestIs
    <3>2. t \ {m} \in SUBSET (1..m) /\ m \notin t \ {m}
      OBVIOUS
    <3>3. g[t \ {m}] = h[t \ {m}]
      BY <3>2
    <3>4. g[t] = FoldRound(loop, s, h, t)
      BY <2>1
    <3> HIDE DEF g, m
    <3> QED BY <2>1, <3>1, <3>3, <3>4 DEF FoldRound
  <2>2. CASE m \notin t /\ t # {}
    <3>1. t \in SUBSET (1..n) /\ t \in SUBSET (0..n)
      BY <2>2
    <3>2. Max(t) \in t
      BY <2>2, <3>1, MaxIs
    <3>3. h[t] = FoldRound(loop, s, h, t)
      BY <2>2, <3>1 DEF LoopFold
    <3>4. t \ {Max(t)} \in SUBSET (1..m) /\ m \notin t \ {Max(t)}
      BY <2>2
    <3>5. g[t \ {Max(t)}] = h[t \ {Max(t)}] /\ g[t] = h[t]
      BY <2>2, <3>4
    <3> HIDE DEF g, m
    <3> QED BY <2>2, <3>3, <3>5 DEF FoldRound
  <2>3. CASE t = {}
    <3>1. g[t] = h[t] /\ t \in SUBSET (1..n)
      BY <2>3
    <3> HIDE DEF g
    <3> QED BY <2>3, <3>1 DEF LoopFold
  <2> QED BY <2>1, <2>2, <2>3
<1>2. g = [t \in SUBSET (1..m) |-> g[t]]
  OBVIOUS
<1> HIDE DEF g
<1>3. g = [t \in SUBSET (1..m) |-> IF t = {} THEN Start(loop) ELSE FoldRound(loop, s, g, t)]
  BY <1>1, <1>2
<1> QED BY <1>3 DEF LoopFold

\* The function the fold chooses exists.
LEMMA LoopFoldExists ==
  ASSUME NEW loop, NEW s, NEW n \in Nat
  PROVE  \E h : LoopFold(loop, s, n, h)
<1> DEFINE Missing == {k \in 0..n : ~ \E h : LoopFold(loop, s, k, h)}
<1>1. 0 \notin Missing
  <2> DEFINE h == [t \in {{}} |-> Start(loop)]
  <2>1. 1..0 = {}
    OBVIOUS
  <2>2. SUBSET (1..0) = {{}}
    BY <2>1
  <2>3. h = [t \in SUBSET (1..0) |-> IF t = {} THEN Start(loop) ELSE FoldRound(loop, s, h, t)]
    BY <2>2
  <2>4. LoopFold(loop, s, 0, h)
    BY <2>3 DEF LoopFold
  <2> QED BY <2>4
<1>2. ASSUME NEW k \in 1..n, k - 1 \notin Missing PROVE k \notin Missing
  <2>1. k - 1 \in 0..n /\ k - 1 \in Nat /\ (k - 1) + 1 = k
    OBVIOUS
  <2>2. PICK h : LoopFold(loop, s, k - 1, h)
    BY <1>2, <2>1
  <2> QED BY <2>1, <2>2, LoopFoldStep
<1>3. Missing \in SUBSET (0..n) /\ n \in 0..n
  OBVIOUS
<1>4. Missing = {}
  <2> HIDE DEF Missing
  <2> QED BY <1>1, <1>2, <1>3, NoFirstWrong
<1> QED BY <1>3, <1>4

\* Turn by turn: what a loop has made after each element.
LEMMA LoopRuns ==
  ASSUME NEW loop, NEW S, NEW s \in Seq(S), NEW h, LoopFold(loop, s, Len(s), h)
  PROVE  \E g : /\ g[0] = Start(loop) /\ g[Len(s)] = h[DOMAIN s]
                /\ \A k \in 1..Len(s) : g[k] = Turn(loop, g[k - 1], s[k])
<1> DEFINE n == Len(s)
           g == [k \in 0..n |-> h[1..k]]
<1>1. n \in Nat
  OBVIOUS
<1>2. DOMAIN s = 1..n
  OBVIOUS
<1>3. LoopFold(loop, s, n, h)
  OBVIOUS
<1> HIDE DEF n
<1>4. ASSUME NEW k \in 1..n
      PROVE  h[1..k] = Turn(loop, h[1..(k - 1)], s[k])
  <2>1. 1..k \in SUBSET Nat /\ k \in 1..k /\ \A x \in 1..k : x <= k
    BY <1>1
  <2>2. Max(1..k) = k
    <3> DEFINE T == 1..k
    <3> HIDE DEF T
    <3>1. T \in SUBSET Nat /\ k \in T /\ \A x \in T : x <= k
      BY <2>1 DEF T
    <3>2. Max(T) = k
      BY <3>1, GreatestIs
    <3> QED BY <3>2 DEF T
  <2>3. (1..k) \ {k} = 1..(k - 1) /\ 1..k # {} /\ 1..k \in SUBSET (1..n)
    BY <1>1
  <2>4. h[1..k] = FoldRound(loop, s, h, 1..k)
    BY <1>3, <2>3 DEF LoopFold
  <2> QED BY <2>2, <2>3, <2>4 DEF FoldRound
<1>5. h[1..0] = Start(loop)
  <2>1. 1..0 = {} /\ 1..0 \in SUBSET (1..n)
    OBVIOUS
  <2> QED BY <1>3, <2>1 DEF LoopFold
<1>6. \A k \in 0..n : g[k] = h[1..k]
  OBVIOUS
<1> HIDE DEF g
<1>7. g[0] = Start(loop) /\ g[n] = h[1..n]
  BY <1>1, <1>5, <1>6
<1>8. ASSUME NEW k \in 1..n
      PROVE  g[k] = Turn(loop, g[k - 1], s[k])
  <2>1. k \in 0..n /\ k - 1 \in 0..n
    BY <1>1
  <2> QED BY <1>4, <1>6, <2>1
<1> QED BY <1>2, <1>7, <1>8 DEF n

\* The loop of Omitting.
LEMMA OmittingRuns ==
  ASSUME NEW S, NEW s \in Seq(S), NEW drop
  PROVE  \E g : /\ g[0] = <<>> /\ g[Len(s)] = Omitting(s, drop)
                /\ \A k \in 1..Len(s) :
                     g[k] = IF s[k] \in drop THEN g[k - 1] ELSE Append(g[k - 1], s[k])
<1> DEFINE n == Len(s)
           h == CHOOSE f : f = [t \in SUBSET DOMAIN s |-> IF t = {} THEN <<>>
                                  ELSE IF s[Max(t)] \in drop THEN f[t \ {Max(t)}]
                       ELSE Append(f[t \ {Max(t)}], s[Max(t)])]
           loop == OmitLoop(drop)
<1>1. loop.of # "insert" /\ loop.drop = drop
  BY DEF OmitLoop
<1>2. Omitting(s, drop) = h[DOMAIN s]
  BY Zenon DEF Omitting, FoldLeft, MapThenFoldSet
<1>3. DOMAIN s = 1..n /\ n \in Nat
  OBVIOUS
<1> HIDE DEF n, loop
<1>4. /\ Start(loop) = <<>>
      /\ \A b, x : Turn(loop, b, x) = IF x \in drop THEN b ELSE Append(b, x)
  BY <1>1, Zenon DEF Start, Turn
<1>5. ASSUME NEW f
      PROVE  LoopFold(loop, s, n, f) <=>
               f = [t \in SUBSET DOMAIN s |-> IF t = {} THEN <<>>
                      ELSE IF s[Max(t)] \in drop THEN f[t \ {Max(t)}]
                       ELSE Append(f[t \ {Max(t)}], s[Max(t)])]
  <2>1. ASSUME NEW t
        PROVE  (IF t = {} THEN <<>>
                ELSE IF s[Max(t)] \in drop THEN f[t \ {Max(t)}]
                       ELSE Append(f[t \ {Max(t)}], s[Max(t)]))
               = IF t = {} THEN Start(loop) ELSE FoldRound(loop, s, f, t)
    BY <1>4, Zenon DEF FoldRound
  <2>2. [t \in SUBSET (1..n) |-> IF t = {} THEN <<>>
           ELSE IF s[Max(t)] \in drop THEN f[t \ {Max(t)}]
                       ELSE Append(f[t \ {Max(t)}], s[Max(t)])]
        = [t \in SUBSET (1..n) |->
             IF t = {} THEN Start(loop) ELSE FoldRound(loop, s, f, t)]
    BY <2>1, Zenon
  <2> QED BY <1>3, <2>2, Zenon DEF LoopFold
<1>6. LoopFold(loop, s, n, h)
  <2>1. \E f : LoopFold(loop, s, n, f)
    BY <1>3, LoopFoldExists
  <2> QED BY <1>5, <2>1, Zenon
<1> HIDE DEF h
<1>7. PICK g : /\ g[0] = Start(loop) /\ g[n] = h[DOMAIN s]
               /\ \A k \in 1..n : g[k] = Turn(loop, g[k - 1], s[k])
  <2>1. LoopFold(loop, s, Len(s), h)
    BY <1>6 DEF n
  <2>2. \E g : /\ g[0] = Start(loop) /\ g[Len(s)] = h[DOMAIN s]
               /\ \A k \in 1..Len(s) : g[k] = Turn(loop, g[k - 1], s[k])
    BY <2>1, LoopRuns, SMTT(30)
  <2>3. n = Len(s)
    BY DEF n
  <2> QED BY <2>2, <2>3
<1>8. ASSUME NEW k \in 1..n
      PROVE  g[k] = IF s[k] \in drop THEN g[k - 1] ELSE Append(g[k - 1], s[k])
  BY <1>4, <1>7, Zenon
<1>9. g[0] = <<>> /\ g[n] = Omitting(s, drop)
  BY <1>2, <1>4, <1>7, Zenon
<1> QED BY <1>8, <1>9, Zenon DEF n

\* The loop of FromRules.
LEMMA FromRulesRuns ==
  ASSUME NEW S, NEW s \in Seq(S)
  PROVE  \E g : /\ g[0] = EmptyTree /\ g[Len(s)] = FromRules(s)
                /\ \A k \in 1..Len(s) : g[k] = Insert(g[k - 1], s[k])
<1> DEFINE n == Len(s)
           h == CHOOSE f : f = [t \in SUBSET DOMAIN s |-> IF t = {} THEN EmptyTree
                                  ELSE Insert(f[t \ {Max(t)}], s[Max(t)])]
           loop == InsertLoop
<1>1. loop.of = "insert"
  BY DEF InsertLoop
<1>2. FromRules(s) = h[DOMAIN s]
  BY Zenon DEF FromRules, FoldLeft, MapThenFoldSet
<1>3. DOMAIN s = 1..n /\ n \in Nat
  OBVIOUS
<1> HIDE DEF n, loop
<1>4. Start(loop) = EmptyTree /\ \A b, x : Turn(loop, b, x) = Insert(b, x)
  BY <1>1, Zenon DEF Start, Turn
<1>5. ASSUME NEW f
      PROVE  LoopFold(loop, s, n, f) <=>
               f = [t \in SUBSET DOMAIN s |-> IF t = {} THEN EmptyTree
                      ELSE Insert(f[t \ {Max(t)}], s[Max(t)])]
  <2>1. ASSUME NEW t
        PROVE  (IF t = {} THEN EmptyTree
                ELSE Insert(f[t \ {Max(t)}], s[Max(t)]))
               = IF t = {} THEN Start(loop) ELSE FoldRound(loop, s, f, t)
    BY <1>4, Zenon DEF FoldRound
  <2>2. [t \in SUBSET (1..n) |-> IF t = {} THEN EmptyTree
           ELSE Insert(f[t \ {Max(t)}], s[Max(t)])]
        = [t \in SUBSET (1..n) |->
             IF t = {} THEN Start(loop) ELSE FoldRound(loop, s, f, t)]
    BY <2>1, Zenon
  <2> QED BY <1>3, <2>2, Zenon DEF LoopFold
<1>6. LoopFold(loop, s, n, h)
  <2>1. \E f : LoopFold(loop, s, n, f)
    BY <1>3, LoopFoldExists
  <2> QED BY <1>5, <2>1, Zenon
<1> HIDE DEF h
<1>7. PICK g : /\ g[0] = Start(loop) /\ g[n] = h[DOMAIN s]
               /\ \A k \in 1..n : g[k] = Turn(loop, g[k - 1], s[k])
  <2>1. LoopFold(loop, s, Len(s), h)
    BY <1>6 DEF n
  <2>2. \E g : /\ g[0] = Start(loop) /\ g[Len(s)] = h[DOMAIN s]
               /\ \A k \in 1..Len(s) : g[k] = Turn(loop, g[k - 1], s[k])
    BY <2>1, LoopRuns, SMTT(30)
  <2>3. n = Len(s)
    BY DEF n
  <2> QED BY <2>2, <2>3
<1>8. ASSUME NEW k \in 1..n PROVE g[k] = Insert(g[k - 1], s[k])
  BY <1>4, <1>7, Zenon
<1>9. g[0] = EmptyTree /\ g[n] = FromRules(s)
  BY <1>2, <1>4, <1>7, Zenon
<1> QED BY <1>8, <1>9, Zenon DEF n

\* The loop keeps the elements that are not in drop and no other.
LEMMA OmittingFacts ==
  ASSUME NEW S, NEW s \in Seq(S), NEW drop
  PROVE  /\ Omitting(s, drop) \in Seq(S)
         /\ ToSet(Omitting(s, drop)) = ToSet(s) \ drop
<1> DEFINE n == Len(s)
<1>1. n \in Nat
  OBVIOUS
<1>2. PICK g : /\ g[0] = <<>> /\ g[n] = Omitting(s, drop)
               /\ \A k \in 1..n :
                    g[k] = IF s[k] \in drop THEN g[k - 1] ELSE Append(g[k - 1], s[k])
  BY OmittingRuns
<1> HIDE DEF n
<1> DEFINE Right(k) == g[k] \in Seq(S) /\ ToSet(g[k]) = {s[i] : i \in 1..k} \ drop
           Wrong == {k \in 0..n : ~Right(k)}
<1>3. Right(0)
  BY <1>2 DEF ToSet
<1>4. ASSUME NEW k \in 1..n, Right(k - 1) PROVE Right(k)
  <2>1. {s[i] : i \in 1..k} = {s[i] : i \in 1..(k - 1)} \cup {s[k]}
    BY <1>1
  <2>2. CASE s[k] \in drop
    BY <1>2, <1>4, <2>1, <2>2
  <2>3. CASE s[k] \notin drop
    <3>1. s[k] \in S
      BY DEF n
    <3>2. g[k] = Append(g[k - 1], s[k]) /\ g[k - 1] \in Seq(S) /\ s[k] \in S
      BY <1>2, <1>4, <2>3, <3>1
    <3>3. g[k] \in Seq(S) /\ ToSet(g[k]) = ToSet(g[k - 1]) \cup {s[k]}
      <4> DEFINE q == g[k - 1]
                 r == Append(q, s[k])
      <4>1. /\ r \in Seq(S) /\ Len(r) = Len(q) + 1 /\ r[Len(q) + 1] = s[k]
            /\ \A i \in 1..Len(q) : r[i] = q[i]
        BY <3>2, AppendProperties
      <4>2. q \in Seq(S) /\ g[k] = r
        BY <3>2
      <4> HIDE DEF q, r
      <4>3. ToSet(r) = ToSet(q) \cup {s[k]}
        <5>1. /\ DOMAIN r = 1..(Len(q) + 1) /\ DOMAIN q = 1..Len(q)
              /\ 1..(Len(q) + 1) = 1..Len(q) \cup {Len(q) + 1}
          BY <4>1, <4>2
        <5> QED BY <4>1, <5>1 DEF ToSet
      <4> QED BY <4>1, <4>2, <4>3 DEF q
    <3> QED BY <1>4, <2>1, <2>3, <3>3
  <2> QED BY <2>2, <2>3
<1> HIDE DEF Right
<1>5. Wrong = {}
  <2>1. 0 \notin Wrong /\ \A k \in 1..n : k \in Wrong => k - 1 \in Wrong
    BY <1>1, <1>3, <1>4
  <2>2. Wrong \in SUBSET (0..n)
    OBVIOUS
  <2> HIDE DEF Wrong
  <2> QED BY <1>1, <2>1, <2>2, NoFirstWrong
<1>6. Right(n)
  BY <1>1, <1>5
<1>7. ToSet(s) = {s[i] : i \in 1..n}
  BY DEF ToSet, n
<1> QED BY <1>2, <1>6, <1>7 DEF Right

\* Where there is nothing to drop the loop copies.
LEMMA OmittingNothing ==
  ASSUME NEW S, NEW s \in Seq(S), NEW drop, ToSet(s) \cap drop = {}
  PROVE  Omitting(s, drop) = s
<1> DEFINE n == Len(s)
<1>1. n \in Nat
  OBVIOUS
<1>2. PICK g : /\ g[0] = <<>> /\ g[n] = Omitting(s, drop)
               /\ \A k \in 1..n :
                    g[k] = IF s[k] \in drop THEN g[k - 1] ELSE Append(g[k - 1], s[k])
  BY OmittingRuns
<1>3. \A k \in 1..n : s[k] \notin drop /\ s[k] \in S
  BY DEF ToSet
<1> DEFINE Right(k) == g[k] \in Seq(S) /\ Len(g[k]) = k /\ \A i \in 1..k : g[k][i] = s[i]
           Wrong == {k \in 0..n : ~Right(k)}
<1> HIDE DEF n
<1>4. Right(0)
  BY <1>2
<1>5. ASSUME NEW k \in 1..n, Right(k - 1) PROVE Right(k)
  <2> DEFINE q == g[k - 1]
             r == Append(q, s[k])
  <2>1. q \in Seq(S) /\ g[k] = r /\ Len(q) = k - 1 /\ \A i \in 1..(k - 1) : q[i] = s[i]
    BY <1>2, <1>3, <1>5
  <2> HIDE DEF q
  <2>2. /\ r \in Seq(S) /\ Len(r) = Len(q) + 1 /\ r[Len(q) + 1] = s[k]
        /\ \A i \in 1..Len(q) : r[i] = q[i]
    BY <1>3, <2>1, AppendProperties
  <2> HIDE DEF r
  <2>3. Len(r) = k /\ r[k] = s[k] /\ \A i \in 1..k : i # k => i \in 1..(k - 1)
    BY <1>1, <2>1, <2>2
  <2>4. \A i \in 1..k : r[i] = s[i]
    BY <2>1, <2>2, <2>3
  <2> QED BY <2>1, <2>2, <2>3, <2>4
<1> HIDE DEF Right
<1>6. Wrong = {}
  <2>1. 0 \notin Wrong /\ \A k \in 1..n : k \in Wrong => k - 1 \in Wrong
    BY <1>1, <1>4, <1>5
  <2>2. Wrong \in SUBSET (0..n)
    OBVIOUS
  <2> HIDE DEF Wrong
  <2> QED BY <1>1, <2>1, <2>2, NoFirstWrong
<1>7. Right(n)
  BY <1>1, <1>6
<1>8. Len(Omitting(s, drop)) = Len(s) /\ Omitting(s, drop) \in Seq(S)
      /\ \A i \in 1..Len(s) : Omitting(s, drop)[i] = s[i]
  BY <1>2, <1>7 DEF Right, n
<1> QED BY <1>8, SeqEqual

-----------------------------------------------------------------------------
(* What goes out.                                                          *)

\* The parameter strip takes the listed parameters, unless the URL is too long to rewrite,
\* and nothing else but empty parts.
LEMMA StripFacts ==
  ASSUME NEW url \in Urls, NEW list, NEW u, u = StripTrackingParams(url, list)
  PROVE  /\ u.huge \/ ToSet(u.query) \cap list = {}
         /\ Omitting(u.query, list \cup {EmptyPart}) = Omitting(url.query, list \cup {EmptyPart})
         /\ [u EXCEPT !.query = url.query] = url
         /\ u.scheme = url.scheme
<1> DEFINE drop == list \cup {EmptyPart}
           kept == Omitting(url.query, drop)
<1>1. url.query \in Seq(STRING)
  BY DEF Urls
<1> HIDE DEF drop
<1>2. kept \in Seq(STRING) /\ ToSet(kept) = ToSet(url.query) \ drop
  BY <1>1, OmittingFacts
<1>3. Omitting(kept, drop) = kept
  <2> HIDE DEF kept
  <2>1. ToSet(kept) \cap drop = {}
    BY <1>2
  <2> QED BY <1>2, <2>1, OmittingNothing
<1>4. [url EXCEPT !.query = url.query] = url
  BY DEF Urls
<1>5. CASE u = url
  <2>1. url.huge \/ ToSet(url.query) \cap list = {} \/ u = [url EXCEPT !.query = kept]
    BY DEF StripTrackingParams, drop
  <2>2. u = [url EXCEPT !.query = kept] => ToSet(u.query) \cap list = {}
    <3> HIDE DEF kept
    <3>1. [url EXCEPT !.query = kept].query = kept
      BY DEF Urls
    <3> QED BY <1>2, <3>1 DEF drop
  <2> QED BY <1>4, <1>5, <2>1, <2>2
<1>6. CASE u = [url EXCEPT !.query = kept]
  <2> HIDE DEF kept
  <2>1. /\ u.query = kept /\ u.scheme = url.scheme
        /\ [u EXCEPT !.query = url.query] = url
    BY <1>6 DEF Urls
  <2>2. ToSet(u.query) \cap list = {}
    BY <1>2, <2>1 DEF drop
  <2> QED BY <1>3, <2>1, <2>2 DEF drop, kept
<1>7. u = url \/ u = [url EXCEPT !.query = kept]
  BY DEF StripTrackingParams, drop
<1> QED BY <1>5, <1>6, <1>7

\* What a request on its way is made of.
LEMMA RequestTypes ==
  ASSUME NEW r, OnItsWay(r)
  PROVE  /\ r.req.url \in Urls /\ r.req.headers \in Seq(STRING)
         /\ r.req.mode \in {"Standard", "Strict"} /\ r.req.origin \in STRING
  BY RequestAssumption DEF OnItsWay, RequestFields

\* A request that goes out was authorised for its own partition over a permitted scheme,
\* held against rules no older than the call, host rules never newer than the strip list,
\* and lost its listed parameters and nothing else.
THEOREM SentIsPermittedHolds == Spec => []SentIsPermitted
<1>1. RouteIInv => SentIsPermitted
  <2> SUFFICES ASSUME RouteIInv, sent # NoRoute PROVE SentIsPermitted
    BY DEF SentIsPermitted
  <2>1. OnItsWay(sent) /\ sent.stage = "sent"
    BY DEF RouteIInv
  <2>2. sent.req.url \in Urls
    BY <2>1, RequestTypes
  <2> DEFINE listed == StripRules[sent.stripRules]
  <2>3. sent.url = StripTrackingParams(sent.req.url, listed)
    BY <2>1 DEF OnItsWay
  <2> HIDE DEF listed
  <2>4. \A url \in Urls : \A u :
          u = StripTrackingParams(url, listed) =>
            /\ u.huge \/ ToSet(u.query) \cap listed = {}
            /\ Omitting(u.query, listed \cup {EmptyPart})
                 = Omitting(url.query, listed \cup {EmptyPart})
            /\ [u EXCEPT !.query = url.query] = url
            /\ u.scheme = url.scheme
    BY StripFacts
  <2>5. /\ sent.url.huge \/ ToSet(sent.url.query) \cap listed = {}
        /\ Omitting(sent.url.query, listed \cup {EmptyPart})
             = Omitting(sent.req.url.query, listed \cup {EmptyPart})
        /\ [sent.url EXCEPT !.query = sent.req.url.query] = sent.req.url
        /\ sent.url.scheme = sent.req.url.scheme
    BY <2>2, <2>3, <2>4, Zenon
  <2>6. /\ sent.req.derived = sent.req.declared
        /\ sent.url.scheme = "https" \/ (sent.url.scheme = "http" /\ sent.req.approved)
        /\ sent.start <= sent.hostRules /\ sent.hostRules <= sent.stripRules
    BY <2>1, <2>5 DEF OnItsWay, Permitted
  <2> QED BY <2>5, <2>6 DEF SentIsPermitted, listed
<1> QED BY <1>1, RouteInvariant, PTL

IsJoined(q, s, t) ==
  /\ Len(q) = Len(s) + Len(t)
  /\ \A i \in 1..Len(s) : q[i] = s[i]
  /\ \A i \in 1..Len(t) : q[Len(s) + i] = t[i]

\* Two sequences put one behind the other.
LEMMA Joined ==
  ASSUME NEW S, NEW s \in Seq(S), NEW t \in Seq(S)
  PROVE  s \o t \in Seq(S) /\ IsJoined(s \o t, s, t)
<1> DEFINE q == s \o t
           m == Len(s)
           n == Len(t)
<1>1. /\ q \in Seq(S) /\ Len(q) = m + n /\ m \in Nat /\ n \in Nat
      /\ \A i \in 1..(m + n) : q[i] = IF i <= m THEN s[i] ELSE t[i - m]
  BY ConcatProperties
<1> HIDE DEF q, m, n
<1>2. ASSUME NEW i \in 1..m PROVE q[i] = s[i]
  <2>1. i \in 1..(m + n) /\ i <= m
    BY <1>1
  <2> QED BY <1>1, <2>1
<1>3. ASSUME NEW i \in 1..n PROVE q[m + i] = t[i]
  <2>1. m + i \in 1..(m + n) /\ ~(m + i <= m) /\ (m + i) - m = i
    BY <1>1
  <2> QED BY <1>1, <2>1
<1> QED BY <1>1, <1>2, <1>3 DEF IsJoined, q, m, n

\* hs is the list that goes out: three headers, two more, perhaps a Referer, the
\* renderer's, perhaps an Accept.
IsHeaderList(hs, ua, al, ae, d, g, ref, mine, acc) ==
  LET r == Len(ref)
      p == Len(mine)
      a == Len(acc)
  IN  /\ Len(hs) = 5 + r + p + a /\ DOMAIN hs = 1..(5 + r + p + a)
      /\ hs[1] = ua /\ hs[2] = al /\ hs[3] = ae /\ hs[4] = d /\ hs[5] = g
      /\ \A i \in 1..r : hs[5 + i] = ref[i]
      /\ \A i \in 1..p : hs[5 + r + i] = mine[i]
      /\ \A i \in 1..a : hs[5 + r + p + i] = acc[i]

\* The scrub pushes its headers one piece after the other (headers.rs): every piece is
\* found at its place in what goes out.
LEMMA SixPieces ==
  ASSUME NEW H, NEW ua \in H, NEW al \in H, NEW ae \in H, NEW d \in H, NEW g \in H,
         NEW ref \in Seq(H), NEW r \in Nat, Len(ref) = r,
         NEW mine \in Seq(H), NEW p \in Nat, Len(mine) = p,
         NEW acc \in Seq(H), NEW a \in Nat, Len(acc) = a
  PROVE  IsHeaderList(((((<<ua, al, ae>> \o <<d>>) \o <<g>>) \o ref) \o mine) \o acc,
                      ua, al, ae, d, g, ref, mine, acc)
<1> DEFINE three == <<ua, al, ae>>
<1>1. three \in Seq(H) /\ Len(three) = 3 /\ three[1] = ua /\ three[2] = al /\ three[3] = ae
  OBVIOUS
<1>2. <<d>> \in Seq(H) /\ Len(<<d>>) = 1 /\ <<d>>[1] = d
  OBVIOUS
<1>3. <<g>> \in Seq(H) /\ Len(<<g>>) = 1 /\ <<g>>[1] = g
  OBVIOUS
<1> DEFINE q1 == three \o <<d>>
           q2 == q1 \o <<g>>
           q3 == q2 \o ref
           q4 == q3 \o mine
           q5 == q4 \o acc
<1> HIDE DEF three
<1>4. /\ q1 \in Seq(H) /\ Len(q1) = 4 /\ q1[1] = ua /\ q1[2] = al /\ q1[3] = ae /\ q1[4] = d
  <2>1. q1 \in Seq(H) /\ IsJoined(q1, three, <<d>>)
    BY <1>1, <1>2, Joined
  <2> HIDE DEF q1
  <2> QED BY <1>1, <1>2, <2>1 DEF IsJoined
<1> HIDE DEF q1
<1>5. /\ q2 \in Seq(H) /\ Len(q2) = 5 /\ q2[5] = g /\ \A i \in 1..4 : q2[i] = q1[i]
  <2>1. q2 \in Seq(H) /\ IsJoined(q2, q1, <<g>>)
    BY <1>3, <1>4, Joined
  <2> HIDE DEF q2
  <2> QED BY <1>3, <1>4, <2>1 DEF IsJoined
<1> HIDE DEF q2
<1>6. /\ q3 \in Seq(H) /\ Len(q3) = 5 + r
      /\ \A i \in 1..5 : q3[i] = q2[i]
      /\ \A i \in 1..r : q3[5 + i] = ref[i]
  <2>1. q3 \in Seq(H) /\ IsJoined(q3, q2, ref)
    BY <1>5, Joined
  <2> HIDE DEF q3
  <2> QED BY <1>5, <2>1 DEF IsJoined
<1> HIDE DEF q3
<1>7. /\ q4 \in Seq(H) /\ Len(q4) = 5 + r + p
      /\ \A i \in 1..(5 + r) : q4[i] = q3[i]
      /\ \A i \in 1..p : q4[5 + r + i] = mine[i]
  <2>1. q4 \in Seq(H) /\ IsJoined(q4, q3, mine)
    BY <1>6, Joined
  <2> HIDE DEF q4
  <2> QED BY <1>6, <2>1 DEF IsJoined
<1> HIDE DEF q4
<1>8. /\ q5 \in Seq(H) /\ Len(q5) = 5 + r + p + a
      /\ \A i \in 1..(5 + r + p) : q5[i] = q4[i]
      /\ \A i \in 1..a : q5[5 + r + p + i] = acc[i]
  <2>1. q5 \in Seq(H) /\ IsJoined(q5, q4, acc)
    BY <1>7, Joined
  <2> HIDE DEF q5
  <2> QED BY <1>7, <2>1 DEF IsJoined
<1>9. q5 = ((((<<ua, al, ae>> \o <<d>>) \o <<g>>) \o ref) \o mine) \o acc
  BY DEF three, q1, q2, q3, q4
<1> HIDE DEF q5
<1>10. \A i \in 1..5 : i \in 1..(5 + r) /\ i \in 1..(5 + r + p)
  OBVIOUS
<1>11. \A i \in 1..5 : q5[i] = q2[i]
  BY <1>6, <1>7, <1>8, <1>10
<1>12. \A i \in 1..r : q5[5 + i] = ref[i]
  <2>1. \A i \in 1..r : 5 + i \in 1..(5 + r) /\ 5 + i \in 1..(5 + r + p)
    OBVIOUS
  <2> QED BY <1>6, <1>7, <1>8, <2>1
<1>13. \A i \in 1..p : q5[5 + r + i] = mine[i]
  <2>1. \A i \in 1..p : 5 + r + i \in 1..(5 + r + p)
    OBVIOUS
  <2> QED BY <1>7, <1>8, <2>1
<1>14. q5[1] = ua /\ q5[2] = al /\ q5[3] = ae /\ q5[4] = d /\ q5[5] = g
  BY <1>4, <1>5, <1>11
<1>15. IsHeaderList(q5, ua, al, ae, d, g, ref, mine, acc)
  BY <1>8, <1>12, <1>13, <1>14 DEF IsHeaderList
<1> QED BY <1>9, <1>15, Zenon

Locked(n) == Header(n, "locked")
\* The provers do not know a literal to be a string, hence the sum.
HeaderName == STRING \cup OverrideNames \cup {"accept"}
HeaderType == [name : HeaderName, value : {"locked", "renderer", "origin"}]

\* hs is made of the locked headers, a Referer only in Standard mode and not over http,
\* the renderer's headers that are neither stripped nor overridden, and an Accept if the
\* renderer set none.
IsScrubbed(hs, mode, url, names) ==
  \E ref \in Seq(HeaderType), mine \in Seq(HeaderType), acc \in Seq(HeaderType),
     passed \in Seq(STRING) :
    /\ IsHeaderList(hs, Locked("user-agent"), Locked("accept-language"),
                    Locked("accept-encoding"), Locked("dnt"), Locked("sec-gpc"),
                    ref, mine, acc)
    /\ \/ ref = <<>>
       \/ /\ ref = <<Header("referer", "origin")>>
          /\ mode = "Standard" /\ url.scheme # "http"
    /\ ToSet(passed) = ToSet(names) \ (StripNames \cup OverrideNames)
    /\ Len(mine) = Len(passed)
    /\ \A i \in 1..Len(passed) : mine[i] = Header(passed[i], "renderer")
    /\ \/ acc = <<>> /\ "accept" \in ToSet(passed)
       \/ acc = <<Locked("accept")>> /\ "accept" \notin ToSet(passed)

\* Such a list is what scrub (headers.rs) hands out.
LEMMA ScrubShape ==
  ASSUME NEW mode \in {"Standard", "Strict"}, NEW origin, NEW url, NEW names \in Seq(STRING)
  PROVE  IsScrubbed(Scrub(HeaderPolicyFor(mode), origin, url, names), mode, url, names)
<1> DEFINE policy == HeaderPolicyFor(mode)
           passed == Omitting(names, StripNames \cup OverrideNames)
           ref == IF SendsReferer(policy, origin, url) THEN <<Header("referer", "origin")>>
                  ELSE <<>>
           mine == [i \in DOMAIN passed |-> Header(passed[i], "renderer")]
           acc == IF "accept" \in ToSet(passed) THEN <<>> ELSE <<Header("accept", "locked")>>
<1>1. passed \in Seq(STRING) /\ ToSet(passed) = ToSet(names) \ (StripNames \cup OverrideNames)
  BY OmittingFacts
<1>2. Scrub(policy, origin, url, names)
        = ((((<<Locked("user-agent"), Locked("accept-language"), Locked("accept-encoding")>>
              \o <<Locked("dnt")>>) \o <<Locked("sec-gpc")>>) \o ref) \o mine) \o acc
  <2>1. policy.dnt /\ policy.gpc
    BY DEF HeaderPolicyFor
  <2> HIDE DEF passed, policy
  <2> QED BY <2>1, Zenon DEF Scrub, Injected, Locked, passed
<1>3. \A n \in HeaderName :
        /\ Locked(n) \in HeaderType /\ Header(n, "renderer") \in HeaderType
        /\ Header(n, "origin") \in HeaderType
  BY DEF Header, HeaderType, Locked
<1>4. /\ STRING \subseteq HeaderName
      /\ {"user-agent", "accept-language", "accept-encoding", "dnt", "sec-gpc", "referer",
          "accept"} \subseteq HeaderName
  BY DEF HeaderName, OverrideNames
<1>5. /\ ref \in Seq(HeaderType) /\ Len(ref) \in Nat
      /\ \/ ref = <<>>
         \/ /\ ref = <<Header("referer", "origin")>>
            /\ mode = "Standard" /\ url.scheme # "http"
  <2>1. CASE SendsReferer(policy, origin, url)
    <3>1. ref = <<Header("referer", "origin")>> /\ Header("referer", "origin") \in HeaderType
      <4>1. ref = <<Header("referer", "origin")>>
        BY <2>1, Zenon
      <4> QED BY <1>3, <1>4, <4>1
    <3>2. mode = "Standard" /\ url.scheme # "http"
      BY <2>1 DEF SendsReferer, HeaderPolicyFor
    <3> HIDE DEF ref
    <3> QED BY <3>1, <3>2
  <2>2. CASE ~SendsReferer(policy, origin, url)
    BY <2>2
  <2> QED BY <2>1, <2>2
<1> HIDE DEF ref, passed
<1>6. /\ mine \in Seq(HeaderType) /\ Len(mine) = Len(passed) /\ Len(mine) \in Nat
      /\ \A i \in 1..Len(passed) : mine[i] = Header(passed[i], "renderer")
  <2>1. DOMAIN passed = 1..Len(passed) /\ Len(passed) \in Nat
        /\ \A i \in 1..Len(passed) : passed[i] \in STRING
    BY <1>1
  <2>2. mine = [i \in 1..Len(passed) |-> Header(passed[i], "renderer")]
    BY <2>1
  <2>3. \A i \in 1..Len(passed) : Header(passed[i], "renderer") \in HeaderType
    BY <2>1, <1>3, <1>4
  <2> DEFINE k == Len(passed)
             e(i) == Header(passed[i], "renderer")
  <2> HIDE DEF mine, k, e
  <2>4. mine = [i \in 1..k |-> e(i)] /\ k \in Nat /\ \A i \in 1..k : e(i) \in HeaderType
    BY <2>1, <2>2, <2>3 DEF k, e
  <2>5. mine \in Seq(HeaderType) /\ Len(mine) = k /\ \A i \in 1..k : mine[i] = e(i)
    BY <2>4
  <2> QED BY <2>4, <2>5 DEF k, e
<1>7. /\ acc \in Seq(HeaderType) /\ Len(acc) \in Nat
      /\ \/ acc = <<>> /\ "accept" \in ToSet(passed)
         \/ acc = <<Locked("accept")>> /\ "accept" \notin ToSet(passed)
  <2>1. Locked("accept") \in HeaderType
    BY <1>3, <1>4
  <2>2. CASE "accept" \in ToSet(passed)
    BY <2>2
  <2>3. CASE ~("accept" \in ToSet(passed))
    <3>1. acc = <<Locked("accept")>>
      BY <2>3, Zenon DEF Locked
    <3> HIDE DEF acc
    <3> QED BY <2>1, <2>3, <3>1
  <2> QED BY <2>2, <2>3
<1> HIDE DEF mine, acc, policy
<1>8. IsHeaderList(((((<<Locked("user-agent"), Locked("accept-language"),
                         Locked("accept-encoding")>>
              \o <<Locked("dnt")>>) \o <<Locked("sec-gpc")>>) \o ref) \o mine) \o acc,
                   Locked("user-agent"), Locked("accept-language"),
                   Locked("accept-encoding"), Locked("dnt"), Locked("sec-gpc"),
                   ref, mine, acc)
  <2>1. /\ Locked("user-agent") \in HeaderType /\ Locked("accept-language") \in HeaderType
        /\ Locked("accept-encoding") \in HeaderType /\ Locked("dnt") \in HeaderType
        /\ Locked("sec-gpc") \in HeaderType
    BY <1>3, <1>4
  <2> QED BY <2>1, <1>5, <1>6, <1>7, SixPieces, Zenon
<1>9. IsHeaderList(Scrub(policy, origin, url, names),
                   Locked("user-agent"), Locked("accept-language"),
                   Locked("accept-encoding"), Locked("dnt"), Locked("sec-gpc"),
                   ref, mine, acc)
  BY <1>2, <1>8, Zenon
<1> QED BY <1>1, <1>5, <1>6, <1>7, <1>9, Zenon DEF policy, IsScrubbed

\* Where one name sits in the list decides how often it occurs and with which values.
Places(hs, n) == {i \in DOMAIN hs : hs[i].name = n}
ValuesAt(hs, n) == {hs[i].value : i \in Places(hs, n)}

NameByName(hs, mode, url, names) ==
  /\ \A n \in OverrideNames \ {"referer"} :
       Cardinality(Places(hs, n)) = 1 /\ ValuesAt(hs, n) = {"locked"}
  /\ \A n \in StripNames : Cardinality(Places(hs, n)) = 0
  /\ Cardinality(Places(hs, "referer")) <= 1
  /\ ValuesAt(hs, "referer") \subseteq {"origin"}
  /\ Cardinality(Places(hs, "referer")) = 1 => mode = "Standard" /\ url.scheme # "http"
  /\ \A n \in ToSet(names) \ (StripNames \cup OverrideNames) : ValuesAt(hs, n) = {"renderer"}

\* What scrub (headers.rs) hands out, name by name: the names of the browser once, those
\* it forbids never, the Referer only in Standard mode and never over http, the others of
\* the renderer as the renderer set them.
LEMMA ScrubPlaces ==
  ASSUME NEW mode \in {"Standard", "Strict"}, NEW origin, NEW url, NEW names \in Seq(STRING),
         NEW hs, hs = Scrub(HeaderPolicyFor(mode), origin, url, names)
  PROVE  NameByName(hs, mode, url, names)
<1>1. IsScrubbed(hs, mode, url, names)
  BY ScrubShape, Zenon
<1>2. PICK ref \in Seq(HeaderType), mine \in Seq(HeaderType), acc \in Seq(HeaderType),
           passed \in Seq(STRING) :
         /\ IsHeaderList(hs,
                         Locked("user-agent"), Locked("accept-language"),
                         Locked("accept-encoding"), Locked("dnt"), Locked("sec-gpc"),
                         ref, mine, acc)
         /\ \/ ref = <<>>
            \/ /\ ref = <<Header("referer", "origin")>>
               /\ mode = "Standard" /\ url.scheme # "http"
         /\ ToSet(passed) = ToSet(names) \ (StripNames \cup OverrideNames)
         /\ Len(mine) = Len(passed)
         /\ \A i \in 1..Len(passed) : mine[i] = Header(passed[i], "renderer")
         /\ \/ acc = <<>> /\ "accept" \in ToSet(passed)
            \/ acc = <<Locked("accept")>> /\ "accept" \notin ToSet(passed)
  BY <1>1, Zenon DEF IsScrubbed
<1> DEFINE free == ToSet(names) \ (StripNames \cup OverrideNames)
<1>3. PICK r \in 0..1, p \in Nat, a \in 0..1 :
         /\ r = Len(ref) /\ p = Len(mine) /\ a = Len(acc)
         /\ r = 1 => mode = "Standard" /\ url.scheme # "http"
         /\ \A i \in 1..r : ref[i] = Header("referer", "origin")
         /\ \A i \in 1..a : acc[i] = Locked("accept")
         /\ a = 1 <=> "accept" \notin free
         /\ \A i \in 1..p : passed[i] \in free /\ mine[i] = Header(passed[i], "renderer")
         /\ \A n \in free : \E i \in 1..p : n = passed[i]
  <2>1. /\ Len(ref) \in 0..1
        /\ Len(ref) = 1 => mode = "Standard" /\ url.scheme # "http"
        /\ \A i \in 1..Len(ref) : ref[i] = Header("referer", "origin")
    BY <1>2
  <2>2. free = ToSet(passed)
    BY <1>2
  <2> HIDE DEF free
  <2>3. /\ Len(acc) \in 0..1
        /\ \A i \in 1..Len(acc) : acc[i] = Locked("accept")
        /\ Len(acc) = 1 <=> "accept" \notin free
    <3>1. CASE acc = <<>> /\ "accept" \in free
      BY <3>1
    <3>2. CASE acc = <<Locked("accept")>> /\ "accept" \notin free
      <4>1. Len(acc) = 1 /\ acc[1] = Locked("accept")
        BY <3>2
      <4> QED BY <3>2, <4>1
    <3> QED BY <1>2, <2>2, <3>1, <3>2
  <2>4. /\ Len(mine) = Len(passed) /\ DOMAIN passed = 1..Len(passed) /\ Len(passed) \in Nat
        /\ \A i \in 1..Len(passed) : mine[i] = Header(passed[i], "renderer")
    BY <1>2
  <2>5. /\ \A i \in DOMAIN passed : passed[i] \in free
        /\ \A n \in free : \E i \in DOMAIN passed : n = passed[i]
    BY <2>2 DEF ToSet
  <2>6. /\ Len(mine) \in Nat
        /\ \A i \in 1..Len(mine) :
             passed[i] \in free /\ mine[i] = Header(passed[i], "renderer")
        /\ \A n \in free : \E i \in 1..Len(mine) : n = passed[i]
    BY <2>4, <2>5
  <2> QED BY <2>1, <2>3, <2>6
<1> HIDE DEF free
<1>4. /\ DOMAIN hs = 1..(5 + r + p + a)
      /\ hs[1] = Locked("user-agent") /\ hs[2] = Locked("accept-language")
      /\ hs[3] = Locked("accept-encoding") /\ hs[4] = Locked("dnt")
      /\ hs[5] = Locked("sec-gpc")
      /\ \A i \in 1..r : hs[5 + i] = Header("referer", "origin")
      /\ \A i \in 1..p : passed[i] \in free /\ hs[5 + r + i] = Header(passed[i], "renderer")
      /\ \A i \in 1..a : hs[5 + r + p + i] = Locked("accept")
  <2>1. /\ DOMAIN hs = 1..(5 + r + p + a)
        /\ hs[1] = Locked("user-agent") /\ hs[2] = Locked("accept-language")
        /\ hs[3] = Locked("accept-encoding") /\ hs[4] = Locked("dnt")
        /\ hs[5] = Locked("sec-gpc")
        /\ \A i \in 1..r : hs[5 + i] = ref[i]
        /\ \A i \in 1..p : hs[5 + r + i] = mine[i]
        /\ \A i \in 1..a : hs[5 + r + p + i] = acc[i]
    BY <1>2, <1>3 DEF IsHeaderList
  <2>2. /\ \A i \in 1..r : ref[i] = Header("referer", "origin")
        /\ \A i \in 1..p : passed[i] \in free /\ mine[i] = Header(passed[i], "renderer")
        /\ \A i \in 1..a : acc[i] = Locked("accept")
    BY <1>3, Zenon
  <2>3. /\ \A i \in 1..r : hs[5 + i] = Header("referer", "origin")
        /\ \A i \in 1..a : hs[5 + r + p + i] = Locked("accept")
    BY <2>1, <2>2, Zenon
  <2>4. \A i \in 1..p : passed[i] \in free /\ hs[5 + r + i] = Header(passed[i], "renderer")
    BY <2>1, <2>2, Zenon
  <2> QED BY <2>1, <2>3, <2>4, Zenon
\* The five that are always there, the Referer, the renderer's, the default Accept.
<1>5. ASSUME NEW i \in DOMAIN hs
      PROVE  \/ i \in 1..5
             \/ i = 6 /\ r = 1 /\ hs[i] = Header("referer", "origin")
             \/ \E n \in free : hs[i] = Header(n, "renderer")
             \/ "accept" \notin free /\ hs[i] = Locked("accept")
  <2>1. CASE i \in 1..5
    BY <2>1
  <2>2. CASE i \in 6..(5 + r)
    <3>1. r = 1 /\ i = 6 /\ 1 \in 1..r /\ 5 + 1 = i
      BY <2>2
    <3>2. hs[5 + 1] = Header("referer", "origin")
      BY <1>4, <3>1
    <3> QED BY <3>1, <3>2
  <2>3. CASE i \in (6 + r)..(5 + r + p)
    <3>1. PICK j \in 1..p : 5 + r + j = i
      <4>1. i - 5 - r \in 1..p /\ 5 + r + (i - 5 - r) = i
        BY <2>3, SMTT(30)
      <4> QED BY <4>1
    <3> QED BY <1>4, <3>1
  <2>4. CASE i \in (6 + r + p)..(5 + r + p + a)
    <3>1. a = 1 /\ 5 + r + p + 1 = i /\ 1 \in 1..a
      BY <2>4
    <3>2. hs[5 + r + p + 1] = Locked("accept") /\ "accept" \notin free
      BY <1>3, <1>4, <3>1
    <3> QED BY <3>1, <3>2
  <2>5. i \in 1..(5 + r + p + a)
    BY <1>4
  <2>6. \/ i \in 1..5 \/ i \in 6..(5 + r) \/ i \in (6 + r)..(5 + r + p)
        \/ i \in (6 + r + p)..(5 + r + p + a)
    BY <2>5, SMTT(30)
  <2> QED BY <2>1, <2>2, <2>3, <2>4, <2>6
<1>6. {1, 2, 3, 4, 5} \subseteq DOMAIN hs /\ (r = 1 => 6 \in DOMAIN hs)
  BY <1>4
<1>7. \A n, v : Header(n, v).name = n /\ Header(n, v).value = v
  BY DEF Header
<1>8. Cardinality({}) = 0 /\ \A x : Cardinality({x}) = 1
  BY FS_EmptySet, FS_Singleton
<1>9. ASSUME NEW i \in DOMAIN hs
      PROVE  \/ i \in 1..5
             \/ i = 6 /\ r = 1 /\ hs[i].name = "referer" /\ hs[i].value = "origin"
             \/ hs[i].name \in free /\ hs[i].value = "renderer"
             \/ "accept" \notin free /\ hs[i].name = "accept"
  BY <1>5, <1>7 DEF Locked
<1>10. "referer" \in OverrideNames /\ "referer" # "accept"
  BY DEF OverrideNames
<1>11. "accept" \notin OverrideNames \cup StripNames
      /\ OverrideNames \cap StripNames = {}
  BY DEF OverrideNames, StripNames
<1>12. \A n \in free : n \notin OverrideNames /\ n \notin StripNames
  BY DEF free
\* A name the policy sets.
<1>13. ASSUME NEW n, NEW at \in 1..5, n \in OverrideNames, n # "referer",
             hs[at] = Locked(n),
             \A j \in 1..5 : j # at => hs[j].name # n
      PROVE  Cardinality(Places(hs, n)) = 1 /\ ValuesAt(hs, n) = {"locked"}
  <2>1. at \in Places(hs, n)
    BY <1>6, <1>7, <1>13 DEF Places, Locked
  <2>2. ASSUME NEW i \in Places(hs, n) PROVE i = at
    <3>1. i \in DOMAIN hs /\ hs[i].name = n
      BY <2>2 DEF Places
    <3>2. i \in 1..5
      BY <1>9, <1>10, <1>11, <1>12, <1>13, <3>1
    <3> QED BY <1>13, <3>1, <3>2
  <2>3. Places(hs, n) = {at}
    BY <2>1, <2>2
  <2>4. hs[at].value = "locked"
    BY <1>7, <1>13 DEF Locked
  <2> QED BY <1>8, <2>3, <2>4 DEF ValuesAt
<1>14. /\ hs[1].name = "user-agent" /\ hs[2].name = "accept-language"
       /\ hs[3].name = "accept-encoding" /\ hs[4].name = "dnt" /\ hs[5].name = "sec-gpc"
  BY <1>4, <1>7 DEF Locked
<1>15. ASSUME NEW n \in OverrideNames \ {"referer"}
       PROVE  Cardinality(Places(hs, n)) = 1 /\ ValuesAt(hs, n) = {"locked"}
  <2>1. PICK at \in 1..5 : hs[at] = Locked(n) /\ \A j \in 1..5 : j # at => hs[j].name # n
    <3>1. n \in {"user-agent", "accept-language", "accept-encoding", "dnt", "sec-gpc"}
      BY <1>15 DEF OverrideNames
    <3>2. \A j \in 1..5 : j = 1 \/ j = 2 \/ j = 3 \/ j = 4 \/ j = 5
      OBVIOUS
    <3>3. PICK at \in 1..5 : hs[at] = Locked(n) /\ hs[at].name = n
      BY <1>4, <1>14, <3>1
    <3>4. \A j \in 1..5 : hs[j].name = n => j = at
      BY <1>14, <3>2, <3>3
    <3> QED BY <3>3, <3>4
  <2> QED BY <1>13, <1>15, <2>1
<1>16. ASSUME NEW n \in StripNames PROVE Cardinality(Places(hs, n)) = 0
  <2>1. ASSUME NEW i \in 1..5 PROVE hs[i].name \notin StripNames
    BY <1>14, <2>1 DEF StripNames
  <2>2. Places(hs, n) = {}
    <3>1. ASSUME NEW i \in DOMAIN hs PROVE hs[i].name # n
      BY <1>9, <1>10, <1>11, <1>12, <1>16, <2>1, <3>1
    <3> QED BY <3>1 DEF Places
  <2> QED BY <1>8, <2>2
<1>17. /\ Places(hs, "referer") = IF r = 1 THEN {6} ELSE {}
       /\ ValuesAt(hs, "referer") \subseteq {"origin"}
  <2>1. ASSUME NEW i \in Places(hs, "referer")
        PROVE  i = 6 /\ r = 1 /\ hs[i] = Header("referer", "origin")
    <3>1. i \notin 1..5
      BY <1>14, <2>1 DEF Places
    <3> QED BY <1>5, <1>7, <1>9, <1>10, <1>12, <2>1, <3>1 DEF Places, Locked
  <2>2. r = 1 => 6 \in Places(hs, "referer")
    <3>1. ASSUME r = 1 PROVE hs[5 + 1] = Header("referer", "origin") /\ 5 + 1 = 6
      BY <1>4, <3>1
    <3> QED BY <1>6, <1>7, <3>1 DEF Places
  <2> QED BY <1>7, <2>1, <2>2 DEF ValuesAt
<1>18. /\ Cardinality(Places(hs, "referer")) <= 1
       /\ Cardinality(Places(hs, "referer")) = 1 => mode = "Standard" /\ url.scheme # "http"
  <2>1. CASE r = 1
    <3>1. Cardinality(Places(hs, "referer")) = 1
      BY <1>17, <1>8, <2>1
    <3> QED BY <1>3, <2>1, <3>1
  <2>2. CASE r # 1
    <3>1. Cardinality(Places(hs, "referer")) = 0
      BY <1>17, <1>8, <2>2
    <3> QED BY <3>1
  <2> QED BY <2>1, <2>2
<1>19. ASSUME NEW n \in free PROVE ValuesAt(hs, n) = {"renderer"}
  <2>1. ASSUME NEW i \in Places(hs, n) PROVE hs[i].value = "renderer"
    <3>1. \A j \in 1..5 : hs[j].name \in OverrideNames
      BY <1>14 DEF OverrideNames
    <3>2. i \in DOMAIN hs /\ hs[i].name = n
      BY <2>1 DEF Places
    <3> QED BY <1>9, <1>10, <1>12, <3>1, <3>2, <1>19
  <2>2. \E i \in Places(hs, n) : TRUE
    <3>1. PICK j \in 1..p : n = passed[j]
      BY <1>3, <1>19
    <3>2. 5 + r + j \in DOMAIN hs /\ hs[5 + r + j] = Header(n, "renderer")
      BY <1>4, <3>1
    <3> QED BY <1>7, <3>2 DEF Places
  <2> QED BY <2>1, <2>2 DEF ValuesAt
<1> QED BY <1>15, <1>16, <1>17, <1>18, <1>19 DEF free, NameByName

\* The headers that go out say nothing of the user that the browser did not put there:
\* every name it locks once with its own value, none of those the renderer may not set,
\* the origin only as Standard's Referer over https, and the renderer's others all there.
THEOREM HeadersAreTheBrowsersHolds == Spec => []HeadersAreTheBrowsers
<1>1. RouteIInv => HeadersAreTheBrowsers
  <2> SUFFICES ASSUME RouteIInv, sent # NoRoute PROVE HeadersAreTheBrowsers
    BY DEF HeadersAreTheBrowsers
  <2>1. OnItsWay(sent) /\ sent.stage = "sent"
    BY DEF RouteIInv
  <2>2. /\ sent.req.url \in Urls /\ sent.req.headers \in Seq(STRING)
        /\ sent.req.mode \in {"Standard", "Strict"}
    BY <2>1, RequestTypes
  <2>3. sent.headers = Scrub(HeaderPolicyFor(sent.req.mode), sent.req.origin, sent.url,
                             sent.req.headers)
    BY <2>1 DEF OnItsWay, Scrubbed
  <2>4. sent.url = StripTrackingParams(sent.req.url, StripRules[sent.stripRules])
    BY <2>1 DEF OnItsWay
  <2>5. sent.url.scheme = sent.req.url.scheme
    <3>1. \A url \in Urls : \A list : StripTrackingParams(url, list).scheme = url.scheme
      BY StripFacts
    <3> QED BY <2>2, <2>4, <3>1
  <2>6. sent.url.scheme \in {"https", "http"}
    BY <2>1, <2>5 DEF OnItsWay, Permitted
  <2> DEFINE hs == sent.headers
  <2>7. NameByName(hs, sent.req.mode, sent.url, sent.req.headers)
    BY <2>2, <2>3, ScrubPlaces, Zenon
  <2>8. Cardinality(Places(hs, "referer")) = 1 =>
          sent.req.mode = "Standard" /\ sent.url.scheme = "https"
    BY <2>6, <2>7, Zenon DEF NameByName
  <2> QED BY <2>7, <2>8, Zenon DEF HeadersAreTheBrowsers, NameByName, Places, ValuesAt
<1> QED BY <1>1, RouteInvariant, PTL

-----------------------------------------------------------------------------
(* Blocking: the tree of the rules answers as the documentation of the     *)
(* module promises (radix_tree.rs).                                        *)

\* The labels of a host are a sequence, whatever dots it has too many (radix_tree.rs).
LEMMA LabelsType ==
  ASSUME NEW host \in Seq(STRING)
  PROVE  Labels(host) \in Seq(STRING)
<1>1. Reverse(host) \in Seq(STRING)
  <2> DEFINE n == Len(host)
             e(i) == host[(n - i) + 1]
  <2>1. n \in Nat /\ \A i \in 1..n : host[i] \in STRING
    OBVIOUS
  <2>2. \A i \in 1..n : (n - i) + 1 \in 1..n
    BY <2>1
  <2>3. \A i \in 1..n : e(i) \in STRING
    BY <2>1, <2>2
  <2> HIDE DEF n, e
  <2>4. [i \in 1..n |-> e(i)] \in Seq(STRING)
    BY <2>1, <2>3
  <2> QED BY <2>4, Zenon DEF Reverse, n, e
<1> QED BY <1>1, OmittingFacts DEF Labels

Path(rules, i) == Labels(rules[i].hostname)
\* Of the first k rules none after rule i has its hostname.
IsLast(rules, i, k) == \A j \in 1..k : j > i => Path(rules, j) # Path(rules, i)
TerminalOf(rule) == [kind |-> rule.kind, subdomains |-> rule.subdomains]

\* The terminals of the tree are those of the last rules for their hostnames.
TreeOf(tree, rules, k) ==
  /\ \A i \in 1..k : Path(rules, i) # <<>> /\ IsLast(rules, i, k) =>
       /\ Path(rules, i) \in DOMAIN tree
       /\ tree[Path(rules, i)] = TerminalOf(rules[i])
  /\ \A q \in DOMAIN tree : tree[q] # Inner =>
       q # <<>> /\ \E i \in 1..k : Path(rules, i) = q /\ IsLast(rules, i, k)

\* One more rule replaces the terminal of its hostname and leaves the others (insert).
LEMMA InsertOneRule ==
  ASSUME NEW rules \in Seq(Rule), NEW k \in 1..Len(rules), NEW before, NEW tree,
         TreeOf(before, rules, k - 1), tree = Insert(before, rules[k])
  PROVE  TreeOf(tree, rules, k)
<1> DEFINE path == Path(rules, k)
           nodes == DOMAIN before \cup {SubSeq(path, 1, i) : i \in 0..Len(path)}
<1>1. rules[k].hostname \in Seq(STRING)
  <2>1. rules[k] \in Rule
    OBVIOUS
  <2> QED BY <2>1 DEF Rule
<1>2. path \in Seq(STRING) /\ path \in nodes
  <2>1. path \in Seq(STRING)
    BY <1>1, LabelsType DEF Path
  <2> HIDE DEF path
  <2>2. SubSeq(path, 1, Len(path)) = path /\ Len(path) \in 0..Len(path)
    BY <2>1
  <2> QED BY <2>1, <2>2
<1>3. tree = IF path = <<>> THEN before
             ELSE [q \in nodes |-> IF q = path THEN TerminalOf(rules[k])
                                   ELSE IF q \in DOMAIN before THEN before[q] ELSE Inner]
  BY Zenon DEF Insert, Path, TerminalOf
<1>4. DOMAIN before \subseteq nodes
  OBVIOUS
<1>5. k \in Nat /\ k - 1 \in Nat /\ 1..k = 1..(k - 1) \cup {k} /\ k \notin 1..(k - 1)
  OBVIOUS
<1>6. ASSUME NEW i \in 1..k
      PROVE  /\ IsLast(rules, i, k) => IsLast(rules, i, k - 1)
             /\ IsLast(rules, i, k) /\ i # k => Path(rules, i) # path
             /\ IsLast(rules, i, k - 1) /\ Path(rules, i) # path => IsLast(rules, i, k)
             /\ IsLast(rules, k, k)
  <2>1. i # k => k > i
    BY <1>5
  <2>2. \A j \in 1..k : ~(j > k)
    BY <1>5
  <2> QED BY <1>5, <2>1, <2>2 DEF IsLast
<1> HIDE DEF path, nodes
<1>7. CASE path = <<>>
  <2>1. tree = before
    BY <1>3, <1>7
  <2>2. ASSUME NEW i \in 1..k, Path(rules, i) # <<>>, IsLast(rules, i, k)
        PROVE  Path(rules, i) \in DOMAIN tree /\ tree[Path(rules, i)] = TerminalOf(rules[i])
    <3>1. i \in 1..(k - 1)
      BY <1>5, <1>7, <2>2 DEF path
    <3> QED BY <1>6, <2>1, <2>2, <3>1 DEF TreeOf
  <2>3. ASSUME NEW q \in DOMAIN tree, tree[q] # Inner
        PROVE  q # <<>> /\ \E i \in 1..k : Path(rules, i) = q /\ IsLast(rules, i, k)
    <3>1. PICK i \in 1..(k - 1) : q # <<>> /\ Path(rules, i) = q /\ IsLast(rules, i, k - 1)
      BY <2>1, <2>3 DEF TreeOf
    <3>2. i \in 1..k /\ Path(rules, i) # path
      BY <1>5, <1>7, <3>1
    <3> QED BY <1>6, <3>1, <3>2
  <2> QED BY <2>2, <2>3 DEF TreeOf
<1>8. CASE path # <<>>
  <2>1. /\ DOMAIN tree = nodes
        /\ \A q \in nodes : tree[q] = IF q = path THEN TerminalOf(rules[k])
                                      ELSE IF q \in DOMAIN before THEN before[q] ELSE Inner
    BY <1>3, <1>8
  <2>2. ASSUME NEW i \in 1..k, Path(rules, i) # <<>>, IsLast(rules, i, k)
        PROVE  Path(rules, i) \in DOMAIN tree /\ tree[Path(rules, i)] = TerminalOf(rules[i])
    <3>1. CASE i = k
      BY <1>2, <2>1, <3>1 DEF path
    <3>2. CASE i # k
      <4>1. i \in 1..(k - 1) /\ Path(rules, i) # path /\ IsLast(rules, i, k - 1)
        BY <1>5, <1>6, <2>2, <3>2
      <4>2. Path(rules, i) \in DOMAIN before
            /\ before[Path(rules, i)] = TerminalOf(rules[i])
        BY <2>2, <4>1 DEF TreeOf
      <4> QED BY <1>4, <2>1, <4>1, <4>2
    <3> QED BY <3>1, <3>2
  <2>3. ASSUME NEW q \in DOMAIN tree, tree[q] # Inner
        PROVE  q # <<>> /\ \E i \in 1..k : Path(rules, i) = q /\ IsLast(rules, i, k)
    <3>1. CASE q = path
      <4>1. k \in 1..k /\ Path(rules, k) = q
        BY <1>5, <3>1 DEF path
      <4> QED BY <1>6, <1>8, <3>1, <4>1
    <3>2. CASE q # path
      <4>1. q \in DOMAIN before /\ before[q] # Inner
        BY <2>1, <2>3, <3>2
      <4>2. PICK i \in 1..(k - 1) : q # <<>> /\ Path(rules, i) = q /\ IsLast(rules, i, k - 1)
        BY <4>1 DEF TreeOf
      <4>3. i \in 1..k /\ Path(rules, i) # path
        BY <1>5, <3>2, <4>2
      <4> QED BY <1>6, <4>2, <4>3
    <3> QED BY <3>1, <3>2
  <2> QED BY <2>2, <2>3 DEF TreeOf
<1> QED BY <1>7, <1>8

\* from_rules: the tree of all the rules.
LEMMA FromRulesFacts ==
  ASSUME NEW rules \in Seq(Rule)
  PROVE  TreeOf(FromRules(rules), rules, Len(rules))
<1> DEFINE n == Len(rules)
<1>1. n \in Nat
  OBVIOUS
<1>2. PICK g : /\ g[0] = EmptyTree /\ g[n] = FromRules(rules)
               /\ \A k \in 1..n : g[k] = Insert(g[k - 1], rules[k])
  BY FromRulesRuns
<1> DEFINE Wrong == {k \in 0..n : ~TreeOf(g[k], rules, k)}
<1>3. TreeOf(g[0], rules, 0)
  <2>1. DOMAIN EmptyTree = {<<>>} /\ EmptyTree[<<>>] = Inner
    BY DEF EmptyTree
  <2> QED BY <1>2, <2>1 DEF TreeOf
<1>4. ASSUME NEW k \in 1..n, TreeOf(g[k - 1], rules, k - 1) PROVE TreeOf(g[k], rules, k)
  BY <1>2, <1>4, InsertOneRule
<1> HIDE DEF n
<1>5. Wrong = {}
  <2>1. 0 \notin Wrong /\ \A k \in 1..n : k \in Wrong => k - 1 \in Wrong
    BY <1>1, <1>3, <1>4
  <2>2. Wrong \in SUBSET (0..n)
    OBVIOUS
  <2> HIDE DEF Wrong
  <2> QED BY <1>1, <2>1, <2>2, NoFirstWrong
<1>6. TreeOf(g[n], rules, n)
  BY <1>1, <1>5
<1> QED BY <1>2, <1>6 DEF n

\* The first i labels of a sequence, and when they are all of it.
LEMMA FirstLabels ==
  ASSUME NEW L \in Seq(STRING), NEW i \in 0..Len(L)
  PROVE  /\ SubSeq(L, 1, i) \in Seq(STRING) /\ Len(SubSeq(L, 1, i)) = i
         /\ i = Len(L) => SubSeq(L, 1, i) = L
         /\ SubSeq(SubSeq(L, 1, i), 1, i) = SubSeq(L, 1, i)
  OBVIOUS

\* The walk down the tree finds the kind of the rule with the longest hostname that covers the
\* host, of several for that hostname the last inserted, whatever rules overlap.
THEOREM MatchIsLongest ==
  ASSUME NEW rules \in Seq(Rule), NEW host \in Seq(STRING)
  PROVE  MatchTree(FromRules(rules), host) = LongestMatch(rules, host)
<1> DEFINE n == Len(rules)
           tree == FromRules(rules)
           L == Labels(host)
           m == Len(L)
           At(i) == tree[SubSeq(L, 1, i)]
           C == {i \in 1..m :
                   /\ SubSeq(L, 1, i) \in DOMAIN tree
                   /\ At(i) # Inner
                   /\ At(i).subdomains \/ i = m}
           D == {r \in Standing(rules) : Covers(r, host)}
           Deep(r) == Len(Labels(r.hostname))
<1>1. L \in Seq(STRING) /\ m \in Nat /\ n \in Nat
  BY LabelsType
<1>2. MatchTree(tree, host) = IF C = {} THEN "none" ELSE At(Max(C)).kind
  BY Zenon DEF MatchTree
<1>3. LongestMatch(rules, host) =
        IF D = {} THEN "none"
        ELSE (CHOOSE r \in D : \A s \in D : Deep(s) <= Deep(r)).kind
  BY Zenon DEF LongestMatch
<1>4. TreeOf(tree, rules, n)
  BY FromRulesFacts
<1>5. Standing(rules) = {rules[x] : x \in {x \in 1..n : IsLast(rules, x, n)}}
  <2>1. DOMAIN rules = 1..n
    OBVIOUS
  <2> HIDE DEF n
  <2> QED BY <2>1, Zenon DEF Standing, IsLast, Path
<1>6. \A x \in 1..n : /\ rules[x].kind \in BlockKind /\ rules[x].hostname \in Seq(STRING)
                       /\ Path(rules, x) \in Seq(STRING)
                       /\ TerminalOf(rules[x]) # Inner
  <2>1. ASSUME NEW x \in 1..n PROVE rules[x] \in Rule
    OBVIOUS
  <2>2. \A x \in 1..n : rules[x].kind \in BlockKind /\ rules[x].hostname \in Seq(STRING)
    BY <2>1 DEF Rule
  <2>3. \A x \in 1..n : Path(rules, x) \in Seq(STRING)
    BY <2>2, LabelsType DEF Path
  <2>4. \A x \in 1..n : TerminalOf(rules[x]).kind # Inner.kind
    BY <2>2 DEF BlockKind, TerminalOf, Inner
  <2> QED BY <2>2, <2>3, <2>4
<1> HIDE DEF n, tree, L, m, C, D
<1>7. ASSUME NEW r \in D
      PROVE  Deep(r) \in C /\ At(Deep(r)).kind = r.kind
  <2>1. PICK x \in 1..n : r = rules[x] /\ IsLast(rules, x, n)
    BY <1>5 DEF D
  <2> DEFINE q == Path(rules, x)
  <2>2. /\ q = Labels(r.hostname) /\ q # <<>> /\ q \in Seq(STRING)
        /\ q = L \/ (r.subdomains /\ IsPrefix(q, L))
    BY <1>6, <2>1 DEF D, Covers, Path, L
  <2>3. q \in DOMAIN tree /\ tree[q] = TerminalOf(r) /\ tree[q] # Inner
    BY <1>4, <1>6, <2>1, <2>2 DEF TreeOf
  <2> HIDE DEF q
  <2>4. Len(q) \in 1..m /\ SubSeq(L, 1, Len(q)) = q /\ (r.subdomains \/ Len(q) = m)
    <3>1. Len(q) \in Nat /\ Len(q) # 0
      BY <2>2
    <3>2. CASE q = L
      BY <1>1, <3>1, <3>2, FirstLabels DEF m
    <3>3. CASE r.subdomains /\ IsPrefix(q, L)
      <4>1. Len(q) <= Len(L) /\ SubSeq(q, 1, Len(q)) = SubSeq(L, 1, Len(q))
        BY <3>3 DEF IsPrefix
      <4>2. SubSeq(q, 1, Len(q)) = q
        BY <2>2, <3>1, FirstLabels
      <4> QED BY <1>1, <3>1, <3>3, <4>1, <4>2 DEF m
    <3> QED BY <2>2, <3>2, <3>3
  <2>5. Len(q) = Deep(r) /\ At(Deep(r)) = TerminalOf(r)
    BY <2>2, <2>3, <2>4
  <2>6. At(Deep(r)).subdomains = r.subdomains /\ At(Deep(r)).kind = r.kind
    BY <2>5 DEF TerminalOf
  <2> QED BY <2>2, <2>3, <2>4, <2>5, <2>6 DEF C
<1>8. ASSUME NEW i \in C
      PROVE  \E r \in D : Deep(r) = i
  <2> DEFINE q == SubSeq(L, 1, i)
  <2>1. /\ i \in 1..m /\ q \in DOMAIN tree /\ tree[q] # Inner
        /\ tree[q].subdomains \/ i = m
    BY DEF C
  <2>2. /\ q \in Seq(STRING) /\ Len(q) = i /\ (i = m => q = L)
        /\ SubSeq(q, 1, i) = SubSeq(L, 1, i)
    BY <1>1, <2>1, FirstLabels DEF m
  <2> HIDE DEF q
  <2>3. PICK x \in 1..n : q # <<>> /\ Path(rules, x) = q /\ IsLast(rules, x, n)
    BY <1>4, <2>1 DEF TreeOf
  <2>4. tree[q] = TerminalOf(rules[x])
    BY <1>4, <2>3 DEF TreeOf
  <2>5. rules[x] \in Standing(rules) /\ Labels(rules[x].hostname) = q
    BY <1>5, <2>3 DEF Path
  <2>6. Covers(rules[x], host)
    <3>1. CASE i = m
      BY <2>2, <2>3, <2>5, <3>1 DEF Covers, L
    <3>2. CASE i # m
      <4>1. rules[x].subdomains
        BY <2>1, <2>4, <3>2 DEF TerminalOf
      <4>2. IsPrefix(q, L)
        BY <1>1, <2>1, <2>2 DEF IsPrefix, m, q
      <4> QED BY <2>3, <2>5, <4>1, <4>2 DEF Covers, L
    <3> QED BY <3>1, <3>2
  <2> QED BY <2>2, <2>5, <2>6 DEF D
<1>9. CASE D = {}
  <2>1. C = {}
    BY <1>8, <1>9
  <2> QED BY <1>2, <1>3, <1>9, <2>1 DEF tree
<1>10. CASE D # {}
  <2>1. C # {} /\ C \in SUBSET (0..m)
    BY <1>7, <1>10 DEF C
  <2>2. Max(C) \in C /\ \A i \in C : i <= Max(C)
    BY <1>1, <2>1, MaxIs
  <2>3. PICK top \in D : Deep(top) = Max(C)
    BY <1>8, <2>2
  <2>4. \A s \in D : Deep(s) <= Deep(top)
    BY <1>7, <2>2, <2>3
  <2> DEFINE r == CHOOSE r \in D : \A s \in D : Deep(s) <= Deep(r)
  <2>5. r \in D /\ \A s \in D : Deep(s) <= Deep(r)
    BY <2>4, Zenon
  <2> HIDE DEF r
  <2>6. Deep(r) \in C /\ Deep(r) <= Max(C) /\ Max(C) <= Deep(r)
    BY <1>7, <2>2, <2>3, <2>5
  <2>7. Deep(r) = Max(C)
    <3> DEFINE a == Deep(r)
               b == Max(C)
    <3>1. a \in C /\ b \in C /\ a <= b /\ b <= a
      BY <2>2, <2>6, Zenon
    <3> HIDE DEF a, b
    <3>2. a = b
      BY <1>1, <2>1, <3>1
    <3> QED BY <3>2 DEF a, b
  <2>8. At(Max(C)).kind = r.kind
    BY <1>7, <2>5, <2>7
  <2>9. MatchTree(tree, host) = At(Max(C)).kind
    BY <1>2, <2>1
  <2>10. LongestMatch(rules, host) = r.kind
    BY <1>3, <1>10, Zenon DEF r
  <2> QED BY <2>8, <2>9, <2>10 DEF tree
<1> QED BY <1>9, <1>10

\* The rule with the longest hostname that covers a host decides, of several for that hostname
\* the last in the list: no request it covers goes out, and the event names its kind.
THEOREM LongestMatchDecidesHolds == Spec => []LongestMatchDecides
<1>1. ASSUME NEW v \in Version PROVE HostRules[v] \in Seq(Rule)
  <2>1. ManifestOf(v).host_rules \in Seq(Rule)
    BY <1>1, PublishedAssumption, VersionAssumption
       DEF ManifestOf, Manifest, EmptyManifest, Version
  <2> QED BY <2>1 DEF HostRules
<1>2. ASSUME NEW req \in Request PROVE ParseHost(req.url) \in Seq(STRING)
  <2>1. req.url \in Urls
    BY RequestAssumption DEF RequestFields
  <2>2. req.url.authority \in Authority \/ req.url.authority = NoAuthority
    BY <2>1 DEF Urls
  <2>3. CASE req.url.authority = NoAuthority
    BY <2>3 DEF ParseHost
  <2>4. CASE req.url.authority # NoAuthority
    <3>1. req.url.authority.host \in Seq(STRING)
      BY <2>2, <2>4 DEF Authority
    <3> QED BY <2>4, <3>1 DEF ParseHost
  <2> QED BY <2>3, <2>4
<1>3. RouteIInv => LongestMatchDecides
  <2> SUFFICES ASSUME RouteIInv PROVE LongestMatchDecides
    OBVIOUS
  <2>1. ASSUME sent # NoRoute
        PROVE  LongestMatch(HostRules[sent.hostRules], sent.req.url.authority.host) = "none"
    <3>1. /\ sent.req \in Request /\ sent.hostRules \in Version
          /\ ParseHost(sent.req.url) # <<>>
          /\ MatchTree(FromRules(HostRules[sent.hostRules]), ParseHost(sent.req.url)) = "none"
      BY <2>1 DEF RouteIInv, OnItsWay, Unblocked
    <3>2. ParseHost(sent.req.url) = sent.req.url.authority.host
      BY <3>1 DEF ParseHost
    <3> QED BY <1>1, <1>2, <3>1, <3>2, MatchIsLongest
  <2>2. ASSUME event # NoEvent
        PROVE  event.kind = LongestMatch(HostRules[event.version], event.host)
    <3>1. /\ event.version \in Version /\ event.host \in Seq(STRING)
          /\ event.kind = MatchTree(FromRules(HostRules[event.version]), event.host)
      BY <1>2, <2>2 DEF RouteIInv, EventOk
    <3> QED BY <1>1, <3>1, MatchIsLongest
  <2> QED BY <2>1, <2>2 DEF LongestMatchDecides
<1> QED BY <1>3, RouteInvariant, PTL
=============================================================================
