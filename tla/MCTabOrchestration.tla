------------------------- MODULE MCTabOrchestration -------------------------
(* Model checking of the tab lifecycle under an orchestrator.              *)
EXTENDS TabOrchestration, IpcMessages, FiniteSets, SequencesExt

\* Standard profiles are interchangeable.
StandardSymmetry == Permutations(ProfileId \ StrictProfiles)

-----------------------------------------------------------------------------
(* Messages are functions, evaluated here over small inputs.               *)

Payload == UNION {[1..n -> {0, 255}] : n \in 0..MAX_MESSAGE_BYTES + 1}
Sendable == {p \in Payload : Len(p) <= MAX_MESSAGE_BYTES}

\* However a stream of messages is cut, the reader gets those that are whole, in order,
\* and then an error; it takes a message that was cut short for no message at all.
ASSUME CutsAreSeen ==
  \A a, b \in Sendable :
    LET sent == WriteFrame(a).bytes \o WriteFrame(b).bytes
        first == 4 + Len(a)
    IN  \A cut \in 0..Len(sent) :
          ReadAll[SubSeq(sent, 1, cut)] =
            [messages |-> IF cut < first THEN <<>> ELSE IF cut < Len(sent) THEN <<a>> ELSE <<a, b>>,
             last |-> LET inside == IF cut < first THEN cut
                                    ELSE IF cut < Len(sent) THEN cut - first ELSE 0
                      IN  IF inside < 4 THEN "ConnectionClosed" ELSE "Io"]

\* A length above the limit is refused on both sides, before the payload is read.
ASSUME TooLargeIsRefused ==
  /\ \A p \in Payload : WriteFrame(p).error = "MessageTooLarge" <=> p \notin Sendable
  /\ \A n \in {MAX_MESSAGE_BYTES + 1, 256, 2^16, 2^24} :
       ReadFrame(BeBytes(n), FALSE).result = "MessageTooLarge"

Someone == {"ann", "bob"}
Warning == [profile_id : Someone, code : WarningCode]
Message == [profile_id : {<<>>} \cup {<<p>> : p \in Someone},
            code : {CodeText[c] : c \in WarningCode} \cup {"strict_something_newer"}]

\* What is sent is what arrives, and nothing else is ever taken for a warning.
ASSUME WarningsRoundTrip ==
  /\ \A w \in Warning : FromMessage(AsMessage(w)) = w
  /\ \A m \in Message : "error" \in DOMAIN FromMessage(m) \/ AsMessage(FromMessage(m)) = m

\* Every history of records and resets (code "reset") of up to four steps leaves the
\* count of the records since the last reset, and their sum as the total.
Step == [profile_id : Someone, code : {"reset", "StrictDevToolsBlocked", "MixedModeShareAttempt"}]
Histories == UNION {[1..n -> Step] : n \in 0..4}
TallyOf(steps) ==
  FoldLeft(LAMBDA t, s : IF s.code = "reset" THEN Reset(t, s.profile_id)
                         ELSE Record(t, s.profile_id, s.code), EmptyMap, steps)
Since(steps, p) ==
  {i \in DOMAIN steps :
     /\ steps[i].profile_id = p /\ steps[i].code # "reset"
     /\ \A j \in DOMAIN steps : j > i => steps[j] # [profile_id |-> p, code |-> "reset"]}

ASSUME CountsAreExact ==
  \A steps \in Histories :
    LET tally == TallyOf(steps)
    IN  /\ \A p \in Someone :
             /\ \A c \in WarningCode :
                  CountFor(tally, p, c) = Cardinality({i \in Since(steps, p) : steps[i].code = c})
             /\ TotalFor(tally, p) = Cardinality(Since(steps, p))
        /\ NoneCounted(tally) <=> \A p \in Someone : Since(steps, p) = {}
=============================================================================
