------------------------- MODULE GpuProcess_proofs -------------------------
(***************************************************************************)
(* For every finite set of identities and all the bounds: buffers stay in  *)
(* their epoch, the rotation is fair, and the budget's records agree. A sum*)
(* over ids is reasoned about by the first id at which it would go wrong.  *)
(***************************************************************************)
EXTENDS GpuProcess, FiniteSetTheorems, SequenceTheorems,
        NaturalsInduction, WellFoundedInduction, TLAPS

QueueTypeOK ==
  queue \in [epoch : Nat, nextId : Nat \ {0},
             queues : UNION {[S -> Seq(Nat)] : S \in SUBSET Profile}, order : Seq(Profile)]

\* An id is minted once, so what a buffer was submitted under is never written over.
IdsMintedOnce == \A id \in DOMAIN submitted : id \in Nat /\ id < queue.nextId

\* What waits, and what ran, was submitted.
OnlySubmitted ==
  /\ \A p \in DOMAIN queue.queues : \A i \in DOMAIN queue.queues[p] :
       queue.queues[p][i] \in DOMAIN submitted
  /\ ran # NoCommand => ran.buffer \in DOMAIN submitted

BufferInv ==
  epoch \in Nat /\ QueueTypeOK /\ IdsMintedOnce /\ OnlySubmitted /\ BuffersOfThisEpoch

\* What the queues are made of.
LEMMA QueueShape ==
  ASSUME QueueTypeOK
  PROVE  /\ queue.epoch \in Nat /\ queue.nextId \in Nat \ {0} /\ queue.order \in Seq(Profile)
         /\ DOMAIN queue.queues \subseteq Profile
         /\ queue.queues \in [DOMAIN queue.queues -> Seq(Nat)]
  BY DEF QueueTypeOK

\* A buffer enters the queue of its profile.
LEMMA SubmitKeepsInv == BufferInv /\ SubmitBuffer => BufferInv'
<1> SUFFICES ASSUME BufferInv, SubmitBuffer PROVE BufferInv'
  OBVIOUS
<1> USE DEF BufferInv
<1>1. PICK t \in Tokens : Submit(t) /\ submitted' = Put(submitted, queue.nextId, t)
  BY DEF SubmitBuffer
<1> DEFINE p == t.profile
           id == queue.nextId
           waiting == Append(Pending(p), id)
<1>2. /\ p \in Profile /\ t = [profile |-> p, epoch |-> queue.epoch]
  BY <1>1 DEF Tokens, Token, Submit
<1>3. /\ id \in Nat \ {0} /\ queue.order \in Seq(Profile) /\ queue.epoch \in Nat
      /\ DOMAIN queue.queues \subseteq Profile
      /\ queue.queues \in [DOMAIN queue.queues -> Seq(Nat)]
  BY QueueShape
<1>4. Pending(p) \in Seq(Nat)
  BY <1>3 DEF Pending
<1>5. /\ waiting \in Seq(Nat)
      /\ \A i \in DOMAIN waiting :
           waiting[i] = id \/ (i \in DOMAIN Pending(p) /\ waiting[i] = Pending(p)[i])
  BY <1>3, <1>4
<1>6. EnterRotation(p) \in Seq(Profile)
  BY <1>2, <1>3 DEF EnterRotation
<1>7. queue' = [epoch |-> queue.epoch, nextId |-> id + 1,
                queues |-> Put(queue.queues, p, waiting), order |-> EnterRotation(p)]
  BY <1>1 DEF Submit, QueueTypeOK
<1> HIDE DEF waiting, p, id
<1>8. /\ DOMAIN queue'.queues = DOMAIN queue.queues \cup {p}
      /\ queue'.queues[p] = waiting
      /\ \A q \in DOMAIN queue.queues : q # p => queue'.queues[q] = queue.queues[q]
      /\ queue'.epoch = queue.epoch /\ queue'.nextId = id + 1
      /\ queue'.order = EnterRotation(p)
  BY <1>7 DEF Put
<1>9. /\ DOMAIN submitted' = DOMAIN submitted \cup {id} /\ submitted'[id] = t
      /\ \A x \in DOMAIN submitted : x # id => submitted'[x] = submitted[x]
      /\ id \notin DOMAIN submitted
      /\ UNCHANGED <<epoch, ran>>
  BY <1>1, <1>3 DEF Put, IdsMintedOnce, id, SubmitBuffer
<1>10. QueueTypeOK'
  <2>1. Put(queue.queues, p, waiting) \in [DOMAIN queue.queues \cup {p} -> Seq(Nat)]
    BY <1>3, <1>5 DEF Put
  <2>2. DOMAIN queue.queues \cup {p} \in SUBSET Profile
    BY <1>2, <1>3
  <2>3. Put(queue.queues, p, waiting) \in UNION {[S -> Seq(Nat)] : S \in SUBSET Profile}
    BY <2>1, <2>2
  <2> QED BY <1>3, <1>6, <1>7, <2>3 DEF QueueTypeOK
<1>11. IdsMintedOnce'
  BY <1>3, <1>8, <1>9 DEF IdsMintedOnce, id
<1>12. \A i \in DOMAIN Pending(p) :
         p \in DOMAIN queue.queues /\ Pending(p) = queue.queues[p]
  BY DEF Pending
<1>13. ASSUME NEW q \in DOMAIN queue'.queues, NEW i \in DOMAIN queue'.queues[q]
       PROVE  /\ queue'.queues[q][i] \in DOMAIN submitted'
              /\ submitted'[queue'.queues[q][i]] = [profile |-> q, epoch |-> queue'.epoch]
  <2>1. CASE q # p
    BY <1>8, <1>9, <2>1 DEF OnlySubmitted, BuffersOfThisEpoch
  <2>2. CASE q = p /\ waiting[i] = id
    BY <1>2, <1>8, <1>9, <2>2
  <2>3. CASE q = p /\ i \in DOMAIN Pending(p) /\ waiting[i] = Pending(p)[i]
    BY <1>8, <1>9, <1>12, <2>3 DEF OnlySubmitted, BuffersOfThisEpoch
  <2> QED BY <1>5, <1>8, <2>1, <2>2, <2>3
<1>14. OnlySubmitted' /\ BuffersOfThisEpoch'
  BY <1>9, <1>13 DEF OnlySubmitted, BuffersOfThisEpoch
<1> QED BY <1>9, <1>10, <1>11, <1>14

\* The dispatcher takes the next buffer.
LEMMA ExecuteKeepsInv == BufferInv /\ Execute => BufferInv'
<1> SUFFICES ASSUME BufferInv, Execute PROVE BufferInv'
  OBVIOUS
<1> USE DEF BufferInv
<1>1. PICK p \in Profile, buffer \in 1..MaxBuffers :
        /\ Dequeue(p, buffer)
        /\ ran' = [buffer |-> buffer, profile |-> p, epoch |-> queue.epoch, at |-> epoch]
        /\ UNCHANGED <<epoch, submitted>>
  BY DEF Execute
<1>2. PICK j \in DOMAIN queue.order :
        /\ Pending(p) # <<>> /\ buffer = Head(Pending(p)) /\ p = queue.order[j]
        /\ queue' = [queue EXCEPT !.queues[p] = Tail(@), !.order = Rotated(j)]
  BY <1>1 DEF Dequeue, Serves
<1>3. /\ queue.order \in Seq(Profile) /\ queue.epoch \in Nat /\ queue.nextId \in Nat \ {0}
      /\ DOMAIN queue.queues \subseteq Profile
      /\ queue.queues \in [DOMAIN queue.queues -> Seq(Nat)]
  BY QueueShape
<1>4. p \in DOMAIN queue.queues /\ Pending(p) = queue.queues[p]
  BY <1>2 DEF Pending
<1> DEFINE work == queue.queues[p]
           left == [queue.queues EXCEPT ![p] = Tail(@)]
<1>5. /\ work \in Seq(Nat) /\ work # <<>> /\ Tail(work) \in Seq(Nat)
      /\ 1 \in DOMAIN work /\ Head(work) = work[1]
      /\ \A i \in DOMAIN Tail(work) : i + 1 \in DOMAIN work /\ Tail(work)[i] = work[i + 1]
  <2>1. work \in Seq(Nat) /\ work # <<>>
    BY <1>2, <1>3, <1>4
  <2> HIDE DEF work
  <2> QED BY <2>1
<1>6. Rotated(j) \in Seq(Profile)
  <2>1. j \in 1..Len(queue.order)
    BY <1>3
  <2>2. SubSeq(queue.order, j + 1, Len(queue.order)) \in Seq(Profile)
    BY <1>3, <2>1
  <2> QED BY <1>2, <2>2 DEF Rotated
<1>7. queue' = [epoch |-> queue.epoch, nextId |-> queue.nextId, queues |-> left,
                order |-> Rotated(j)]
  BY <1>2 DEF QueueTypeOK
<1>8. /\ DOMAIN left = DOMAIN queue.queues /\ left[p] = Tail(work)
      /\ \A q \in DOMAIN queue.queues : q # p => left[q] = queue.queues[q]
      /\ left \in [DOMAIN queue.queues -> Seq(Nat)]
  BY <1>3, <1>4, <1>5
<1> HIDE DEF left
<1>9. QueueTypeOK'
  <2>1. left \in UNION {[S -> Seq(Nat)] : S \in SUBSET Profile}
    BY <1>3, <1>8
  <2> QED BY <1>3, <1>6, <1>7, <2>1 DEF QueueTypeOK
<1>10. IdsMintedOnce'
  BY <1>1, <1>7 DEF IdsMintedOnce
<1>11. \A q \in DOMAIN queue'.queues : \A i \in DOMAIN queue'.queues[q] :
         /\ queue'.queues[q][i] \in DOMAIN submitted
         /\ submitted[queue'.queues[q][i]] = [profile |-> q, epoch |-> queue.epoch]
  <2>1. queue'.queues = left /\ queue'.epoch = queue.epoch
    BY <1>7
  <2>2. ASSUME NEW i \in DOMAIN left[p]
        PROVE  /\ left[p][i] \in DOMAIN submitted
               /\ submitted[left[p][i]] = [profile |-> p, epoch |-> queue.epoch]
    BY <1>4, <1>5, <1>8, <2>2 DEF OnlySubmitted, BuffersOfThisEpoch
  <2>3. ASSUME NEW q \in DOMAIN left, q # p, NEW i \in DOMAIN left[q]
        PROVE  /\ left[q][i] \in DOMAIN submitted
               /\ submitted[left[q][i]] = [profile |-> q, epoch |-> queue.epoch]
    BY <1>8, <2>3 DEF OnlySubmitted, BuffersOfThisEpoch
  <2> QED BY <2>1, <2>2, <2>3
<1>12. /\ buffer \in DOMAIN submitted
       /\ submitted[buffer] = [profile |-> p, epoch |-> queue.epoch]
  <2>1. p \in DOMAIN queue.queues /\ 1 \in DOMAIN queue.queues[p]
        /\ buffer = queue.queues[p][1]
    BY <1>2, <1>4, <1>5
  <2> QED BY <2>1, Zenon DEF OnlySubmitted, BuffersOfThisEpoch
<1>13. OnlySubmitted' /\ BuffersOfThisEpoch'
  <2>1. ran'.buffer = buffer /\ ran'.profile = p /\ ran'.epoch = queue.epoch
    BY <1>1
  <2>2. queue'.epoch = queue.epoch /\ submitted' = submitted
    BY <1>1, <1>7
  <2> QED BY <1>11, <1>12, <2>1, <2>2 DEF OnlySubmitted, BuffersOfThisEpoch
<1> QED BY <1>1, <1>9, <1>10, <1>13

\* Every step of the GPU process keeps the invariant.
LEMMA BufferStepKeepsInv == BufferInv /\ [Next]_vars => BufferInv'
<1> SUFFICES ASSUME BufferInv, [Next]_vars PROVE BufferInv'
  OBVIOUS
<1> USE DEF BufferInv
<1>1. CASE UNCHANGED <<queue, ran, submitted>> /\ epoch' \in Nat
  BY <1>1 DEF QueueTypeOK, IdsMintedOnce, OnlySubmitted, BuffersOfThisEpoch
<1>2. CASE Allocate \/ TouchOrRelease \/ AdapterLost \/ RecoverBudget \/ UNCHANGED vars
  BY <1>1, <1>2 DEF Allocate, TouchOrRelease, AdapterLost, OnAdapterLoss, RecoverBudget, vars
<1>3. CASE RecoverCoordinator
  BY <1>1, <1>3 DEF RecoverCoordinator, RecoverAfterLoss
<1>4. CASE RecoverQueue
  <2>1. queue' = [epoch |-> epoch, nextId |-> queue.nextId, queues |-> EmptyMap,
                  order |-> <<>>]
    BY <1>4 DEF RecoverQueue, QueueOnRecovery, QueueTypeOK
  <2>2. EmptyMap \in [{} -> Seq(Nat)] /\ DOMAIN EmptyMap = {}
    BY DEF EmptyMap
  <2>3. QueueTypeOK'
    <3>1. EmptyMap \in UNION {[S -> Seq(Nat)] : S \in SUBSET Profile}
      BY <2>2
    <3> QED BY <2>1, <3>1, QueueShape DEF QueueTypeOK
  <2> QED BY <1>4, <2>1, <2>2, <2>3
      DEF RecoverQueue, IdsMintedOnce, OnlySubmitted, BuffersOfThisEpoch
<1> QED BY <1>2, <1>3, <1>4, SubmitKeepsInv, ExecuteKeepsInv DEF Next

\* Nothing waits at the start.
LEMMA BufferInit == Init => BufferInv
<1> SUFFICES ASSUME Init PROVE BufferInv
  OBVIOUS
<1>1. EmptyMap \in [{} -> Seq(Nat)] /\ DOMAIN EmptyMap = {}
  BY DEF EmptyMap
<1>2. EmptyMap \in UNION {[S -> Seq(Nat)] : S \in SUBSET Profile}
  BY <1>1
<1>3. /\ epoch = 1 /\ ran = NoCommand /\ submitted = EmptyMap
      /\ queue = [epoch |-> 1, nextId |-> 1, queues |-> EmptyMap, order |-> <<>>]
  BY DEF Init, CoordinatorInit, QueueInit
<1>4. QueueTypeOK
  <2>1. <<>> \in Seq(Profile) /\ 1 \in Nat /\ 1 \in Nat \ {0}
    OBVIOUS
  <2> QED BY <1>2, <1>3, <2>1 DEF QueueTypeOK
<1>5. IdsMintedOnce /\ OnlySubmitted /\ BuffersOfThisEpoch
  BY <1>1, <1>3 DEF IdsMintedOnce, OnlySubmitted, BuffersOfThisEpoch
<1> QED BY <1>3, <1>4, <1>5 DEF BufferInv

\* However many identities, epochs and buffers: what waits and what runs belongs to the
\* identity and the epoch it was submitted under, over every loss and recovery (queue.rs).
THEOREM BuffersStayInTheirEpoch == Spec => []BuffersOfThisEpoch
<1>1. BufferInv => BuffersOfThisEpoch
  BY DEF BufferInv
<1> QED BY <1>1, BufferInit, BufferStepKeepsInv, PTL DEF Spec

-----------------------------------------------------------------------------
(* The rotation.                                                           *)

\* The identities that have a buffer waiting.
Waits == {p \in Profile : Pending(p) # <<>>}

\* The rotation lists exactly the identities that have a buffer waiting, each once.
RotationOk ==
  /\ \A i, j \in DOMAIN queue.order : queue.order[i] = queue.order[j] => i = j
  /\ \A i \in DOMAIN queue.order : queue.order[i] \in Waits
  /\ \A p \in Waits : \E i \in DOMAIN queue.order : queue.order[i] = p

\* Whoever waits has been passed over, and will be before its turn, by each of the others
\* at most once.
TurnsBounded ==
  /\ passedOver \in [Profile -> Nat]
  /\ \A i \in DOMAIN queue.order : passedOver[queue.order[i]] + i <= Cardinality(Profile)
  /\ \A p \in Profile \ Waits : passedOver[p] = 0

RotationInv == RotationOk /\ TurnsBounded

\* A rotation without repetitions is no longer than there are identities.
LEMMA RotationFits ==
  ASSUME NEW s \in Seq(Profile), \A i, j \in DOMAIN s : s[i] = s[j] => i = j
  PROVE  Len(s) \in Nat /\ Len(s) <= Cardinality(Profile)
<1>1. s \in [1..Len(s) -> Profile] /\ Len(s) \in Nat /\ DOMAIN s = 1..Len(s)
  OBVIOUS
<1>2. s \in Injection(1..Len(s), Profile)
  BY <1>1 DEF Injection, IsInjective
<1>3. Cardinality(1..Len(s)) <= Cardinality(Profile)
  BY <1>2, ProfilesAssumption, FS_Injection
<1>4. Cardinality(1..Len(s)) = Len(s)
  <2> DEFINE n == Len(s)
  <2>1. n \in Nat
    BY <1>1
  <2> HIDE DEF n
  <2>2. Cardinality(1..n) = IF 1 > n THEN 0 ELSE n - 1 + 1
    BY <2>1, FS_Interval
  <2>3. Cardinality(1..n) = n
    BY <2>1, <2>2
  <2> QED BY <2>3 DEF n
<1> QED BY <1>1, <1>3, <1>4

\* An identity that had nothing waiting enters at the back, with nobody after it.
LEMMA SubmitKeepsRotation == BufferInv /\ RotationInv /\ SubmitBuffer => RotationInv'
<1> SUFFICES ASSUME BufferInv, RotationInv, SubmitBuffer PROVE RotationInv'
  OBVIOUS
<1>1. PICK t \in Tokens : Submit(t)
  BY DEF SubmitBuffer
<1> DEFINE p == t.profile
           waiting == Append(Pending(p), queue.nextId)
           order == queue.order
<1>2. p \in Profile
  BY <1>1 DEF Tokens, Token
<1>3. /\ order \in Seq(Profile) /\ queue.nextId \in Nat \ {0}
      /\ DOMAIN queue.queues \subseteq Profile
      /\ queue.queues \in [DOMAIN queue.queues -> Seq(Nat)]
  BY QueueShape DEF BufferInv
<1>4. Pending(p) \in Seq(Nat) /\ waiting # <<>>
  <2>1. Pending(p) \in Seq(Nat)
    BY <1>3 DEF Pending
  <2> QED BY <2>1, <1>3
<1>5. queue' = [epoch |-> queue.epoch, nextId |-> queue.nextId + 1,
                queues |-> Put(queue.queues, p, waiting), order |-> EnterRotation(p)]
  BY <1>1 DEF Submit, QueueTypeOK, BufferInv
<1>6. queue'.order = EnterRotation(p) /\ passedOver' = passedOver
  BY <1>5 DEF SubmitBuffer
<1> HIDE DEF waiting
<1>7. Waits' = Waits \cup {p}
  <2> HIDE DEF p
  <2>1. queue'.queues = Put(queue.queues, p, waiting)
    BY <1>5
  <2>2. \A q \in Profile : Pending(q)' = IF q = p THEN waiting ELSE Pending(q)
    BY <2>1 DEF Pending, Put
  <2> QED BY <1>2, <1>4, <2>2 DEF Waits
<1> HIDE DEF p
<1>8. CASE p \in Waits
  <2>1. queue'.order = order
    BY <1>6, <1>8 DEF EnterRotation, Waits
  <2>2. Waits' = Waits
    BY <1>7, <1>8
  <2> QED BY <1>6, <2>1, <2>2 DEF RotationInv, RotationOk, TurnsBounded
<1>9. CASE p \notin Waits
  <2> DEFINE n == Len(order)
             longer == Append(order, p)
  <2>1. queue'.order = longer
    BY <1>2, <1>6, <1>9 DEF EnterRotation, Waits
  <2>2. /\ n \in Nat /\ DOMAIN order = 1..n /\ DOMAIN longer = 1..(n + 1)
        /\ longer \in Seq(Profile) /\ Len(longer) = n + 1 /\ longer[n + 1] = p
        /\ \A i \in 1..n : longer[i] = order[i] /\ order[i] \in Waits
    BY <1>2, <1>3, <1>9 DEF RotationInv, RotationOk
  <2> HIDE DEF longer, n
  <2>3. \A i, j \in DOMAIN longer : longer[i] = longer[j] => i = j
    BY <1>9, <2>2 DEF RotationInv, RotationOk
  <2>4. n + 1 <= Cardinality(Profile)
    <3>1. Len(longer) <= Cardinality(Profile)
      BY <2>2, <2>3, RotationFits
    <3> QED BY <2>2, <3>1
  <2>5. \A i \in DOMAIN longer : i \in 1..n \/ i = n + 1
    BY <2>2
  <2>6. RotationOk'
    <3>1. \A i \in DOMAIN longer : longer[i] \in Waits'
      BY <1>7, <2>2, <2>5
    <3>2. \A q \in Waits' : \E i \in DOMAIN longer : longer[i] = q
      <4>1. \A q \in Waits : \E i \in 1..n : order[i] = q
        BY <2>2 DEF RotationInv, RotationOk
      <4>2. \A i \in 1..n : i \in DOMAIN longer
        BY <2>2
      <4>3. n + 1 \in DOMAIN longer
        BY <2>2
      <4> QED BY <1>7, <2>2, <4>1, <4>2, <4>3
    <3> QED BY <2>1, <2>3, <3>1, <3>2 DEF RotationOk
  <2>7. TurnsBounded'
    <3>1. ASSUME NEW i \in DOMAIN longer
          PROVE  passedOver[longer[i]] + i <= Cardinality(Profile)
      <4>1. CASE i \in 1..n
        BY <2>2, <4>1 DEF RotationInv, TurnsBounded
      <4>2. CASE i = n + 1
        BY <1>2, <1>9, <2>2, <2>4, <4>2 DEF RotationInv, TurnsBounded
      <4> QED BY <2>5, <4>1, <4>2
    <3>2. \A q \in Profile \ Waits' : passedOver[q] = 0
      BY <1>7 DEF RotationInv, TurnsBounded
    <3> QED BY <1>6, <2>1, <3>1, <3>2 DEF RotationInv, TurnsBounded
  <2> QED BY <2>6, <2>7 DEF RotationInv
<1> QED BY <1>8, <1>9

\* The identity that is served leaves the front and, if it has more, enters at the back;
\* all the others move up by one.
LEMMA ExecuteKeepsRotation == BufferInv /\ RotationInv /\ Execute => RotationInv'
<1> SUFFICES ASSUME BufferInv, RotationInv, Execute PROVE RotationInv'
  OBVIOUS
<1>1. PICK p \in Profile, buffer \in 1..MaxBuffers :
        /\ Dequeue(p, buffer)
        /\ passedOver' = [q \in Profile |->
             IF q = p \/ Pending(q) = <<>> THEN 0 ELSE passedOver[q] + 1]
  BY DEF Execute
<1>2. PICK j \in DOMAIN queue.order :
        /\ Serves(j) /\ p = queue.order[j]
        /\ queue' = [queue EXCEPT !.queues[p] = Tail(@), !.order = Rotated(j)]
  BY <1>1 DEF Dequeue
<1> DEFINE order == queue.order
           n == Len(order)
           C == Cardinality(Profile)
<1>3. /\ order \in Seq(Profile)
      /\ DOMAIN queue.queues \subseteq Profile
      /\ queue.queues \in [DOMAIN queue.queues -> Seq(Nat)]
      /\ n \in Nat /\ DOMAIN order = 1..n /\ \A i \in 1..n : order[i] \in Profile
      /\ n <= C /\ C \in Nat
  BY QueueShape, RotationFits, ProfilesAssumption, FS_CardinalityType
     DEF BufferInv, RotationInv, RotationOk
<1>4. j = 1 /\ n # 0
  <2>1. 1 \in DOMAIN order => Pending(order[1]) # <<>>
    BY DEF RotationInv, RotationOk, Waits
  <2>2. j \in 1..n
    BY <1>2, <1>3
  <2>3. j > 1 => 1 \in 1..(j - 1) /\ 1 \in DOMAIN order
    BY <1>3, <2>2
  <2>4. ~ j > 1
    BY <1>2, <2>1, <2>3 DEF Serves
  <2> QED BY <1>3, <2>2, <2>4
<1>5. p \in DOMAIN queue.queues /\ Pending(p) = queue.queues[p] /\ Pending(p) # <<>>
      /\ Pending(p) \in Seq(Nat)
  BY <1>2, <1>3 DEF Pending, Serves
<1> DEFINE more == Len(Pending(p)) > 1
<1>6. Waits' = IF more THEN Waits ELSE Waits \ {p}
  <2>1. queue'.queues = [queue.queues EXCEPT ![p] = Tail(@)]
    BY <1>2 DEF QueueTypeOK, BufferInv
  <2>2. \A q \in Profile : Pending(q)' = IF q = p THEN Tail(Pending(p)) ELSE Pending(q)
    BY <1>3, <1>5, <2>1 DEF Pending
  <2>3. Tail(Pending(p)) # <<>> <=> more
    <3>1. \A s \in Seq(Nat) : s # <<>> => (Tail(s) # <<>> <=> Len(s) > 1)
      <4> SUFFICES ASSUME NEW s \in Seq(Nat), s # <<>> PROVE Tail(s) # <<>> <=> Len(s) > 1
        OBVIOUS
      <4>1. Tail(s) \in Seq(Nat) /\ Len(Tail(s)) = Len(s) - 1 /\ Len(s) \in Nat
        BY HeadTailProperties
      <4>2. /\ Tail(s) # <<>> => Len(Tail(s)) \in Nat \ {0}
            /\ Tail(s) = <<>> => Len(Tail(s)) = 0
        BY <4>1, EmptySeq
      <4> HIDE DEF more
      <4> QED BY <4>1, <4>2
    <3> QED BY <1>5, <3>1
  <2> QED BY <1>5, <2>2, <2>3 DEF Waits
<1>7. p \in Waits
  BY <1>5 DEF Waits
<1> DEFINE rest == SubSeq(order, 2, n)
           turned == queue'.order
<1>8. /\ rest \in Seq(Profile) /\ DOMAIN rest = 1..(n - 1) /\ Len(rest) = n - 1
      /\ \A i \in 1..(n - 1) : rest[i] = order[i + 1]
      /\ turned = IF more THEN Append(rest, p) ELSE rest
  <2>1. /\ rest \in Seq(Profile) /\ DOMAIN rest = 1..(n - 1) /\ Len(rest) = n - 1
        /\ \A i \in 1..(n - 1) : rest[i] = order[i + 1]
    BY <1>3, <1>4
  <2>2. turned = Rotated(1)
    BY <1>2, <1>4 DEF QueueTypeOK, BufferInv
  <2> QED BY <1>2, <1>4, <2>1, <2>2 DEF Rotated
<1> DEFINE m == IF more THEN n ELSE n - 1
<1> HIDE DEF more
<1>9. /\ DOMAIN turned = 1..m
      /\ \A i \in 1..(n - 1) : turned[i] = order[i + 1] /\ order[i + 1] # p
      /\ more => turned[n] = p
  <2>1. ASSUME NEW i \in 1..(n - 1) PROVE order[i + 1] # p
    <3>1. i + 1 \in DOMAIN order /\ 1 \in DOMAIN order /\ i + 1 # 1 /\ order[1] = p
      BY <1>2, <1>3, <1>4
    <3> QED BY <3>1 DEF RotationInv, RotationOk
  <2> HIDE DEF rest, turned
  <2> QED BY <1>1, <1>3, <1>4, <1>8, <2>1
<1> HIDE DEF rest, turned, order, n
<1>10. m \in {n, n - 1} /\ (m = n <=> more)
  BY <1>3
<1> HIDE DEF m
<1>11. \A i \in DOMAIN turned : i \in 1..(n - 1) \/ (i = n /\ more)
  BY <1>3, <1>9, <1>10
<1>12. /\ \A i, k \in 1..n : order[i] = order[k] => i = k
       /\ \A i \in 1..n : order[i] \in Waits
       /\ \A q \in Waits : \E i \in 1..n : order[i] = q
  BY <1>3 DEF RotationInv, RotationOk, order
<1>13. RotationOk'
  <2>1. \A i, k \in DOMAIN turned : turned[i] = turned[k] => i = k
    <3>1. \A i, k \in 1..(n - 1) : order[i + 1] = order[k + 1] => i = k
      BY <1>3, <1>12
    <3> QED BY <1>9, <1>11, <3>1
  <2>2. \A i \in DOMAIN turned : turned[i] \in Waits'
    <3>1. \A i \in 1..(n - 1) : order[i + 1] \in Waits
      BY <1>3, <1>12
    <3> QED BY <1>6, <1>7, <1>9, <1>11, <3>1
  <2>3. ASSUME NEW q \in Waits' PROVE \E i \in DOMAIN turned : turned[i] = q
    <3>1. CASE q = p
      <4>1. more
        BY <1>6, <2>3, <3>1
      <4>2. n \in DOMAIN turned
        BY <1>3, <1>4, <1>9, <1>10, <4>1
      <4> QED BY <1>9, <3>1, <4>1, <4>2
    <3>2. CASE q # p
      <4>1. PICK i \in 1..n : order[i] = q
        BY <1>6, <1>12, <2>3
      <4>2. i # 1
        BY <1>2, <1>4, <3>2, <4>1 DEF order
      <4>3. i - 1 \in 1..(n - 1) /\ order[(i - 1) + 1] = q
        BY <1>3, <4>1, <4>2
      <4>4. i - 1 \in DOMAIN turned /\ turned[i - 1] = q
        BY <1>9, <1>10, <1>3, <4>3
      <4> QED BY <4>4
    <3> QED BY <3>1, <3>2
  <2> QED BY <2>1, <2>2, <2>3 DEF RotationOk, turned
<1>14. TurnsBounded'
  <2>1. passedOver' \in [Profile -> Nat]
    BY <1>1 DEF RotationInv, TurnsBounded
  <2>2. ASSUME NEW i \in DOMAIN turned
        PROVE  passedOver'[turned[i]] + i <= C
    <3>1. CASE i \in 1..(n - 1)
      <4> DEFINE q == order[i + 1]
      <4>1. i + 1 \in 1..n /\ q \in Profile /\ q # p /\ turned[i] = q /\ q \in Waits
        BY <1>3, <1>9, <1>12, <3>1
      <4>2. passedOver[q] + (i + 1) <= C /\ passedOver[q] \in Nat
        BY <1>3, <4>1 DEF RotationInv, TurnsBounded, order
      <4> HIDE DEF q
      <4>3. passedOver'[q] = passedOver[q] + 1
        BY <1>1, <4>1 DEF Waits
      <4> HIDE DEF C
      <4> QED BY <1>3, <3>1, <4>1, <4>2, <4>3
    <3>2. CASE i = n /\ more
      <4>1. turned[i] = p /\ p \in Profile
        BY <1>9, <3>2
      <4>2. passedOver'[turned[i]] = 0
        BY <1>1, <4>1
      <4> QED BY <1>3, <3>2, <4>2
    <3> QED BY <1>11, <3>1, <3>2
  <2>3. \A q \in Profile \ Waits' : passedOver'[q] = 0
    BY <1>1, <1>6 DEF Waits
  <2> QED BY <2>1, <2>2, <2>3 DEF TurnsBounded, turned
<1> QED BY <1>13, <1>14 DEF RotationInv

\* Every step of the GPU process keeps the rotation fair.
LEMMA RotationStep == BufferInv /\ RotationInv /\ [Next]_vars => RotationInv'
<1> SUFFICES ASSUME BufferInv, RotationInv, [Next]_vars PROVE RotationInv'
  OBVIOUS
<1>1. CASE UNCHANGED <<queue, passedOver>>
  BY <1>1 DEF RotationInv, RotationOk, TurnsBounded, Waits, Pending
<1>2. CASE \/ Allocate \/ TouchOrRelease \/ AdapterLost \/ RecoverCoordinator
           \/ RecoverBudget \/ UNCHANGED vars
  BY <1>1, <1>2 DEF Allocate, TouchOrRelease, AdapterLost, RecoverCoordinator, RecoverBudget, vars
<1>3. CASE RecoverQueue
  <2>1. /\ queue'.queues = EmptyMap /\ queue'.order = <<>>
        /\ passedOver' = [p \in Profile |-> 0]
    BY <1>3 DEF RecoverQueue, QueueOnRecovery, QueueTypeOK, BufferInv
  <2>2. Waits' = {}
    BY <2>1 DEF Waits, Pending, EmptyMap
  <2> QED BY <2>1, <2>2 DEF RotationInv, RotationOk, TurnsBounded
<1> QED BY <1>2, <1>3, SubmitKeepsRotation, ExecuteKeepsRotation DEF Next

\* Nobody waits at the start.
LEMMA RotationInit == Init => RotationInv
<1> SUFFICES ASSUME Init PROVE RotationInv
  OBVIOUS
<1>1. /\ queue = [epoch |-> 1, nextId |-> 1, queues |-> EmptyMap, order |-> <<>>]
      /\ passedOver = [p \in Profile |-> 0]
  BY DEF Init, QueueInit
<1>2. Waits = {}
  BY <1>1 DEF Waits, Pending, EmptyMap
<1> QED BY <1>1, <1>2 DEF RotationInv, RotationOk, TurnsBounded

\* The rotation lists exactly the identities that have a buffer waiting, each once: an
\* identity that was missing would never run, one that was there twice would get more
\* than its share (queue.rs, submit, dequeue and on_recovery).
THEOREM RotationListsWaiting == Spec => []RotationOk
<1>1. RotationInv => RotationOk
  BY DEF RotationInv
<1> QED BY <1>1, BufferInit, BufferStepKeepsInv, RotationInit, RotationStep, PTL DEF Spec

\* However many identities and however many buffers each has pending: an identity with work
\* is passed over by each of the others at most once before its turn (queue.rs, dequeue).
THEOREM BypassIsBounded == Spec => []BoundedBypass
<1>1. BufferInv /\ RotationInv => BoundedBypass
  <2> SUFFICES ASSUME BufferInv, RotationInv, NEW p \in Profile
               PROVE  passedOver[p] < Cardinality(Profile)
    BY DEF BoundedBypass
  <2>1. Cardinality(Profile) \in Nat /\ Cardinality(Profile) # 0 /\ passedOver[p] \in Nat
    BY ProfilesAssumption, FS_CardinalityType, FS_EmptySet DEF RotationInv, TurnsBounded
  <2>2. CASE p \notin Waits
    BY <2>1, <2>2 DEF RotationInv, TurnsBounded
  <2>3. CASE p \in Waits
    <3>1. PICK i \in DOMAIN queue.order : queue.order[i] = p
      BY <2>3 DEF RotationInv, RotationOk
    <3>2. i \in Nat \ {0}
      <4>1. DOMAIN queue.order = 1..Len(queue.order) /\ Len(queue.order) \in Nat
        BY QueueShape DEF BufferInv
      <4> QED BY <4>1
    <3> QED BY <2>1, <3>1, <3>2 DEF RotationInv, TurnsBounded
  <2> QED BY <2>2, <2>3
<1> QED BY <1>1, BufferInit, BufferStepKeepsInv, RotationInit, RotationStep, PTL DEF Spec
-----------------------------------------------------------------------------
(* The memory budget: queues without repetitions.                          *)

\* Every set of naturals that is not empty has a least element.
LEMMA LeastNat ==
  ASSUME NEW S \in SUBSET Nat, S # {}
  PROVE  \E m \in S : \A n \in S : m <= n
<1> DEFINE R == {ss \in Nat \X Nat : ss[1] < ss[2]}
<1>1. IsWellFoundedOn(R, Nat)
  BY NatLessThanWellFounded DEF OpToRel
<1>2. \A x, y \in Nat : <<x, y>> \in R <=> x < y
  OBVIOUS
<1> HIDE DEF R
<1>3. PICK m \in S : \A n \in S : ~(<<n, m>> \in R)
  BY <1>1, WFMin
<1>4. ASSUME NEW n \in S PROVE m <= n
  <2>1. m \in Nat /\ n \in Nat
    OBVIOUS
  <2>2. ~(n < m)
    BY <1>2, <1>3, <2>1
  <2> QED BY <2>1, <2>2
<1> QED BY <1>4

\* Induction over the rounds of a sum.
LEMMA NoFirstWrong ==
  ASSUME NEW n \in Nat, NEW Wrong \in SUBSET (0..n), 0 \notin Wrong,
         \A k \in 1..n : k \in Wrong => k - 1 \in Wrong
  PROVE  Wrong = {}
<1> SUFFICES ASSUME Wrong # {} PROVE FALSE
  OBVIOUS
<1>1. PICK m \in Wrong : \A k \in Wrong : m <= k
  BY LeastNat
<1>2. m \in 1..n
  OBVIOUS
<1>3. m - 1 \in Wrong /\ ~(m <= m - 1)
  BY <1>2
<1> QED BY <1>1, <1>3

\* The least number of a set, as Min finds it.
LEMMA MinIs ==
  ASSUME NEW S \in SUBSET Nat, S # {}
  PROVE  Min(S) \in S
  BY LeastNat DEF Min

\* VecDeque::remove: the elements behind the position move up by one.
LEMMA RemoveAtIs ==
  ASSUME NEW S, NEW s \in Seq(S), NEW i \in 1..Len(s)
  PROVE  /\ RemoveAt(s, i) \in Seq(S)
         /\ Len(RemoveAt(s, i)) = Len(s) - 1
         /\ \A j \in 1..(Len(s) - 1) : RemoveAt(s, i)[j] = IF j < i THEN s[j] ELSE s[j + 1]
<1> DEFINE a == SubSeq(s, 1, i - 1)
           b == SubSeq(s, i + 1, Len(s))
<1>1. Len(s) \in Nat /\ i \in Nat /\ i >= 1 /\ i <= Len(s)
  OBVIOUS
<1>2. /\ a \in Seq(S) /\ Len(a) = i - 1
      /\ \A j \in 1..(i - 1) : a[j] = s[j]
  BY <1>1
<1>3. /\ b \in Seq(S) /\ Len(b) = Len(s) - i
      /\ \A j \in 1..(Len(s) - i) : b[j] = s[i + j]
  BY <1>1
<1>4. RemoveAt(s, i) = a \o b
  BY DEF RemoveAt
<1> HIDE DEF a, b
<1>5. /\ a \o b \in Seq(S)
      /\ Len(a \o b) = Len(s) - 1
  <2>1. a \o b \in Seq(S) /\ Len(a \o b) = Len(a) + Len(b)
    BY <1>2, <1>3, ConcatProperties
  <2> QED BY <1>1, <1>2, <1>3, <2>1
<1>6. ASSUME NEW j \in 1..(Len(s) - 1)
      PROVE  (a \o b)[j] = IF j < i THEN s[j] ELSE s[j + 1]
  <2>1. CASE j < i
    BY <1>1, <1>2, <1>3, <2>1
  <2>2. CASE ~(j < i)
    <3>1. (a \o b)[j] = b[j - Len(a)]
      BY <1>1, <1>2, <1>3, <2>2
    <3>2. j - (i - 1) \in 1..(Len(s) - i)
      BY <1>1, <2>2
    <3>3. i + (j - (i - 1)) = j + 1 /\ ~(j < i)
      BY <1>1, <2>2
    <3>4. b[j - (i - 1)] = s[j + 1]
      BY <1>3, <3>2, <3>3
    <3>5. (a \o b)[j] = s[j + 1]
      BY <1>2, <3>1, <3>4
    <3> HIDE DEF a, b
    <3> QED BY <1>1, <2>2, <3>3, <3>5
  <2> QED BY <2>1, <2>2
<1> QED BY <1>4, <1>5, <1>6

\* position, then remove: how the budget forgets an allocation.
LEMMA RemoveFirstIs ==
  ASSUME NEW S, NEW s \in Seq(S), NEW e
  PROVE  /\ e \notin ToSet(s) => RemoveFirst(s, e) = s
         /\ e \in ToSet(s) => \E i \in 1..Len(s) : s[i] = e /\ RemoveFirst(s, e) = RemoveAt(s, i)
<1> DEFINE I == {i \in 1..Len(s) : s[i] = e}
<1>1. e \in ToSet(s) <=> I # {}
  BY DEF ToSet
<1>2. RemoveFirst(s, e) = IF I # {} THEN RemoveAt(s, Min(I)) ELSE s
  BY DEF RemoveFirst, SelectInSeq
<1>3. I # {} => Min(I) \in I
  <2>1. I \in SUBSET Nat
    OBVIOUS
  <2> HIDE DEF I
  <2> QED BY <2>1, MinIs
<1> QED BY <1>1, <1>2, <1>3

\* A queue without repetitions stays one, and lists what it listed but the one forgotten.
LEMMA RemoveFirstFacts ==
  ASSUME NEW S, NEW s \in Seq(S), IsInjective(s), NEW e
  PROVE  /\ RemoveFirst(s, e) \in Seq(S)
         /\ IsInjective(RemoveFirst(s, e))
         /\ ToSet(RemoveFirst(s, e)) = ToSet(s) \ {e}
         /\ Len(RemoveFirst(s, e)) <= Len(s)
<1>1. CASE e \notin ToSet(s)
  BY <1>1, RemoveFirstIs
<1>2. CASE e \in ToSet(s)
  <2>1. PICK i \in 1..Len(s) : s[i] = e /\ RemoveFirst(s, e) = RemoveAt(s, i)
    BY <1>2, RemoveFirstIs
  <2> DEFINE r == RemoveAt(s, i)
  <2>2. /\ r \in Seq(S) /\ Len(r) = Len(s) - 1
        /\ \A j \in 1..(Len(s) - 1) : r[j] = IF j < i THEN s[j] ELSE s[j + 1]
    BY RemoveAtIs
  <2> HIDE DEF r
  <2>3. \A a, b \in 1..Len(s) : s[a] = s[b] => a = b
    BY DEF IsInjective
  <2>4. IsInjective(r)
    <3> DEFINE from(j) == IF j < i THEN j ELSE j + 1
    <3>1. /\ DOMAIN r = 1..(Len(s) - 1) /\ Len(s) \in Nat
          /\ \A j \in 1..(Len(s) - 1) : from(j) \in 1..Len(s) /\ r[j] = s[from(j)]
      BY <2>2
    <3>2. \A j, k \in 1..(Len(s) - 1) : from(j) = from(k) => j = k
      BY <3>1
    <3> HIDE DEF from
    <3>3. ASSUME NEW j \in DOMAIN r, NEW k \in DOMAIN r, r[j] = r[k] PROVE j = k
      <4>1. s[from(j)] = s[from(k)] /\ from(j) \in 1..Len(s) /\ from(k) \in 1..Len(s)
        BY <3>1, <3>3
      <4>2. from(j) = from(k)
        BY <2>3, <4>1, Zenon
      <4> QED BY <3>1, <3>2, <4>2, Zenon
    <3> QED BY <3>3, Zenon DEF IsInjective
  <2>5. ToSet(r) \subseteq ToSet(s) \ {e}
    BY <2>1, <2>2, <2>3 DEF ToSet
  <2>6. ASSUME NEW j \in 1..Len(s), s[j] # e PROVE s[j] \in ToSet(r)
    <3>1. CASE j < i
      BY <2>2, <3>1 DEF ToSet
    <3>2. CASE j > i
      <4>1. r[j - 1] = s[j] /\ j - 1 \in 1..Len(r)
        BY <2>2, <3>2
      <4> QED BY <2>2, <4>1 DEF ToSet
    <3> QED BY <2>1, <2>6, <3>1, <3>2
  <2>7. ToSet(r) = ToSet(s) \ {e}
    <3>1. ASSUME NEW x \in ToSet(s) \ {e} PROVE x \in ToSet(r)
      <4>1. PICK j \in 1..Len(s) : x = s[j]
        BY DEF ToSet
      <4> QED BY <2>6, <4>1
    <3> QED BY <2>5, <3>1
  <2> QED BY <2>1, <2>2, <2>4, <2>7 DEF r
<1> QED BY <1>1, <1>2

\* At the back of a queue, one that is not in it.
LEMMA AppendNew ==
  ASSUME NEW S, NEW s \in Seq(S), IsInjective(s), NEW e \in S, e \notin ToSet(s)
  PROVE  /\ Append(s, e) \in Seq(S) /\ IsInjective(Append(s, e))
         /\ ToSet(Append(s, e)) = ToSet(s) \cup {e}
<1> DEFINE n == Len(s)
           t == Append(s, e)
<1>1. /\ n \in Nat /\ DOMAIN s = 1..n /\ t \in Seq(S) /\ DOMAIN t = 1..(n + 1)
      /\ t[n + 1] = e /\ \A i \in 1..n : t[i] = s[i]
  OBVIOUS
<1> HIDE DEF t, n
<1>2. \A i \in 1..(n + 1) : i \in 1..n \/ i = n + 1
  BY <1>1
<1>3. 1..n \subseteq 1..(n + 1) /\ n + 1 \in 1..(n + 1)
  BY <1>1
<1>4. \A i \in 1..n : s[i] # e
  BY <1>1 DEF ToSet
<1>5. IsInjective(t)
  BY <1>1, <1>2, <1>4 DEF IsInjective
<1>6. ToSet(t) = ToSet(s) \cup {e}
  BY <1>1, <1>2, <1>3 DEF ToSet
<1> QED BY <1>1, <1>5, <1>6 DEF t

\* A queue lists what it may list.
LEMMA ListedIn ==
  ASSUME NEW S, NEW s \in Seq(S)
  PROVE  ToSet(s) \subseteq S
  BY DEF ToSet

\* Such a queue is as long as what it lists is large.
LEMMA QueueCounts ==
  ASSUME NEW S, NEW s \in Seq(S), IsInjective(s)
  PROVE  Len(s) = Cardinality(ToSet(s))
<1> DEFINE n == Len(s)
<1>1. n \in Nat /\ DOMAIN s = 1..n /\ s \in [1..n -> S]
  OBVIOUS
<1> HIDE DEF n
<1>2. s \in [1..n -> ToSet(s)] /\ \A x \in ToSet(s) : \E i \in 1..n : s[i] = x
  BY <1>1 DEF ToSet
<1>3. s \in Bijection(1..n, ToSet(s))
  BY <1>1, <1>2 DEF Bijection, Injection, Surjection, IsInjective
<1>4. ExistsBijection(1..n, ToSet(s))
  BY <1>3 DEF ExistsBijection
<1>5. Cardinality(ToSet(s)) = n
  BY <1>1, <1>4, FS_CountingElements
<1> QED BY <1>5 DEF n

-----------------------------------------------------------------------------
(* The bytes of the allocations.                                           *)

\* Sizes of some of the allocations that can be minted.
IsSizes(sizes) == DOMAIN sizes \subseteq 1..MaxAlloc /\ sizes \in [DOMAIN sizes -> Nat]

\* h holds the sums over the ids up to each id.
AddsUp(sizes, n, h) ==
  h = [id \in 0..n |-> IF id = 0 THEN 0 ELSE h[id - 1] + SizeOf(sizes, id)]

\* There is such an h.
LEMMA SumExists ==
  ASSUME NEW sizes, NEW n \in Nat
  PROVE  \E h : AddsUp(sizes, n, h)
<1> DEFINE Missing == {k \in 0..n : ~ \E h : AddsUp(sizes, k, h)}
<1>1. 0 \notin Missing
  <2> DEFINE h == [id \in 0..0 |-> 0]
  <2>1. h = [id \in 0..0 |-> IF id = 0 THEN 0 ELSE h[id - 1] + SizeOf(sizes, id)]
    OBVIOUS
  <2> QED BY <2>1 DEF AddsUp
<1>2. ASSUME NEW k \in 1..n, k - 1 \notin Missing PROVE k \notin Missing
  <2>1. PICK h : AddsUp(sizes, k - 1, h)
    BY <1>2
  <2> DEFINE g == [id \in 0..k |-> IF id = k THEN h[k - 1] + SizeOf(sizes, k) ELSE h[id]]
  <2>2. ASSUME NEW id \in 0..k
        PROVE  g[id] = IF id = 0 THEN 0 ELSE g[id - 1] + SizeOf(sizes, id)
    <3>1. CASE id = k
      BY <3>1
    <3>2. CASE id # k
      <4>1. id \in 0..(k - 1) /\ (id # 0 => id - 1 \in 0..k /\ id - 1 # k)
        BY <3>2
      <4>2. h[id] = IF id = 0 THEN 0 ELSE h[id - 1] + SizeOf(sizes, id)
        BY <2>1, <4>1 DEF AddsUp
      <4> QED BY <3>2, <4>1, <4>2
    <3> QED BY <3>1, <3>2
  <2>3. AddsUp(sizes, k, g)
    <3>1. g = [id \in 0..k |-> g[id]]
      OBVIOUS
    <3> HIDE DEF g
    <3> QED BY <2>2, <3>1 DEF AddsUp
  <2> QED BY <2>3
<1>3. Missing \in SUBSET (0..n) /\ n \in 0..n
  OBVIOUS
<1> HIDE DEF Missing
<1>4. Missing = {}
  BY <1>1, <1>2, <1>3, NoFirstWrong
<1> QED BY <1>3, <1>4 DEF Missing

\* So that Bytes is the last of the sums.
LEMMA BytesRuns ==
  ASSUME NEW sizes
  PROVE  \E h : /\ h[0] = 0 /\ h[MaxAlloc] = Bytes(sizes)
                /\ \A id \in 1..MaxAlloc : h[id] = h[id - 1] + SizeOf(sizes, id)
<1> DEFINE h == CHOOSE f : f = [id \in 0..MaxAlloc |->
                  IF id = 0 THEN 0 ELSE f[id - 1] + SizeOf(sizes, id)]
<1>1. Bytes(sizes) = h[MaxAlloc]
  BY DEF Bytes
<1>2. MaxAlloc \in Nat
  BY BudgetAssumption
<1>3. \E f : f = [id \in 0..MaxAlloc |-> IF id = 0 THEN 0 ELSE f[id - 1] + SizeOf(sizes, id)]
  BY <1>2, SumExists DEF AddsUp
<1>4. h = [id \in 0..MaxAlloc |-> IF id = 0 THEN 0 ELSE h[id - 1] + SizeOf(sizes, id)]
  BY <1>3
<1> HIDE DEF h
<1>5. \A id \in 0..MaxAlloc : h[id] = IF id = 0 THEN 0 ELSE h[id - 1] + SizeOf(sizes, id)
  BY <1>4
<1>6. h[0] = 0 /\ \A id \in 1..MaxAlloc : h[id] = h[id - 1] + SizeOf(sizes, id)
  BY <1>2, <1>5
<1> QED BY <1>1, <1>6

\* A number of bytes is a number.
LEMMA BytesType ==
  ASSUME NEW sizes, IsSizes(sizes)
  PROVE  Bytes(sizes) \in Nat
<1>1. MaxAlloc \in Nat
  BY BudgetAssumption
<1>2. PICK h : /\ h[0] = 0 /\ h[MaxAlloc] = Bytes(sizes)
               /\ \A id \in 1..MaxAlloc : h[id] = h[id - 1] + SizeOf(sizes, id)
  BY BytesRuns
<1>3. \A id : SizeOf(sizes, id) \in Nat
  BY DEF SizeOf, IsSizes
<1> DEFINE Wrong == {id \in 0..MaxAlloc : h[id] \notin Nat}
<1>4. 0 \notin Wrong /\ \A id \in 1..MaxAlloc : id \in Wrong => id - 1 \in Wrong
  BY <1>1, <1>2, <1>3
<1>5. Wrong \in SUBSET (0..MaxAlloc) /\ MaxAlloc \in 0..MaxAlloc
  BY <1>1
<1>6. Wrong = {}
  <2> HIDE DEF Wrong
  <2> QED BY <1>1, <1>4, <1>5, NoFirstWrong
<1> QED BY <1>2, <1>5, <1>6

\* The bytes of two disjoint parts add up.
LEMMA BytesAdd ==
  ASSUME NEW a, NEW b, NEW c, IsSizes(a), IsSizes(b),
         \A id \in 1..MaxAlloc : SizeOf(c, id) = SizeOf(a, id) + SizeOf(b, id)
  PROVE  Bytes(c) = Bytes(a) + Bytes(b)
<1>1. MaxAlloc \in Nat
  BY BudgetAssumption
<1>2. PICK f : /\ f[0] = 0 /\ f[MaxAlloc] = Bytes(a)
               /\ \A id \in 1..MaxAlloc : f[id] = f[id - 1] + SizeOf(a, id)
  BY BytesRuns
<1>3. PICK g : /\ g[0] = 0 /\ g[MaxAlloc] = Bytes(b)
               /\ \A id \in 1..MaxAlloc : g[id] = g[id - 1] + SizeOf(b, id)
  BY BytesRuns
<1>4. PICK h : /\ h[0] = 0 /\ h[MaxAlloc] = Bytes(c)
               /\ \A id \in 1..MaxAlloc : h[id] = h[id - 1] + SizeOf(c, id)
  BY BytesRuns
<1>5. \A id : SizeOf(a, id) \in Nat /\ SizeOf(b, id) \in Nat
  BY DEF SizeOf, IsSizes
<1> DEFINE Right(id) == f[id] \in Nat /\ g[id] \in Nat /\ h[id] = f[id] + g[id]
           Wrong == {id \in 0..MaxAlloc : ~Right(id)}
<1>6. Right(0)
  BY <1>2, <1>3, <1>4
<1>7. ASSUME NEW id \in 1..MaxAlloc, Right(id - 1) PROVE Right(id)
  <2>1. /\ f[id] = f[id - 1] + SizeOf(a, id) /\ g[id] = g[id - 1] + SizeOf(b, id)
        /\ h[id] = h[id - 1] + (SizeOf(a, id) + SizeOf(b, id))
    BY <1>2, <1>3, <1>4
  <2> QED BY <1>5, <1>7, <2>1
<1> HIDE DEF Right
<1>8. 0 \notin Wrong /\ \A id \in 1..MaxAlloc : id \in Wrong => id - 1 \in Wrong
  BY <1>1, <1>6, <1>7
<1>9. Wrong \in SUBSET (0..MaxAlloc) /\ MaxAlloc \in 0..MaxAlloc
  BY <1>1
<1>10. Wrong = {}
  <2> HIDE DEF Wrong
  <2> QED BY <1>1, <1>8, <1>9, NoFirstWrong
<1>11. Right(MaxAlloc)
  BY <1>9, <1>10
<1> QED BY <1>2, <1>3, <1>4, <1>11 DEF Right

\* Nothing takes no bytes.
LEMMA BytesOfNothing == Bytes(EmptyMap) = 0
<1>1. MaxAlloc \in Nat /\ \A x : SizeOf(EmptyMap, x) = 0
  BY BudgetAssumption DEF EmptyMap, SizeOf
<1>2. PICK h : /\ h[0] = 0 /\ h[MaxAlloc] = Bytes(EmptyMap)
               /\ \A x \in 1..MaxAlloc : h[x] = h[x - 1] + SizeOf(EmptyMap, x)
  BY BytesRuns
<1> DEFINE Wrong == {x \in 0..MaxAlloc : h[x] # 0}
<1>3. 0 \notin Wrong /\ \A x \in 1..MaxAlloc : x \in Wrong => x - 1 \in Wrong
  BY <1>1, <1>2
<1>4. Wrong \in SUBSET (0..MaxAlloc) /\ MaxAlloc \in 0..MaxAlloc
  BY <1>1
<1>5. Wrong = {}
  <2> HIDE DEF Wrong
  <2> QED BY <1>1, <1>3, <1>4, NoFirstWrong
<1> QED BY <1>2, <1>4, <1>5

\* The bytes of one allocation are its size.
LEMMA BytesOfOne ==
  ASSUME NEW id \in 1..MaxAlloc, NEW size \in Nat
  PROVE  Bytes([x \in {id} |-> size]) = size
<1>1. MaxAlloc \in Nat
  BY BudgetAssumption
<1> DEFINE one == [x \in {id} |-> size]
<1>3. \A x : SizeOf(one, x) = IF x = id THEN size ELSE 0
  BY DEF SizeOf
<1>4. PICK h : /\ h[0] = 0 /\ h[MaxAlloc] = Bytes(one)
               /\ \A x \in 1..MaxAlloc : h[x] = h[x - 1] + SizeOf(one, x)
  BY BytesRuns
<1> HIDE DEF one
<1> DEFINE Right(x) == h[x] = IF x < id THEN 0 ELSE size
           Wrong == {x \in 0..MaxAlloc : ~Right(x)}
<1>5. Right(0)
  BY <1>4
<1>6. ASSUME NEW x \in 1..MaxAlloc, Right(x - 1) PROVE Right(x)
  <2>1. h[x] = h[x - 1] + IF x = id THEN size ELSE 0
    BY <1>3, <1>4
  <2> QED BY <1>6, <2>1
<1> HIDE DEF Right
<1>7. 0 \notin Wrong /\ \A x \in 1..MaxAlloc : x \in Wrong => x - 1 \in Wrong
  BY <1>1, <1>5, <1>6
<1>8. Wrong \in SUBSET (0..MaxAlloc) /\ MaxAlloc \in 0..MaxAlloc /\ ~(MaxAlloc < id)
  BY <1>1
<1>9. Wrong = {}
  <2> HIDE DEF Wrong
  <2> QED BY <1>1, <1>7, <1>8, NoFirstWrong
<1>10. Right(MaxAlloc)
  BY <1>8, <1>9
<1>11. Bytes(one) = size
  BY <1>4, <1>8, <1>10 DEF Right
<1> QED BY <1>11 DEF one

\* A bucket in which the three records agree: the queue lists every allocation once, the
\* byte count is theirs, and the cap holds.
BucketOk(b) ==
  /\ b = [used |-> b.used, lru |-> b.lru, sizes |-> b.sizes]
  /\ b.lru \in Seq(1..MaxAlloc) /\ IsInjective(b.lru)
  /\ b.sizes \in [ToSet(b.lru) -> Nat]
  /\ b.used = Bytes(b.sizes)
  /\ b.used <= CapBytes

\* Allocation ids are minted once, and every bucket is right.
BudgetInv ==
  /\ budget = [epoch |-> budget.epoch, nextId |-> budget.nextId, buckets |-> budget.buckets]
  /\ budget.nextId \in 1..(MaxAlloc + 1)
  /\ \A p \in DOMAIN budget.buckets :
       /\ BucketOk(budget.buckets[p])
       /\ \A id \in ToSet(budget.buckets[p].lru) : id < budget.nextId

\* What the allocations of a bucket are.
LEMMA BucketSizes ==
  ASSUME NEW b, BucketOk(b)
  PROVE  IsSizes(b.sizes) /\ DOMAIN b.sizes = ToSet(b.lru) /\ ToSet(b.lru) \subseteq 1..MaxAlloc
<1>1. b.lru \in Seq(1..MaxAlloc) /\ b.sizes \in [ToSet(b.lru) -> Nat]
  BY DEF BucketOk
<1>2. ToSet(b.lru) \subseteq 1..MaxAlloc
  BY <1>1, ListedIn, Zenon
<1> QED BY <1>1, <1>2 DEF IsSizes

\* A part of the sizes and the rest.
LEMMA BytesSplit ==
  ASSUME NEW sizes, IsSizes(sizes), NEW A
  PROVE  LET a == KeepOnly(sizes, A)
             b == KeepOnly(sizes, DOMAIN sizes \ A)
         IN  Bytes(sizes) = Bytes(a) + Bytes(b) /\ Bytes(a) \in Nat /\ Bytes(b) \in Nat
<1> DEFINE a == KeepOnly(sizes, A)
           b == KeepOnly(sizes, DOMAIN sizes \ A)
<1>1. /\ DOMAIN a = DOMAIN sizes \cap A /\ DOMAIN b = DOMAIN sizes \ A
      /\ \A x \in DOMAIN a : a[x] = sizes[x]
      /\ \A x \in DOMAIN b : b[x] = sizes[x]
      /\ a \in [DOMAIN a -> Nat] /\ b \in [DOMAIN b -> Nat]
  BY DEF KeepOnly, Restrict, IsSizes
<1> HIDE DEF a, b
<1>2. IsSizes(a) /\ IsSizes(b)
  BY <1>1 DEF IsSizes
<1>3. \A id \in 1..MaxAlloc : SizeOf(sizes, id) = SizeOf(a, id) + SizeOf(b, id)
  BY <1>1 DEF SizeOf, IsSizes
<1>4. Bytes(sizes) = Bytes(a) + Bytes(b) /\ Bytes(a) \in Nat /\ Bytes(b) \in Nat
  BY <1>2, <1>3, BytesAdd, BytesType
<1> QED BY <1>4 DEF a, b

\* What a bucket is after the k least recently used allocations are gone.
Oldest(b, k) == {b.lru[i] : i \in 1..k}
AfterEviction(b, k) ==
  [used |-> b.used - Bytes(KeepOnly(b.sizes, Oldest(b, k))),
   lru |-> SubSeq(b.lru, k + 1, Len(b.lru)),
   sizes |-> KeepOnly(b.sizes, DOMAIN b.sizes \ Oldest(b, k))]

\* The loop stops somewhere.
LEMMA EvictionStops ==
  ASSUME NEW b, BucketOk(b), NEW size
  PROVE  \E k \in 0..Len(b.lru) : EvictFor(b, size) = AfterEviction(b, k)
<1> DEFINE n == Len(b.lru)
           Stops == {k \in 0..n :
                       b.used - Bytes(KeepOnly(b.sizes, Oldest(b, k))) + size <= CapBytes \/ k = n}
<1>1. n \in Nat
  BY DEF BucketOk
<1>2. Stops # {} /\ Stops \in SUBSET Nat /\ Stops \in SUBSET (0..n)
  BY <1>1
<1>3. EvictFor(b, size) = AfterEviction(b, Min(Stops))
  BY Zenon DEF EvictFor, AfterEviction, Oldest
<1> HIDE DEF Stops
<1>4. Min(Stops) \in Stops
  BY <1>2, LeastNat DEF Min
<1> QED BY <1>2, <1>3, <1>4

\* The front of a queue without repetitions, and the rest of it.
LEMMA FrontAndRest ==
  ASSUME NEW S, NEW s \in Seq(S), IsInjective(s), NEW k \in 0..Len(s)
  PROVE  LET rest == SubSeq(s, k + 1, Len(s))
         IN  /\ rest \in Seq(S) /\ IsInjective(rest)
             /\ ToSet(rest) = ToSet(s) \ {s[i] : i \in 1..k}
<1> DEFINE n == Len(s)
           rest == SubSeq(s, k + 1, n)
<1>1. n \in Nat /\ k \in Nat /\ k <= n /\ DOMAIN s = 1..n
  OBVIOUS
<1>2. /\ rest \in Seq(S) /\ Len(rest) = n - k /\ DOMAIN rest = 1..(n - k)
      /\ \A i \in 1..(n - k) : rest[i] = s[i + k]
  <2>1. CASE k = n
    <3>1. rest = <<>>
      <4>1. k + 1 \in Int /\ n \in Int /\ n < k + 1
        BY <1>1, <2>1
      <4> HIDE DEF n
      <4> QED BY <4>1, SubSeqEmpty
    <3> QED BY <1>1, <2>1, <3>1
  <2>2. CASE k # n
    <3>1. k + 1 \in 1..n
      <4> HIDE DEF n
      <4> QED BY <1>1, <2>2
    <3>2. /\ rest \in Seq(S) /\ Len(rest) = n - (k + 1) + 1
          /\ \A i \in 1..(n - (k + 1) + 1) : rest[i] = s[(k + 1) + i - 1]
      BY <1>1, <3>1
    <3>3. n - (k + 1) + 1 = n - k /\ \A i \in 1..(n - k) : (k + 1) + i - 1 = i + k
      BY <1>1
    <3> HIDE DEF rest, n
    <3> QED BY <3>2, <3>3
  <2> QED BY <2>1, <2>2
<1>3. \A i, j \in 1..n : s[i] = s[j] => i = j
  BY <1>1 DEF IsInjective
<1> HIDE DEF rest, n
<1>4. IsInjective(rest)
  <2>1. \A i \in 1..(n - k) : i + k \in 1..n
    BY <1>1
  <2>2. ASSUME NEW i \in 1..(n - k), NEW j \in 1..(n - k), rest[i] = rest[j] PROVE i = j
    <3>1. i + k = j + k
      BY <1>2, <1>3, <2>1, <2>2
    <3> QED BY <1>1, <3>1
  <2> QED BY <1>2, <2>2 DEF IsInjective
<1>5. ToSet(rest) = {s[i] : i \in (k + 1)..n}
  <2>1. ToSet(rest) = {rest[i] : i \in 1..(n - k)}
    BY <1>2 DEF ToSet
  <2>2. ASSUME NEW i \in 1..(n - k) PROVE i + k \in (k + 1)..n /\ rest[i] = s[i + k]
    BY <1>1, <1>2
  <2>3. ASSUME NEW i \in (k + 1)..n PROVE i - k \in 1..(n - k) /\ rest[i - k] = s[i]
    <3>1. i - k \in 1..(n - k) /\ (i - k) + k = i
      BY <1>1
    <3> QED BY <1>2, <3>1
  <2> QED BY <2>1, <2>2, <2>3
<1>6. ToSet(s) = {s[i] : i \in 1..n}
  BY <1>1 DEF ToSet, n
<1>7. \A i \in 1..n : i \in (k + 1)..n <=> i \notin 1..k
  BY <1>1
<1>8. (k + 1)..n \subseteq 1..n /\ 1..k \subseteq 1..n
  BY <1>1
<1>9. ToSet(rest) = ToSet(s) \ {s[i] : i \in 1..k}
  BY <1>3, <1>5, <1>6, <1>7, <1>8
<1> QED BY <1>2, <1>4, <1>9 DEF rest, n

\* Eviction keeps a bucket right, and only takes allocations away.
LEMMA EvictionKeepsBucket ==
  ASSUME NEW b, BucketOk(b), NEW size
  PROVE  BucketOk(EvictFor(b, size)) /\ ToSet(EvictFor(b, size).lru) \subseteq ToSet(b.lru)
<1>1. PICK k \in 0..Len(b.lru) : EvictFor(b, size) = AfterEviction(b, k)
  BY EvictionStops
<1> DEFINE gone == Oldest(b, k)
           rest == SubSeq(b.lru, k + 1, Len(b.lru))
           left == KeepOnly(b.sizes, DOMAIN b.sizes \ gone)
           e == AfterEviction(b, k)
<1>2. /\ rest \in Seq(1..MaxAlloc) /\ IsInjective(rest)
      /\ ToSet(rest) = ToSet(b.lru) \ gone
  BY FrontAndRest DEF BucketOk, Oldest
<1>3. left \in [ToSet(rest) -> Nat]
  <2>1. DOMAIN b.sizes = ToSet(b.lru) /\ b.sizes \in [ToSet(b.lru) -> Nat]
    BY DEF BucketOk
  <2>2. DOMAIN b.sizes \cap (DOMAIN b.sizes \ gone) = ToSet(rest)
    BY <1>2, <2>1
  <2> HIDE DEF rest, gone
  <2> QED BY <1>2, <2>1, <2>2 DEF KeepOnly, Restrict
<1>4. /\ Bytes(b.sizes) = Bytes(KeepOnly(b.sizes, gone)) + Bytes(left)
      /\ Bytes(KeepOnly(b.sizes, gone)) \in Nat /\ Bytes(left) \in Nat
  BY BucketSizes, BytesSplit
<1>5. e = [used |-> b.used - Bytes(KeepOnly(b.sizes, gone)), lru |-> rest, sizes |-> left]
  BY DEF AfterEviction
<1> HIDE DEF e, rest, left, gone
<1>6. b.used - Bytes(KeepOnly(b.sizes, gone)) = Bytes(left) /\ Bytes(left) <= CapBytes
  BY <1>4, BudgetAssumption DEF BucketOk
<1>7. BucketOk(e) /\ ToSet(e.lru) \subseteq ToSet(b.lru)
  BY <1>2, <1>3, <1>5, <1>6 DEF BucketOk
<1> QED BY <1>1, <1>7 DEF e

\* A new allocation, whose id no queue lists yet, at the back.
LEMMA AllocationKeepsBucket ==
  ASSUME NEW b, BucketOk(b), NEW id \in 1..MaxAlloc, id \notin ToSet(b.lru),
         NEW size \in Nat, b.used + size <= CapBytes
  PROVE  BucketOk([used |-> b.used + size, lru |-> Append(b.lru, id),
                   sizes |-> Put(b.sizes, id, size)])
         /\ ToSet(Append(b.lru, id)) = ToSet(b.lru) \cup {id}
<1> DEFINE longer == Append(b.lru, id)
           more == Put(b.sizes, id, size)
           one == [x \in {id} |-> size]
<1>1. b.lru \in Seq(1..MaxAlloc) /\ IsInjective(b.lru)
  BY DEF BucketOk
<1>2. longer \in Seq(1..MaxAlloc) /\ IsInjective(longer) /\ ToSet(longer) = ToSet(b.lru) \cup {id}
  <2> DEFINE old == b.lru
             ids == 1..MaxAlloc
  <2>1. id \in ids /\ old \in Seq(ids) /\ IsInjective(old) /\ id \notin ToSet(old)
    BY <1>1
  <2> HIDE DEF old, ids
  <2>2. /\ Append(old, id) \in Seq(ids) /\ IsInjective(Append(old, id))
        /\ ToSet(Append(old, id)) = ToSet(old) \cup {id}
    BY <2>1, AppendNew
  <2> QED BY <2>2 DEF old, ids
<1>3. IsSizes(b.sizes) /\ DOMAIN b.sizes = ToSet(b.lru) /\ IsSizes(one)
  BY BucketSizes DEF IsSizes
<1>4. more \in [ToSet(longer) -> Nat]
  BY <1>2, <1>3 DEF Put, IsSizes
<1>5. \A x \in 1..MaxAlloc : SizeOf(more, x) = SizeOf(b.sizes, x) + SizeOf(one, x)
  BY <1>3 DEF SizeOf, Put, IsSizes
<1>6. Bytes(more) = Bytes(b.sizes) + size
  <2>1. Bytes(one) = size
    BY BytesOfOne
  <2> HIDE DEF one, more
  <2>2. Bytes(more) = Bytes(b.sizes) + Bytes(one)
    BY <1>3, <1>5, BytesAdd, Zenon
  <2> QED BY <2>1, <2>2
<1> HIDE DEF longer, more
<1>7. BucketOk([used |-> b.used + size, lru |-> longer, sizes |-> more])
  BY <1>2, <1>4, <1>6 DEF BucketOk
<1> QED BY <1>2, <1>7 DEF longer, more

\* touch moves an allocation to the back.
LEMMA TouchKeepsBucket ==
  ASSUME NEW b, BucketOk(b), NEW id \in ToSet(b.lru)
  PROVE  LET moved == Append(RemoveFirst(b.lru, id), id)
         IN  BucketOk([b EXCEPT !.lru = moved]) /\ ToSet(moved) = ToSet(b.lru)
<1> DEFINE less == RemoveFirst(b.lru, id)
           moved == Append(less, id)
<1>1. b.lru \in Seq(1..MaxAlloc) /\ IsInjective(b.lru) /\ id \in 1..MaxAlloc
  <2>1. b.lru \in Seq(1..MaxAlloc) /\ IsInjective(b.lru)
    BY DEF BucketOk
  <2> QED BY <2>1, BucketSizes
<1>2. less \in Seq(1..MaxAlloc) /\ IsInjective(less) /\ ToSet(less) = ToSet(b.lru) \ {id}
  BY <1>1, RemoveFirstFacts
<1> HIDE DEF less
<1>3. moved \in Seq(1..MaxAlloc) /\ IsInjective(moved) /\ ToSet(moved) = ToSet(less) \cup {id}
  <2> DEFINE Ids == 1..MaxAlloc
  <2>1. less \in Seq(Ids) /\ IsInjective(less) /\ id \in Ids /\ id \notin ToSet(less)
    BY <1>1, <1>2
  <2> HIDE DEF Ids
  <2>2. moved \in Seq(Ids) /\ IsInjective(moved) /\ ToSet(moved) = ToSet(less) \cup {id}
    BY <2>1, AppendNew
  <2> QED BY <2>2 DEF Ids
<1>4. ToSet(moved) = ToSet(b.lru)
  BY <1>2, <1>3
<1> HIDE DEF moved
<1>5. [b EXCEPT !.lru = moved] = [used |-> b.used, lru |-> moved, sizes |-> b.sizes]
  BY DEF BucketOk
<1>6. BucketOk([used |-> b.used, lru |-> moved, sizes |-> b.sizes])
  BY <1>3, <1>4 DEF BucketOk
<1> QED BY <1>4, <1>5, <1>6 DEF moved, less

\* release takes an allocation and its bytes away.
LEMMA ReleaseKeepsBucket ==
  ASSUME NEW b, BucketOk(b), NEW id \in ToSet(b.lru)
  PROVE  LET r == [used |-> b.used - b.sizes[id], lru |-> RemoveFirst(b.lru, id),
                   sizes |-> Without(b.sizes, id)]
         IN  BucketOk(r) /\ ToSet(r.lru) \subseteq ToSet(b.lru)
<1> DEFINE less == RemoveFirst(b.lru, id)
           left == Without(b.sizes, id)
           one == [x \in {id} |-> b.sizes[id]]
<1>1. /\ b.lru \in Seq(1..MaxAlloc) /\ IsInjective(b.lru) /\ id \in 1..MaxAlloc
      /\ IsSizes(b.sizes) /\ DOMAIN b.sizes = ToSet(b.lru) /\ b.sizes[id] \in Nat
  BY BucketSizes DEF BucketOk
<1>2. less \in Seq(1..MaxAlloc) /\ IsInjective(less) /\ ToSet(less) = ToSet(b.lru) \ {id}
  BY <1>1, RemoveFirstFacts
<1>3. /\ DOMAIN left = ToSet(b.lru) \ {id} /\ left \in [ToSet(less) -> Nat]
      /\ \A x \in DOMAIN left : left[x] = b.sizes[x]
  BY <1>1, <1>2 DEF Without, Restrict, IsSizes
<1>4. IsSizes(left) /\ IsSizes(one)
  BY <1>1, <1>2, <1>3 DEF IsSizes
<1> HIDE DEF left, less
<1>5. \A x \in 1..MaxAlloc : SizeOf(b.sizes, x) = SizeOf(left, x) + SizeOf(one, x)
  BY <1>1, <1>3 DEF SizeOf, IsSizes
<1>6. Bytes(b.sizes) = Bytes(left) + b.sizes[id] /\ Bytes(left) \in Nat
  <2>1. Bytes(one) = b.sizes[id]
    BY <1>1, BytesOfOne
  <2> HIDE DEF one
  <2>2. Bytes(b.sizes) = Bytes(left) + Bytes(one)
    BY <1>4, <1>5, BytesAdd, Zenon
  <2> QED BY <1>4, <2>1, <2>2, BytesType
<1>7. b.used - b.sizes[id] = Bytes(left) /\ Bytes(left) <= CapBytes
  BY <1>1, <1>6, BudgetAssumption DEF BucketOk
<1>8. BucketOk([used |-> b.used - b.sizes[id], lru |-> less, sizes |-> left])
  BY <1>2, <1>3, <1>7 DEF BucketOk
<1> QED BY <1>2, <1>8 DEF less, left

\* An identity without a bucket has an empty one.
LEMMA BucketOfIsOk ==
  ASSUME BudgetInv, NEW p
  PROVE  BucketOk(BucketOf(p)) /\ \A id \in ToSet(BucketOf(p).lru) : id < budget.nextId
<1>1. BucketOk(EmptyBucket) /\ ToSet(EmptyBucket.lru) = {}
  <2>1. MaxAlloc \in Nat /\ CapBytes \in Nat
    BY BudgetAssumption
  <2>2. Bytes(EmptyMap) = 0
    BY BytesOfNothing
  <2>3. <<>> \in Seq(1..MaxAlloc) /\ IsInjective(<<>>) /\ ToSet(<<>>) = {}
    BY DEF IsInjective, ToSet
  <2>4. EmptyMap \in [{} -> Nat]
    BY DEF EmptyMap
  <2> QED BY <2>1, <2>2, <2>3, <2>4 DEF BucketOk, EmptyBucket
<1> QED BY <1>1 DEF BudgetInv, BucketOf

\* One bucket is written, with a right one.
LEMMA OneBucketWritten ==
  ASSUME BudgetInv, NEW p, NEW b, BucketOk(b), NEW next \in 1..(MaxAlloc + 1),
         next >= budget.nextId, \A id \in ToSet(b.lru) : id < next,
         NEW buckets, DOMAIN buckets \subseteq DOMAIN budget.buckets \cup {p},
         buckets[p] = b, \A q \in DOMAIN buckets : q # p => buckets[q] = budget.buckets[q],
         budget' = [epoch |-> budget.epoch, nextId |-> next, buckets |-> buckets]
  PROVE  BudgetInv'
<1>1. budget.nextId \in 1..(MaxAlloc + 1) /\ MaxAlloc \in Nat
  BY BudgetAssumption DEF BudgetInv
<1>2. ASSUME NEW q \in DOMAIN buckets
      PROVE  BucketOk(buckets[q]) /\ \A id \in ToSet(buckets[q].lru) : id < next
  <2>1. CASE q = p
    BY <2>1
  <2>2. CASE q # p
    <3>1. /\ BucketOk(buckets[q]) /\ buckets[q] = budget.buckets[q]
          /\ \A id \in ToSet(buckets[q].lru) : id < budget.nextId
      BY <2>2 DEF BudgetInv
    <3>2. ToSet(buckets[q].lru) \subseteq 1..MaxAlloc
      BY <3>1, BucketSizes
    <3>3. \A id \in 1..MaxAlloc : id < budget.nextId => id < next
      BY <1>1
    <3> QED BY <3>1, <3>2, <3>3
  <2> QED BY <2>1, <2>2
<1>3. budget'.buckets = buckets /\ budget'.nextId = next /\ budget'.epoch = budget.epoch
  OBVIOUS
<1> QED BY <1>2, <1>3 DEF BudgetInv

\* An allocation, with what it evicts, or the error.
LEMMA AllocateKeepsBudget ==
  ASSUME BudgetInv, NEW t, NEW size \in 1..CapBytes, TryAllocate(t, size)
  PROVE  BudgetInv'
<1> DEFINE p == t.profile
           id == budget.nextId
           b == EvictFor(BucketOf(p), size)
           grown == [used |-> b.used + size, lru |-> Append(b.lru, id),
                     sizes |-> Put(b.sizes, id, size)]
<1>1. /\ id \in 1..MaxAlloc /\ MaxAlloc \in Nat /\ CapBytes \in Nat /\ size \in Nat
      /\ id + 1 \in 1..(MaxAlloc + 1)
  BY BudgetAssumption DEF BudgetInv, TryAllocate
<1>2. BucketOk(b) /\ \A x \in ToSet(b.lru) : x < id
  BY BucketOfIsOk, EvictionKeepsBucket
<1>3. id \notin ToSet(b.lru) /\ ToSet(b.lru) \subseteq 1..MaxAlloc /\ b.used \in Nat
  BY <1>1, <1>2, BucketSizes, BytesType DEF BucketOk
<1> DEFINE With(c) == Put(budget.buckets, p, c)
<1>4. \A c : /\ DOMAIN With(c) = DOMAIN budget.buckets \cup {p} /\ With(c)[p] = c
             /\ \A q \in DOMAIN With(c) : q # p => With(c)[q] = budget.buckets[q]
  BY DEF Put
<1>5. CASE b.used + size > CapBytes
  <2>1. budget' = [epoch |-> budget.epoch, nextId |-> id, buckets |-> With(b)]
    BY <1>5 DEF TryAllocate, BudgetInv
  <2> HIDE DEF b, With, p
  <2> QED BY <1>1, <1>2, <1>4, <2>1, OneBucketWritten
<1>6. CASE ~(b.used + size > CapBytes)
  <2>1. budget' = [epoch |-> budget.epoch, nextId |-> id + 1, buckets |-> With(grown)]
    BY <1>6 DEF TryAllocate, BudgetInv
  <2>2. b.used + size <= CapBytes
    BY <1>1, <1>3, <1>6
  <2> HIDE DEF b, p
  <2>3. BucketOk(grown) /\ ToSet(grown.lru) = ToSet(b.lru) \cup {id}
    BY <1>1, <1>2, <1>3, <2>2, AllocationKeepsBucket
  <2>4. \A x \in ToSet(grown.lru) : x < id + 1
    BY <1>1, <1>2, <1>3, <2>3
  <2>5. id + 1 >= budget.nextId
    BY <1>1
  <2> HIDE DEF With, grown
  <2> QED BY <1>1, <1>4, <2>1, <2>3, <2>4, <2>5, OneBucketWritten
<1> QED BY <1>5, <1>6

\* A touch or a release of an allocation of the caller's own.
LEMMA UseKeepsBudget ==
  ASSUME BudgetInv, NEW t, NEW id, Touch(t, id) \/ Release(t, id)
  PROVE  BudgetInv'
<1> DEFINE p == t.profile
           b == budget.buckets[p]
<1>1. /\ p \in DOMAIN budget.buckets /\ id \in DOMAIN b.sizes /\ BucketOk(b)
      /\ \A x \in ToSet(b.lru) : x < budget.nextId
  BY DEF Touch, Release, Known, BudgetInv
<1>2. id \in ToSet(b.lru) /\ budget.nextId \in 1..(MaxAlloc + 1) /\ MaxAlloc \in Nat
  BY <1>1, BucketSizes, BudgetAssumption DEF BudgetInv
<1> DEFINE With(c) == [budget.buckets EXCEPT ![p] = c]
<1>3. \A c : /\ DOMAIN With(c) = DOMAIN budget.buckets /\ With(c)[p] = c
             /\ \A q \in DOMAIN With(c) : q # p => With(c)[q] = budget.buckets[q]
  BY <1>1
<1>4. ASSUME NEW c, BucketOk(c), ToSet(c.lru) \subseteq ToSet(b.lru),
             budget' = [epoch |-> budget.epoch, nextId |-> budget.nextId, buckets |-> With(c)]
      PROVE  BudgetInv'
  <2> HIDE DEF With, p
  <2>1. /\ DOMAIN With(c) \subseteq DOMAIN budget.buckets \cup {p}
        /\ \A x \in ToSet(c.lru) : x < budget.nextId /\ budget.nextId >= budget.nextId
    BY <1>1, <1>2, <1>3, <1>4
  <2>2. budget.nextId >= budget.nextId
    BY <1>2
  <2> QED BY <1>2, <1>3, <1>4, <2>1, <2>2, OneBucketWritten
<1>5. CASE Touch(t, id)
  <2> DEFINE moved == Append(RemoveFirst(b.lru, id), id)
             c == [b EXCEPT !.lru = moved]
  <2>1. BucketOk(c) /\ ToSet(moved) = ToSet(b.lru)
    BY <1>1, <1>2, TouchKeepsBucket
  <2>2. c.lru = moved
    BY <1>1 DEF BucketOk
  <2>3. budget' = [epoch |-> budget.epoch, nextId |-> budget.nextId, buckets |-> With(c)]
    BY <1>5 DEF Touch, BudgetInv
  <2> HIDE DEF c, With, moved
  <2> QED BY <1>4, <2>1, <2>2, <2>3
<1>6. CASE Release(t, id)
  <2> DEFINE c == [used |-> b.used - b.sizes[id], lru |-> RemoveFirst(b.lru, id),
                   sizes |-> Without(b.sizes, id)]
  <2>1. BucketOk(c) /\ ToSet(c.lru) \subseteq ToSet(b.lru)
    BY <1>1, <1>2, ReleaseKeepsBucket
  <2>2. budget' = [epoch |-> budget.epoch, nextId |-> budget.nextId, buckets |-> With(c)]
    BY <1>6 DEF Release, BudgetInv
  <2> HIDE DEF c, With
  <2> QED BY <1>4, <2>1, <2>2
<1> QED BY <1>5, <1>6

\* Every step of the GPU process keeps the buckets right.
LEMMA BudgetStep == BudgetInv /\ [Next]_vars => BudgetInv'
<1> SUFFICES ASSUME BudgetInv, [Next]_vars PROVE BudgetInv'
  OBVIOUS
<1>1. CASE UNCHANGED budget
  BY <1>1 DEF BudgetInv
<1>2. CASE SubmitBuffer \/ Execute \/ AdapterLost \/ RecoverCoordinator \/ RecoverQueue
           \/ UNCHANGED vars
  BY <1>1, <1>2 DEF SubmitBuffer, Execute, AdapterLost, RecoverCoordinator, RecoverQueue, vars
<1>3. CASE Allocate
  BY <1>3, AllocateKeepsBudget DEF Allocate
<1>4. CASE TouchOrRelease
  BY <1>4, UseKeepsBudget DEF TouchOrRelease
<1>5. CASE RecoverBudget
  <2>1. budget' = [epoch |-> epoch, nextId |-> budget.nextId, buckets |-> EmptyMap]
    BY <1>5 DEF RecoverBudget, BudgetOnRecovery, BudgetInv
  <2>2. DOMAIN EmptyMap = {}
    BY DEF EmptyMap
  <2> QED BY <2>1, <2>2 DEF BudgetInv
<1> QED BY <1>2, <1>3, <1>4, <1>5 DEF Next

\* However many identities, and for any cap and any mix of allocations, evictions, touches,
\* releases and recoveries: the byte count of every bucket is that of the allocations it
\* holds, its queue lists each of them once, and the cap is kept (memory_budget.rs).
THEOREM BudgetAlwaysExact == Spec => []BudgetExact
<1>1. Init => BudgetInv
  <2> SUFFICES ASSUME Init PROVE BudgetInv
    OBVIOUS
  <2>1. budget = [epoch |-> 1, nextId |-> 1, buckets |-> EmptyMap]
    BY DEF Init, BudgetInit
  <2>2. DOMAIN EmptyMap = {} /\ 1 \in 1..(MaxAlloc + 1)
    BY BudgetAssumption DEF EmptyMap
  <2> QED BY <2>1, <2>2 DEF BudgetInv
<1>2. BudgetInv => BudgetExact
  <2> SUFFICES ASSUME BudgetInv, NEW p \in DOMAIN budget.buckets
               PROVE  LET b == budget.buckets[p]
                      IN  /\ b.used = Bytes(b.sizes) /\ b.used <= CapBytes
                          /\ ToSet(b.lru) = DOMAIN b.sizes
                          /\ Len(b.lru) = Cardinality(DOMAIN b.sizes)
    BY DEF BudgetExact
  <2> DEFINE b == budget.buckets[p]
  <2>1. BucketOk(b)
    BY DEF BudgetInv
  <2> HIDE DEF b
  <2>2. DOMAIN b.sizes = ToSet(b.lru) /\ Len(b.lru) = Cardinality(ToSet(b.lru))
    BY <2>1, BucketSizes, QueueCounts DEF BucketOk
  <2>3. b.used = Bytes(b.sizes) /\ b.used <= CapBytes
    BY <2>1 DEF BucketOk
  <2> QED BY <2>2, <2>3 DEF b
<1> QED BY <1>1, <1>2, BudgetStep, PTL DEF Spec
=============================================================================
