----------------------------- MODULE GpuProcess -----------------------------
(***************************************************************************)
(* The GPU process of pb-gpu: the coordinator (coordinator.rs), the memory *)
(* budget and the command queues, each behind a mutex of its own, renderer *)
(* requests under scope tokens, an executor that dequeues, and the adapter *)
(* that is lost at any time.  After a loss the recovery handshake of       *)
(* memory_budget.rs calls the three one after another; whoever drives it   *)
(* is not in the repository.                                               *)
(***************************************************************************)
EXTENDS GpuMemoryBudget, GpuQueue

\* The identities are those of a registry.
ASSUME ProfilesAssumption == IsFiniteSet(Profile)

VARIABLES
  handshake,  \* how far the recovery handshake is
  ran,        \* the command dequeued last, with the epoch it was submitted under
  submitted,  \* history: buffer id -> [profile, epoch] it was submitted under
  passedOver  \* history: dequeues an identity with work has waited through

vars == <<budget, queue, epoch, available, handshake, ran, submitted, passedOver>>

NoCommand == [buffer |-> 0]

Init ==
  /\ CoordinatorInit
  /\ handshake = "none"
  /\ BudgetInit(1)
  /\ QueueInit(1)
  /\ ran = NoCommand
  /\ submitted = EmptyMap
  /\ passedOver = [p \in Profile |-> 0]

-----------------------------------------------------------------------------
Allocate ==
  /\ \E t \in Tokens, size \in 1..CapBytes : TryAllocate(t, size)
  /\ UNCHANGED <<queue, epoch, available, handshake, ran, submitted, passedOver>>

TouchOrRelease ==
  /\ \E t \in Tokens, id \in 1..MaxAlloc : Touch(t, id) \/ Release(t, id)
  /\ UNCHANGED <<queue, epoch, available, handshake, ran, submitted, passedOver>>

SubmitBuffer ==
  /\ \E t \in Tokens :
       Submit(t) /\ submitted' = Put(submitted, queue.nextId, t)
  /\ UNCHANGED <<budget, epoch, available, handshake, ran, passedOver>>

Execute ==
  /\ \E p \in Profile, buffer \in 1..MaxBuffers :
       /\ Dequeue(p, buffer)
       /\ ran' = [buffer |-> buffer, profile |-> p, epoch |-> queue.epoch, at |-> epoch]
       /\ passedOver' = [q \in Profile |->
            IF q = p \/ Pending(q) = <<>> THEN 0 ELSE passedOver[q] + 1]
  /\ UNCHANGED <<budget, epoch, available, handshake, submitted>>

AdapterLost ==
  /\ available
  /\ epoch < MaxEpoch
  /\ OnAdapterLoss
  /\ UNCHANGED <<budget, queue, handshake, ran, submitted, passedOver>>

RecoverCoordinator ==
  /\ ~available
  /\ handshake = "none"
  /\ RecoverAfterLoss
  /\ handshake' = "recovered"
  /\ UNCHANGED <<budget, queue, ran, submitted, passedOver>>

RecoverBudget ==
  /\ handshake = "recovered"
  /\ BudgetOnRecovery(epoch)
  /\ handshake' = "budget"
  /\ UNCHANGED <<queue, epoch, available, ran, submitted, passedOver>>

RecoverQueue ==
  /\ handshake = "budget"
  /\ QueueOnRecovery(epoch)
  /\ handshake' = "none"
  /\ passedOver' = [p \in Profile |-> 0]
  /\ UNCHANGED <<budget, epoch, available, ran, submitted>>

Next ==
  \/ Allocate \/ TouchOrRelease \/ SubmitBuffer \/ Execute
  \/ AdapterLost \/ RecoverCoordinator \/ RecoverBudget \/ RecoverQueue

Spec == Init /\ [][Next]_vars

-----------------------------------------------------------------------------
\* The three epochs and the types of the history.
TypeOK ==
  /\ epoch \in Epoch
  /\ available \in BOOLEAN
  /\ handshake \in {"none", "recovered", "budget"}
  /\ budget.epoch \in Epoch /\ queue.epoch \in Epoch
  /\ IsMap(submitted, 1..MaxBuffers, Token(Epoch))
  /\ IsMap(queue.queues, Profile, Seq(1..MaxBuffers))

\* After the handshake the three parts speak of one epoch, and in between the budget
\* and the queue are behind the coordinator by one, never ahead: a token is accepted
\* by nobody before the coordinator has issued it.
EpochsInStep ==
  /\ handshake = "none" => budget.epoch = epoch /\ queue.epoch = epoch
  /\ handshake = "recovered" => budget.epoch = epoch - 1
  /\ handshake # "none" => queue.epoch = epoch - 1

\* No buffer crosses a recovery of the queue: whatever waits was submitted under the
\* epoch the queue is in, by the identity whose queue it is in, and the executor is
\* told that epoch and that identity (queue.rs, on_recovery and dequeue).
BuffersOfThisEpoch ==
  /\ \A p \in DOMAIN queue.queues : \A i \in DOMAIN queue.queues[p] :
       submitted[queue.queues[p][i]] = [profile |-> p, epoch |-> queue.epoch]
  /\ ran # NoCommand =>
       submitted[ran.buffer] = [profile |-> ran.profile, epoch |-> ran.epoch]

\* Round robin: an identity with work waits for at most one buffer of every other
\* identity, however many they have pending.
BoundedBypass == \A p \in Profile : passedOver[p] < Cardinality(Profile)

\* "an in-flight command buffer from before the crash cannot be executed afterwards
\* under any identity" (queue.rs): what runs was submitted in the coordinator's epoch.
NoPreCrashExecution == ran # NoCommand => submitted[ran.buffer].epoch = ran.at

\* For the runs: profiles are interchangeable.
Symmetry == Permutations(Profile)
=============================================================================
