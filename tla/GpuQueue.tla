------------------------------ MODULE GpuQueue ------------------------------
(***************************************************************************)
(* The command queues of pb-gpu (queue.rs): a FIFO of buffers per identity *)
(* and the rotation in which dequeue serves the identities.                *)
(***************************************************************************)
EXTENDS GpuCoordinator, Integers, Sequences, FiniteSets, HashMap, SequencesExt

CONSTANT
  MaxBuffers   \* bound: buffer ids minted (u64 in the code)

ASSUME QueueAssumption == MaxBuffers \in Nat

VARIABLE queue   \* [epoch, nextId, queues, order]

QueueInit(newEpoch) ==
  queue = [epoch |-> newEpoch, nextId |-> 1, queues |-> EmptyMap, order |-> <<>>]

Pending(p) == IF p \in DOMAIN queue.queues THEN queue.queues[p] ELSE <<>>

\* submit: an identity re-enters the rotation at the back when its queue was empty.
EnterAtFront(p) == IF Pending(p) = <<>> THEN <<p>> \o queue.order ELSE queue.order

EnterRotation(p) == IF Pending(p) = <<>> THEN Append(queue.order, p) ELSE queue.order

Submit(t) ==
  /\ t.epoch = queue.epoch
  /\ queue.nextId <= MaxBuffers
  /\ queue' = [queue EXCEPT
                !.nextId = @ + 1,
                !.queues = Put(@, t.profile, Append(Pending(t.profile), queue.nextId)),
                !.order = EnterRotation(t.profile)]

\* The loop of dequeue: identities without a buffer are passed over.
Serves(i) ==
  /\ Pending(queue.order[i]) # <<>>
  /\ \A j \in 1..(i - 1) : Pending(queue.order[j]) = <<>>

ForgetRotation(i) == SubSeq(queue.order, i + 1, Len(queue.order))

Rotated(i) ==
  LET p == queue.order[i]
      rest == SubSeq(queue.order, i + 1, Len(queue.order))
  IN  IF Len(Pending(p)) > 1 THEN Append(rest, p) ELSE rest

Dequeue(p, buffer) ==
  \E i \in DOMAIN queue.order :
    /\ Serves(i)
    /\ p = queue.order[i]
    /\ buffer = Head(Pending(p))
    /\ queue' = [queue EXCEPT !.queues[p] = Tail(@), !.order = Rotated(i)]

ClearQueuesOnly(newEpoch) ==
  queue' = [queue EXCEPT !.queues = EmptyMap, !.order = <<>>]

AdoptQueueEpochOnly(newEpoch) == queue' = [queue EXCEPT !.epoch = newEpoch]

QueueOnRecovery(newEpoch) ==
  queue' = [queue EXCEPT !.epoch = newEpoch, !.queues = EmptyMap, !.order = <<>>]
=============================================================================
