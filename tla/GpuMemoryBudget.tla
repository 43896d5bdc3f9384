-------------------------- MODULE GpuMemoryBudget --------------------------
(***************************************************************************)
(* The per-identity GPU memory budget of pb-gpu (memory_budget.rs): one    *)
(* bucket per profile with its byte count, its LRU queue and the sizes of  *)
(* its allocations.  Calls under a token of another epoch are rejected and *)
(* change nothing, as are sizes of zero and above the cap.                 *)
(***************************************************************************)
EXTENDS GpuCoordinator, Integers, Sequences, FiniteSets, HashMap, SequencesExt,
        FiniteSetsExt

CONSTANTS
  CapBytes,   \* BudgetProfile::cap_bytes
  MaxAlloc    \* bound: allocation ids minted (u64 in the code)

ASSUME BudgetAssumption == CapBytes \in Nat \ {0} /\ MaxAlloc \in Nat

VARIABLE budget   \* [epoch, nextId, buckets]

EmptyBucket == [used |-> 0, lru |-> <<>>, sizes |-> EmptyMap]

BudgetInit(newEpoch) == budget = [epoch |-> newEpoch, nextId |-> 1, buckets |-> EmptyMap]

BucketOf(p) == IF p \in DOMAIN budget.buckets THEN budget.buckets[p] ELSE EmptyBucket

\* The bytes of a set of allocations, added up id by id.
SizeOf(sizes, id) == IF id \in DOMAIN sizes THEN sizes[id] ELSE 0

Bytes(sizes) ==
  LET upTo[id \in 0..MaxAlloc] == IF id = 0 THEN 0 ELSE upTo[id - 1] + SizeOf(sizes, id)
  IN  upTo[MaxAlloc]

\* The eviction loop: pop the least recently used allocations of this bucket until
\* size fits.  Exhausted, when the queue runs out first, is a bucket that fits nothing.
EvictFor(bucket, size) ==
  LET Gone(k) == {bucket.lru[i] : i \in 1..k}
      Freed(k) == Bytes(KeepOnly(bucket.sizes, Gone(k)))
      Stops == {k \in 0..Len(bucket.lru) :
                  bucket.used - Freed(k) + size <= CapBytes \/ k = Len(bucket.lru)}
      k == Min(Stops)
  IN  [used |-> bucket.used - Freed(k),
       lru |-> SubSeq(bucket.lru, k + 1, Len(bucket.lru)),
       sizes |-> KeepOnly(bucket.sizes, DOMAIN bucket.sizes \ Gone(k))]

TryAllocate(t, size) ==
  /\ t.epoch = budget.epoch
  /\ budget.nextId <= MaxAlloc
  /\ LET bucket == EvictFor(BucketOf(t.profile), size)
         id == budget.nextId
     IN  budget' =
           IF bucket.used + size > CapBytes
           THEN [budget EXCEPT !.buckets = Put(@, t.profile, bucket)]
           ELSE [budget EXCEPT
                  !.nextId = @ + 1,
                  !.buckets = Put(@, t.profile,
                                  [used |-> bucket.used + size,
                                   lru |-> Append(bucket.lru, id),
                                   sizes |-> Put(bucket.sizes, id, size)])]

\* An id of another identity is as unknown as one that never was.
Known(t, id) ==
  /\ t.epoch = budget.epoch
  /\ t.profile \in DOMAIN budget.buckets
  /\ id \in DOMAIN budget.buckets[t.profile].sizes

Touch(t, id) ==
  /\ Known(t, id)
  /\ budget' = [budget EXCEPT !.buckets[t.profile].lru = Append(RemoveFirst(@, id), id)]

ReleaseKeepingBytes(t, id) ==
  /\ Known(t, id)
  /\ budget' = [budget EXCEPT !.buckets[t.profile].sizes = Without(@, id),
                              !.buckets[t.profile].lru = RemoveFirst(@, id)]

Release(t, id) ==
  /\ Known(t, id)
  /\ budget' = [budget EXCEPT !.buckets[t.profile] =
                 [used |-> @.used - @.sizes[id],
                  lru |-> RemoveFirst(@.lru, id),
                  sizes |-> Without(@.sizes, id)]]

BudgetOnRecovery(newEpoch) ==
  budget' = [budget EXCEPT !.epoch = newEpoch, !.buckets = EmptyMap]

-----------------------------------------------------------------------------
\* The three records of a bucket agree after any mix of allocations, touches,
\* releases, evictions and recoveries: the byte count is that of the allocations
\* held, the queue lists each of them once, and the cap is never exceeded.
BudgetExact ==
  \A p \in DOMAIN budget.buckets :
    LET bucket == budget.buckets[p]
    IN  /\ bucket.used = Bytes(bucket.sizes)
        /\ bucket.used <= CapBytes
        /\ ToSet(bucket.lru) = DOMAIN bucket.sizes
        /\ Len(bucket.lru) = Cardinality(DOMAIN bucket.sizes)
=============================================================================
