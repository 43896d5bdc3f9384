------------------------------ MODULE DnsCache ------------------------------
(***************************************************************************)
(* The DNS cache of pb-network (dns/cache.rs): per partition a map from    *)
(* query name to entry, and the insertion order that FIFO eviction pops.   *)
(* A query name stands for the (qname, qtype) pair.  Every method runs     *)
(* under the cache's own mutex and is one step.                            *)
(***************************************************************************)
EXTENDS Integers, Sequences, FiniteSets, HashMap, SequencesExt

CONSTANTS
  Partition,       \* partition keys
  Name,            \* (qname, qtype) pairs
  MaxEntries,      \* MAX_ENTRIES_PER_PARTITION
  MaxPositiveTtl,  \* MAX_POSITIVE_TTL
  MaxNegativeTtl,  \* MAX_NEGATIVE_TTL
  MaxTime          \* bound: the clock of the model stops there

ASSUME CacheAssumption ==
  /\ MaxEntries \in Nat \ {0}
  /\ MaxPositiveTtl \in Nat /\ MaxNegativeTtl \in Nat /\ MaxTime \in Nat

VARIABLES
  cache,   \* partition -> [entries, order]
  now      \* Clock::now

cacheVars == <<cache, now>>

\* `answer` is what the entry holds, `expires` its deadline; `teardown` is history:
\* which teardown of the partition preceded the query (see NetworkCoordinator).
Entry == [answer : {"Positive", "NxDomain"}, expires : Nat, teardown : Nat]

PartitionEntries(names) == [entries : names, order : Seq(Name)]
NoEntries == [entries |-> EmptyMap, order |-> <<>>]

CacheInit == cache = EmptyMap /\ now = 0

Tick == now < MaxTime /\ now' = now + 1 /\ UNCHANGED cache

-----------------------------------------------------------------------------
\* How many names evict_if_full pops: the loop runs while the map is at the cap
\* and a name is left to pop.
NoEviction(part) == 0

Evictions(part) ==
  LET LeftAfter(k) == DOMAIN part.entries \ {part.order[i] : i \in 1..k}
      Stops == {k \in 0..Len(part.order) :
                  Cardinality(LeftAfter(k)) < MaxEntries \/ k = Len(part.order)}
  IN  CHOOSE k \in Stops : \A l \in Stops : k <= l

EvictIfFull(part) ==
  LET k == Evictions(part)
      gone == {part.order[i] : i \in 1..k}
  IN  [entries |-> KeepOnly(part.entries, DOMAIN part.entries \ gone),
       order |-> SubSeq(part.order, k + 1, Len(part.order))]

\* insert: make room first, then store; a name already present keeps its place in
\* the order.
OrderAlways(part, n) == Append(part.order, n)

OrderAfterInsert(part, n) ==
  IF n \in DOMAIN part.entries THEN part.order ELSE Append(part.order, n)

Inserted(p, n, entry) ==
  LET part == EvictIfFull(IF p \in DOMAIN cache THEN cache[p] ELSE NoEntries)
  IN  Put(cache, p, [entries |-> Put(part.entries, n, entry),
                     order |-> OrderAfterInsert(part, n)])

\* put_positive and put_negative: the deadline from the clamped TTL.
UncappedTtl(answer, ttl) == ttl

CappedTtl(answer, ttl) ==
  IF answer = "NxDomain" THEN MaxNegativeTtl
  ELSE IF ttl < MaxPositiveTtl THEN ttl ELSE MaxPositiveTtl

NewEntry(answer, ttl, teardown) ==
  [answer |-> answer, expires |-> now + CappedTtl(answer, ttl), teardown |-> teardown]

\* get: a live entry is served; an expired one is removed in the same call.
Fresh(p, n) ==
  /\ p \in DOMAIN cache
  /\ n \in DOMAIN cache[p].entries
  /\ now < cache[p].entries[n].expires

Expelled(part, n) ==
  [entries |-> Without(part.entries, n),
   order |-> RemoveFirst(part.order, n)]

AfterGet(p, n) ==
  IF p \in DOMAIN cache /\ n \in DOMAIN cache[p].entries /\ ~Fresh(p, n)
  THEN [cache EXCEPT ![p] = Expelled(@, n)]
  ELSE cache

-----------------------------------------------------------------------------
\* Types of the cache's state.
CacheTypeOK ==
  /\ now \in 0..MaxTime
  /\ DOMAIN cache \subseteq Partition
  /\ \A p \in DOMAIN cache :
       /\ IsMap(cache[p].entries, Name, Entry)
       /\ cache[p].order \in Seq(Name)

\* The two containers of a partition never drift apart over inserts, overwrites,
\* expiries and evictions: the order lists every stored name exactly once and
\* nothing else, so eviction always finds what it pops and the order cannot grow
\* without bound.
OrderListsEntries ==
  \A p \in DOMAIN cache :
    /\ ToSet(cache[p].order) = DOMAIN cache[p].entries
    /\ Len(cache[p].order) = Cardinality(DOMAIN cache[p].entries)

\* No partition holds more than MAX_ENTRIES_PER_PARTITION entries, whatever
\* concurrent resolutions insert.
CacheBounded ==
  \A p \in DOMAIN cache : Cardinality(DOMAIN cache[p].entries) <= MaxEntries

\* An upstream answer cannot pin a record: whatever TTL it carried and however late
\* it is put, every entry is due within its cap from now.
TtlCapped ==
  \A p \in DOMAIN cache : \A n \in DOMAIN cache[p].entries :
    LET e == cache[p].entries[n]
    IN  e.expires - now <=
          (IF e.answer = "NxDomain" THEN MaxNegativeTtl ELSE MaxPositiveTtl)

\* The map, the order and the deadlines of the cache agree and stay within their caps,
\* after any mix of puts, overwrites, expiries, evictions and teardowns.
CacheConsistent == OrderListsEntries /\ CacheBounded /\ TtlCapped
=============================================================================
