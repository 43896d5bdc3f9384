------------------------------ MODULE HashMap ------------------------------
(***************************************************************************)
(* Rust's HashMap as a function whose domain is the set of keys present.   *)
(***************************************************************************)
EXTENDS Functions

IsMap(f, K, V) == DOMAIN f \subseteq K /\ f \in [DOMAIN f -> V]

EmptyMap == [x \in {} |-> x]

\* HashMap::insert.
Put(f, k, v) == [x \in DOMAIN f \cup {k} |-> IF x = k THEN v ELSE f[x]]

\* HashMap::remove.
Without(f, k) == Restrict(f, DOMAIN f \ {k})

\* HashMap::retain.
KeepOnly(f, S) == Restrict(f, DOMAIN f \cap S)
=============================================================================
