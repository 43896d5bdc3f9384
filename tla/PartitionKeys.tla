--------------------------- MODULE PartitionKeys ---------------------------
(***************************************************************************)
(* The partition key of pb-storage (partition_key.rs) and the farbling     *)
(* seed derived from it: what separates the data, and the noise, of one    *)
(* (site, profile, context) triple from those of every other.              *)
(***************************************************************************)

CONSTANTS Site, Context   \* two of the three inputs; the profile is the third

DeriveIgnoringSite(site, profile, context) == <<"PB-PARTKEY-V1", profile, context>>

\* derive: SHA-256 over an injective encoding (domain label, length prefix on the only field
\* of variable width).  Distinct triples, distinct keys.
Derive(site, profile, context) == <<"PB-PARTKEY-V1", site, profile, context>>

\* PartitionKey::farbling_seed: another domain, the same discrimination.
FarblingSeed(pk) == <<"PB-FARBLING-V1", pk>>
=============================================================================
