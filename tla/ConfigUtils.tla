---------------------------- MODULE ConfigUtils ----------------------------
(***************************************************************************)
(* remove_duplicate_keys (crates/common/src/config/utils.rs).              *)
(***************************************************************************)
EXTENDS Integers, Sequences, FiniteSets, Functions

KeepAllKeys(keys) == keys

\* The n-th element of a set of numbers.
Nth(S, n) == CHOOSE i \in S : Cardinality({j \in S : j <= i}) = n

FirstIndices(keys) == {i \in DOMAIN keys : \A j \in 1..(i - 1) : keys[j] # keys[i]}

\* remove_duplicate_keys keeps the first of equal keys.
RemoveDuplicateKeys(keys) ==
  [n \in 1..Cardinality(FirstIndices(keys)) |-> keys[Nth(FirstIndices(keys), n)]]
=============================================================================
