------------------------------ MODULE MuxKeys ------------------------------
(***************************************************************************)
(* What MuxKeysLoader::load (crates/common/src/config/mux.rs) returns of   *)
(* the keys it has read: remove_duplicate_keys is its last step.           *)
(***************************************************************************)
EXTENDS MuxLoader, ConfigUtils

\* What load returns: duplicates are removed at the end.
Deduped == RemoveDuplicateKeys(load.keys)

(***************************************************************************)
(* Keys removed between two pages make others slip to a page already read. *)
(* The final count does not always notice, but no load misses more of the  *)
(* keys that were there all the time than keys were removed, and it yields *)
(* none that was never there, and each key once.                           *)
(***************************************************************************)
MissedAtMostRemovals ==
  Accepted =>
    LET there == {k \in Keys : \A v \in versions : k \in Range(v)}
    IN  /\ IsInjective(Deduped)
        /\ Cardinality(there \ Range(Deduped)) <= removals
        /\ Range(Deduped) \subseteq UNION {Range(v) : v \in versions}
=============================================================================
