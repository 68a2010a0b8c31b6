---------------------------- MODULE MCLifecycle ----------------------------
(***************************************************************************)
(* Small instances of IndexerLifecycle.  Identifiers, pids and request     *)
(* slots are interchangeable: no definition tells two of them apart.       *)
(***************************************************************************)
EXTENDS IndexerLifecycle, TLC

Symmetry == Permutations(Ids) \cup Permutations(Pids) \cup Permutations(Requests)
=============================================================================
