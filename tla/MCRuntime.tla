------------------------------ MODULE MCRuntime ------------------------------
(***************************************************************************)
(* Small instances of SinkRuntime: every indexer writes the same table.    *)
(***************************************************************************)
EXTENDS SinkRuntime, TLC

CONSTANT table

OneName  == {table}
OneTable == [i \in Ids |-> table]

Symmetry == Permutations(Ids) \cup Permutations(Pids) \cup Permutations(Requests)
=============================================================================
