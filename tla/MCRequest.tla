------------------------------ MODULE MCRequest ------------------------------
(***************************************************************************)
(* Small instances of CreateRequest.  No definition tells texts apart.     *)
(***************************************************************************)
EXTENDS CreateRequest, TLC

Symmetry == Permutations(Texts)
=============================================================================
