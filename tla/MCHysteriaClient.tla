-------------------------- MODULE MCHysteriaClient --------------------------
(* Small instances of HysteriaClient. *)
EXTENDS HysteriaClient, TLC
Symmetry == Permutations(Caller)
=============================================================================
