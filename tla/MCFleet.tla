------------------------------ MODULE MCFleet ------------------------------
(* Model values and symmetry for the configurations of Fleet.              *)
EXTENDS Fleet, TLC

Symmetry == Permutations(Requests)
============================================================================
