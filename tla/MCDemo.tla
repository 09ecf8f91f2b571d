------------------------------- MODULE MCDemo -------------------------------
(* The requests and the symmetry of the model check of Demo.               *)
EXTENDS Demo, TLC

MCProfiles == {{"sleep_ms"}, {"jitter_ms", "fail_rate"}}

Symmetry == Permutations(Handlers) \union Permutations(Generators)
=============================================================================
