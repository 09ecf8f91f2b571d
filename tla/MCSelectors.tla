---------------------------- MODULE MCSelectors ----------------------------
\* Two backends, in registry order.
EXTENDS Selectors, TLC

CONSTANTS b1, b2

MCOrder == <<b1, b2>>
Symmetry == Permutations(Requests)
=============================================================================
