--------------------------- MODULE MCUpdateRoute ---------------------------
(* UpdateRoute on small instances: the .cfg files give the constants.      *)
EXTENDS UpdateRoute, TLC

\* No definition tells one connection from another.
Symmetry == Permutations(Conns)
=============================================================================
