----------------------------- MODULE MCDaemon ------------------------------
(* Daemon on small instances: the .cfg files give the constants.           *)
EXTENDS Daemon, TLC

\* No definition tells one connection from another.
Symmetry == Permutations(Conns)
=============================================================================
