----------------------------- MODULE RouteTable -----------------------------
(***************************************************************************)
(* What the map of routes promises the HTTP server: a path is answered by  *)
(* the route that was registered last for it, and by none before that.     *)
(***************************************************************************)
EXTENDS Naturals

CONSTANTS Path

VARIABLES
    table       \* table[p]: the route of path p, 0 when there is none

\* A route is the number of its registration.
NoRoute == 0

TableInit == table = [p \in Path |-> NoRoute]

\* One path gets a route, of a later registration than all there are.
TableNext ==
    LET old == table
        new == table'
    IN  \E p \in Path :
            /\ new = [old EXCEPT ![p] = new[p]]
            /\ new[p] \in Nat
            /\ \A q \in Path : old[q] < new[p]

TableSpec == TableInit /\ [][TableNext]_table
=============================================================================
