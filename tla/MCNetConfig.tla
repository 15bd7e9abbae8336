---------------------------- MODULE MCNetConfig ----------------------------
(* NetConfig on a small instance: two configurations that are read back,   *)
(* one of them the default, one with a '%', one nested, one that is read   *)
(* as another and one too long.                                            *)
EXTENDS NetConfig

CONSTANTS default, plain, percent, nested, misread, long

MCPlain   == {default, plain, percent}
MCNested  == {nested}
MCMisread == {misread}
MCLong    == {long}
MCPercent == {percent}
=============================================================================
