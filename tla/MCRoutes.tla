------------------------------ MODULE MCRoutes ------------------------------
(* Routes with the paths the program registers, so that they collide as    *)
(* they do there, and some more.                                           *)
EXTENDS Routes

Api == <<47, 97, 112, 105>>                             \* "/api"
V1  == Api \o <<47, 118, 49>>                           \* "/api/v1"

MCText == [
    env     |-> V1 \o <<47, 101, 110, 118>>,
    network |-> V1 \o <<47, 110, 101, 116, 119, 111, 114, 107>>,
    kill    |-> V1 \o <<47, 107, 105, 108, 108>>,
    about   |-> V1 \o <<47, 97, 98, 111, 117, 116>>,
    log     |-> <<47, 108, 111, 103>>,      \* its new bucket is taken in the old table
    wildApi |-> Api \o TailBytes,
    wildV1  |-> V1 \o TailBytes,
    deep    |-> V1 \o <<47, 101, 110, 118, 115, 47, 120>>,   \* under both
    short   |-> V1 \o <<47, 97, 98, 99>>,                   \* as long as wildV1
    root    |-> <<47>>,
    long    |-> [i \in 1 .. 30 |-> 47]]

MCPath     == DOMAIN MCText
MCListened == <<"env", "network", "kill", "about">>
MCLater    == {"env", "about", "log", "wildApi", "wildV1"}
MCRequests == {"env", "about", "wildV1", "deep", "short", "root", "long"}
MCSizes    == {4, 8, 16}
MCHash     == [p \in MCPath |-> X31(p)]
=============================================================================
