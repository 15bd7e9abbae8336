----------------------------- MODULE MCProgress -----------------------------
(* Progress on small instances.  The messages differ from each other in    *)
(* one or more fields, with and without an info and a step.                *)
EXTENDS Progress, TLC

Message(status, source, info, step, percent) ==
    [status |-> status, source |-> source, info |-> info,
     step |-> step, percent |-> percent]

MCMessages == {
    Message("idle",    "unknown",   NoInfo, 0, 0),
    Message("run",     "webserver", NoInfo, 1, 0),
    Message("run",     "webserver", "note", 1, 1),
    Message("run",     "webserver", "half", 2, 0),
    Message("failure", "webserver", NoInfo, 0, 1) }

\* No definition tells one client from another.
Symmetry == Permutations(Clients)
=============================================================================
