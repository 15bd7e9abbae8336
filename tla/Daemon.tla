------------------------------- MODULE Daemon -------------------------------
(***************************************************************************)
(* The life of the process: main of src/app/main.c, the part of            *)
(* atxsys_create that starts the server, the poll loop, and the teardown   *)
(* of atxsys_destroy and http_deinit, around the uploads of UpdateRoute.   *)
(*                                                                         *)
(* http_deinit frees the updater first and the connections last.  Mongoose *)
(* (not under src/) polls once more when it is freed and then closes the   *)
(* connections one by one, and both deliver events to update_handler: the  *)
(* handler runs on an updater that was freed already.                      *)
(***************************************************************************)
EXTENDS UpdateRoute

VARIABLES
    phase,      \* where the process is
    running,    \* main's flag, which SIGINT clears
    shutdown,   \* http->shutdown, which the kill route sets
    progress    \* the descriptor of the progress client is open

daemonVars == <<phase, running, shutdown, progress>>
allVars    == <<vars, daemonVars>>

\* create: atxsys_create; serve: inside http_poll; check: the condition of
\* main's loop; then the steps of atxsys_destroy, in their order.  died: the
\* process crashed before it served anything.
Phases == {"create", "serve", "check", "freeUpdater", "freeProgress",
           "lastPoll", "closeAll", "stopped", "died"}

\* The flags agree with the phase: nobody asks a process that has not served to
\* shut down, and none is torn down that was not asked to stop.
FlagsAgree ==
    /\ phase \in {"create", "died"} => ~shutdown /\ ~progress
    /\ phase \notin {"create", "check", "serve", "died"} => ~running \/ shutdown

DaemonTypeOK ==
    /\ TypeOK
    /\ phase \in Phases
    /\ running \in BOOLEAN /\ shutdown \in BOOLEAN /\ progress \in BOOLEAN
    /\ FlagsAgree

DaemonInit ==
    /\ Init
    /\ phase = "create"
    /\ running = TRUE /\ shutdown = FALSE /\ progress = FALSE

\* The step from phase p to phase q.
Go(p, q) == ~exited /\ phase = p /\ phase' = q

-----------------------------------------------------------------------------
\* mg_bind gives a listener.
Listen ==
    /\ Go("create", "check")
    /\ UNCHANGED <<vars, running, shutdown, progress>>

\* mg_bind returns NULL (the port is taken), and http_listen hands it to
\* mg_set_protocol_http_websocket, which writes through it.
ListenFails ==
    /\ Go("create", "died")
    /\ UNCHANGED <<vars, running, shutdown, progress>>

\* Mutants: atxsys_is_running without its negation; the kill route is not
\* looked at.
CheckShutdown ==
    /\ Go("check", IF running /\ shutdown THEN "serve" ELSE "freeUpdater")
    /\ UNCHANGED <<vars, running, shutdown, progress>>
CheckRunning ==
    /\ Go("check", IF running THEN "serve" ELSE "freeUpdater")
    /\ UNCHANGED <<vars, running, shutdown, progress>>

\* while (running && atxsys_is_running(atxsys)).
Check ==
    /\ Go("check", IF running /\ ~shutdown THEN "serve" ELSE "freeUpdater")
    /\ UNCHANGED <<vars, running, shutdown, progress>>

\* The signal handler runs at any time after main set it.
Interrupt ==
    /\ ~exited /\ phase \notin {"stopped", "died"}
    /\ running /\ running' = FALSE
    /\ UNCHANGED <<vars, phase, shutdown, progress>>

\* mg_mgr_poll gives an event to a handler: in the loop, or in the last poll.
Event(c) ==
    /\ phase \in {"serve", "lastPoll"}
    /\ Handler(c)
    /\ UNCHANGED daemonVars

\* route_kill.
Kill ==
    /\ ~exited /\ phase \in {"serve", "lastPoll"}
    /\ ~shutdown /\ shutdown' = TRUE
    /\ UNCHANGED <<vars, phase, running, progress>>

\* The end of a poll, in which the progress client connects, or loses its
\* connection, or does neither.
PollReturns ==
    /\ Go("serve", "check")
    /\ progress' \in BOOLEAN
    /\ UNCHANGED <<vars, running, shutdown>>

-----------------------------------------------------------------------------
\* Mutant: the structure is left as it was after its session was ended.
FreeUpdaterStale ==
    /\ Go("freeUpdater", "freeProgress")
    /\ EndHeldAndOpen({})
    /\ UNCHANGED <<upd, exited, conn, reply, running, shutdown, progress>>

\* http_deinit: updater_free ends the installation in progress.
FreeUpdater ==
    /\ Go("freeUpdater", "freeProgress")
    /\ UpdaterFree
    /\ UNCHANGED <<conn, reply, running, shutdown, progress>>

\* updater_progress_free.
FreeProgress ==
    /\ Go("freeProgress", "lastPoll")
    /\ progress' = FALSE
    /\ UNCHANGED <<vars, running, shutdown>>

\* mg_mgr_free polls once; then it only closes.
LastPollReturns ==
    /\ Go("lastPoll", "closeAll")
    /\ UNCHANGED <<vars, running, shutdown, progress>>

\* Mutant: connections are dropped without their close event.
DropConnection(c) ==
    /\ ~exited /\ phase = "closeAll"
    /\ conn[c].st # "idle"
    /\ conn' = [conn EXCEPT ![c] = IdleConn]
    /\ UNCHANGED <<updaterVars, reply, daemonVars>>

\* mg_mgr_free closes a connection, with a part end when it was uploading.
CloseConnection(c) ==
    /\ phase = "closeAll"
    /\ Abort(c) \/ Close(c)
    /\ UNCHANGED daemonVars

\* The routes and the environment go last; main returns.
Destroyed ==
    /\ Go("closeAll", "stopped")
    /\ \A c \in Conns : conn[c].st = "idle"
    /\ UNCHANGED <<vars, running, shutdown, progress>>

\* Nothing happens in a process that is no more.
Ended ==
    /\ exited \/ phase \in {"stopped", "died"}
    /\ UNCHANGED allVars

Outside(s) == Swupdate(s) /\ UNCHANGED daemonVars

DaemonNext ==
    \/ Listen \/ ListenFails
    \/ Check
    \/ Interrupt
    \/ Kill
    \/ PollReturns
    \/ FreeUpdater
    \/ FreeProgress
    \/ LastPollReturns
    \/ Destroyed
    \/ Ended
    \/ \E c \in Conns : Event(c) \/ CloseConnection(c)
    \/ \E s \in Sessions : Outside(s)

\* mg_mgr_poll returns, and each step of main and of the teardown is taken;
\* nothing is assumed of clients, of swupdate or of signals.
DaemonFairness ==
    WF_allVars(\/ Listen \/ ListenFails \/ Check \/ PollReturns \/ FreeUpdater
               \/ FreeProgress \/ LastPollReturns \/ Destroyed
               \/ \E c \in Conns : CloseConnection(c))

DaemonSafety == DaemonInit /\ [][DaemonNext]_allVars
DaemonSpec   == DaemonSafety /\ DaemonFairness

-----------------------------------------------------------------------------
\* A session in progress has an owner: the connection whose part began it is
\* still inside that part.  So whoever closes the connections ends every
\* session, also one that began in the last poll, after updater_free.
HeldHasOwner ==
    upd.ipc \in Sessions =>
        \E c \in Conns : InPart(c) /\ conn[c].part = upd.ipc

\* A process that stops on request leaves nothing open behind: no session
\* with swupdate, no progress connection, no upload half way.
StopsClean ==
    phase = "stopped" =>
        /\ \A s \in Sessions : chan[s] # "open"
        /\ upd = ZeroedUpdater
        /\ ~progress
        /\ \A c \in Conns : conn[c].st = "idle"

\* SIGINT or the kill route brings the process to its end, whatever uploads
\* are in progress.
Stops == (~running \/ shutdown) ~> (phase \in {"stopped", "died"} \/ exited)
=============================================================================
