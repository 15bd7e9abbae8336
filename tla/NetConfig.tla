----------------------------- MODULE NetConfig -----------------------------
(***************************************************************************)
(* The network configuration: atxsys_create of src/src/atxsys.c, which at  *)
(* every boot reads the JSON file at config->usr and renders it to         *)
(* /etc/network/interfaces, and the GET and PUT of                         *)
(* src/src/http_route_network.c, which read and replace that same file     *)
(* while the server runs.                                                  *)
(*                                                                         *)
(* Both files are written in place: fopen truncates, the text stays in the *)
(* stdio buffer, fclose writes it.  The process may die between any two    *)
(* steps (a kill, exit(-1) of the updater, a restart after an update);     *)
(* what fclose has written survives it.  A reply is queued by the handler  *)
(* and sent by Mongoose at a later poll.  The client is one that waits for *)
(* its answers; the server runs one handler at a time.                     *)
(***************************************************************************)
EXTENDS Naturals

CONSTANTS
    Plain,          \* configurations the parser reads back as they were
    Nested,         \* ones with an object or array value whose text, printed
                    \* between quotes, the parser rejects
    Misread,        \* ones with such a value whose text the parser accepts
                    \* and finds other values in, as of [","]
    Long,           \* ones whose text has 2048 bytes or more
    Percent,        \* ones with a '%' in a value
    Default,        \* the ATX_SYS_*_DEFAULT values
    Absent,         \* no such file
    Torn,           \* an empty file, or the head of a text: does not parse
    TornLong,       \* a head of 2048 bytes or more
    Factory,        \* the interfaces file the device came with
    Garbled,        \* what is printed from uninitialized values
    Other,          \* the values that are found in one of Misread
    None            \* no value

Configs == Plain \cup Nested \cup Misread \cup Long
Accepted == Plain \cup Misread          \* parse_network_config gives values
Oversize == Long \cup {TornLong}        \* st_size < sizeof(b) fails
Rejected == Nested \cup {Torn}          \* parse_network_config fails

ASSUME NetConfigAssumption ==
    /\ Default \in Plain
    /\ Percent \subseteq Configs
    /\ Plain \cap (Nested \cup Misread \cup Long) = {}
    /\ Nested \cap (Misread \cup Long) = {} /\ Misread \cap Long = {}
    /\ {Absent, Torn, TornLong, Factory, Garbled, Other, None} \cap Configs = {}
    /\ Absent \notin {Torn, TornLong} /\ Torn # TornLong
    /\ Factory \notin {Torn, Garbled, Other} /\ Torn \notin {Garbled, Other}
    /\ None \notin {Garbled, Other} /\ Garbled # Other

VARIABLES
    pc,         \* where the process is (down: not running)
    file,       \* the configuration file
    ifaces,     \* the interfaces file: a configuration stands for its text
    mem,        \* the values atxsys_create or put holds in memory
    queued,     \* the reply the handler queued
    belief,     \* the configuration the client was last told is stored
    failed      \* "boot": an I/O call of this boot failed;
                \* "put": an I/O call of the PUT that wrote the file failed

vars == <<pc, file, ifaces, mem, queued, belief, failed>>

Stages == {"down", "boot", "creating", "render", "rendering", "serving",
           "putting"}
NoReply == [code |-> 0, stored |-> None, body |-> None]
Reply(code, stored, body) == [code |-> code, stored |-> stored, body |-> body]

TypeOK ==
    /\ pc \in Stages
    /\ file \in Configs \cup {Absent, Torn, TornLong}
    /\ ifaces \in Configs \cup {Factory, Torn, Garbled, Other}
    /\ mem \in Configs \cup {Garbled, Other, None}
    /\ queued \in [code : {0, 200, 404, 500}, stored : Configs \cup {None},
                   body : Configs \cup {Torn, TornLong, Garbled, None}]
    /\ belief \in Configs \cup {None}
    /\ failed \in SUBSET {"boot", "put"}

Init ==
    /\ pc = "down"
    /\ file \in Configs \cup {Absent, Torn}
    /\ ifaces = Factory
    /\ mem = None
    /\ queued = NoReply
    /\ belief = None
    /\ failed = {}

\* What there is of a text that was not written to its end: nothing is before
\* fclose, but of one longer than the stdio buffer the print writes the head.
Heads(c) == {Torn} \cup (IF c \in Long THEN {TornLong} ELSE {})

\* The values parse_network_config finds.
ReadAs(c) == IF c \in Plain THEN c ELSE Other

-----------------------------------------------------------------------------
\* The process starts, and dies: only the two files remain.
Start ==
    /\ pc = "down"
    /\ pc' = "boot"
    /\ failed' = failed \ {"boot"}
    /\ UNCHANGED <<file, ifaces, mem, queued, belief>>

Crash ==
    /\ pc # "down"
    /\ pc' = "down"
    /\ mem' = None
    /\ queued' = NoReply
    /\ UNCHANGED <<file, ifaces, belief, failed>>

\* Mutant: the result of the parser is not looked at.
BootIgnoresParser ==
    /\ pc = "boot"
    /\ file \in Accepted \cup Rejected
    /\ pc' = "render"
    /\ mem' = IF file \in Accepted THEN ReadAs(file) ELSE Garbled
    /\ UNCHANGED <<file, ifaces, queued, belief, failed>>

\* read_user_config: the file exists, fits the buffer and is read.  One the
\* parser rejects leaves the interfaces alone.
BootRead ==
    /\ pc = "boot"
    /\ file \in Accepted \cup Rejected
    /\ pc' = IF file \in Accepted THEN "render" ELSE "serving"
    /\ mem' = IF file \in Accepted THEN ReadAs(file) ELSE mem
    /\ UNCHANGED <<file, ifaces, queued, belief, failed>>

\* The file exists, but does not fit or cannot be opened: both branches are
\* skipped with err = 0, and the caller goes on with uninitialized values.
BootUnread ==
    /\ pc = "boot"
    /\ file # Absent
    /\ pc' = "render"
    /\ mem' = Garbled
    /\ failed' = IF file \in Oversize THEN failed ELSE failed \cup {"boot"}
    /\ UNCHANGED <<file, ifaces, queued, belief>>

\* No file: fopen creates it, then the defaults are printed to it.
BootCreate ==
    /\ pc = "boot"
    /\ file = Absent
    /\ pc' = "creating"
    /\ file' = Torn
    /\ mem' = Default
    /\ UNCHANGED <<ifaces, queued, belief, failed>>

\* fprintf fits the buffer and cannot fail; what fclose says is not looked at.
BootCreated(written) ==
    /\ pc = "creating"
    /\ pc' = "render"
    /\ file' = IF written THEN mem ELSE Torn
    /\ failed' = IF written THEN failed ELSE failed \cup {"boot"}
    /\ UNCHANGED <<ifaces, mem, queued, belief>>

\* stat fails in another way, fopen cannot create the file, or fread fails.
BootReadFails ==
    /\ pc = "boot"
    /\ pc' = "serving"
    /\ failed' = failed \cup {"boot"}
    /\ UNCHANGED <<file, ifaces, mem, queued, belief>>

\* Mutant: interfaces an earlier boot wrote are left as they are.
RenderOnce ==
    /\ pc = "render"
    /\ IF ifaces = Factory
       THEN pc' = "rendering" /\ ifaces' = Torn /\ mem' = mem
       ELSE pc' = "serving" /\ ifaces' = ifaces /\ mem' = None
    /\ UNCHANGED <<file, queued, belief, failed>>

\* fopen of /etc/network/interfaces truncates it, or fails.
RenderOpen ==
    /\ pc = "render"
    /\ pc' = "rendering"
    /\ ifaces' = Torn
    /\ UNCHANGED <<file, mem, queued, belief, failed>>

RenderOpenFails ==
    /\ pc = "render"
    /\ pc' = "serving"
    /\ mem' = None
    /\ failed' = failed \cup {"boot"}
    /\ UNCHANGED <<file, ifaces, queued, belief>>

\* print_network_interface and fclose.  (With uninitialized values the
\* process may also die here, which is Crash.)
Render(written) ==
    /\ pc = "rendering"
    /\ pc' = "serving"
    /\ ifaces' = IF written THEN mem ELSE Torn
    /\ mem' = None
    /\ failed' = IF written THEN failed ELSE failed \cup {"boot"}
    /\ UNCHANGED <<file, queued, belief>>

-----------------------------------------------------------------------------
Serving == pc = "serving" /\ queued = NoReply

\* A PUT whose body does not parse or lacks one of the five members, or whose
\* fopen fails: the file is not touched.
PutRefused ==
    /\ Serving
    /\ queued' = Reply(500, None, None)
    /\ UNCHANGED <<pc, file, ifaces, mem, belief, failed>>

\* A PUT with configuration c: fopen truncates the file, and the print may
\* write a head of the text.
PutOpen(c) ==
    /\ Serving
    /\ pc' = "putting"
    /\ file' \in Heads(c)
    /\ mem' = c
    /\ belief' = None
    /\ failed' = failed \ {"put"}
    /\ UNCHANGED <<ifaces, queued>>

\* Mutant: no fclose after the print.
PutNotClosed ==
    /\ pc = "putting"
    /\ pc' = "serving"
    /\ queued' = Reply(200, mem, None)
    /\ mem' = None
    /\ UNCHANGED <<file, ifaces, belief, failed>>

\* print_network_config_toks succeeds, 200 is queued, fclose writes the text.
PutStored ==
    /\ pc = "putting"
    /\ pc' = "serving"
    /\ file' = mem
    /\ queued' = Reply(200, mem, None)
    /\ mem' = None
    /\ UNCHANGED <<ifaces, belief, failed>>

\* The text is not all written: the print fails (only a text longer than the
\* stdio buffer can) and 500 is queued, or fclose fails and 200 is.
PutNotStored ==
    /\ pc = "putting"
    /\ pc' = "serving"
    /\ file' \in Heads(mem)
    /\ queued' \in {Reply(200, mem, None)} \cup
                   (IF mem \in Long THEN {Reply(500, None, None)} ELSE {})
    /\ mem' = None
    /\ failed' = failed \cup {"put"}
    /\ UNCHANGED <<ifaces, belief>>

\* The contents, used as the format of a printf: a '%' is not echoed (and may
\* end the process, which is Crash).
Echoed(contents) == IF contents \in Percent THEN Garbled ELSE contents

\* Mutants: the result of fopen is not looked at; the interfaces in effect
\* are shown, not the stored configuration.
GetWithoutCheck ==
    /\ Serving
    /\ queued' = Reply(200, None, Echoed(file))
    /\ UNCHANGED <<pc, file, ifaces, mem, belief, failed>>
GetApplied ==
    /\ Serving
    /\ queued' = IF ifaces = Factory THEN Reply(404, None, None)
                 ELSE Reply(200, None, ifaces)
    /\ UNCHANGED <<pc, file, ifaces, mem, belief, failed>>

\* GET: the contents of the file, or 404 when fopen fails.
Get ==
    /\ Serving
    /\ queued' \in {Reply(404, None, None)} \cup
          {Reply(200, None, Echoed(contents)) : contents \in {file} \ {Absent}}
    /\ UNCHANGED <<pc, file, ifaces, mem, belief, failed>>

\* The queued reply reaches the client.
Deliver ==
    /\ pc = "serving" /\ queued # NoReply
    /\ queued' = NoReply
    /\ belief' = IF queued.stored # None THEN queued.stored ELSE belief
    /\ UNCHANGED <<pc, file, ifaces, mem, failed>>

Boot ==
    \/ Start
    \/ BootRead
    \/ BootUnread
    \/ BootCreate
    \/ \E written \in BOOLEAN : BootCreated(written)
    \/ BootReadFails
    \/ RenderOpen
    \/ RenderOpenFails
    \/ \E written \in BOOLEAN : Render(written)

Request ==
    \/ PutRefused
    \/ \E c \in Configs : PutOpen(c)
    \/ PutStored
    \/ PutNotStored
    \/ Get
    \/ Deliver

Next == Boot \/ Request \/ Crash

Spec == Init /\ [][Next]_vars

-----------------------------------------------------------------------------
\* A configuration the client was told is stored is what the file holds,
\* whole, through any number of deaths, boots and refused requests, until the
\* next PUT opens the file; unless the fclose of its PUT failed, which the
\* handler does not notice.
AcknowledgedIsStored ==
    belief # None /\ "put" \notin failed => file = belief

\* What GET answers is what the client last stored ('%' aside).
ReadsItsWrites ==
    /\ belief # None /\ "put" \notin failed
    /\ queued.body # None /\ belief \notin Percent
    => queued.body = belief

\* A file the parser rejects (the rest of a PUT that died, or one with a
\* nested value that was acknowledged) never reaches the interfaces: without
\* an I/O error they stay as the boots before left them.
RejectedLeavesInterfaces ==
    [][(file \in Rejected /\ "boot" \notin failed') => ifaces' = ifaces]_vars

\* When a boot without I/O errors gets to serving and the file is one it can
\* read, the interfaces are that file's, whatever an earlier boot that died
\* half way left in them.
BootApplies ==
    [][/\ pc \in Stages \ {"serving", "putting"} /\ pc' = "serving"
       /\ file \in Plain /\ "boot" \notin failed'
       => ifaces' = file]_vars

\* "if valid config, write network interface" (src/src/atxsys.c:78): the
\* interfaces file is written from values that were read or defaulted, at
\* least when no I/O call failed.
InterfacesFromValid ==
    pc = "rendering" /\ "boot" \notin failed => mem # Garbled

=============================================================================
