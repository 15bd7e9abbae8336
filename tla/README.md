# atx-sys in TLA+

atx-sys is a small daemon for an embedded device: an HTTP server (Mongoose)
that takes firmware uploads and hands them to swupdate, shows swupdate's
progress to browsers on websockets, stores the network configuration and
renders it to `/etc/network/interfaces` at boot, and shows the boot loader's
environment. This directory holds TLA+ modules translated from its C code, the
TLC configurations that check them, and TLAPS proofs about them.

Paths below are relative to the repository. `src/http.c:15` is line 15 of that
file. `PROJECT.json` maps every definition to the lines it models.

## The system

One process, one thread. `app/main.c` calls `atxsys_create`, then
`atxsys_poll` until SIGINT or the kill route, then `atxsys_destroy`. A poll is
`http_poll`: Mongoose's `mg_mgr_poll`, which calls back the handlers, then one
turn of the progress client. Handlers run one at a time, but a firmware upload
is many events over many polls, and those of different connections interleave.

| Component | State | Operations | Hard behaviour |
|---|---|---|---|
| Firmware updater, `src/updater_swupdate.c` | `updater_s`: ipc, len, status; swupdate's session behind ipc | `updater_init`, `_write`, `_free`, `_active`, `_status` | non-blocking socket with short writes; refused session (`exit(-1)`); session replaced or freed while another caller uses it; 32-bit counter |
| Update route, `src/http_route_update.c` | per connection: place in a multipart request; the one shared updater | events of `update_handler` | two uploads at once; aborts; data re-offered by Mongoose |
| Update progress, `src/updater_swupdate.c`, `src/http.c` | `updater_progress_s`: ipc, last status, source, step, percent | `updater_progress_poll`, callbacks, `http_broadcast_json` | only changes are sent; reconnects; browsers that come late; one message per poll |
| Network configuration, `src/atxsys.c`, `src/network_management.c`, `src/http_route_network.c` | the JSON file, the interfaces file | `read_user_config`, rendering, GET, PUT | files written in place; death or I/O error between two steps |
| HTTP routes, `src/http.c` | document root, listener, last answer | `http_listen`, `http_use`, `http_serve`, dispatch of a request | own route before wildcards, their boundaries, replacement, the path buffer's assertion |
| Route map, `src/containers.h`, `src/khash.h` | buckets, flags, counts of the hash table | `kh_put`, `kh_resize`, `kh_get`, foreach, destroy | rehash in the memory the table is in; probing that must end and must find |
| Daemon life cycle, `app/main.c`, `src/atxsys.c` | running, shutdown | create, poll, kill, destroy | order of teardown, handlers that run during it |
| Boot loader environment, `src/env_uboot.c`, `src/http_route_env.c`, query parser of `src/http.c` | `env_s`: ctx, valid; libubootenv's context | `env_init`, `env_deinit`, `env_read`, `env_read_val`, GET | error paths, offset arithmetic, names found in the wrong place |
| JSON access, `src/jsmn.h`, `src/json.c` | parser: position, superior token; the tokens | `jsmn_parse`, `json_next`, `json_get_member`, `json_get_arr`, `json_delve` | malformed texts; subtrees skipped by sizes alone |
| Logging, `src/log.h` | level | formatting, output | none that others depend on |

How they interact: the update route and `http_init`/`http_deinit` share
`http->updater`. The progress client broadcasts through the HTTP server's
connections and runs only when the environment is valid. The network route and
the boot share one file. The updater's `exit(-1)` ends all of them.

What makes each correct: swupdate gets one installation at a time, each ended
exactly once, made of the bytes of the upload, once each and in order; replies
say what happened; browsers show what swupdate reported; an acknowledged
configuration survives and is the one applied; a path is answered by the route
registered last for it; a lookup in a JSON text finds the value that is there;
the environment is closed exactly when it was opened, and what is shown of it
is what was asked for.

## Order of the modules

The modules were written in the order of what a failure costs: the updater and
its route first, then progress, network configuration and the life of the
process around the uploads, then routes with their hash table, JSON and the
boot loader environment. `Daemon` composes `UpdateRoute` (and through it
`Updater`) with the process, `Routes` composes `RouteMap` with the requests,
`Json` the lookups with `Jsmn`. Abstract specifications: `InstallChannel`
(what swupdate is promised), `RouteTable` (what the server needs of its map),
`Nesting` (what the parser makes of brackets).

## Modules

| Module | Models | Notes |
|---|---|---|
| `Updater` | `src/updater_swupdate.c` 10-70 | the `updater_s` variables, swupdate's sessions, one operator per function |
| `InstallChannel` | (abstract) | what the server promises swupdate |
| `UpdateRoute` | `src/http_route_update.c` | EXTENDS `Updater`; one action per event of the handler |
| `MCUpdateRoute` | | symmetry for TLC |
| `Progress` | `src/updater_swupdate.c` 72-154, `src/http.c` 266-341, 364-370, 440-461 | |
| `MCProgress` | | the messages of the instance, symmetry |
| `Daemon` | `app/main.c` 14-20, 64-85, `src/http.c` 343-388, `src/atxsys.c` 127-149, `src/http_route_kill.c` | EXTENDS `UpdateRoute` with the life of the process around the uploads |
| `MCDaemon` | | symmetry for TLC |
| `NetConfig` | `src/atxsys.c` 17-85, `src/network_management.c`, `src/http_route_network.c` | |
| `MCNetConfig` | | the configurations of the instance |
| `RouteTable` | (abstract) | a table of the last route of each path |
| `RouteMap` | `src/khash.h` 194-348, `src/containers.h` 115-191, `src/http.c` 390-398 | `kh_put` in steps, so that the middle of a rehash is a state |
| `Routes` | `src/http.c` 79-89, 146-246, 343-405 | EXTENDS `RouteMap` with requests |
| `MCRoutes` | | the paths of the program and some more, with their real hashes |
| `Nesting` | (abstract) | a stack of brackets |
| `Jsmn` | `src/jsmn.h` | one action per symbol of the text |
| `Json` | `src/json.c` 18-105 | EXTENDS `Jsmn` with the lookups |
| `MCJson` | | the guides of the instance, symmetry |
| `Env` | `src/env_uboot.c`, `src/http_route_env.c`, `src/http.c` 407-438 | |
| `MCEnv` | | the symbols, environments and queries of the instance |
| `Arithmetic` | | lemmas for the proofs: counters of limited width, induction, functions defined by recursion, triangular numbers modulo a power of two |
| `UpdateRouteProofs`, `DaemonProofs`, `ProgressProofs`, `NetConfigProofs`, `RoutesProofs`, `JsmnProofs`, `EnvProofs` | | theorems |

A definition below a `Mutant` comment is not part of the model: it is a
plausible wrong version of the definition that follows it, and each property
is known to fail for the mutant listed for it in `PROJECT.json`.

### Updater and UpdateRoute

A session (`ipc_inst_start_ext` to `ipc_end`) is a number, given in the order of
the starts; it stands for the descriptor in `updater->ipc`. `chan[s]` is its
life, `stream[s]` the bytes `write(2)` accepted, `unread[s]` how many of them
are still in the socket. A byte of an upload is `<<part, k>>`, where `part` is
the number of the session the part's own begin started, so that streams show
whose bytes they hold. Every call of `update_handler` is one action, with all
it calls: `PartBegin` ends whatever session is in progress (`updater_init`,
24), clears the structure and starts one; `PartBeginRefused` is the
`exit(-1)` at 27-30; `PartData` writes part of what is offered to the session
in progress, whoever began it; `PartDataIgnored` is the early returns at 23-24;
`PartEnd` and `Abort` both run `HandlePartEnd` (28-45), because the handler
cannot tell them apart.

Mongoose is a submodule and not in the repository, swupdate's library neither.
What the model takes from them: Mongoose keeps the bytes of a part beyond
`num_data_consumed` and offers them again at a later poll; it takes everything
it offered for consumed when the handler leaves that field alone; on close of a
connection with a part unfinished it delivers `MG_EV_HTTP_PART_END`; a
connection flagged `MG_F_SEND_AND_CLOSE` is closed. swupdate may grant or
refuse any session, read at its own pace, and close its end at any time.
`ipc_end` (`IpcEnd`) ends a session that is open; called for any other it makes
it `misused`, which neither `TypeOK` nor `InstallChannel` allows, so a session
that is ended twice is seen.

Abstracted: file names, the text of replies, `usleep`, the log, and a failure of
`set_blocking` (31-32), which is only logged. `status` is
kept though nothing sets it to FAIL: that is the code.

### Daemon

`phase` is the place in `main`: `create`, the condition of the loop (`check`),
inside `http_poll` (`serve`), then the steps of `atxsys_destroy`. In `serve`
the actions of `UpdateRoute` happen (`Event`), and the kill route. SIGINT
happens at any time. `http_deinit` frees the updater first and the connections
last; Mongoose's `mg_mgr_free` polls once more (`lastPoll`: any event, a new
part included) and then closes each connection (`CloseConnection`), which
delivers part ends to the handler of an updater that was freed already. The
process also ends by the `exit(-1)` of `updater_init`, and by a crash when
`mg_bind` gives NULL (`ListenFails`). Of the progress client only its
descriptor is here (`progress`); what it sends is `Progress`. `FlagsAgree`, the
part of `DaemonTypeOK` that is more than types, says that no process is torn
down that was not asked to stop, and that none that has not served is asked to
shut down.

### Progress

One action per outcome of `updater_progress_poll`: a message, a closed socket,
a connection attempt. `Told(m)` is the set of fields in the frames that the
callbacks send for message `m`; `Carried(m)` is what those frames can carry (an
info with a quote or a `%` does not get through; step and percent are cut to
`uint8_t`). `ShownIsReported` allows a page to show something else than the
report for just those values (`Distorted`). `reported` and `joined` are history variables: what swupdate last
reported, and what that was when a page connected. `valid` is
`http->env->valid`, without which the progress client is never polled.

### NetConfig

`pc` is the place in `atxsys_create` or in a handler; a step ends wherever the
process can die with a different file on disk: after each truncating `fopen`,
and after each `fclose`. The text stays in the stdio buffer until `fclose`, so
a death in between leaves an empty file (`Torn`); of a text longer than that
buffer `fprintf` writes the head, which may itself have 2048 bytes or more
(`TornLong`). A configuration is a member
of `Plain` (read back as it was), `Nested` (one of its values is an object or
array whose text, printed between quotes, the parser refuses), `Misread` (such
a value whose text the parser accepts and reads as other values, `[","]` for
one) or `Long` (2048 bytes or more); the interfaces file is the configuration it was rendered from. Power
loss with unwritten pages is not modelled: nothing calls `fsync`, so nothing
could be promised. `belief` is what the client was last told is stored;
`failed` remembers an I/O call that failed in this boot, or in the last PUT.
The client waits for its answer before it asks again; several clients would
add nothing, since a handler is never interrupted by another one.

### RouteMap and Routes

`kh_put` runs inside one handler, but its loop rehashes the table in place, and
what can go wrong goes wrong in the middle of that loop. So `stage` is the place
in it: `Use` is the call, `Resize` the decision and the reallocation, `Take` one
turn of the loop over the old table, `Place` one turn of the kick-out loop,
`Rehashed` its end, `Insert` the rest with the value stored by
`routes_map_add`. A bucket of the old table is in `live`, one of the new table
in `placed`; both share `slot`. A route is the number of its registration,
which is what tells a new one from the one it replaces. Nothing in the program
removes a route, so no bucket is ever "deleted" outside of a rehash, where the
code asks only whether the old flag is either (`__ac_iseither`).

`Routes` registers the paths of `http_listen` in its order and others later,
and asks for paths between them. A wildcard is chosen by comparing bytes, so
paths have bytes (`Text`). The handlers of the routes are the other modules;
here only which of them is called matters. `LongRequest` is the assertion of
`resolve_route`, which ends the process. The endpoint of the uploads, registered by `mg_use`
(`src/http.c:383`), is in no table of this code:
Mongoose matches it before it calls `ev_handler`. Files and their content are Mongoose's.

### Jsmn and Json

`src/json.c` builds `jsmn.h` strict and without parent links. One action reads
one symbol, and the text is whatever was read: all texts are covered, the
malformed ones too. Bytes of strings are a label; a primitive's are nothing.
`parent` is a history variable: the superior when the token was added. The code
has no such link and must do with `size`; that this is enough is what is
checked. Counting mode (no token array) is used by nothing. The parser returns
the number of tokens or an error; the callers only ask whether it is positive.

`Json` has no actions of its own: lookups read tokens. `LookupsFind` is about
accepted texts in which every key has a value. The strict parser also accepts
`{"a"}`, and `json_get_member` then returns the token after the key, whatever
it is. `json_delve` aborts on a guide that does not begin with a dot and on a
key of 128 bytes; all guides in the program are literals.

### Env

`stage` is the step of `env_init` that comes next. `lib` is what libubootenv
(not in the repository) has made of the context; a function called in the wrong
state makes it `misused`. `env_read`'s loop is a function from the number of
variables read to what it has counted, with the `uint32_t` arithmetic of 72. When a text does not fit, the code may write
outside of the route's buffer or leave it without an end: such a GET, and one
without an open environment, is `GetUndefined`, which either ends the process or
replies anything. A query is a sequence of symbols with the word `var` as one
of them, so that it can stand inside another name or a value. The reply for one
variable lacks its closing brace (`src/http_route_env.c:16`); texts of
replies are not modelled.

## Runs

| Run | Instance | Shows |
|---|---|---|
| `UploadShared` | 2 connections, files of 1 and 2 bytes, 3 sessions, socket of 1 byte, counter modulo 4 | 138 870 states; types, no leaked session, counter, order of bytes, honest counts, refinement of `InstallChannel` |
| `UploadSolo` | 1 connection, files of 1, 2, 4 bytes, 3 sessions, socket of 2, counter modulo 6 | 3 272 states; a completed upload arrived whole and in order |
| `UploadLive` | 2 connections, files of 2 bytes, 2 sessions | 10 471 states; parts end, answered connections close |
| `ProgressSafety` | 2 pages, 5 messages, backlog 2 | 716 597 states; pages show what was reported and miss nothing |
| `ProgressLive` | 1 page, same messages | 44 658 states; a waiting status comes to be shown |
| `NetConfig` | 6 configurations | 2 164 states; acknowledged is stored, read back and applied |
| `NetConfigComment` | same | expected violation, see Findings |
| `DaemonStop` | 2 connections, files of 1 byte, 3 sessions, counter modulo 2 | 236 161 states; SIGINT or kill at any point of the uploads leaves nothing open, and the promise to swupdate holds to the end |
| `DaemonLive` | the same with 2 sessions | 72 626 states; a process asked to stop does |
| `Routes` | 11 paths, 4 to 16 buckets, 7 registrations | 58 364 states; one entry per path, lookups and probing, what is freed, refinement of `RouteTable`, who answers |
| `Json` | texts of up to 5 tokens, 2 labels | 783 211 states; tree of tokens, lookups, refinement of `Nesting` |
| `Env` | up to 3 variables, also longer than the buffer, buffer of 24, queries of up to 5 symbols | 106 370 states; the context's life, what is read, what is shown |

Why these bounds are enough. Two connections make every interference there is
between one upload and another; three sessions let one be replaced and replaced
again, or an upload be aborted and retried twice. A socket of one byte makes
every write of two bytes short and every second one EAGAIN; files of two bytes
have a byte lost, repeated or swapped when anything can be. The counter's range
is small so that it wraps and shows its negative half: two files into one
session make four bytes with `LenMod = 4`. For progress, the messages differ
pairwise in one field or more, one has no step, one no info, one is a failure,
one carries a text that frames mangle, and `ByteMod = 2` makes the cut of step
visible; a backlog of two lets messages wait across a reconnect. NetConfig has
no counter: any number of PUTs, boots and deaths.

In `DaemonStop` a third session lets one begin in the last poll, after two
uploads replaced each other; with a counter modulo 2 the first two bytes wrap it.

In `Routes` the paths are hashed with the program's own function, so they
collide as they do on the device; seven registrations take the table through
two rehashes (4 to 8, 8 to 16), and `/log` is there because its new bucket is
taken in the old table, which makes the kick-out happen. Registered again are
a listened path and a later one; the requests have paths of their own, under
one wildcard, under two, as long as a wildcard with its tail, and too long.
In `Json` five tokens are an object in an object down to its value, two keys
with their values, or arrays side by side and in each other; more repeat these. In `Env` a buffer of 24 bytes makes
each of the loop's ends happen: a comma or brace in the last place, a variable
that is cut, and, with a name wider than the buffer (`Wide`) before other
variables, an offset past the end whose `len - *b` wraps modulo 64;
`key` holds two letters and names have up to three.

Only `MaxSessions` (sessions granted), `MaxBacklog` and `MaxUses`
(registrations) are bounds of the model rather than of the instance; they are
constants of the theorems too. When all sessions are used, further begins are
refused.

Deadlock is checked in every run: a process that has ended stutters through
`Exited` or `Ended`.

### Fairness

`UploadLive` assumes that `http_poll` runs for ever and so: bytes of a part that
were not consumed are offered again (`PartData`, `PartDataIgnored`, then
`PartEnd`; this includes that the client sends the file it began), a flagged
connection is closed, and swupdate reads what is in its socket. It does not
assume that clients start anything, that swupdate grants, refuses or closes
anything. `UploadEnds` excludes a session that swupdate gave up: the code then
offers the same bytes for ever. `ProgressLive` assumes only that the poll loop
turns (`WF_vars(Poll)`). `DaemonLive` assumes that `mg_mgr_poll` returns and that
`main` takes its next step; nothing of clients, signals or swupdate. All are weak fairness: each of these steps stays
enabled until it is taken.

## What is proved

Every invariant, action property and refinement that a passing run checks is a
theorem, for all values of the constants; what is left to TLC alone is at the
end of this section. The assumptions are named in the modules:

- `UpdaterAssumption`, `RouteAssumption`, `RoutesAssumption`,
  `ProgressAssumption`, `NetConfigAssumption`, `JsmnAssumption` and
  `GuidesAssumption` are the types and the disjointness of the constants.
- `RouteMapAssumption` adds what `kh_resize` makes sure of (`kroundup32`, and
  at least 4): no size has an odd divisor above 1, that is, each is a power of two.
- `EnvAssumption` adds that the buffer and any one variable together come to less
  than the 2^32 of the `uint32_t` in `env_read`; the buffer has 4096 bytes
  and the device's environment some kilobytes. Without it the offset
  could wrap back into the buffer and look like a success.

- `UpdateRouteProofs`: `TypeOK`, `OnlyHeldOpen`, `LenCountsSession`,
  `ReplyCountsSession`, and that the specification implements
  `InstallChannel`. The inductive invariant adds three facts to the checked
  ones: a part's number is a session that was started (`PartsBegun`), the
  refused descriptor -1 is there only after the exit (`ExitIsRefusal`), and an
  unused session has no bytes (`UnusedEmpty`). Without the last one a new
  session could start with a stream that is not empty, and the counter would be
  wrong; without the second a write could go to session -1. The counter's step
  needs that adding modulo `LenMod` commutes with appending, which is
  `ModPlus` of `Arithmetic`.
  For `EachByteOnceInOrder` and `NoOlderSession` the invariant says that the session held is the newest (`HeldNewest`), that two
  connections never work on the same part (`PartsDistinct`), that every byte's
  part was begun (`BytesBegun`), and that a part's bytes in any stream are
  behind the connection's position (`BytesBehind`): a write appends bytes
  beyond the position, in the newest session, so after all the earlier ones.
  `SoloIntact` and `SoloCompleteIsWhole` are proved under the hypothesis that
  there is one connection (`Solo`): with more they are false, since uploads mix.
  The strengthening is that the session held is the one the part
  itself began (`HeldIsOwn`), so nothing of the part is ignored or written
  elsewhere, and what `write` did not take is offered again from where it stopped.
- `DaemonProofs`: `DaemonTypeOK`, `HeldHasOwner`, `StopsClean`, and that the
  whole life of the process implements `InstallChannel`. Every step is a step of
  `UpdateRoute` or the `updater_free` of `http_deinit` (`StepKinds`), so the
  invariant and the refinement of `UpdateRouteProofs` carry over. `HeldHasOwner`
  is what makes the odd order of the teardown right: a session in progress
  belongs to a connection inside the part that began it, so closing every
  connection ends every session, also one begun after the updater was freed.
- `ProgressProofs`: `TypeOK`, `ShownIsReported`, `NothingMissed`,
  `FailureReachesAll`. The
  strengthening is `CacheIsReported`: the cache that decides what is sent is
  the last report, also across a reconnect. For `ShownIsReported` there is
  `ShownIsCarried` too, that pages show what the frames made of the last report;
  `CarriedWhole` says that this is the report itself unless it is distorted. A failure is told whatever the cache
  says.
- `NetConfigProofs`: `TypeOK`, `AcknowledgedIsStored`, `ReadsItsWrites`,
  `RejectedLeavesInterfaces`, `BootApplies`. The strengthening says what the
  file holds at each stage: torn while it is open, the queued 200's
  configuration, and while the interfaces are rendered, the values in memory.
- `RoutesProofs`: `MapTypeOK`, `OneCopy`, `GetFindsLatest`, `DestroyFreesAll`
  and that the map, and the server on it, implements `RouteTable`, for any
  paths, any hash function, any powers of two. The strengthening says that every
  bucket in use holds an entry that probing comes to through other buckets in
  use (`Reached`): of the old table until the rehash takes it apart, of the new
  one as far as it is built. `Place` keeps it because the first free bucket of
  the entry's own probing is taken; `Insert` because it stops where `kh_get`
  would. `Newest` says that the entry being added is newer than all others,
  which is what `RouteTable` calls a registration.
  `ProbingEnds` needs two more facts. The entries are as many as `size` says and
  fewer than the table's bound (`Counted`), so some bucket is free; and
  triangular distances reach every bucket of a table whose size is a power of
  two (`TriangularProbes`: twice the difference of two of them is a product with
  an odd factor), so the probing comes to it. `Dispatched` needs that the
  bytes `foreach_route_check_path` compares tell exactly the wildcards above a
  path (`CoversIsUnder`), and that the buckets hold what the table says.
- `JsmnProofs`: `TokensAreTree`, for any labels and any length of the token
  array. The strengthening: every token after the superior is below it
  (`SuperAbove`), and an open bracket is not right of the superior and has
  everything after it below it (`OpenAbove`). The second is what lets `]`
  and `,` go back to the last open bracket by looking at the tokens alone.
  `ImplementsNesting` follows from it: the open tokens are the stack, and only
  adding a token and closing one change them (`KindsStay`, `AddKinds`).
  `NextSkipsSubtree` and `LookupsFind` hold of every tree of tokens. `Beyond(i)`
  is the first token after `i` that is not below it. `SkipsChildren` shows that
  going over as many subtrees as a token has children visits these children and
  ends at its `Beyond`; `AfterIs`, by induction from the last token backwards,
  that the recursion `After` is defined by has a solution and that it is this.
  For `json_delve` the invariant along the guide is `Walked`: the tokens the
  guide leads to lie side by side, and the walk is at the first of them.
- `EnvProofs`: `ContextEnds`, `ReadsWhole`, `ShowsWhatIsAsked`. `ContextInv`
  gives libubootenv's state at each step of `env_init`. `ReadsWhole` rests on an
  invariant of the loop (`Counts`): until the offset leaves the buffer it is the
  length of the text so far, and once it has left, the text is too long, whatever
  the `uint32_t` does afterwards. `ShowsWhatIsAsked` rests on `QueryIs`: the
  first `var` of a query is the parameter's when nothing before it holds one.

A function defined by recursion (`After`, `KindsUpTo`, `ReadUpTo`, ...) says
nothing to the provers until it is known to exist, and the library's theorems for
that, like those for induction, take an operator for a parameter, which
these provers cannot instantiate. `Arithmetic` states the same facts about
sets and functions: a set of numbers has a least member (`Least`), a set with 0
and with the successors of its members has all numbers (`Induction`,
`InductionTo`), a base and a step function make a function (`Recursion`,
`RecursionTo`). A proof by induction then names the set of the numbers that
satisfy its claim.

Only model-checked: the liveness properties `UploadEnds`, `RepliedCloses`,
`StatusIsShown` and `Stops`, since TLAPS as it is used here proves nothing about
`ENABLED` and fairness. What Mongoose, swupdate and libubootenv do is taken by
the proofs as it is modelled, no less than by the runs.

What the properties leave out on purpose, because the code gives nothing definite
there and no document says what it should give: a failed `fclose`
(`AcknowledgedIsStored`), a `%` in a stored value (`ReadsItsWrites`), a session
swupdate gave up (`UploadEnds`), a key without a value (`LookupsFind`), a name
longer than `keyp` or found inside something earlier (`ShowsWhatIsAsked`), and a
process that died when its port was taken (`Stops`). These steps are in the
models; `PROJECT.json` lists them as hazards without a property, or says
which part of the hazard its property covers.

## Findings

`NetConfigComment`: the comment in `src/atxsys.c:78` says the interfaces are
written "if valid config". `read_user_config` returns 0 when the file exists
and is 2048 bytes or longer (43 is false, 50 is false because `err` is 0), so
the caller prints uninitialized values into the interfaces file. PUT accepts
values that make such a file.

Seen while modelling, and said by no document either way: an upload whose
session another connection replaced or ended is answered 200 like a complete
one; `UPDATER_STATUS_FAIL` is never set; a PUT on a full disk is answered 200; a
PUT with a nested value is answered 200 and at the next boot not applied, or
read as other values.

Seen in the new parts, and said by no document either way: a GET of the env
route when `env_init` failed passes a NULL or freed context to libubootenv; an
environment that does not fit 4096 bytes may be written past the route's buffer;
the name in a query is cut to `sizeof(keyp) - 1` characters, and `var` is found
inside other names too; a strict JSON text may have keys without values.

## Not modelled

- The command line and daemon mode: `fork`, `chdir`, the log file, the two
  paths of a relative `-u` with `-d`, `-u` as the last argument. They run once
  before there is any other activity, and how options are read is formatting.
- A second `http_listen` (`src/http.c:375`), which nothing in the program does.
- `json_tok_is_null` and the number conversions (`src/json.c` 106-153), which
  nothing but their unit tests calls.
- `klist.h`, the lists of `containers.h`, `kh_del` and the integer hashes:
  nothing calls them.
- `src/sys.c`, the log (output only), the about route (a constant reply), the
  emulator stubs (`env_emu.c`, `updater_emu.c`), and the empty handlers of the
  env route.
- A failure of `set_blocking` (`src/updater_swupdate.c:31`): it is logged, and
  the writes that follow would wait instead of giving EAGAIN.
- Mongoose, swupdate and libubootenv are not in the repository; what the models
  take from them is said above.
