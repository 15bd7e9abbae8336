------------------------------ MODULE RouteMap ------------------------------
(***************************************************************************)
(* The map of routes of src/src/http.c: MAP_INIT of src/src/containers.h   *)
(* over the hash table of src/src/khash.h.  Buckets are probed at          *)
(* triangular distances; a table that is too full is rehashed in place, an *)
(* entry that is in the way being taken in hand and placed next.           *)
(*                                                                         *)
(* Nothing in the program removes a route, so a bucket of the old table    *)
(* that is not live is empty or was moved; the code looks at both alike.   *)
(* Memory runs out nowhere (the callers assert it).                        *)
(***************************************************************************)
EXTENDS Integers

CONSTANTS
    Path,       \* the keys
    NoPath,
    Hash,       \* the hash of each path
    Sizes,      \* bucket counts: at least 4, without an odd divisor (powers of two)
    MaxUses     \* bound: registrations

ASSUME RouteMapAssumption ==
    /\ NoPath \notin Path
    /\ Hash \in [Path -> Nat]
    /\ Sizes \subseteq Nat
    /\ \A w \in Sizes : w >= 4 /\ \A d \in 2 .. w : w % d = 0 => d % 2 = 0
    /\ MaxUses \in Nat

VARIABLES
    nBuckets,   \* h->n_buckets
    size,       \* h->size
    nOccupied,  \* h->n_occupied
    upperBound, \* h->upper_bound
    slot,       \* h->keys and h->vals
    live,       \* the buckets whose flags are neither empty nor deleted
    stage,      \* where kh_put is: idle, resize, rehash, insert; gone: destroyed
    arg,        \* the entry kh_put was called for
    newBuckets, \* new_n_buckets of kh_resize
    placed,     \* the buckets that new_flags has full
    j,          \* the bucket of the old table the rehash is at
    hand,       \* key and val of kh_resize: the entry to place, if any
    uses,       \* routes allocated
    freed       \* routes freed

resizing == <<newBuckets, placed, j, hand>>
counts   == <<nBuckets, size, nOccupied, upperBound>>
mapVars  == <<counts, slot, live, stage, arg, resizing, uses, freed>>

Entry   == [path : Path, route : Nat \ {0}]
NoEntry == [path |-> NoPath, route |-> 0]   \* also: memory not written yet

MapTypeOK ==
    /\ nBuckets \in Nat /\ size \in Nat /\ nOccupied \in Nat /\ upperBound \in Nat
    /\ newBuckets \in Nat /\ j \in Nat /\ uses \in Nat
    /\ live \subseteq 0 .. nBuckets - 1
    /\ placed \subseteq 0 .. newBuckets - 1
    /\ slot \in [DOMAIN slot -> Entry \cup {NoEntry}]
    /\ live \cup placed \subseteq DOMAIN slot
    /\ stage \in {"idle", "resize", "rehash", "insert", "gone"}
    /\ hand \in Entry \cup {NoEntry}
    /\ arg \in Entry \cup {NoEntry}
    /\ freed \subseteq Nat

\* http_init: routes_map_create.
MapInit ==
    /\ nBuckets = 0 /\ size = 0 /\ nOccupied = 0 /\ upperBound = 0
    /\ slot = [b \in 0 .. -1 |-> NoEntry]
    /\ live = {}
    /\ stage = "idle"
    /\ arg = NoEntry
    /\ newBuckets = 0 /\ placed = {} /\ j = 0 /\ hand = NoEntry
    /\ uses = 0 /\ freed = {}

-----------------------------------------------------------------------------
\* After so many steps the probing is back at the first bucket and gives up.
Steps(m) == 0 .. 2 * m - 2

\* Mutant: the distance is twice the step, which leaves half of the buckets out.
ProbeEven == [m \in Sizes |-> [p \in Path |-> [k \in Steps(m) |->
                (Hash[p] + 2 * k) % m]]]

\* Among m buckets the one looked at for p in step k: i = (i + (++step)) & mask.
Probe == [m \in Sizes |-> [p \in Path |-> [k \in Steps(m) |->
            (Hash[p] + (k * (k + 1)) \div 2) % m]]]

\* Mutant: an entry is found whatever its key.
AnyKeyStops(p, k) == Probe[nBuckets][p][k] \notin live \/ k = 0

\* The bucket is empty or has the key.
Stops(p, k) == LET b == Probe[nBuckets][p][k] IN b \notin live \/ slot[b].path = p

FirstStop(p, k) == Stops(p, k) /\ \A i \in 0 .. k - 1 : ~Stops(p, i)

\* kh_get: the bucket of p, none or one.
Found(p) ==
    {Probe[nBuckets][p][k] : k \in {i \in Steps(nBuckets) : FirstStop(p, i)}} \cap live

\* routes_map_get.
MapGet(p) == IF Found(p) = {} THEN 0 ELSE slot[CHOOSE b \in Found(p) : TRUE].route

\* (khint_t)(n * 0.77 + 0.5)
UpperBound(m) == (77 * m + 50) \div 100

\* kroundup32, and at least 4.
RoundedUp(w, m) == w \in Sizes /\ w >= m /\ \A v \in Sizes : v >= m => w <= v

-----------------------------------------------------------------------------
\* http_use: allocates a route and calls kh_put.
Use(p) ==
    /\ stage = "idle" /\ uses < MaxUses
    /\ uses' = uses + 1
    /\ arg' = [path |-> p, route |-> uses + 1]
    /\ stage' = IF nOccupied >= upperBound THEN "resize" ELSE "insert"
    /\ UNCHANGED <<counts, slot, live, resizing, freed>>

\* Mutant: keys and vals are not reallocated.
ResizeInOld ==
    /\ stage = "resize"
    /\ \E w \in Sizes :
        /\ RoundedUp(w, IF nBuckets > 2 * size THEN nBuckets - 1 ELSE nBuckets + 1)
        /\ IF size >= UpperBound(w)
           THEN stage' = "insert" /\ UNCHANGED resizing
           ELSE /\ stage' = "rehash"
                /\ newBuckets' = w /\ placed' = {} /\ j' = 0 /\ hand' = NoEntry
    /\ UNCHANGED <<counts, slot, live, arg, uses, freed>>

\* kh_resize up to the loop, with its reallocation.
Resize ==
    /\ stage = "resize"
    /\ \E w \in Sizes :
        /\ RoundedUp(w, IF nBuckets > 2 * size THEN nBuckets - 1 ELSE nBuckets + 1)
        /\ IF size >= UpperBound(w)
           THEN stage' = "insert" /\ UNCHANGED <<resizing, slot>>
           ELSE /\ stage' = "rehash"
                /\ newBuckets' = w /\ placed' = {} /\ j' = 0 /\ hand' = NoEntry
                /\ slot' = IF nBuckets < w
                           THEN [b \in 0 .. w - 1 |->
                                    IF b < nBuckets THEN slot[b] ELSE NoEntry]
                           ELSE slot
    /\ UNCHANGED <<counts, live, arg, uses, freed>>

\* The loop over the old table takes a live entry in hand.
Take ==
    /\ stage = "rehash" /\ hand = NoEntry /\ j < nBuckets
    /\ j' = j + 1
    /\ hand' = IF j \in live THEN slot[j] ELSE NoEntry
    /\ live' = live \ {j}
    /\ UNCHANGED <<counts, slot, stage, arg, newBuckets, placed, uses, freed>>

\* Mutant: the entry that is in the way is overwritten.
PlaceOver ==
    /\ stage = "rehash" /\ hand # NoEntry
    /\ \E k \in Steps(newBuckets) :
        LET b == Probe[newBuckets][hand.path][k] IN
        /\ b \notin placed
        /\ \A i \in 0 .. k - 1 : Probe[newBuckets][hand.path][i] \in placed
        /\ placed' = placed \cup {b}
        /\ slot' = [slot EXCEPT ![b] = hand]
        /\ hand' = NoEntry
        /\ live' = live \ {b}
    /\ UNCHANGED <<counts, stage, arg, newBuckets, j, uses, freed>>

\* Mutant: the old flag of an entry taken in hand stays.
PlaceKeepsOld ==
    /\ stage = "rehash" /\ hand # NoEntry
    /\ \E k \in Steps(newBuckets) :
        LET b == Probe[newBuckets][hand.path][k] IN
        /\ b \notin placed
        /\ \A i \in 0 .. k - 1 : Probe[newBuckets][hand.path][i] \in placed
        /\ placed' = placed \cup {b}
        /\ slot' = [slot EXCEPT ![b] = hand]
        /\ hand' = IF b \in live THEN slot[b] ELSE NoEntry
    /\ UNCHANGED <<counts, live, stage, arg, newBuckets, j, uses, freed>>

\* The kick-out loop: the entry in hand goes to the first bucket that is free
\* in the new table; one that is live there in the old table is next in hand.
Place ==
    /\ stage = "rehash" /\ hand # NoEntry
    /\ \E k \in Steps(newBuckets) :
        LET b == Probe[newBuckets][hand.path][k] IN
        /\ b \notin placed
        /\ \A i \in 0 .. k - 1 : Probe[newBuckets][hand.path][i] \in placed
        /\ placed' = placed \cup {b}
        /\ slot' = [slot EXCEPT ![b] = hand]
        /\ hand' = IF b \in live THEN slot[b] ELSE NoEntry
        /\ live' = live \ {b}
    /\ UNCHANGED <<counts, stage, arg, newBuckets, j, uses, freed>>

\* The end of kh_resize.
Rehashed ==
    /\ stage = "rehash" /\ hand = NoEntry /\ j = nBuckets
    /\ live' = placed /\ placed' = {}
    /\ slot' = IF nBuckets > newBuckets
               THEN [b \in 0 .. newBuckets - 1 |-> slot[b]] ELSE slot
    /\ nBuckets' = newBuckets
    /\ nOccupied' = size
    /\ upperBound' = UpperBound(newBuckets)
    /\ stage' = "insert"
    /\ UNCHANGED <<size, arg, newBuckets, j, hand, uses, freed>>

\* The rest of kh_put, and routes_map_add stores the route.
Insert ==
    /\ stage = "insert"
    /\ \E k \in Steps(nBuckets) :
        LET b == Probe[nBuckets][arg.path][k] IN
        /\ FirstStop(arg.path, k)
        /\ slot' = [slot EXCEPT ![b] = arg]
        /\ live' = live \cup {b}
        /\ IF b \in live
           THEN UNCHANGED <<size, nOccupied>>
           ELSE size' = size + 1 /\ nOccupied' = nOccupied + 1
    /\ stage' = "idle"
    /\ UNCHANGED <<nBuckets, upperBound, arg, resizing, uses, freed>>

\* Mutant: the loop that frees stops at the number of entries.
DestroyBySize ==
    /\ stage = "idle"
    /\ stage' = "gone"
    /\ freed' = {slot[b].route : b \in {c \in live : c < size}}
    /\ UNCHANGED <<counts, slot, live, arg, resizing, uses>>

\* http_deinit: routes_map_destroy frees what foreach would visit.
Destroy ==
    /\ stage = "idle"
    /\ stage' = "gone"
    /\ freed' = {slot[b].route : b \in live}
    /\ UNCHANGED <<counts, slot, live, arg, resizing, uses>>

MapStep == Resize \/ Take \/ Place \/ Rehashed \/ Insert

MapNext == (\E p \in Path : Use(p)) \/ MapStep \/ Destroy

MapSpec == MapInit /\ [][MapNext]_mapVars

-----------------------------------------------------------------------------
\* The entries there are: in the old table, in the new one and in hand.
Held == {slot[b] : b \in live \cup placed} \cup ({hand} \ {NoEntry})

\* The abstract table: the route of the entry that has the path.
Table ==
    LET held == Held
    IN  [p \in Path |-> IF \E e \in held : e.path = p
                        THEN (CHOOSE e \in held : e.path = p).route ELSE 0]

\* Every registration takes effect at once and stays until the next one of the
\* same path, through any number of rehashes: kh_put is atomic to its callers.
Abstract == INSTANCE RouteTable WITH table <- Table
ImplementsTable == Abstract!TableSpec

\* An entry is in one place only while the table is rehashed in the memory it
\* is in: not in two buckets, nor in a bucket and in hand (khash.h:277-292).
OneCopy ==
    /\ live \cap placed = {}
    /\ \A b, c \in live \cup placed : slot[b].path = slot[c].path => b = c
    /\ \A b \in live \cup placed : slot[b] # NoEntry /\ slot[b].path # hand.path

\* Whatever was registered is found by the probing of kh_get, and nothing else
\* is (khash.h:230-243).
GetFindsLatest == stage = "idle" => [p \in Path |-> MapGet(p)] = Table

\* The loops of khash.h:281 and 325 end for any path: there always is an empty
\* bucket, and the probing comes to it before it is back at its start.
ProbingEnds ==
    /\ stage \in {"idle", "insert"} /\ nBuckets > 0 =>
        \A p \in Path : \E k \in Steps(nBuckets) : Probe[nBuckets][p][k] \notin live
    /\ stage = "rehash" =>
        \A p \in Path : \E k \in Steps(newBuckets) : Probe[newBuckets][p][k] \notin placed

\* The map frees every route it can still reach when it is destroyed: each
\* that was not replaced by a later one of the same path.
DestroyFreesAll ==
    stage = "gone" => LET t == Table IN freed = {t[p] : p \in Path} \ {0}
=============================================================================
