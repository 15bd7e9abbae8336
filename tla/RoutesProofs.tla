---------------------------- MODULE RoutesProofs ----------------------------
(***************************************************************************)
(* Theorems of RouteMap, for any paths, any hash function and any number   *)
(* of registrations: the rehash in place loses and doubles no entry,       *)
(* kh_get finds what was registered last, and kh_put with all its steps is *)
(* the one step of RouteTable.  They hold of Routes, which adds requests.  *)
(***************************************************************************)
EXTENDS Routes, Arithmetic, FiniteSetTheorems, SequenceTheorems, TLAPS

Larger(a, b) == IF a < b THEN b ELSE a

\* The sizes of the two tables and the memory they share.
Shape ==
    /\ nBuckets \in Sizes \cup {0} /\ newBuckets \in Sizes \cup {0}
    /\ stage = "rehash" => newBuckets \in Sizes
    /\ stage # "rehash" => /\ DOMAIN slot = 0 .. nBuckets - 1
                           /\ placed = {} /\ hand = NoEntry
    /\ stage = "rehash" => /\ DOMAIN slot = 0 .. Larger(nBuckets, newBuckets) - 1
                           /\ \A b \in live : b >= j
    /\ stage \in {"resize", "rehash", "insert"} => arg \in Entry

\* Every bucket of S holds an entry that the probing among m buckets comes to,
\* through other buckets of S.
Reached(S, m) ==
    \A b \in S : \E k \in Steps(m) :
        /\ Probe[m][slot[b].path][k] = b
        /\ \A i \in 0 .. k - 1 : Probe[m][slot[b].path][i] \in S \ {b}

\* The old table can be searched until it is taken apart, the new one as far
\* as it is built.
Searchable ==
    /\ stage # "rehash" => Reached(live, nBuckets)
    /\ stage = "rehash" => Reached(placed, newBuckets)

\* The entry that is being added is newer than all there are.
Newest ==
    /\ \A e \in Held : e.route <= uses
    /\ stage \in {"resize", "rehash", "insert"} =>
        arg.route = uses /\ \A e \in Held : e.route < uses

MapInv == MapTypeOK /\ Shape /\ OneCopy /\ Searchable /\ Newest

-----------------------------------------------------------------------------
\* The buckets that are probed are in the table.
LEMMA ProbeRange ==
    ASSUME NEW m \in Sizes, NEW p \in Path, NEW k \in Steps(m)
    PROVE  Probe[m][p][k] \in 0 .. m - 1
<1>1. m \in Nat \ {0} /\ k \in Nat /\ Hash[p] \in Nat
  BY RouteMapAssumption DEF Steps
<1>2. k * (k + 1) \in Nat
  BY <1>1
<1> DEFINE t == k * (k + 1)
<1>3. t \div 2 \in Int
  <2>1. t \in Int
    BY <1>2
  <2> HIDE DEF t
  <2> QED
    BY <2>1, DivMod
<1> DEFINE d == Hash[p] + t \div 2
<1>4. d \in Int
  BY <1>1, <1>3
<1>5. Probe[m][p][k] = d % m
  BY DEF Probe
<1> HIDE DEF d
<1> QED
  BY <1>1, <1>4, <1>5, DivMod

\* No entry has the path of memory that was not written.
LEMMA NoEntryIsNone == NoEntry \notin Entry /\ NoEntry.path = NoPath /\ NoPath \notin Path
BY RouteMapAssumption DEF NoEntry, Entry

\* What is held are entries, with different paths.
LEMMA HeldEntries ==
    ASSUME MapInv
    PROVE  /\ \A b \in live \cup placed : slot[b] \in Entry
           /\ Held \subseteq Entry
           /\ \A e, f \in Held : e.path = f.path => e = f
<1>1. \A b \in live \cup placed : slot[b] \in Entry
  BY DEF MapInv, MapTypeOK, OneCopy
<1>2. Held \subseteq Entry
  BY <1>1 DEF Held, MapInv, MapTypeOK
<1>3. ASSUME NEW e \in Held, NEW f \in Held, e.path = f.path PROVE e = f
  BY <1>3 DEF Held, MapInv, OneCopy
<1> QED
  BY <1>1, <1>2, <1>3

\* The abstract table, looked at by entry: what is held for a path, or nothing.
TableIsHeld ==
    /\ Table \in [Path -> Nat]
    /\ \A e \in Held : Table[e.path] = e.route
    /\ \A p \in Path : (\A e \in Held : e.path # p) => Table[p] = 0

\* The abstract table says of each path what the entry holding it does.
LEMMA TableLookup == MapInv => TableIsHeld
<1> SUFFICES ASSUME MapInv PROVE TableIsHeld
  OBVIOUS
<1>1. Held \subseteq Entry /\ \A e, f \in Held : e.path = f.path => e = f
  BY HeldEntries
<1>2. ASSUME NEW e \in Held PROVE Table[e.path] = e.route
  <2>1. e.path \in Path
    BY <1>1 DEF Entry
  <2>2. (CHOOSE f \in Held : f.path = e.path) = e
    BY <1>1
  <2> QED
    BY <2>1, <2>2 DEF Table
<1>3. ASSUME NEW p \in Path, \A e \in Held : e.path # p PROVE Table[p] = 0
  BY <1>3 DEF Table
<1>4. ASSUME NEW p \in Path PROVE Table[p] \in Nat
  <2>1. CASE \E e \in Held : e.path = p
    <3>1. PICK e \in Held : e.path = p
      BY <2>1
    <3> QED
      BY <1>1, <1>2, <3>1 DEF Entry
  <2> QED
    BY <1>3, <1>4, <2>1
<1>5. Table \in [Path -> Nat]
  BY <1>4 DEF Table
<1> QED
  BY <1>2, <1>3, <1>5 DEF TableIsHeld

\* The abstract table only depends on what is held.
LEMMA TableOfHeld == Held' = Held => Table' = Table
BY DEF Table

-----------------------------------------------------------------------------
\* The empty map.
LEMMA MapInitInv == MapInit => MapInv
<1> SUFFICES ASSUME MapInit PROVE MapInv
  OBVIOUS
<1>1. Held = {}
  BY DEF MapInit, Held
<1>2. DOMAIN slot = 0 .. nBuckets - 1 /\ slot \in [DOMAIN slot -> Entry \cup {NoEntry}]
  BY DEF MapInit
<1>3. MapTypeOK
  BY <1>2 DEF MapInit, MapTypeOK
<1> QED
  BY <1>1, <1>2, <1>3
  DEF MapInit, MapInv, Shape, OneCopy, Searchable, Reached, Newest

\* http_use changes no bucket.
LEMMA UseInv ==
    ASSUME MapInv, NEW p \in Path, Use(p)
    PROVE  MapInv' /\ Held' = Held
<1> USE DEF Use, counts, resizing
<1>1. Held' = Held
  BY DEF Held
<1>2. arg' \in Entry /\ arg'.route = uses' /\ uses' = uses + 1 /\ uses \in Nat
  BY DEF Entry, MapInv, MapTypeOK
<1>3. MapTypeOK'
  BY <1>2 DEF MapInv, MapTypeOK
<1>4. Shape' /\ OneCopy'
  BY <1>2 DEF MapInv, Shape, OneCopy
<1>5. Searchable'
  BY DEF MapInv, Searchable, Reached
<1>6. Newest'
  <2>1. \A e \in Held : e.route \in Nat /\ e.route <= uses
    BY HeldEntries DEF Entry, MapInv, Newest
  <2> QED
    BY <1>1, <1>2, <2>1 DEF Newest
<1> QED
  BY <1>1, <1>3, <1>4, <1>5, <1>6 DEF MapInv

\* The memory grows, and what it holds stays.
LEMMA ResizeInv ==
    ASSUME MapInv, Resize
    PROVE  MapInv' /\ Held' = Held
<1> USE DEF counts, resizing
<1>1. /\ stage = "resize" /\ placed = {} /\ hand = NoEntry
      /\ DOMAIN slot = 0 .. nBuckets - 1
      /\ nBuckets \in Nat /\ live \subseteq 0 .. nBuckets - 1
      /\ nBuckets \in Sizes \cup {0}
      /\ UNCHANGED <<counts, live, arg, uses, freed>>
  BY DEF Resize, MapInv, Shape, MapTypeOK
<1>2. PICK w \in Sizes :
        IF size >= UpperBound(w)
        THEN stage' = "insert" /\ UNCHANGED <<resizing, slot>>
        ELSE /\ stage' = "rehash"
             /\ newBuckets' = w /\ placed' = {} /\ j' = 0 /\ hand' = NoEntry
             /\ slot' = IF nBuckets < w
                        THEN [b \in 0 .. w - 1 |->
                                 IF b < nBuckets THEN slot[b] ELSE NoEntry]
                        ELSE slot
  BY DEF Resize
<1>3. w \in Nat /\ w >= 4
  BY RouteMapAssumption
<1>4. placed' = {} /\ hand' = NoEntry
  BY <1>1, <1>2
<1>5. \A b \in live : slot'[b] = slot[b]
  BY <1>1, <1>2, <1>3
<1>6. Held' = Held
  BY <1>1, <1>4, <1>5 DEF Held
<1>7. OneCopy'
  BY <1>1, <1>4, <1>5 DEF OneCopy, MapInv
<1>8. Newest'
  BY <1>1, <1>2, <1>6 DEF Newest, MapInv
<1>9. CASE size >= UpperBound(w)
  <2>1. stage' = "insert" /\ UNCHANGED <<resizing, slot>>
    BY <1>2, <1>9
  <2>2. MapTypeOK' /\ Shape' /\ Searchable'
    BY <1>1, <2>1 DEF MapInv, MapTypeOK, Shape, Searchable, Reached
  <2> QED
    BY <1>6, <1>7, <1>8, <2>2 DEF MapInv
<1>10. CASE ~(size >= UpperBound(w))
  <2>1. /\ stage' = "rehash" /\ newBuckets' = w /\ j' = 0
        /\ slot' = IF nBuckets < w
                   THEN [b \in 0 .. w - 1 |->
                            IF b < nBuckets THEN slot[b] ELSE NoEntry]
                   ELSE slot
    BY <1>2, <1>10
  <2>2. /\ DOMAIN slot' = 0 .. Larger(nBuckets, w) - 1
        /\ slot' \in [DOMAIN slot' -> Entry \cup {NoEntry}]
    <3>1. slot \in [0 .. nBuckets - 1 -> Entry \cup {NoEntry}]
      BY <1>1 DEF MapInv, MapTypeOK
    <3>2. CASE nBuckets < w
      <4>1. slot' = [b \in 0 .. w - 1 |-> IF b < nBuckets THEN slot[b] ELSE NoEntry]
        BY <2>1, <3>2
      <4> QED
        BY <1>1, <1>3, <3>1, <3>2, <4>1 DEF Larger
    <3>3. CASE ~(nBuckets < w)
      BY <1>1, <1>3, <2>1, <3>1, <3>3 DEF Larger
    <3> QED
      BY <3>2, <3>3
  <2>3. MapTypeOK'
    BY <1>1, <1>3, <1>4, <2>1, <2>2 DEF MapInv, MapTypeOK, Larger
  <2>4. Shape'
    BY <1>1, <1>3, <1>4, <2>1, <2>2 DEF MapInv, Shape
  <2>5. Searchable'
    BY <1>4, <2>1 DEF Searchable, Reached
  <2> QED
    BY <1>6, <1>7, <1>8, <2>3, <2>4, <2>5 DEF MapInv
<1> QED
  BY <1>9, <1>10

\* An entry moves from its bucket to the hand.
LEMMA TakeInv ==
    ASSUME MapInv, Take
    PROVE  MapInv' /\ Held' = Held
<1> USE DEF Take, counts
<1>1. /\ stage = "rehash" /\ stage' = stage /\ hand = NoEntry
      /\ j' = j + 1 /\ j \in Nat
      /\ live' = live \ {j} /\ live \cap placed = {}
      /\ hand' = IF j \in live THEN slot[j] ELSE NoEntry
      /\ UNCHANGED <<slot, placed, newBuckets, nBuckets, uses, arg>>
  BY DEF MapInv, MapTypeOK, OneCopy
<1>2. \A b \in live \cup placed : slot[b] \in Entry
  BY HeldEntries
<1>3. Held' = Held
  <2>1. CASE j \in live
    <3>1. hand' = slot[j] /\ hand' # NoEntry
      BY <1>1, <1>2, <2>1, NoEntryIsNone
    <3>2. live' \cup placed' = (live \cup placed) \ {j}
      BY <1>1, <2>1
    <3> QED
      BY <1>1, <2>1, <3>1, <3>2 DEF Held
  <2>2. CASE j \notin live
    BY <1>1, <2>2 DEF Held
  <2> QED
    BY <2>1, <2>2
<1>4. MapTypeOK'
  BY <1>1, <1>2 DEF MapInv, MapTypeOK
<1>5. Shape'
  <2>1. \A b \in live' : b >= j + 1
    BY <1>1 DEF MapInv, Shape, MapTypeOK
  <2> QED
    BY <1>1, <2>1 DEF MapInv, Shape
<1>6. OneCopy'
  <2>1. \A b \in live' \cup placed' : (b \in live \cup placed /\ b # j) \/ b \in placed
    BY <1>1
  <2>2. CASE j \in live
    BY <1>1, <1>2, <2>2, NoEntryIsNone DEF MapInv, OneCopy
  <2>3. CASE j \notin live
    BY <1>1, <2>3 DEF MapInv, OneCopy
  <2> QED
    BY <2>2, <2>3
<1>7. Searchable' /\ Newest'
  BY <1>1, <1>3 DEF MapInv, Searchable, Reached, Newest
<1> QED
  BY <1>3, <1>4, <1>5, <1>6, <1>7 DEF MapInv

\* The entry in hand moves to a bucket, and what was live there to the hand.
LEMMA PlaceInv ==
    ASSUME MapInv, Place
    PROVE  MapInv' /\ Held' = Held
<1> USE DEF counts
<1>1. /\ stage = "rehash" /\ hand # NoEntry
      /\ UNCHANGED <<counts, stage, arg, newBuckets, j, uses, freed>>
      /\ newBuckets \in Sizes
  BY DEF Place, MapInv, Shape
<1>2. PICK k \in Steps(newBuckets) :
        LET b == Probe[newBuckets][hand.path][k] IN
        /\ b \notin placed
        /\ \A i \in 0 .. k - 1 : Probe[newBuckets][hand.path][i] \in placed
        /\ placed' = placed \cup {b}
        /\ slot' = [slot EXCEPT ![b] = hand]
        /\ hand' = IF b \in live THEN slot[b] ELSE NoEntry
        /\ live' = live \ {b}
  BY DEF Place
<1> DEFINE b == Probe[newBuckets][hand.path][k]
<1>3. hand \in Entry /\ hand.path \in Path
  BY <1>1 DEF MapInv, MapTypeOK, Entry
<1>4. b \in 0 .. newBuckets - 1 /\ b \in DOMAIN slot
  <2>1. b \in 0 .. newBuckets - 1
    BY <1>1, <1>3, ProbeRange
  <2> QED
    BY <1>1, <2>1 DEF MapInv, MapTypeOK, Shape, Larger
<1>5. /\ b \notin placed /\ placed' = placed \cup {b} /\ live' = live \ {b}
      /\ slot' = [slot EXCEPT ![b] = hand]
      /\ hand' = IF b \in live THEN slot[b] ELSE NoEntry
      /\ \A i \in 0 .. k - 1 : Probe[newBuckets][hand.path][i] \in placed
  BY <1>2
<1>6. Probe[newBuckets][hand.path][k] = b
  OBVIOUS
<1> HIDE DEF b
<1>7. /\ slot'[b] = hand
      /\ \A c \in DOMAIN slot : c # b => slot'[c] = slot[c]
      /\ DOMAIN slot' = DOMAIN slot
      /\ slot' \in [DOMAIN slot -> Entry \cup {NoEntry}]
  BY <1>3, <1>4, <1>5 DEF MapInv, MapTypeOK
<1>8. /\ \A c \in live \cup placed : slot[c] \in Entry
      /\ live \cup placed \subseteq DOMAIN slot
      /\ live \cap placed = {}
  BY HeldEntries DEF MapInv, MapTypeOK, OneCopy
<1>9. live' \cup placed' = ((live \cup placed) \ {b}) \cup {b}
  BY <1>5
<1>10. Held' = Held
  <2>1. {slot'[c] : c \in live' \cup placed'} =
            {slot[c] : c \in (live \cup placed) \ {b}} \cup {hand}
    BY <1>7, <1>8, <1>9
  <2>2. CASE b \in live
    <3>1. hand' = slot[b] /\ hand' # NoEntry
      BY <1>5, <1>8, <2>2, NoEntryIsNone
    <3> QED
      BY <1>1, <2>1, <2>2, <3>1 DEF Held
  <2>3. CASE b \notin live
    <3>1. hand' = NoEntry /\ (live \cup placed) \ {b} = live \cup placed
      BY <1>5, <2>3
    <3> QED
      BY <1>1, <2>1, <3>1 DEF Held
  <2> QED
    BY <2>2, <2>3
<1>11. MapTypeOK'
  BY <1>1, <1>4, <1>5, <1>7, <1>8 DEF MapInv, MapTypeOK
<1>12. Shape'
  BY <1>1, <1>4, <1>5, <1>7 DEF MapInv, Shape
<1>13. OneCopy'
  <2>1. live' \cap placed' = {}
    BY <1>5, <1>8
  <2>2. \A c \in live' \cup placed' :
            IF c = b THEN slot'[c] = hand
            ELSE c \in live \cup placed /\ slot'[c] = slot[c]
    <3> SUFFICES ASSUME NEW c \in live' \cup placed', c # b
                 PROVE  c \in live \cup placed /\ slot'[c] = slot[c]
      BY <1>7
    <3>1. c \in live \cup placed
      BY <1>9
    <3> QED
      BY <1>7, <1>8, <3>1
  <2>3. /\ \A c \in live \cup placed : slot[c].path # hand.path
        /\ \A c, d \in live \cup placed : slot[c].path = slot[d].path => c = d
    BY DEF MapInv, OneCopy
  <2>4. \A c, d \in live' \cup placed' : slot'[c].path = slot'[d].path => c = d
    BY <2>2, <2>3
  <2>5. ASSUME NEW c \in live' \cup placed'
        PROVE  slot'[c] # NoEntry /\ slot'[c].path # hand'.path
    <3>1. slot'[c] \in Entry /\ slot'[c] # NoEntry /\ slot'[c].path # NoEntry.path
      BY <1>3, <1>8, <2>2, NoEntryIsNone DEF Entry
    <3>2. CASE b \in live
      BY <1>5, <2>2, <2>3, <3>1, <3>2
    <3>3. CASE b \notin live
      BY <1>5, <3>1, <3>3
    <3> QED
      BY <3>1, <3>2, <3>3
  <2> QED
    BY <2>1, <2>4, <2>5 DEF OneCopy
<1>14. Searchable'
  <2>1. Reached(placed, newBuckets)
    BY <1>1 DEF MapInv, Searchable
  <2>2. ASSUME NEW c \in placed'
        PROVE  \E l \in Steps(newBuckets) :
                 /\ Probe[newBuckets][slot'[c].path][l] = c
                 /\ \A i \in 0 .. l - 1 : Probe[newBuckets][slot'[c].path][i] \in placed' \ {c}
    <3>1. CASE c = b
      BY <1>5, <1>6, <1>7, <3>1
    <3>2. CASE c # b
      <4>1. c \in placed /\ slot'[c] = slot[c]
        BY <1>5, <1>7, <1>8, <3>2
      <4>2. PICK l \in Steps(newBuckets) :
              /\ Probe[newBuckets][slot[c].path][l] = c
              /\ \A i \in 0 .. l - 1 : Probe[newBuckets][slot[c].path][i] \in placed \ {c}
        BY <2>1, <4>1 DEF Reached
      <4> QED
        BY <1>5, <4>1, <4>2
    <3> QED
      BY <3>1, <3>2
  <2>3. Reached(placed, newBuckets)'
    BY <1>1, <2>2 DEF Reached
  <2> QED
    BY <1>1, <2>3 DEF Searchable
<1>15. Newest'
  BY <1>1, <1>10 DEF MapInv, Newest
<1> QED
  BY <1>10, <1>11, <1>12, <1>13, <1>14, <1>15 DEF MapInv

\* The new table takes the old one's place, with every entry in it.
LEMMA RehashedInv ==
    ASSUME MapInv, Rehashed
    PROVE  MapInv' /\ Held' = Held
<1>1. /\ stage = "rehash" /\ hand = NoEntry /\ j = nBuckets
      /\ live' = placed /\ placed' = {}
      /\ slot' = IF nBuckets > newBuckets
                 THEN [b \in 0 .. newBuckets - 1 |-> slot[b]] ELSE slot
      /\ nBuckets' = newBuckets /\ nOccupied' = size
      /\ upperBound' = UpperBound(newBuckets) /\ stage' = "insert"
      /\ UNCHANGED <<size, arg, newBuckets, j, hand, uses, freed>>
  BY DEF Rehashed
<1>2. live = {}
  BY <1>1 DEF MapInv, MapTypeOK, Shape
<1>3. /\ newBuckets \in Sizes /\ newBuckets \in Nat /\ nBuckets \in Nat
      /\ placed \subseteq 0 .. newBuckets - 1
      /\ DOMAIN slot = 0 .. Larger(nBuckets, newBuckets) - 1
      /\ slot \in [DOMAIN slot -> Entry \cup {NoEntry}]
  BY <1>1 DEF MapInv, MapTypeOK, Shape
<1>4. /\ DOMAIN slot' = 0 .. newBuckets - 1
      /\ \A b \in 0 .. newBuckets - 1 : slot'[b] = slot[b]
      /\ slot' \in [DOMAIN slot' -> Entry \cup {NoEntry}]
  <2>1. CASE nBuckets > newBuckets
    <3>1. slot' = [b \in 0 .. newBuckets - 1 |-> slot[b]]
      BY <1>1, <2>1
    <3>2. 0 .. newBuckets - 1 \subseteq DOMAIN slot
      BY <1>3 DEF Larger
    <3> QED
      BY <1>3, <3>1, <3>2
  <2>2. CASE ~(nBuckets > newBuckets)
    <3>1. slot' = slot /\ Larger(nBuckets, newBuckets) = newBuckets
      BY <1>1, <1>3, <2>2 DEF Larger
    <3> QED
      BY <1>3, <3>1
  <2> QED
    BY <2>1, <2>2
<1>5. \A b \in placed : slot'[b] = slot[b]
  BY <1>3, <1>4
<1>6. Held' = Held
  <2>1. live \cup placed = placed /\ live' \cup placed' = placed
    BY <1>1, <1>2
  <2> QED
    BY <1>1, <1>5, <2>1 DEF Held
<1>7. MapTypeOK'
  <2>1. UpperBound(newBuckets) \in Nat
    <3>1. 77 * newBuckets + 50 \in Nat
      BY <1>3
    <3> QED
      BY <3>1 DEF UpperBound
  <2> QED
    BY <1>1, <1>2, <1>3, <1>4, <2>1 DEF MapInv, MapTypeOK
<1>8. Shape' /\ OneCopy'
  BY <1>1, <1>2, <1>3, <1>4, <1>5 DEF MapInv, Shape, OneCopy
<1>9. Searchable'
  BY <1>1, <1>5 DEF MapInv, Searchable, Reached
<1>10. Newest'
  BY <1>1, <1>6 DEF MapInv, Newest
<1> QED
  BY <1>6, <1>7, <1>8, <1>9, <1>10 DEF MapInv

\* The bucket the probing stops at is the one of the path, if there is one.
LEMMA StopIsOwn ==
    ASSUME MapInv, stage = "insert", nBuckets \in Sizes,
           NEW k \in Steps(nBuckets), FirstStop(arg.path, k),
           NEW c \in live, slot[c].path = arg.path
    PROVE  c = Probe[nBuckets][arg.path][k]
<1>1. PICK l \in Steps(nBuckets) :
        /\ Probe[nBuckets][slot[c].path][l] = c
        /\ \A i \in 0 .. l - 1 : Probe[nBuckets][slot[c].path][i] \in live \ {c}
  BY DEF MapInv, Searchable, Reached
<1>2. k \in Int /\ l \in Int /\ k >= 0 /\ l >= 0
  BY DEF Steps
<1>3. CASE l < k
  <2>1. Stops(arg.path, l) /\ l \in 0 .. k - 1
    BY <1>1, <1>2, <1>3 DEF Stops
  <2> QED
    BY <2>1 DEF FirstStop
<1>4. CASE l > k
  <2>1. Probe[nBuckets][arg.path][k] \in live
    BY <1>1, <1>2, <1>4
  <2>2. slot[Probe[nBuckets][arg.path][k]].path = arg.path
    BY <2>1 DEF FirstStop, Stops
  <2> QED
    BY <2>1, <2>2 DEF MapInv, OneCopy
<1> QED
  BY <1>1, <1>2, <1>3, <1>4

\* The bucket of the new entry, and what is held with it.
LEMMA InsertInv ==
    ASSUME MapInv, Insert
    PROVE  /\ MapInv'
           /\ arg \in Held' /\ arg \in Entry
           /\ \A e \in Held : e.path # arg.path => e \in Held'
           /\ \A e \in Held' : e = arg \/ e \in Held
<1> USE DEF resizing
<1>1. /\ stage = "insert" /\ stage' = "idle"
      /\ UNCHANGED <<nBuckets, upperBound, arg, resizing, uses, freed>>
      /\ placed = {} /\ hand = NoEntry /\ arg \in Entry /\ arg.path \in Path
      /\ DOMAIN slot = 0 .. nBuckets - 1
  BY DEF Insert, MapInv, Shape, Entry
<1>2. PICK k \in Steps(nBuckets) :
        LET b == Probe[nBuckets][arg.path][k] IN
        /\ FirstStop(arg.path, k)
        /\ slot' = [slot EXCEPT ![b] = arg]
        /\ live' = live \cup {b}
        /\ IF b \in live
           THEN UNCHANGED <<size, nOccupied>>
           ELSE size' = size + 1 /\ nOccupied' = nOccupied + 1
  BY DEF Insert
<1>3. nBuckets \in Sizes
  BY <1>2 DEF Steps, MapInv, Shape
<1> DEFINE b == Probe[nBuckets][arg.path][k]
<1>4. b \in 0 .. nBuckets - 1 /\ b \in DOMAIN slot
  BY <1>1, <1>3, ProbeRange
<1>5. /\ slot' = [slot EXCEPT ![b] = arg] /\ live' = live \cup {b}
      /\ size' \in Nat /\ nOccupied' \in Nat
      /\ FirstStop(arg.path, k) /\ Probe[nBuckets][arg.path][k] = b
  BY <1>2 DEF MapInv, MapTypeOK
<1>6. \A c \in live : slot[c].path = arg.path => c = b
  BY <1>1, <1>3, <1>5, StopIsOwn
<1>7. \A i \in 0 .. k - 1 : Probe[nBuckets][arg.path][i] \in live \ {b}
  BY <1>5 DEF FirstStop, Stops
<1>8. b \in live => slot[b].path = arg.path
  BY <1>5 DEF FirstStop, Stops
<1> HIDE DEF b
<1>9. /\ slot'[b] = arg
      /\ \A c \in DOMAIN slot : c # b => slot'[c] = slot[c]
      /\ DOMAIN slot' = DOMAIN slot
      /\ slot' \in [DOMAIN slot -> Entry \cup {NoEntry}]
  BY <1>1, <1>4, <1>5 DEF MapInv, MapTypeOK
<1>10. /\ \A c \in live : slot[c] \in Entry
       /\ live \subseteq DOMAIN slot
  BY HeldEntries DEF MapInv, MapTypeOK
<1>11. Held = {slot[c] : c \in live} /\ Held' = {slot'[c] : c \in live'}
  BY <1>1 DEF Held
<1>12. \A c \in live' : IF c = b THEN slot'[c] = arg
                        ELSE c \in live /\ slot'[c] = slot[c]
  BY <1>5, <1>9, <1>10
<1>13. arg \in Held' /\ \A e \in Held' : e = arg \/ e \in Held
  BY <1>5, <1>9, <1>11, <1>12
<1>14. ASSUME NEW e \in Held, e.path # arg.path PROVE e \in Held'
  <2>1. PICK c \in live : e = slot[c]
    BY <1>11
  <2>2. c # b
    BY <1>8, <1>14, <2>1
  <2> QED
    BY <1>5, <1>9, <1>10, <1>11, <2>1, <2>2
<1>15. MapTypeOK'
  BY <1>1, <1>4, <1>5, <1>9 DEF MapInv, MapTypeOK
<1>16. Shape'
  BY <1>1, <1>9 DEF MapInv, Shape
<1>17. OneCopy'
  <2>1. \A c, d \in live : slot[c].path = slot[d].path => c = d
    BY DEF MapInv, OneCopy
  <2>2. \A c, d \in live' : slot'[c].path = slot'[d].path => c = d
    BY <1>6, <1>12, <2>1
  <2>3. \A c \in live' : slot'[c] \in Entry
    BY <1>1, <1>10, <1>12
  <2>4. \A c \in live' : slot'[c] # NoEntry /\ slot'[c].path # NoEntry.path
    BY <2>3, NoEntryIsNone DEF Entry
  <2> QED
    BY <1>1, <2>2, <2>4 DEF OneCopy
<1>18. Searchable'
  <2>1. Reached(live, nBuckets)
    BY <1>1 DEF MapInv, Searchable
  <2>2. ASSUME NEW c \in live'
        PROVE  \E l \in Steps(nBuckets) :
                 /\ Probe[nBuckets][slot'[c].path][l] = c
                 /\ \A i \in 0 .. l - 1 : Probe[nBuckets][slot'[c].path][i] \in live' \ {c}
    <3>1. CASE c = b
      BY <1>5, <1>7, <1>9, <3>1
    <3>2. CASE c # b
      <4>1. c \in live /\ slot'[c] = slot[c]
        BY <1>12, <3>2
      <4>2. PICK l \in Steps(nBuckets) :
              /\ Probe[nBuckets][slot[c].path][l] = c
              /\ \A i \in 0 .. l - 1 : Probe[nBuckets][slot[c].path][i] \in live \ {c}
        BY <2>1, <4>1 DEF Reached
      <4> QED
        BY <1>5, <4>1, <4>2
    <3> QED
      BY <3>1, <3>2
  <2>3. Reached(live, nBuckets)'
    BY <1>1, <2>2 DEF Reached
  <2> QED
    BY <1>1, <2>3 DEF Searchable
<1>19. Newest'
  <2>1. \A e \in Held' : e.route <= uses
    BY <1>1, <1>13, HeldEntries DEF MapInv, MapTypeOK, Newest, Entry
  <2> QED
    BY <1>1, <2>1 DEF Newest
<1> QED
  BY <1>1, <1>13, <1>14, <1>15, <1>16, <1>17, <1>18, <1>19 DEF MapInv

\* It is the one step of the abstract table.
LEMMA InsertRegisters ==
    ASSUME MapInv, Insert
    PROVE  Abstract!TableNext
<1> DEFINE p == arg.path
           r == arg.route
<1>1. /\ MapInv'
      /\ arg \in Held' /\ arg \in Entry
      /\ \A e \in Held : e.path # arg.path => e \in Held'
      /\ \A e \in Held' : e = arg \/ e \in Held
  BY InsertInv
<1>2. p \in Path /\ r \in Nat \ {0} /\ stage = "insert"
  BY <1>1 DEF Entry, Insert
<1>3. /\ Table \in [Path -> Nat]
      /\ \A e \in Held : Table[e.path] = e.route
      /\ \A q \in Path : (\A e \in Held : e.path # q) => Table[q] = 0
  BY TableLookup DEF TableIsHeld
<1>4. /\ Table' \in [Path -> Nat]
      /\ \A e \in Held' : Table'[e.path] = e.route
      /\ \A q \in Path : (\A e \in Held' : e.path # q) => Table'[q] = 0
  <2>1. TableIsHeld'
    BY <1>1, TableLookup, PTL
  <2> QED
    BY <2>1 DEF TableIsHeld
<1>5. Table'[p] = r
  BY <1>1, <1>4
<1>6. ASSUME NEW q \in Path, q # p PROVE Table'[q] = Table[q]
  BY <1>1, <1>3, <1>4, <1>6
<1>7. ASSUME NEW q \in Path PROVE Table[q] < r
  <2>1. CASE \E e \in Held : e.path = q
    BY <1>2, <1>3, <2>1 DEF MapInv, Newest
  <2>2. CASE \A e \in Held : e.path # q
    BY <1>2, <1>3, <2>2
  <2> QED
    BY <2>1, <2>2
<1>8. Table' = [Table EXCEPT ![p] = Table'[p]]
  BY <1>2, <1>3, <1>4, <1>6
<1>9. Table'[p] \in Nat /\ \A q \in Path : Table[q] < Table'[p]
  BY <1>2, <1>5, <1>7
<1> HIDE DEF p
<1> QED
  BY <1>2, <1>8, <1>9 DEF Abstract!TableNext

\* A destroyed map freed what it held.
LEMMA DestroyInv ==
    ASSUME MapInv, Destroy
    PROVE  MapInv' /\ DestroyFreesAll' /\ Held' = Held
<1> USE DEF Destroy, counts, resizing
<1>1. Held' = Held /\ Held = {slot[b] : b \in live}
  BY DEF Held, MapInv, Shape
<1>2. \A e \in Held : e.route \in Nat \ {0} /\ e.path \in Path
  BY HeldEntries DEF Entry
<1>3. MapTypeOK'
  <2>1. \A b \in live : slot[b].route \in Nat
    BY <1>1, <1>2
  <2> QED
    BY <2>1 DEF MapInv, MapTypeOK
<1>4. MapInv'
  BY <1>1, <1>3 DEF MapInv, Shape, OneCopy, Searchable, Reached, Newest
<1>5. {Table[p] : p \in Path} \ {0} = {slot[b].route : b \in live}
  <2> USE TableLookup DEF TableIsHeld
  <2>1. ASSUME NEW p \in Path, Table[p] # 0
        PROVE  \E b \in live : Table[p] = slot[b].route
    <3>1. PICK e \in Held : e.path = p
      BY <2>1
    <3> QED
      BY <1>1, <3>1
  <2>2. ASSUME NEW b \in live
        PROVE  slot[b].route # 0 /\ \E p \in Path : Table[p] = slot[b].route
    BY <1>1, <1>2
  <2> QED
    BY <2>1, <2>2
<1>6. DestroyFreesAll'
  BY <1>1, <1>5, TableOfHeld DEF DestroyFreesAll
<1> QED
  BY <1>1, <1>4, <1>6

-----------------------------------------------------------------------------
\* size counts the entries there are, and no table is fuller than its bound.
Counted ==
    /\ Cardinality(live) + Cardinality(placed) + (IF hand = NoEntry THEN 0 ELSE 1) = size
    /\ nOccupied = size
    /\ upperBound = IF nBuckets = 0 THEN 0 ELSE UpperBound(nBuckets)
    /\ size <= upperBound
    /\ stage = "resize" => size >= upperBound
    /\ stage = "insert" => size < upperBound
    /\ stage = "rehash" => size < UpperBound(newBuckets)

\* The bounds of tables: below their sizes, above their halves, growing.
LEMMA Bounds ==
    ASSUME NEW m \in Sizes
    PROVE  /\ m \in Nat /\ m >= 4 /\ PowerOfTwo(m) /\ m % 2 = 0
           /\ UpperBound(m) \in Nat /\ UpperBound(m) < m /\ UpperBound(m) >= 1
           /\ 2 * UpperBound(m) >= m
           /\ \A w \in Sizes : w > m => UpperBound(w) > UpperBound(m)
<1>1. \A w \in Sizes : w \in Nat /\ w >= 4 /\ PowerOfTwo(w)
  BY RouteMapAssumption DEF PowerOfTwo
<1>2. ASSUME NEW w \in Sizes PROVE w % 2 = 0
  <2>1. w \in Nat /\ w >= 4 /\ w \in 2 .. w
    BY <1>1
  <2>2. w % w = 0
    BY <2>1
  <2> QED
    BY <1>1, <2>1, <2>2 DEF PowerOfTwo
<1>3. m \in Nat /\ m >= 4
  BY <1>1
<1>4. /\ UpperBound(m) \in Nat /\ UpperBound(m) < m /\ UpperBound(m) >= 1
      /\ 2 * UpperBound(m) >= m
  BY <1>3 DEF UpperBound
<1>5. ASSUME NEW w \in Sizes, w > m PROVE UpperBound(w) > UpperBound(m)
  <2>1. w \in Nat /\ w % 2 = 0 /\ m % 2 = 0
    BY <1>1, <1>2
  <2>2. w >= m + 2
    BY <1>3, <1>5, <2>1
  <2> QED
    BY <1>3, <2>1, <2>2 DEF UpperBound
<1> QED
  BY <1>1, <1>2, <1>4, <1>5

\* The buckets are finitely many.
LEMMA FiniteTables ==
    ASSUME MapTypeOK
    PROVE  /\ IsFiniteSet(live) /\ Cardinality(live) \in Nat
           /\ IsFiniteSet(placed) /\ Cardinality(placed) \in Nat
<1>1. IsFiniteSet(0 .. nBuckets - 1) /\ IsFiniteSet(0 .. newBuckets - 1)
  <2>1. 0 \in Int /\ nBuckets - 1 \in Int /\ newBuckets - 1 \in Int
    BY DEF MapTypeOK
  <2> QED
    BY <2>1, FS_Interval
<1>2. IsFiniteSet(live) /\ IsFiniteSet(placed)
  BY <1>1, FS_Subset DEF MapTypeOK
<1> QED
  BY <1>2, FS_CardinalityType

\* A resize always finds a table that is large enough: the one there is has
\* no deleted buckets, so it is full and not half empty.
LEMMA ResizeCounted ==
    ASSUME MapInv, Counted, Resize
    PROVE  Counted'
<1> USE DEF counts, resizing
<1>1. /\ stage = "resize" /\ placed = {} /\ hand = NoEntry
      /\ nBuckets \in Nat /\ size \in Nat /\ nBuckets \in Sizes \cup {0}
      /\ UNCHANGED <<counts, live, arg, uses, freed>>
      /\ size = upperBound
  BY DEF Resize, MapInv, Shape, MapTypeOK, Counted
<1>2. PICK w \in Sizes :
        /\ RoundedUp(w, IF nBuckets > 2 * size THEN nBuckets - 1 ELSE nBuckets + 1)
        /\ IF size >= UpperBound(w)
           THEN stage' = "insert" /\ UNCHANGED <<resizing, slot>>
           ELSE /\ stage' = "rehash"
                /\ newBuckets' = w /\ placed' = {} /\ j' = 0 /\ hand' = NoEntry
  BY DEF Resize
<1>3. size < UpperBound(w)
  <2>1. CASE nBuckets = 0
    <3>1. size = 0
      BY <1>1, <2>1 DEF Counted
    <3> QED
      BY <3>1, Bounds
  <2>2. CASE nBuckets \in Sizes
    <3>1. nBuckets >= 4 /\ size = UpperBound(nBuckets)
      BY <1>1, <2>2, Bounds DEF Counted
    <3>2. ~(nBuckets > 2 * size)
      BY <1>1, <2>2, <3>1, Bounds
    <3>3. w > nBuckets
      BY <1>1, <1>2, <3>2, Bounds DEF RoundedUp
    <3> QED
      BY <2>2, <3>1, <3>3, Bounds
  <2> QED
    BY <1>1, <2>1, <2>2
<1>4. stage' = "rehash" /\ newBuckets' = w /\ placed' = {} /\ hand' = NoEntry
  <2>1. UpperBound(w) \in Nat
    BY Bounds
  <2> QED
    BY <1>1, <1>2, <1>3, <2>1
<1> QED
  BY <1>1, <1>3, <1>4 DEF Counted

\* An entry that moves is counted where it is.
LEMMA TakeCounted ==
    ASSUME MapInv, Counted, Take
    PROVE  Counted'
<1> USE DEF Take, counts
<1>1. /\ stage = "rehash" /\ stage' = stage /\ hand = NoEntry
      /\ live' = live \ {j}
      /\ hand' = IF j \in live THEN slot[j] ELSE NoEntry
      /\ UNCHANGED <<placed, newBuckets, nBuckets, size, nOccupied, upperBound>>
  OBVIOUS
<1>2. /\ IsFiniteSet(live) /\ Cardinality(live) \in Nat /\ Cardinality(placed) \in Nat
      /\ size \in Nat
  BY FiniteTables DEF MapInv, MapTypeOK
<1>3. Cardinality(live') = IF j \in live THEN Cardinality(live) - 1 ELSE Cardinality(live)
  BY <1>1, <1>2, FS_RemoveElement
<1>4. j \in live => hand' # NoEntry
  BY <1>1, HeldEntries, NoEntryIsNone
<1>5. Cardinality(live') + Cardinality(placed') + (IF hand' = NoEntry THEN 0 ELSE 1) = size'
  BY <1>1, <1>2, <1>3, <1>4 DEF Counted
<1> QED
  BY <1>1, <1>5 DEF Counted

\* So is one that changes places with another.
LEMMA PlaceCounted ==
    ASSUME MapInv, Counted, Place
    PROVE  Counted'
<1> USE DEF counts
<1>1. /\ stage = "rehash" /\ hand # NoEntry
      /\ UNCHANGED <<counts, stage, newBuckets>>
  BY DEF Place
<1>2. PICK b :
        /\ b \notin placed
        /\ placed' = placed \cup {b}
        /\ hand' = IF b \in live THEN slot[b] ELSE NoEntry
        /\ live' = live \ {b}
  BY DEF Place
<1>3. /\ IsFiniteSet(live) /\ Cardinality(live) \in Nat
      /\ IsFiniteSet(placed) /\ Cardinality(placed) \in Nat /\ size \in Nat
  BY FiniteTables DEF MapInv, MapTypeOK
<1>4. Cardinality(live') = IF b \in live THEN Cardinality(live) - 1 ELSE Cardinality(live)
  BY <1>2, <1>3, FS_RemoveElement
<1>5. Cardinality(placed') = Cardinality(placed) + 1
  BY <1>2, <1>3, FS_AddElement
<1>6. b \in live => hand' # NoEntry
  BY <1>2, HeldEntries, NoEntryIsNone
<1>7. Cardinality(live') + Cardinality(placed') + (IF hand' = NoEntry THEN 0 ELSE 1) = size'
  BY <1>1, <1>2, <1>3, <1>4, <1>5, <1>6 DEF Counted
<1> QED
  BY <1>1, <1>7 DEF Counted

\* A rehash ends with everything in the new table.
LEMMA RehashedCounted ==
    ASSUME MapInv, Counted, Rehashed
    PROVE  Counted'
<1>1. /\ stage = "rehash" /\ hand = NoEntry /\ j = nBuckets
      /\ live' = placed /\ placed' = {} /\ hand' = NoEntry
      /\ nBuckets' = newBuckets /\ nOccupied' = size /\ size' = size
      /\ upperBound' = UpperBound(newBuckets) /\ stage' = "insert"
      /\ newBuckets \in Sizes /\ size \in Nat
  BY DEF Rehashed, MapInv, Shape, MapTypeOK
<1>2. live = {}
  BY <1>1 DEF MapInv, MapTypeOK, Shape
<1>3. Cardinality(live) = 0 /\ Cardinality(placed') = 0 /\ Cardinality(placed) \in Nat
  BY <1>1, <1>2, FS_EmptySet, FiniteTables DEF MapInv
<1>4. newBuckets # 0 /\ UpperBound(newBuckets) \in Nat
  BY <1>1, Bounds
<1> QED
  BY <1>1, <1>3, <1>4 DEF Counted

\* A new bucket is one more entry.
LEMMA InsertCounted ==
    ASSUME MapInv, Counted, Insert
    PROVE  Counted'
<1> USE DEF resizing
<1>1. /\ stage = "insert" /\ stage' = "idle"
      /\ UNCHANGED <<nBuckets, upperBound, placed, hand>>
  BY DEF Insert
<1>2. PICK b :
        /\ live' = live \cup {b}
        /\ IF b \in live
           THEN UNCHANGED <<size, nOccupied>>
           ELSE size' = size + 1 /\ nOccupied' = nOccupied + 1
  BY DEF Insert
<1>3. /\ IsFiniteSet(live) /\ Cardinality(live) \in Nat /\ Cardinality(placed) \in Nat
      /\ size \in Nat /\ upperBound \in Nat
  BY FiniteTables DEF MapInv, MapTypeOK
<1>4. Cardinality(live') = IF b \in live THEN Cardinality(live) ELSE Cardinality(live) + 1
  BY <1>2, <1>3, FS_AddElement
<1>5. /\ size' = IF b \in live THEN size ELSE size + 1
      /\ nOccupied' = size'
  BY <1>2 DEF Counted
<1>6. Cardinality(live') + Cardinality(placed') + (IF hand' = NoEntry THEN 0 ELSE 1) = size'
  BY <1>1, <1>3, <1>4, <1>5 DEF Counted
<1>7. size' <= upperBound'
  BY <1>1, <1>3, <1>5 DEF Counted
<1> QED
  BY <1>1, <1>5, <1>6, <1>7 DEF Counted

\* Every step of the map keeps the count.
LEMMA CountedStep ==
    ASSUME MapInv, Counted, [MapNext]_mapVars
    PROVE  Counted'
<1>1. ASSUME NEW p \in Path, Use(p) PROVE Counted'
  <2>1. /\ UNCHANGED <<counts, live, placed, hand>>
        /\ stage' = IF nOccupied >= upperBound THEN "resize" ELSE "insert"
        /\ size \in Nat /\ upperBound \in Nat
    BY <1>1 DEF Use, resizing, MapInv, MapTypeOK
  <2> QED
    BY <2>1 DEF Counted, counts
<1>2. CASE Destroy
  BY <1>2 DEF Destroy, resizing, counts, Counted
<1>3. CASE UNCHANGED mapVars
  BY <1>3 DEF mapVars, resizing, counts, Counted
<1> QED
  BY <1>1, <1>2, <1>3, ResizeCounted, TakeCounted, PlaceCounted, RehashedCounted,
     InsertCounted DEF MapNext, MapStep

\* The probing comes to a bucket outside any set that is smaller than the
\* table: its first m steps lead to m different buckets.
LEMMA ProbingReaches ==
    ASSUME NEW m \in Sizes, NEW S \in SUBSET (0 .. m - 1), Cardinality(S) < m,
           NEW p \in Path
    PROVE  \E k \in Steps(m) : Probe[m][p][k] \notin S
<1>1. m \in Nat \ {0} /\ PowerOfTwo(m) /\ Hash[p] \in Nat
  BY Bounds, RouteMapAssumption
<1>2. \A k \in 0 .. m - 1 : k \in Steps(m)
  BY <1>1 DEF Steps
<1> DEFINE D == 0 .. m - 1
           f == [k \in D |-> Probe[m][p][k]]
<1>3. SUFFICES ASSUME \A k \in Steps(m) : Probe[m][p][k] \in S PROVE FALSE
  OBVIOUS
<1>4. f \in [D -> S]
  BY <1>2, <1>3
<1>5. IsFiniteSet(D) /\ Cardinality(D) = m /\ IsFiniteSet(S)
  <2>1. 0 \in Int /\ m - 1 \in Int
    BY <1>1
  <2>2. IsFiniteSet(D) /\ Cardinality(D) = IF 0 > m - 1 THEN 0 ELSE (m - 1) - 0 + 1
    BY <2>1, FS_Interval
  <2>3. IsFiniteSet(S)
    BY <2>2, FS_Subset
  <2> QED
    BY <1>1, <2>2, <2>3
<1>6. \E i, k \in D : i # k /\ f[i] = f[k]
  <2> HIDE DEF D, f
  <2> QED
    BY <1>4, <1>5, FS_PigeonHole
<1>7. PICK i \in 0 .. m - 1, k \in 0 .. m - 1 : i < k /\ Probe[m][p][i] = Probe[m][p][k]
  <2>1. PICK a \in D, b \in D : a # b /\ f[a] = f[b]
    BY <1>6
  <2>2. Probe[m][p][a] = Probe[m][p][b]
    BY <2>1
  <2> QED
    BY <1>1, <2>1, <2>2
<1>8. /\ Probe[m][p][i] = (Hash[p] + (i * (i + 1)) \div 2) % m
      /\ Probe[m][p][k] = (Hash[p] + (k * (k + 1)) \div 2) % m
  BY <1>2 DEF Probe
<1> QED
  BY <1>1, <1>7, <1>8, TriangularProbes

\* With the count below the bound and the bound below the size, a bucket is free.
LEMMA ProbingIsFinite == MapInv /\ Counted => ProbingEnds
<1> SUFFICES ASSUME MapInv, Counted PROVE ProbingEnds
  OBVIOUS
<1>1. /\ nBuckets \in Sizes \cup {0} /\ size \in Nat /\ upperBound \in Nat
      /\ live \subseteq 0 .. nBuckets - 1 /\ placed \subseteq 0 .. newBuckets - 1
      /\ stage = "rehash" => newBuckets \in Sizes
      /\ Cardinality(live) \in Nat /\ Cardinality(placed) \in Nat
  BY FiniteTables DEF MapInv, MapTypeOK, Shape
<1>2. Cardinality(live) <= size /\ Cardinality(placed) <= size
  BY <1>1 DEF Counted
<1>3. ASSUME stage \in {"idle", "insert"}, nBuckets > 0, NEW p \in Path
      PROVE  \E k \in Steps(nBuckets) : Probe[nBuckets][p][k] \notin live
  <2>1. nBuckets \in Sizes
    BY <1>1, <1>3
  <2>2. size <= UpperBound(nBuckets)
    BY <1>3 DEF Counted
  <2>3. Cardinality(live) < nBuckets
    BY <1>1, <1>2, <2>1, <2>2, Bounds
  <2> QED
    BY <1>1, <2>1, <2>3, ProbingReaches
<1>4. ASSUME stage = "rehash", NEW p \in Path
      PROVE  \E k \in Steps(newBuckets) : Probe[newBuckets][p][k] \notin placed
  <2>1. newBuckets \in Sizes /\ size < UpperBound(newBuckets)
    BY <1>1, <1>4 DEF Counted
  <2>2. Cardinality(placed) < newBuckets
    BY <1>1, <1>2, <2>1, Bounds
  <2> QED
    BY <1>1, <2>1, <2>2, ProbingReaches
<1> QED
  BY <1>3, <1>4 DEF ProbingEnds

FullInv == MapInv /\ Counted /\ DestroyFreesAll

\* Every step keeps the invariant, and registers or leaves the table alone.
LEMMA MapNextInv == FullInv /\ [MapNext]_mapVars =>
                      FullInv' /\ (Abstract!TableNext \/ Table' = Table)
<1> SUFFICES ASSUME FullInv, [MapNext]_mapVars
             PROVE  FullInv' /\ (Abstract!TableNext \/ Table' = Table)
  OBVIOUS
<1>0. Counted'
  BY CountedStep DEF FullInv
<1> USE <1>0 DEF FullInv
<1>1. ASSUME NEW p \in Path, Use(p)
      PROVE  FullInv' /\ Table' = Table
  <2>1. stage' # "gone"
    BY <1>1 DEF Use
  <2> QED
    BY <1>1, <2>1, UseInv, TableOfHeld DEF DestroyFreesAll
<1>2. CASE Resize \/ Take \/ Place \/ Rehashed
  <2>1. stage' # "gone"
    BY <1>2 DEF Resize, Take, Place, Rehashed
  <2> QED
    BY <1>2, <2>1, ResizeInv, TakeInv, PlaceInv, RehashedInv, TableOfHeld
    DEF DestroyFreesAll
<1>3. CASE Insert
  <2>1. stage' # "gone"
    BY <1>3 DEF Insert
  <2> QED
    BY <1>3, <2>1, InsertInv, InsertRegisters DEF DestroyFreesAll
<1>4. CASE Destroy
  BY <1>4, DestroyInv, TableOfHeld
<1>5. CASE UNCHANGED mapVars
  <2> USE <1>5 DEF mapVars, counts, resizing
  <2>1. Held' = Held
    BY DEF Held
  <2>2. MapInv'
    BY <2>1 DEF MapInv, MapTypeOK, Shape, OneCopy, Searchable, Reached, Newest
  <2>3. DestroyFreesAll'
    BY <2>1, TableOfHeld DEF DestroyFreesAll
  <2> QED
    BY <2>1, <2>2, <2>3, TableOfHeld
<1> QED
  BY <1>1, <1>2, <1>3, <1>4, <1>5 DEF MapNext, MapStep

\* The empty map has freed nothing.
LEMMA MapInitFull == MapInit => FullInv
BY MapInitInv, FS_EmptySet DEF FullInv, Counted, DestroyFreesAll, MapInit

\* The invariant is enough for kh_get: the bucket it finds is the one that
\* holds the path.
LEMMA GetIsTable == MapInv => GetFindsLatest
<1> SUFFICES ASSUME MapInv, stage = "idle", NEW p \in Path
             PROVE  MapGet(p) = Table[p]
  BY TableLookup DEF GetFindsLatest, TableIsHeld
<1> USE TableLookup DEF TableIsHeld
<1>1. Held = {slot[b] : b \in live}
  BY DEF Held, MapInv, Shape
<1>2. \A b \in Found(p) : b \in live /\ slot[b].path = p
  BY DEF Found, FirstStop, Stops
<1>3. CASE \A e \in Held : e.path # p
  BY <1>1, <1>2, <1>3 DEF MapGet
<1>4. CASE \E e \in Held : e.path = p
  <2>1. PICK c \in live : slot[c].path = p
    BY <1>1, <1>4
  <2>2. \A b \in live : slot[b].path = p => b = c
    BY <2>1 DEF MapInv, OneCopy
  <2>3. PICK l \in Steps(nBuckets) :
          /\ Probe[nBuckets][p][l] = c
          /\ \A i \in 0 .. l - 1 : Probe[nBuckets][p][i] \in live \ {c}
    BY <2>1 DEF MapInv, Searchable, Reached
  <2>4. FirstStop(p, l)
    BY <2>1, <2>2, <2>3 DEF FirstStop, Stops
  <2>5. c \in Found(p)
    BY <2>1, <2>3, <2>4 DEF Found
  <2>6. (CHOOSE b \in Found(p) : TRUE) = c
    BY <1>2, <2>2, <2>5
  <2> QED
    BY <1>1, <2>1, <2>5, <2>6 DEF MapGet
<1> QED
  BY <1>3, <1>4

-----------------------------------------------------------------------------
\* Requests and http_serve leave the map alone; the rest are its steps.
LEMMA RoutesSteps == [RoutesNext]_vars => [MapNext]_mapVars
<1> SUFFICES ASSUME [RoutesNext]_vars PROVE [MapNext]_mapVars
  OBVIOUS
<1>1. ASSUME NEW p \in Path, Registers(p) PROVE MapNext
  BY <1>1 DEF Registers, MapNext
<1>2. CASE MapStep \/ Destroy
  BY <1>2 DEF MapNext
<1>3. CASE Serve
  BY <1>3 DEF Serve
<1>4. ASSUME NEW p, NEW m, Request(p, m) PROVE UNCHANGED mapVars
  BY <1>4 DEF Request
<1>5. ASSUME NEW p, LongRequest(p) PROVE UNCHANGED mapVars
  BY <1>5 DEF LongRequest
<1>6. CASE Ended \/ UNCHANGED vars
  BY <1>6 DEF Ended, vars
<1> QED
  BY <1>1, <1>2, <1>3, <1>4, <1>5, <1>6 DEF RoutesNext

\* The table that is empty at the start.
LEMMA InitEmpty == MapInit => Table = [p \in Path |-> 0]
BY DEF MapInit, Table, Held

\* The invariant holds of the map by itself and in the server.
THEOREM MapInvariant == MapSpec => []FullInv
<1>1. FullInv /\ [MapNext]_mapVars => FullInv'
  BY MapNextInv
<1> QED
  BY <1>1, MapInitFull, PTL DEF MapSpec

\* Whatever the server does (http.c:343-405) the map sees only its own steps.
THEOREM ServerIsMap == RoutesSpec => MapSpec
<1>1. RoutesInit => MapInit
  BY DEF RoutesInit
<1> QED
  BY <1>1, RoutesSteps, PTL DEF RoutesSpec, MapSpec

\* The map's variables have their types.
THEOREM MapTypeCorrect == RoutesSpec => []MapTypeOK
<1>1. FullInv => MapTypeOK
  BY DEF FullInv, MapInv
<1> QED
  BY <1>1, MapInvariant, ServerIsMap, PTL

\* While the table is rehashed in the memory it is in, no entry is lost in two
\* places or overwritten (khash.h:269-294).
THEOREM RehashKeepsOneCopy == RoutesSpec => []OneCopy
<1>1. FullInv => OneCopy
  BY DEF FullInv, MapInv
<1> QED
  BY <1>1, MapInvariant, ServerIsMap, PTL

\* A lookup gives the route that was registered last for its path.
THEOREM LookupCorrect == RoutesSpec => []GetFindsLatest
<1>1. FullInv => GetFindsLatest
  BY GetIsTable DEF FullInv
<1> QED
  BY <1>1, MapInvariant, ServerIsMap, PTL

\* Every probing loop of khash.h comes to a bucket it stops at.
THEOREM ProbingIsBounded == RoutesSpec => []ProbingEnds
<1>1. FullInv => ProbingEnds
  BY ProbingIsFinite DEF FullInv
<1> QED
  BY <1>1, MapInvariant, ServerIsMap, PTL

\* Destroying the map frees what it can reach and nothing twice.
THEOREM DestroyComplete == RoutesSpec => []DestroyFreesAll
<1>1. FullInv => DestroyFreesAll
  BY DEF FullInv
<1> QED
  BY <1>1, MapInvariant, ServerIsMap, PTL

\* kh_put with its rehash implements one step of the abstract table.
THEOREM MapImplementsTable == MapSpec => ImplementsTable
<1>1. MapInit => Abstract!TableInit
  BY InitEmpty DEF Abstract!TableInit, Abstract!NoRoute
<1>2. FullInv /\ [MapNext]_mapVars => [Abstract!TableNext]_Table
  BY MapNextInv
<1> QED
  BY <1>1, <1>2, MapInvariant, PTL DEF MapSpec, ImplementsTable, Abstract!TableSpec

\* And so do the registrations of the server, among its requests.
THEOREM RoutesImplementTable == RoutesSpec => ImplementsTable
BY ServerIsMap, MapImplementsTable, PTL

-----------------------------------------------------------------------------
\* A function on 1 .. n is a sequence of that length.
LEMMA SequenceOfLength ==
    ASSUME NEW S, NEW n \in Nat, NEW f \in [1 .. n -> S]
    PROVE  f \in Seq(S) /\ Len(f) = n
<1>1. f \in Seq(S)
  BY SeqDef
<1>2. Len(f) \in Nat /\ DOMAIN f = 1 .. Len(f) /\ DOMAIN f = 1 .. n
  BY <1>1, LenProperties
<1> DEFINE l == Len(f)
<1> HIDE DEF l
<1>3. l \in Nat /\ 1 .. l = 1 .. n
  BY <1>2 DEF l
<1>4. l = n
  <2>1. l > n => l \in 1 .. n
    BY <1>3
  <2>2. n > l => n \in 1 .. l
    BY <1>3
  <2> QED
    BY <1>3, <2>1, <2>2
<1> QED
  BY <1>1, <1>4 DEF l

\* The first i elements.
LEMMA HeadOf ==
    ASSUME NEW S, NEW s \in Seq(S), NEW i \in Nat, i <= Len(s)
    PROVE  /\ SubSeq(s, 1, i) \in Seq(S) /\ Len(SubSeq(s, 1, i)) = i
           /\ \A k \in 1 .. i : SubSeq(s, 1, i)[k] = s[k]
<1>1. Len(s) \in Nat /\ \A k \in 1 .. Len(s) : s[k] \in S
  BY LenProperties, ElementOfSeq
<1>2. 1 \in Int /\ i \in Int /\ \A k \in 1 .. i : s[k] \in S
  BY <1>1
<1>3. /\ SubSeq(s, 1, i) \in Seq(S)
      /\ Len(SubSeq(s, 1, i)) = IF 1 <= i THEN i - 1 + 1 ELSE 0
      /\ \A k \in 1 .. i - 1 + 1 : SubSeq(s, 1, i)[k] = s[1 + k - 1]
  BY <1>2, SubSeqProperties
<1>4. i - 1 + 1 = i /\ \A k \in 1 .. i : 1 + k - 1 = k
  OBVIOUS
<1> QED
  BY <1>3, <1>4

\* Reverse, by its elements.
LEMMA ReverseIs ==
    ASSUME NEW S, NEW s \in Seq(S)
    PROVE  /\ Reverse(s) \in Seq(S) /\ Len(Reverse(s)) = Len(s)
           /\ \A i \in 1 .. Len(s) : Reverse(s)[i] = s[Len(s) + 1 - i]
<1> DEFINE n == Len(s)
<1>1. n \in Nat /\ \A k \in 1 .. n : s[k] \in S
  BY LenProperties, ElementOfSeq
<1>2. Reverse(s) = [i \in 1 .. n |-> s[(n - i) + 1]]
  BY DEF Reverse
<1>3. \A i \in 1 .. n : (n - i) + 1 = n + 1 - i /\ n + 1 - i \in 1 .. n
  BY <1>1
<1> HIDE DEF n
<1>4. Reverse(s) \in [1 .. n -> S] /\ \A i \in 1 .. n : Reverse(s)[i] = s[n + 1 - i]
  BY <1>1, <1>2, <1>3
<1>5. Reverse(s) \in Seq(S) /\ Len(Reverse(s)) = n
  BY <1>1, <1>4, SequenceOfLength
<1> QED
  BY <1>4, <1>5 DEF n

\* The end of a text, as IsSuffix has it with both reversed.
LEMMA TailMeans ==
    ASSUME NEW s \in Seq(0 .. 255)
    PROVE  IsSuffix(TailBytes, s) <=>
             Len(s) >= 4 /\ \A k \in 1 .. 4 : s[Len(s) - 4 + k] = TailBytes[k]
<1> DEFINE r == Reverse(s)
           e == Reverse(TailBytes)
           n == Len(s)
<1>1. n \in Nat
  BY LenProperties
<1>2. TailBytes \in Seq(0 .. 255) /\ Len(TailBytes) = 4
  BY DEF TailBytes
<1>4. /\ e \in Seq(0 .. 255) /\ Len(e) = 4
      /\ \A i \in 1 .. 4 : e[i] = TailBytes[5 - i]
  <2>1. /\ e \in Seq(0 .. 255) /\ Len(e) = Len(TailBytes)
        /\ \A i \in 1 .. Len(TailBytes) : e[i] = TailBytes[Len(TailBytes) + 1 - i]
    BY <1>2, ReverseIs
  <2>2. 4 + 1 = 5
    OBVIOUS
  <2> QED
    BY <1>2, <2>1, <2>2
<1>5. /\ r \in Seq(0 .. 255) /\ Len(r) = n
      /\ \A i \in 1 .. n : r[i] = s[n + 1 - i]
  BY ReverseIs
<1>6. IsSuffix(TailBytes, s) <=> 4 <= n /\ SubSeq(e, 1, 4) = SubSeq(r, 1, 4)
  BY <1>4, <1>5 DEF IsSuffix, IsPrefix
<1> HIDE DEF r, e, n
<1>7. ASSUME 4 <= n
      PROVE  SubSeq(e, 1, 4) = SubSeq(r, 1, 4) <=> \A i \in 1 .. 4 : e[i] = r[i]
  <2>1. /\ SubSeq(e, 1, 4) \in Seq(0 .. 255) /\ Len(SubSeq(e, 1, 4)) = 4
        /\ \A i \in 1 .. 4 : SubSeq(e, 1, 4)[i] = e[i]
    <3>1. 4 \in Nat /\ 4 <= Len(e) /\ e \in Seq(0 .. 255)
      BY <1>4
    <3> QED
      BY <3>1, HeadOf
  <2>2. /\ SubSeq(r, 1, 4) \in Seq(0 .. 255) /\ Len(SubSeq(r, 1, 4)) = 4
        /\ \A i \in 1 .. 4 : SubSeq(r, 1, 4)[i] = r[i]
    BY <1>5, <1>7, HeadOf
  <2> DEFINE se == SubSeq(e, 1, 4)
             sr == SubSeq(r, 1, 4)
  <2> HIDE DEF se, sr
  <2>3. (\A i \in 1 .. 4 : se[i] = sr[i]) => se = sr
    BY <2>1, <2>2, SeqEqual DEF se, sr
  <2> QED
    BY <2>1, <2>2, <2>3 DEF se, sr
<1>8. ASSUME 4 <= n
      PROVE  (\A i \in 1 .. 4 : e[i] = r[i]) <=>
             \A k \in 1 .. 4 : s[n - 4 + k] = TailBytes[k]
  <2>1. \A i \in 1 .. 4 : e[i] = TailBytes[5 - i] /\ r[i] = s[n + 1 - i] /\ 5 - i \in 1 .. 4
    BY <1>1, <1>4, <1>5, <1>8
  <2>2. \A k \in 1 .. 4 : 5 - k \in 1 .. 4 /\ 5 - (5 - k) = k /\ n + 1 - (5 - k) = n - 4 + k
    BY <1>1
  <2> QED
    BY <2>1, <2>2
<1> QED
  BY <1>1, <1>6, <1>7, <1>8 DEF n

\* Comparing the tail and the stem finds the paths that go on after the stem.
LEMMA CoversIsUnder ==
    ASSUME NEW p \in Path, NEW q \in Path
    PROVE  p \in Covers[q] <=> q \in Under[p]
<1> DEFINE s == Text[q]
           t == Text[p]
           n == Len(s)
<1>1. s \in Seq(0 .. 255) /\ t \in Seq(0 .. 255) /\ n \in Nat /\ Len(t) \in Nat
  BY RoutesAssumption
<1>2. p \in Covers[q] <=>
        IsSuffix(TailBytes, s) /\ Len(t) > n /\ IsPrefix(SubSeq(s, 1, n - 4), t)
  BY DEF Covers, Stem
<1>3. q \in Under[p] <=> \E i \in 0 .. Len(t) - 5 : s = SubSeq(t, 1, i) \o TailBytes
  BY DEF Under
<1> HIDE DEF s, t
<1>4. TailBytes \in Seq(0 .. 255) /\ Len(TailBytes) = 4
  BY DEF TailBytes
<1>5. ASSUME IsSuffix(TailBytes, s), Len(t) > n, IsPrefix(SubSeq(s, 1, n - 4), t)
      PROVE  \E i \in 0 .. Len(t) - 5 : s = SubSeq(t, 1, i) \o TailBytes
  <2>1. n >= 4 /\ \A k \in 1 .. 4 : s[n - 4 + k] = TailBytes[k]
    BY <1>1, <1>5, TailMeans
  <2> DEFINE i == n - 4
             stem == SubSeq(s, 1, i)
             head == SubSeq(t, 1, i)
  <2>2. i \in 0 .. Len(t) - 5
    BY <1>1, <1>5, <2>1
  <2>11. i \in Nat /\ i <= Len(s) /\ i <= Len(t)
    BY <1>1, <2>1, <2>2 DEF n
  <2>3. stem \in Seq(0 .. 255) /\ Len(stem) = i /\ \A k \in 1 .. i : stem[k] = s[k]
    <3> HIDE DEF i
    <3> QED
      BY <1>1, <2>11, HeadOf
  <2>4. head \in Seq(0 .. 255) /\ Len(head) = i
    <3> HIDE DEF i
    <3> QED
      BY <1>1, <2>11, HeadOf
  <2>5. SubSeq(stem, 1, i) = stem
    <3> HIDE DEF stem, i
    <3> QED
      BY <2>3, SubSeqFull
  <2>6. stem = head
    BY <1>5, <2>3, <2>5 DEF IsPrefix
  <2> DEFINE u == head \o TailBytes
  <2>7. /\ u \in Seq(0 .. 255) /\ Len(u) = i + 4
        /\ \A k \in 1 .. i + 4 : u[k] = IF k <= i THEN head[k] ELSE TailBytes[k - i]
    <3>1. i \in Nat
      BY <2>2
    <3> HIDE DEF head, i
    <3>2. /\ head \o TailBytes \in Seq(0 .. 255)
          /\ Len(head \o TailBytes) = Len(head) + Len(TailBytes)
          /\ \A k \in 1 .. Len(head) + Len(TailBytes) :
                (head \o TailBytes)[k] =
                    IF k <= Len(head) THEN head[k] ELSE TailBytes[k - Len(head)]
      BY <1>4, <2>4, ConcatProperties
    <3> QED
      BY <1>4, <2>4, <3>1, <3>2
  <2>8. Len(u) = n
    BY <1>1, <2>7
  <2>9. ASSUME NEW k \in 1 .. n PROVE u[k] = s[k]
    <3>1. CASE k <= i
      <4>1. k \in 1 .. i /\ k \in 1 .. i + 4
        BY <1>1, <2>2, <3>1
      <4> HIDE DEF i, u, stem, head
      <4> QED
        BY <2>3, <2>6, <2>7, <3>1, <4>1
    <3>2. CASE k > i
      <4>1. k - i \in 1 .. 4 /\ n - 4 + (k - i) = k /\ ~(k <= i) /\ k \in 1 .. i + 4
        BY <1>1, <2>2, <3>2
      <4> HIDE DEF i, u
      <4> QED
        BY <2>1, <2>7, <4>1
    <3>3. k <= i \/ k > i
      BY <1>1
    <3> QED
      BY <3>1, <3>2, <3>3
  <2>10. u = s
    <3> HIDE DEF u
    <3> QED
      BY <1>1, <2>7, <2>8, <2>9, SeqEqual
  <2> QED
    BY <2>2, <2>10
<1>6. ASSUME NEW i \in 0 .. Len(t) - 5, s = SubSeq(t, 1, i) \o TailBytes
      PROVE  IsSuffix(TailBytes, s) /\ Len(t) > n /\ IsPrefix(SubSeq(s, 1, n - 4), t)
  <2> DEFINE head == SubSeq(t, 1, i)
  <2>1. /\ i \in Nat /\ head \in Seq(0 .. 255) /\ Len(head) = i
        /\ \A k \in 1 .. i : head[k] = t[k]
    <3>1. i \in Nat /\ i <= Len(t)
      BY <1>1
    <3> QED
      BY <1>1, <3>1, HeadOf
  <2>2. /\ n = i + 4
        /\ \A k \in 1 .. i + 4 : s[k] = IF k <= i THEN head[k] ELSE TailBytes[k - i]
    <3> HIDE DEF head
    <3>1. /\ head \o TailBytes \in Seq(0 .. 255)
          /\ Len(head \o TailBytes) = Len(head) + Len(TailBytes)
          /\ \A k \in 1 .. Len(head) + Len(TailBytes) :
                (head \o TailBytes)[k] =
                    IF k <= Len(head) THEN head[k] ELSE TailBytes[k - Len(head)]
      BY <1>4, <2>1, ConcatProperties
    <3>2. s = head \o TailBytes
      BY <1>6 DEF head
    <3> QED
      BY <1>4, <2>1, <3>1, <3>2
  <2>3. IsSuffix(TailBytes, s)
    <3>1. ASSUME NEW k \in 1 .. 4 PROVE s[n - 4 + k] = TailBytes[k]
      <4>1. i + k \in 1 .. i + 4 /\ ~(i + k <= i) /\ (i + k) - i = k /\ n - 4 + k = i + k
        BY <2>1, <2>2
      <4> HIDE DEF head
      <4> QED
        BY <2>2, <4>1
    <3> QED
      BY <1>1, <2>1, <2>2, <3>1, TailMeans
  <2>4. IsPrefix(SubSeq(s, 1, n - 4), t)
    <3> DEFINE stem == SubSeq(s, 1, i)
    <3>1. stem \in Seq(0 .. 255) /\ Len(stem) = i /\ \A k \in 1 .. i : stem[k] = s[k]
      <4>1. i \in Nat /\ i <= Len(s)
        BY <2>1, <2>2 DEF n
      <4> QED
        BY <1>1, <4>1, HeadOf
    <3>2. \A k \in 1 .. i : stem[k] = head[k]
      BY <2>1, <2>2, <3>1
    <3>3. n - 4 = i
      BY <2>1, <2>2
    <3> HIDE DEF stem, head
    <3>4. stem = head
      BY <2>1, <3>1, <3>2, SeqEqual
    <3>5. SubSeq(stem, 1, i) = stem
      BY <3>1, SubSeqFull
    <3>6. i <= Len(t)
      BY <1>1
    <3>7. IsPrefix(stem, t)
      BY <3>1, <3>4, <3>5, <3>6 DEF IsPrefix, head
    <3> QED
      BY <3>3, <3>7 DEF stem
  <2>5. Len(t) > n
    BY <1>1, <2>1, <2>2
  <2> QED
    BY <2>3, <2>4, <2>5
<1> QED
  BY <1>2, <1>3, <1>5, <1>6

\* The route that resolve_route picks, in terms of the abstract table.
LEMMA ResolveIs ==
    ASSUME MapInv, stage = "idle", NEW p \in Path
    PROVE  LET above == {Table[q] : q \in Under[p]} \ {0}
           IN  /\ Table[p] # 0 => Resolve(p) = Table[p]
               /\ Table[p] = 0 /\ above # {} => Resolve(p) \in above
               /\ Table[p] = 0 /\ above = {} => Resolve(p) = 0
<1> DEFINE above == {Table[q] : q \in Under[p]} \ {0}
<1>1. MapGet(p) = Table[p]
  BY GetIsTable DEF GetFindsLatest
<1>2. TableIsHeld /\ Held = {slot[b] : b \in live} /\ Held \subseteq Entry
  BY TableLookup, HeldEntries DEF Held, MapInv, Shape
<1>3. ASSUME NEW b \in Covering(p) PROVE slot[b].route \in above
  <2>1. b \in live /\ p \in Covers[slot[b].path] /\ slot[b] \in Held
    BY <1>2, <1>3 DEF Covering
  <2>2. slot[b].path \in Path /\ slot[b].route # 0
    BY <1>2, <2>1 DEF Entry
  <2>3. slot[b].path \in Under[p]
    BY <2>1, <2>2, CoversIsUnder
  <2>4. Table[slot[b].path] = slot[b].route
    BY <1>2, <2>1 DEF TableIsHeld
  <2> QED
    BY <2>2, <2>3, <2>4
<1>4. ASSUME above # {} PROVE Covering(p) # {}
  <2>1. PICK q \in Under[p] : Table[q] # 0
    BY <1>4
  <2>2. q \in Path
    BY <2>1 DEF Under
  <2>3. PICK b \in live : slot[b].path = q
    BY <1>2, <2>1, <2>2 DEF TableIsHeld
  <2>4. p \in Covers[slot[b].path]
    BY <2>1, <2>2, <2>3, CoversIsUnder
  <2> QED
    BY <2>3, <2>4 DEF Covering
<1>5. ASSUME Covering(p) # {} PROVE Min(Covering(p)) \in Covering(p)
  <2>1. Covering(p) \in SUBSET Nat
    BY DEF Covering, MapInv, MapTypeOK
  <2>2. \E x \in Covering(p) : \A y \in Covering(p) : x <= y
    BY <1>5, <2>1, Least
  <2> QED
    BY <2>2 DEF Min
<1>6. CASE Table[p] # 0
  BY <1>1, <1>6 DEF Resolve
<1>7. CASE Table[p] = 0 /\ above # {}
  BY <1>1, <1>3, <1>4, <1>5, <1>7 DEF Resolve
<1>8. CASE Table[p] = 0 /\ above = {}
  BY <1>1, <1>3, <1>8 DEF Resolve
<1> QED
  BY <1>6, <1>7, <1>8

\* What a request is answered with, for any path that is asked for.
LEMMA RequestDispatched ==
    ASSUME MapInv, NEW p \in Path, NEW m, Request(p, m)
    PROVE  ByTable
<1> DEFINE above == {Table[q] : q \in Under[p]} \ {0}
           r == Resolve(p)
<1>1. PICK a \in Handled(p) :
        answer' = [uri |-> p, method |-> Method(m), by |-> a.by, route |-> a.route]
  BY DEF Request
<1>2. answer'.uri = p /\ answer'.by = a.by /\ answer'.route = a.route
  BY <1>1
<1>4. /\ Table[p] # 0 => r = Table[p]
      /\ Table[p] = 0 /\ above # {} => r \in above
      /\ Table[p] = 0 /\ above = {} => r = 0
  BY ResolveIs DEF Request
<1>5. Handled(p) = CASE r # 0  -> {[by |-> "route", route |-> r]}
                     [] r = 0 /\ root -> {[by |-> f, route |-> 0] : f \in {"file", "index", "none"}}
                     [] OTHER  -> {[by |-> "404", route |-> 0]}
  BY DEF Handled
<1> HIDE DEF r
<1>6. r # 0 => a.route = r
  BY <1>5
<1>7. r = 0 => a.route = 0 /\ (a.by = "404" <=> ~root)
  <2>1. CASE root
    BY <1>5, <2>1
  <2>2. CASE ~root
    BY <1>5, <2>2
  <2> QED
    BY <2>1, <2>2
<1>8. 0 \notin above
  OBVIOUS
<1> HIDE DEF above
<1>9. /\ Table[p] # 0 => answer'.route = Table[p]
      /\ Table[p] = 0 /\ above # {} => answer'.route \in above
      /\ Table[p] = 0 /\ above = {} => answer'.route = 0 /\ (answer'.by = "404" <=> ~root)
  BY <1>2, <1>4, <1>6, <1>7, <1>8
<1> QED
  BY <1>2, <1>9 DEF above, ByTable

\* Only requests are answered.
LEMMA StepDispatched == FullInv /\ [RoutesNext]_vars => [answer' # answer => ByTable]_vars
<1> SUFFICES ASSUME FullInv, RoutesNext, answer' # answer PROVE ByTable
  OBVIOUS
<1>1. PICK p \in Requests, m \in Methods : Request(p, m)
  BY DEF RoutesNext, Serve, Registers, LongRequest, Ended, routeVars, vars
<1>2. p \in Path
  BY <1>1, RoutesAssumption
<1> QED
  BY <1>1, <1>2, RequestDispatched DEF FullInv

\* A request is answered by the route that was registered last for its path,
\* else by one of a wildcard above it, wherever the rehashes have put them.
THEOREM DispatchCorrect == RoutesSpec => Dispatched
BY StepDispatched, MapInvariant, ServerIsMap, PTL DEF RoutesSpec, Dispatched
=============================================================================
