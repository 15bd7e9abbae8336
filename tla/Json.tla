------------------------------- MODULE Json -------------------------------
(***************************************************************************)
(* src/src/json.c: how the tokens of a text are looked up.  An object's    *)
(* and an array's children are found by walking over whole subtrees, from  *)
(* the sizes alone.                                                        *)
(***************************************************************************)
EXTENDS Jsmn

CONSTANT Guides     \* the paths that are asked for: sequences of labels

ASSUME GuidesAssumption == \A g \in Guides : g \in Seq(Label)

NULL == 0

\* What a token that was never written says is not defined; here: nothing.
SizeOf(i) == IF i \in DOMAIN tokens THEN tokens[i].size ELSE 0

TypeOf(i) == IF i \in DOMAIN tokens THEN tokens[i].type ELSE "undefined"

\* After[t][n]: the token after the n subtrees that begin at t.
After[t \in Nat] ==
    [n \in Nat |-> IF n = 0 THEN t ELSE After[After[t + 1][SizeOf(t)]][n - 1]]

\* Mutant: only the next level is skipped.
NextFlat(t) == t + 1 + SizeOf(t)

\* json_next
Next(t) == After[t + 1][SizeOf(t)]

\* json_tok_streq
StrEq(t, label) == TypeOf(t) = "string" /\ tokens[t].label = label

\* json_for_each_obj: the keys from the n-th on.
Keys(obj) ==
    LET f[n \in Nat] == IF n = 0 THEN obj + 1 ELSE Next(f[n - 1] + 1)
    IN  [n \in 1 .. SizeOf(obj) |-> f[n - 1]]

\* Mutant: the last key that matches.
GetMemberLast(t, label) ==
    IF TypeOf(t) # "object" THEN NULL
    ELSE LET keys == Keys(t)
             hits == {n \in DOMAIN keys : StrEq(keys[n], label)}
         IN  IF hits = {} THEN NULL ELSE keys[Max(hits)] + 1

\* json_get_member: what follows the first key that matches.
GetMember(t, label) ==
    IF TypeOf(t) # "object" THEN NULL
    ELSE LET keys == Keys(t)
             hits == {n \in DOMAIN keys : StrEq(keys[n], label)}
         IN  IF hits = {} THEN NULL ELSE keys[Min(hits)] + 1

\* json_get_arr, with json_for_each_arr.
GetArr(t, index) ==
    IF TypeOf(t) = "array" /\ index < SizeOf(t) THEN After[t + 1][index] ELSE NULL

\* json_delve from the first token, along the keys of the guide.
DelveUpTo(guide) ==
    LET at[n \in 0 .. Len(guide)] ==
            IF n = 0 THEN 1
            ELSE IF at[n - 1] = NULL THEN NULL ELSE GetMember(at[n - 1], guide[n])
    IN  at
Delve(guide) == DelveUpTo(guide)[Len(guide)]

-----------------------------------------------------------------------------
Ancestors ==
    LET up[i \in 0 .. Len(tokens)] ==
            IF i = 0 THEN {} ELSE {parent[i]} \cup up[parent[i]]
    IN  up

\* The sizes say where a subtree ends: from any token, json_next comes to the
\* first one after it that was not put below it (json.c:18-27).
NextSkipsSubtree ==
    LET up == Ancestors
    IN  \A i \in DOMAIN tokens : {k \in DOMAIN tokens : i \in up[k]} = i + 1 .. Next(i) - 1

\* An accepted text in which each key of an object has one value: strict jsmn
\* also takes a key without one, and lookups then take the next token for it.
Proper ==
    /\ result = "ok" /\ tokens # <<>>
    /\ \A i \in DOMAIN tokens : tokens[i].type = "object" =>
           \A k \in Children(i) : Cardinality(Children(k)) = 1

\* The tokens the first keys of a guide lead to.
ReachedUpTo(guide) ==
    LET there[n \in 0 .. Len(guide)] ==
            IF n = 0 THEN {1}
            ELSE {v \in DOMAIN tokens :
                    /\ parent[v] # 0 /\ parent[parent[v]] \in there[n - 1]
                    /\ tokens[parent[parent[v]]].type = "object"
                    /\ tokens[parent[v]].type = "string"
                    /\ tokens[parent[v]].label = guide[n]}
    IN  there
Reached(guide) == ReachedUpTo(guide)[Len(guide)]

UniqueKeys ==
    \A i, k \in DOMAIN tokens :
        parent[i] = parent[k] /\ parent[i] # 0 /\ TypeOf(parent[i]) = "object"
        /\ tokens[i].label = tokens[k].label => i = k

\* In an accepted text json_delve comes to the first value the guide leads to,
\* and to none only when there is none or a key is there twice; an array gives
\* its members in their order (json.c:29-59, 86-105).
LookupsFind ==
    Proper =>
        /\ \A g \in Guides :
            LET there == Reached(g)
            IN  IF Delve(g) = NULL THEN there = {} \/ ~UniqueKeys
                ELSE there # {} /\ Delve(g) = Min(there)
        /\ \A i \in DOMAIN tokens : tokens[i].type = "array" =>
            \A n \in 0 .. Len(tokens) :
                GetArr(i, n) = IF n >= Cardinality(Children(i)) THEN NULL
                    ELSE CHOOSE k \in Children(i) :
                            Cardinality({m \in Children(i) : m < k}) = n
=============================================================================
