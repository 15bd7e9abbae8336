-------------------------------- MODULE Env --------------------------------
(***************************************************************************)
(* The boot loader environment: src/src/env_uboot.c, which reads it with   *)
(* libubootenv (not under src/), and the env route of                      *)
(* src/src/http_route_env.c with the query parser of src/src/http.c, which *)
(* show all of it or one variable.                                         *)
(*                                                                         *)
(* A query is a sequence of symbols: the letters of names, '&', '=', and   *)
(* the word "var" the route looks for, as one symbol.  Of values, the      *)
(* length matters.                                                         *)
(***************************************************************************)
EXTENDS SequencesExt

CONSTANTS
    Symbol,         \* what names and queries are made of
    Envs,           \* environments: sequences of variables [name, length]
    Queries,        \* query strings that are asked
    Var, Eq, And,   \* the symbols "var", '=' and '&'
    BufLen,         \* the route's buffer: 4096 in the code
    Temp,           \* env_read's buffer for a value: 128
    PointerSize,    \* sizeof(keyp): 4 on the device
    Mod             \* 2^32: env_read counts in a uint32_t

ASSUME EnvAssumption ==
    /\ BufLen \in Nat \ {0} /\ Temp \in Nat \ {0} /\ PointerSize \in Nat \ {0}
    /\ Mod \in Nat /\ Mod > BufLen
    /\ {Var, Eq, And} \subseteq Symbol
    /\ \A q \in Queries : q \in Seq(Symbol)
    /\ \A e \in Envs : e \in Seq([name : Seq(Symbol), length : Nat])
    \* The environment of the device is far smaller than its memory.
    /\ \A e \in Envs : \A i \in DOMAIN e : BufLen + 5 + Len(e[i].name) + Temp < Mod

VARIABLES
    stage,      \* the step of env_init that comes next; serve; ended
    lib,        \* what libubootenv has made of its context
    ctx,        \* env->ctx points to it
    valid,      \* env->valid
    variables,  \* the variables of the open environment, as the iterator has them
    answer      \* what the route has replied and Mongoose has still to send

envVars == <<stage, lib, ctx, valid, variables, answer>>

NoAnswer == [to |-> "none"]

\* atxsys_create clears everything before it calls env_init.
EnvInit ==
    /\ stage = "initialize"
    /\ lib = "none" /\ ctx = FALSE /\ valid = FALSE
    /\ variables = <<>>
    /\ answer = NoAnswer

-----------------------------------------------------------------------------
\* libuboot_close and libuboot_exit: each is for one state of the context.
Closed(l) == IF l = "open" THEN "closed" ELSE "misused"
Exited(l) == IF l \in {"made", "closed"} THEN "exited" ELSE "misused"

\* env_init: libuboot_initialize.
Initialize ==
    /\ stage = "initialize"
    /\ \/ stage' = "read_config" /\ lib' = "made" /\ ctx' = TRUE
       \/ stage' = "serve" /\ UNCHANGED <<lib, ctx>>
    /\ UNCHANGED <<valid, variables, answer>>

\* libuboot_read_config.
ReadConfig ==
    /\ stage = "read_config"
    /\ \/ stage' = "open" /\ UNCHANGED lib
       \/ stage' = "serve" /\ lib' = Exited(lib)
    /\ UNCHANGED <<ctx, valid, variables, answer>>

\* libuboot_open; a context that failed stays in env->ctx.
Load ==
    /\ stage = "open" /\ stage' = "serve"
    /\ \/ lib' = "open" /\ valid' = TRUE /\ variables' \in Envs
       \/ lib' = Exited(lib) /\ UNCHANGED <<valid, variables>>
    /\ UNCHANGED <<ctx, answer>>

\* Mutant: whatever env->ctx points to is closed.
DeinitByPointer ==
    /\ stage = "serve" /\ stage' = "ended"
    /\ lib' = IF ctx THEN Exited(Closed(lib)) ELSE lib
    /\ ctx' = FALSE /\ valid' = FALSE
    /\ answer' = NoAnswer
    /\ UNCHANGED variables

\* env_deinit, once, when http_deinit has closed the connections.
Deinit ==
    /\ stage = "serve" /\ stage' = "ended"
    /\ lib' = IF valid THEN Exited(Closed(lib)) ELSE lib
    /\ ctx' = FALSE /\ valid' = FALSE
    /\ answer' = NoAnswer
    /\ UNCHANGED variables

-----------------------------------------------------------------------------
\* "name":"value", the value cut by snprintf into temp.
Piece(v) == 5 + Len(v.name) + IF v.length < Temp THEN v.length ELSE Temp - 1

\* A character for which there is no room is not counted; one in the last
\* place leaves none for the 0.
Put(acc) ==
    IF acc.b < BufLen
    THEN [acc EXCEPT !.b = @ + 1, !.outside = @ \/ acc.b = BufLen - 1]
    ELSE acc

\* The loop of env_read for one variable: snprintf's result is what it would
\* have written, into room for (uint32_t)(len - *b) bytes.
AddVariable(acc, v) ==
    LET room  == (BufLen - acc.b) % Mod
        added == [b       |-> (acc.b + Piece(v)) % Mod,
                  outside |-> acc.outside \/ room + acc.b > BufLen,
                  left    |-> acc.left - 1]
    IN  IF acc.left > 1 THEN Put(added) ELSE added

\* The loop: its state after each variable, of which the last counts.
ReadUpTo(vs) ==
    LET acc[i \in 0 .. Len(vs)] ==
            IF i = 0 THEN [b |-> 1, outside |-> FALSE, left |-> Len(vs)]
            ELSE AddVariable(acc[i - 1], vs[i])
    IN  acc
ReadVars(vs) == ReadUpTo(vs)[Len(vs)]

\* Mutant: the terminating 0 needs no room.
ReadUnterminated(vs) ==
    LET acc == Put(ReadVars(vs))
    IN  [b |-> acc.b, outside |-> acc.outside, ok |-> acc.b <= BufLen]

\* env_read: the length, whether it returns 0, and whether bytes after the
\* buffer are written, or are read when it is printed for want of a 0.
Read(vs) ==
    LET acc == Put(ReadVars(vs))
    IN  [b |-> acc.b, outside |-> acc.outside, ok |-> acc.b < BufLen]

\* env_read_val: the first variable of that name, 0 for none.
ReadVal(vs, key) == SelectInSeq(vs, LAMBDA v : v.name = key)

\* Mutant: the value goes on to the end of the query.
QueryToEnd(q) ==
    LET spot == SelectInSeq(q, LAMBDA c : c = Var)
    IN  IF spot = 0 \/ spot = Len(q) THEN {}
        ELSE IF q[spot + 1] # Eq THEN {} ELSE {SubSeq(q, spot + 2, Len(q))}

\* http_parse_query_str for "var": the value after its first occurrence, none
\* when there is no '=' right after it.
QueryStr(q) ==
    LET spot == SelectInSeq(q, LAMBDA c : c = Var)
        end  == Min({i \in spot + 1 .. Len(q) : q[i] = And} \cup {Len(q) + 1})
    IN  IF spot = 0 \/ spot = Len(q) THEN {}
        ELSE IF q[spot + 1] # Eq THEN {} ELSE {SubSeq(q, spot + 2, end - 1)}

\* What snprintf leaves of the name in key.
Cut(key) == SubSeq(key, 1, IF Len(key) < PointerSize THEN Len(key) ELSE PointerSize - 1)

-----------------------------------------------------------------------------
\* GET of the env route, for one variable or for all.
GetOne(q) ==
    /\ stage = "serve" /\ lib = "open" /\ answer = NoAnswer
    /\ \E text \in QueryStr(q) :
        LET i == ReadVal(variables, Cut(text))
        IN  answer' = [to |-> "one", query |-> q, code |-> IF i = 0 THEN 404 ELSE 200,
                       variable |-> i]
    /\ UNCHANGED <<stage, lib, ctx, valid, variables>>

GetAll(q) ==
    /\ stage = "serve" /\ lib = "open" /\ answer = NoAnswer
    /\ QueryStr(q) = {} /\ ~Read(variables).outside
    /\ answer' = [to |-> "all", query |-> q, read |-> Read(variables)]
    /\ UNCHANGED <<stage, lib, ctx, valid, variables>>

\* What is not defined: GET leaves the buffer; or env_init failed, which the
\* route does not look at, and libubootenv gets NULL or a context it freed.
GetUndefined(q) ==
    /\ stage = "serve" /\ answer = NoAnswer
    /\ lib # "open" \/ (QueryStr(q) = {} /\ Read(variables).outside)
    /\ \/ stage' = "crashed" /\ UNCHANGED answer
       \/ answer' = [to |-> "undefined"] /\ UNCHANGED stage
    /\ UNCHANGED <<lib, ctx, valid, variables>>

\* Mongoose sends the reply; PUT, POST and DELETE make none.
Send ==
    /\ stage = "serve" /\ answer # NoAnswer
    /\ answer' = NoAnswer
    /\ UNCHANGED <<stage, lib, ctx, valid, variables>>

Ended == stage \in {"ended", "crashed"} /\ UNCHANGED envVars

EnvNext ==
    \/ Initialize \/ ReadConfig \/ Load
    \/ Deinit
    \/ \E q \in Queries : GetOne(q) \/ GetAll(q) \/ GetUndefined(q)
    \/ Send
    \/ Ended

EnvSpec == EnvInit /\ [][EnvNext]_envVars

-----------------------------------------------------------------------------
\* Whichever step of the start fails, the context is in a state each function
\* of the library may be called in, valid says exactly whether it is open, and
\* nothing is left of it in the end (env_uboot.c:22-52).
ContextEnds ==
    /\ lib # "misused"
    /\ stage \in {"serve", "crashed"} => (valid <=> lib = "open")
    /\ stage = "ended" => lib \in {"none", "exited"} /\ ~ctx

\* The text of the first variables, by their number, without the commas.
TextUpTo ==
    LET sum[i \in 0 .. Len(variables)] ==
            IF i = 0 THEN 0 ELSE sum[i - 1] + Piece(variables[i])
    IN  sum

\* The text of the whole environment.
Whole == LET n == Len(variables) IN 2 + TextUpTo[n] + IF n = 0 THEN 0 ELSE n - 1

\* env_read returns 0 exactly when the text and its terminating 0 fit; then it
\* has written all of it and stayed in its buffer (env_uboot.c:72-79), and the
\* reply is defined.
ReadsWhole ==
    /\ answer.to = "all" =>
        /\ answer.read.ok <=> Whole < BufLen
        /\ answer.read.ok => answer.read.b = Whole
    /\ answer.to = "undefined" /\ lib = "open" => Whole >= BufLen

\* The names a query asks for: the values of a parameter var, unless there is
\* an earlier "var" in the query.
Asked(q) ==
    LET spots == {i \in DOMAIN q : q[i] = Var}
        ends  == {i \in DOMAIN q : q[i] = And} \cup {Len(q) + 1}
    IN  {n \in {SubSeq(q, i + 2, e - 1) : i \in spots, e \in ends} :
            \E i \in spots, e \in ends :
                /\ i = 1 \/ q[i - 1] = And
                /\ i + 1 < e /\ q[i + 1] = Eq
                /\ n = SubSeq(q, i + 2, e - 1)
                /\ \A k \in i .. e - 1 : q[k] # And
                /\ \A k \in spots : k >= i}

\* A variable that is asked for by a name that key holds is the one that is
\* shown, or 404 when there is none; without "var" all of them are
\* (http.c:414-431, http_route_env.c:11-22).
ShowsWhatIsAsked ==
    answer.to \in {"one", "all"} =>
        /\ (\A i \in DOMAIN answer.query : answer.query[i] # Var) => answer.to = "all"
        /\ \A n \in Asked(answer.query) : Len(n) < PointerSize =>
            /\ answer.to = "one"
            /\ IF \E i \in DOMAIN variables : variables[i].name = n
               THEN answer.code = 200 /\ variables[answer.variable].name = n
               ELSE answer.code = 404
=============================================================================
