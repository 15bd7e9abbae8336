----------------------------- MODULE EnvProofs -----------------------------
(***************************************************************************)
(* Theorems of Env, for any environments and queries: the context of       *)
(* libubootenv is always in a state its functions may be called in, what   *)
(* env_read returns 0 for is the whole text, and a query is answered with  *)
(* what it asks for.                                                       *)
(*                                                                         *)
(* What env_read counts is a recursive function of the variable it is at.  *)
(* That the function exists comes from Recursion, that it counts the text  *)
(* until the buffer is full from InductionTo.                              *)
(***************************************************************************)
EXTENDS Env, Arithmetic, SequenceTheorems, TLAPS

\* What libubootenv has made of its context at each stage.
ContextInv ==
    /\ stage \in {"initialize", "read_config", "open", "serve", "ended", "crashed"}
    /\ ctx \in BOOLEAN /\ valid \in BOOLEAN
    /\ stage = "initialize" => lib = "none" /\ ~ctx /\ ~valid
    /\ stage \in {"read_config", "open"} => lib = "made" /\ ctx /\ ~valid
    /\ stage \in {"serve", "crashed"} =>
          /\ lib \in {"none", "exited", "open"}
          /\ valid <=> lib = "open"
    /\ stage = "ended" => lib \in {"none", "exited"} /\ ~ctx

\* There is something to send only while requests are served, and the open
\* environment is one of those there are.
ServedInv ==
    /\ stage \notin {"serve", "crashed"} => answer = NoAnswer
    /\ variables \in Envs \cup {<<>>}

-----------------------------------------------------------------------------
\* Whichever step fails, the context is one that may be closed or not.
LEMMA ContextStep == ContextInv /\ [EnvNext]_envVars => ContextInv'
<1> SUFFICES ASSUME ContextInv, [EnvNext]_envVars PROVE ContextInv'
  OBVIOUS
<1> USE DEF ContextInv
<1>1. CASE Initialize
  BY <1>1 DEF Initialize
<1>2. CASE ReadConfig
  BY <1>2 DEF ReadConfig, Exited
<1>3. CASE Load
  <2>1. stage = "open" /\ stage' = "serve" /\ lib = "made" /\ ~valid
    BY <1>3 DEF Load
  <2>2. CASE lib' = "open" /\ valid' = TRUE
    BY <1>3, <2>1, <2>2 DEF Load
  <2>3. CASE lib' = Exited(lib) /\ valid' = valid
    <3>1. lib' = "exited" /\ valid' = valid /\ ctx' = ctx
      BY <1>3, <2>1, <2>3 DEF Load, Exited
    <3> QED
      BY <2>1, <3>1
  <2>4. \/ lib' = "open" /\ valid' = TRUE
        \/ lib' = Exited(lib) /\ valid' = valid
    BY <1>3, Zenon DEF Load
  <2> QED
    BY <2>2, <2>3, <2>4
<1>4. CASE Deinit
  BY <1>4 DEF Deinit, Exited, Closed
<1>5. ASSUME NEW q \in Queries, GetOne(q) \/ GetAll(q) PROVE ContextInv'
  BY <1>5 DEF GetOne, GetAll
<1>6. ASSUME NEW q \in Queries, GetUndefined(q) PROVE ContextInv'
  BY <1>6 DEF GetUndefined
<1>7. CASE Send
  BY <1>7 DEF Send
<1>8. CASE Ended \/ UNCHANGED envVars
  BY <1>8 DEF Ended, envVars
<1> QED
  BY <1>1, <1>2, <1>3, <1>4, <1>5, <1>6, <1>7, <1>8 DEF EnvNext

LEMMA ServedStep == ServedInv /\ [EnvNext]_envVars => ServedInv'
<1> SUFFICES ASSUME ServedInv, [EnvNext]_envVars PROVE ServedInv'
  OBVIOUS
<1> USE DEF ServedInv
<1>1. CASE Initialize \/ ReadConfig \/ Load
  BY <1>1 DEF Initialize, ReadConfig, Load
<1>2. CASE Deinit \/ Send
  BY <1>2 DEF Deinit, Send
<1>3. ASSUME NEW q \in Queries, GetOne(q) \/ GetAll(q) \/ GetUndefined(q) PROVE ServedInv'
  BY <1>3 DEF GetOne, GetAll, GetUndefined
<1>4. CASE Ended \/ UNCHANGED envVars
  BY <1>4 DEF Ended, envVars
<1> QED
  BY <1>1, <1>2, <1>3, <1>4 DEF EnvNext

\* The context is never misused, and nothing is left of it in the end.
THEOREM ContextClosed == EnvSpec => []ContextEnds
<1>1. EnvInit => ContextInv
  BY DEF EnvInit, ContextInv
<1>2. ContextInv => ContextEnds
  BY DEF ContextInv, ContextEnds
<1> QED
  BY <1>1, <1>2, ContextStep, PTL DEF EnvSpec

-----------------------------------------------------------------------------
Variable == [name : Seq(Symbol), length : Nat]

\* A sequence of variables whose pieces are too short to wrap a counter.
Readable(vs) ==
    /\ vs \in Seq(Variable)
    /\ \A i \in 1 .. Len(vs) : BufLen + 5 + Len(vs[i].name) + Temp < Mod

\* The environments are readable, and so is none.
LEMMA EnvsReadable == ServedInv => Readable(variables)
<1> SUFFICES ASSUME ServedInv PROVE Readable(variables)
  OBVIOUS
<1>1. CASE variables = <<>>
  BY <1>1 DEF Readable
<1>2. CASE variables \in Envs
  <2>1. variables \in Seq(Variable)
    BY <1>2, EnvAssumption DEF Variable
  <2>2. DOMAIN variables = 1 .. Len(variables)
    BY <2>1, LenProperties
  <2> QED
    BY <1>2, <2>1, <2>2, EnvAssumption DEF Readable
<1> QED
  BY <1>1, <1>2 DEF ServedInv

\* A piece takes some room, and never so much that the count wraps at once.
LEMMA PieceBound ==
    ASSUME NEW vs, Readable(vs), NEW i \in 1 .. Len(vs)
    PROVE  Piece(vs[i]) \in Nat /\ BufLen + Piece(vs[i]) < Mod
<1>1. vs[i].name \in Seq(Symbol) /\ vs[i].length \in Nat /\ Len(vs[i].name) \in Nat
  <2>1. vs[i] \in Variable
    BY ElementOfSeq DEF Readable
  <2>2. vs[i].name \in Seq(Symbol) /\ vs[i].length \in Nat
    BY <2>1 DEF Variable
  <2> QED
    BY <2>2, LenProperties
<1> DEFINE l == Len(vs[i].name)
           c == IF vs[i].length < Temp THEN vs[i].length ELSE Temp - 1
<1>2. BufLen + 5 + l + Temp < Mod
  BY DEF Readable
<1>3. l \in Nat /\ c \in Nat /\ c < Temp /\ Temp \in Nat /\ BufLen \in Nat /\ Mod \in Nat
  BY <1>1, EnvAssumption
<1>4. Piece(vs[i]) = 5 + l + c
  BY DEF Piece
<1> HIDE DEF l, c
<1> QED
  BY <1>2, <1>3, <1>4

\* The state of env_read's loop.
Counter == [b : 0 .. Mod - 1, outside : BOOLEAN, left : Int]

LEMMA CounterStep ==
    ASSUME NEW vs, Readable(vs), NEW i \in 1 .. Len(vs), NEW a \in Counter
    PROVE  AddVariable(a, vs[i]) \in Counter
<1>1. Piece(vs[i]) \in Nat /\ Mod \in Nat \ {0} /\ BufLen \in Nat /\ BufLen < Mod
  BY PieceBound, EnvAssumption
<1> DEFINE room  == (BufLen - a.b) % Mod
           added == [b       |-> (a.b + Piece(vs[i])) % Mod,
                     outside |-> a.outside \/ room + a.b > BufLen,
                     left    |-> a.left - 1]
<1>2. added \in Counter
  <2>1. (a.b + Piece(vs[i])) % Mod \in 0 .. Mod - 1
    <3> DEFINE x == a.b + Piece(vs[i])
    <3>1. x \in Int
      BY <1>1 DEF Counter
    <3> HIDE DEF x
    <3>2. x % Mod \in 0 .. Mod - 1
      BY <1>1, <3>1, DivMod
    <3> QED
      BY <3>2 DEF x
  <2>2. (a.outside \/ room + a.b > BufLen) \in BOOLEAN
    BY Zenon
  <2>3. a.left - 1 \in Int
    BY DEF Counter
  <2> HIDE DEF room
  <2> QED
    BY <2>1, <2>2, <2>3 DEF Counter
<1>3. ASSUME NEW c \in Counter PROVE Put(c) \in Counter
  <2>1. CASE c.b < BufLen
    <3>1. c.b + 1 \in 0 .. Mod - 1 /\ (c.outside \/ c.b = BufLen - 1) \in BOOLEAN
      BY <1>1, <2>1 DEF Counter
    <3>2. Put(c) = [c EXCEPT !.b = c.b + 1, !.outside = c.outside \/ c.b = BufLen - 1]
      BY <2>1 DEF Put
    <3> QED
      BY <3>1, <3>2 DEF Counter
  <2>2. CASE ~(c.b < BufLen)
    BY <2>2 DEF Put
  <2> QED
    BY <2>1, <2>2
<1>4. AddVariable(a, vs[i]) = IF a.left > 1 THEN Put(added) ELSE added
  BY DEF AddVariable
<1> HIDE DEF added
<1> QED
  BY <1>2, <1>3, <1>4

\* The loop of env_read computes what its definition says.
LEMMA ReadRecursion ==
    ASSUME NEW vs, Readable(vs)
    PROVE  /\ ReadUpTo(vs) \in [0 .. Len(vs) -> Counter]
           /\ \A i \in 0 .. Len(vs) :
                ReadUpTo(vs)[i] =
                    IF i = 0 THEN [b |-> 1, outside |-> FALSE, left |-> Len(vs)]
                    ELSE AddVariable(ReadUpTo(vs)[i - 1], vs[i])
<1> DEFINE n == Len(vs)
           base == [b |-> 1, outside |-> FALSE, left |-> Len(vs)]
           step == [x \in (1 .. n) \X Counter |-> AddVariable(x[2], vs[x[1]])]
           Is(f) == f = [i \in 0 .. n |-> IF i = 0 THEN base ELSE AddVariable(f[i - 1], vs[i])]
<1>1. n \in Nat
  BY DEF Readable
<1>2. base \in Counter
  BY <1>1, EnvAssumption DEF Counter
<1>3. step \in [(1 .. n) \X Counter -> Counter]
  BY CounterStep
<1>4. PICK f \in [0 .. n -> Counter] : Computes(f, 0 .. n, base, step)
  <2> HIDE DEF base, step, n
  <2> QED
    BY <1>1, <1>2, <1>3, RecursionTo
<1>5. Is(f)
  <2>1. f = [i \in 0 .. n |-> IF i = 0 THEN base ELSE step[<<i, f[i - 1]>>]]
    BY <1>4 DEF Computes
  <2>2. ASSUME NEW i \in 0 .. n, i # 0
        PROVE  step[<<i, f[i - 1]>>] = AddVariable(f[i - 1], vs[i])
    <3>1. i \in 1 .. n /\ i - 1 \in 0 .. n
      BY <1>1, <2>2
    <3>2. f[i - 1] \in Counter
      BY <3>1
    <3> QED
      BY <3>1, <3>2
  <2> HIDE DEF step, base
  <2> QED
    BY <2>1, <2>2 DEF base
<1>6. ReadUpTo(vs) = CHOOSE g : Is(g)
  BY DEF ReadUpTo
<1>7. Is(ReadUpTo(vs))
  <2> HIDE DEF Is
  <2> QED
    BY <1>5, <1>6
<1>8. \A i \in 0 .. n : ReadUpTo(vs)[i] = IF i = 0 THEN base
                                          ELSE AddVariable(ReadUpTo(vs)[i - 1], vs[i])
  <2> DEFINE r == ReadUpTo(vs)
  <2> HIDE DEF r, base
  <2> QED
    BY <1>7 DEF r
<1>9. ReadUpTo(vs) \in [0 .. n -> Counter]
  <2> DEFINE r == ReadUpTo(vs)
             S == {i \in 0 .. n : r[i] \in Counter}
  <2>1. 0 \in S
    <3>1. 0 \in 0 .. n
      BY <1>1
    <3> HIDE DEF base
    <3>2. r[0] = base
      BY <1>8, <3>1
    <3> QED
      BY <1>2, <3>1, <3>2
  <2>2. ASSUME NEW i \in 0 .. n - 1, i \in S PROVE i + 1 \in S
    <3>1. i + 1 \in 1 .. n /\ i + 1 # 0 /\ (i + 1) - 1 = i /\ r[i] \in Counter
      BY <1>1, <2>2
    <3>2. r[i + 1] = AddVariable(r[i], vs[i + 1])
      BY <1>8, <3>1
    <3>3. AddVariable(r[i], vs[i + 1]) \in Counter
      BY <3>1, CounterStep
    <3> QED
      BY <3>1, <3>2, <3>3
  <2>3. 0 .. n \subseteq S
    <3> HIDE DEF S
    <3> QED
      BY <1>1, <2>1, <2>2, InductionTo
  <2>4. \E g : r = [i \in 0 .. n |-> g[i]]
    <3> HIDE DEF r
    <3>1. r = [i \in 0 .. n |-> IF i = 0 THEN base ELSE AddVariable(r[i - 1], vs[i])]
      BY <1>7 DEF r
    <3>2. r = [i \in 0 .. n |-> r[i]]
      BY <3>1
    <3> QED
      BY <3>2
  <2> HIDE DEF r
  <2> QED
    BY <2>3, <2>4 DEF r
<1> QED
  BY <1>8, <1>9

-----------------------------------------------------------------------------
\* The text of the first variables is counted up as its definition says.
LEMMA TextRecursion ==
    ASSUME Readable(variables)
    PROVE  /\ TextUpTo \in [0 .. Len(variables) -> Nat]
           /\ TextUpTo[0] = 0
           /\ \A i \in 1 .. Len(variables) :
                TextUpTo[i] = TextUpTo[i - 1] + Piece(variables[i])
<1> DEFINE n == Len(variables)
           step == [x \in (1 .. n) \X Nat |-> x[2] + Piece(variables[x[1]])]
           Is(f) == f = [i \in 0 .. n |-> IF i = 0 THEN 0 ELSE f[i - 1] + Piece(variables[i])]
<1>1. n \in Nat
  BY DEF Readable
<1>2. step \in [(1 .. n) \X Nat -> Nat]
  <2>1. \A i \in 1 .. n, k \in Nat : k + Piece(variables[i]) \in Nat
    BY PieceBound
  <2> QED
    BY <2>1
<1>3. PICK f \in [0 .. n -> Nat] : Computes(f, 0 .. n, 0, step)
  <2> HIDE DEF step, n
  <2> QED
    BY <1>1, <1>2, RecursionTo
<1>4. ASSUME NEW i \in 0 .. n, i # 0
      PROVE  step[<<i, f[i - 1]>>] = f[i - 1] + Piece(variables[i])
  <2>1. i \in 1 .. n /\ i - 1 \in 0 .. n
    BY <1>1, <1>4
  <2>2. f[i - 1] \in Nat
    BY <2>1
  <2> QED
    BY <2>1, <2>2
<1>5. Is(f)
  <2>1. f = [i \in 0 .. n |-> IF i = 0 THEN 0 ELSE step[<<i, f[i - 1]>>]]
    BY <1>3 DEF Computes
  <2> HIDE DEF step
  <2> QED
    BY <1>4, <2>1
<1>6. TextUpTo = CHOOSE g : Is(g)
  BY DEF TextUpTo
<1>7. Is(TextUpTo)
  <2> HIDE DEF Is
  <2> QED
    BY <1>5, <1>6
<1> DEFINE t == TextUpTo
           S == {i \in 0 .. n : t[i] \in Nat}
<1>8. t = [i \in 0 .. n |-> IF i = 0 THEN 0 ELSE t[i - 1] + Piece(variables[i])]
  BY <1>7
<1> HIDE DEF t
<1>9. t[0] = 0 /\ \A i \in 1 .. n : t[i] = t[i - 1] + Piece(variables[i])
  BY <1>1, <1>8
<1>10. 0 .. n \subseteq S
  <2>1. 0 \in S
    BY <1>1, <1>9
  <2>2. ASSUME NEW i \in 0 .. n - 1, i \in S PROVE i + 1 \in S
    <3>1. i + 1 \in 1 .. n /\ (i + 1) - 1 = i /\ t[i] \in Nat
      BY <1>1, <2>2
    <3>2. Piece(variables[i + 1]) \in Nat
      BY <3>1, PieceBound
    <3>3. t[i + 1] = t[i] + Piece(variables[i + 1])
      BY <1>9, <3>1
    <3> QED
      BY <3>1, <3>2, <3>3
  <2> HIDE DEF S
  <2> QED
    BY <1>1, <2>1, <2>2, InductionTo
<1>11. t \in [0 .. n -> Nat]
  <2>1. t = [i \in 0 .. n |-> t[i]]
    BY <1>8
  <2> QED
    BY <1>10, <2>1
<1> QED
  BY <1>9, <1>11 DEF t

\* The text of the first i variables with its brace and commas.
Width(i) ==
    LET n == Len(variables)
    IN  1 + TextUpTo[i] + IF i < n THEN i ELSE IF n = 0 THEN 0 ELSE n - 1

\* env_read's loop after i variables: once it has left the buffer or filled
\* it, so has the text; until then it has counted all of the text.
Counts(a, w) ==
    /\ a.outside => w >= BufLen
    /\ ~a.outside => (a.b < BufLen /\ a.b = w) \/ (a.b >= BufLen /\ w >= BufLen)

\* A character more, where there is room for it.
LEMMA PutCounts ==
    ASSUME NEW a \in Counter, NEW w \in Nat, Counts(a, w)
    PROVE  Counts(Put(a), w + 1)
<1>1. BufLen \in Nat \ {0} /\ a.b \in Nat
  BY EnvAssumption DEF Counter
<1>2. CASE a.b < BufLen
  <2> DEFINE z == Put(a)
  <2>1. z = [a EXCEPT !.b = a.b + 1, !.outside = a.outside \/ a.b = BufLen - 1]
    BY <1>2 DEF Put
  <2>2. z.b = a.b + 1 /\ (z.outside <=> a.outside \/ a.b = BufLen - 1)
    BY <2>1 DEF Counter
  <2> HIDE DEF z
  <2>3. Counts(z, w + 1)
    BY <1>1, <1>2, <2>2 DEF Counts
  <2> QED
    BY <2>3 DEF z
<1>3. CASE ~(a.b < BufLen)
  BY <1>1, <1>3 DEF Put, Counts
<1> QED
  BY <1>2, <1>3

\* The text of one variable more, from where snprintf is told to write it.
LEMMA AddCounts ==
    ASSUME NEW a \in Counter, NEW w \in Nat, Counts(a, w),
           NEW k \in Nat, BufLen + k < Mod,
           NEW z, z.b = (a.b + k) % Mod,
           z.outside <=> a.outside \/ ((BufLen - a.b) % Mod) + a.b > BufLen
    PROVE  Counts(z, w + k)
<1>1. BufLen \in Nat \ {0} /\ Mod \in Nat /\ BufLen < Mod /\ a.b \in 0 .. Mod - 1
  BY EnvAssumption DEF Counter
<1> DEFINE b == a.b
           room == (BufLen - b) % Mod
<1>2. CASE b <= BufLen
  <2>1. b + k \in 0 .. Mod - 1 /\ BufLen - b \in 0 .. Mod - 1
    BY <1>1, <1>2
  <2>2. (b + k) % Mod = b + k
    <3> DEFINE x == b + k
    <3> HIDE DEF x
    <3>1. x \in 0 .. Mod - 1 => x % Mod = x
      BY <1>1
    <3> QED
      BY <2>1, <3>1 DEF x
  <2>3. room = BufLen - b
    <3> DEFINE x == BufLen - b
    <3> HIDE DEF x
    <3>1. x \in 0 .. Mod - 1 => x % Mod = x
      BY <1>1
    <3> QED
      BY <2>1, <3>1 DEF x
  <2> HIDE DEF room
  <2>4. z.b = b + k /\ (z.outside <=> a.outside)
    BY <1>1, <2>2, <2>3 DEF room
  <2> QED
    BY <1>1, <1>2, <2>4 DEF Counts
<1>3. CASE b > BufLen
  <2>1. w >= BufLen
    BY <1>1, <1>3 DEF Counts
  <2>2. room \in Nat /\ room + b > BufLen
    <3> DEFINE x == BufLen - b
    <3>1. x \in Int
      BY <1>1
    <3> HIDE DEF x
    <3>2. Mod \in Nat \ {0}
      BY <1>1
    <3>3. x % Mod \in 0 .. Mod - 1
      BY <3>1, <3>2, DivMod
    <3> QED
      BY <1>1, <1>3, <3>3 DEF x
  <2>3. z.outside
    BY <2>2
  <2> QED
    BY <1>1, <2>1, <2>3 DEF Counts
<1> QED
  BY <1>1, <1>2, <1>3

\* The loop counts the text as long as it fits.
LEMMA LoopCounts ==
    ASSUME Readable(variables), NEW i \in 0 .. Len(variables)
    PROVE  /\ Width(i) \in Nat
           /\ ReadUpTo(variables)[i].left = Len(variables) - i
           /\ Counts(ReadUpTo(variables)[i], Width(i))
<1> DEFINE n == Len(variables)
           r == ReadUpTo(variables)
           t == TextUpTo
           S == {k \in 0 .. n : r[k].left = n - k /\ Counts(r[k], Width(k))}
<1>1. n \in Nat /\ BufLen \in Nat \ {0}
  BY EnvAssumption DEF Readable
<1>2. r \in [0 .. n -> Counter]
  BY ReadRecursion
<1>3. /\ 0 \in 0 .. n => r[0] = [b |-> 1, outside |-> FALSE, left |-> n]
      /\ \A k \in 1 .. n : r[k] = AddVariable(r[k - 1], variables[k])
  <2>1. \A k \in 0 .. n : r[k] = IF k = 0 THEN [b |-> 1, outside |-> FALSE, left |-> n]
                                 ELSE AddVariable(r[k - 1], variables[k])
    BY ReadRecursion
  <2> HIDE DEF r
  <2>2. \A k \in 1 .. n : k \in 0 .. n /\ k # 0
    BY <1>1
  <2> QED
    BY <2>1, <2>2
<1>4. /\ t \in [0 .. n -> Nat] /\ t[0] = 0
      /\ \A k \in 1 .. n : t[k] = t[k - 1] + Piece(variables[k])
  BY TextRecursion
<1>5. \A k \in 0 .. n : Width(k) \in Nat
  <2> HIDE DEF t
  <2> QED
    BY <1>1, <1>4 DEF Width, t
<1>6. 0 \in S
  <2>1. 0 \in 0 .. n /\ r[0] = [b |-> 1, outside |-> FALSE, left |-> n]
    BY <1>1, <1>3
  <2>2. Width(0) = 1
    BY <1>1, <1>4 DEF Width
  <2> HIDE DEF r
  <2> QED
    BY <1>1, <2>1, <2>2 DEF Counts
<1>7. ASSUME NEW k \in 0 .. n - 1, k \in S PROVE k + 1 \in S
  <2> DEFINE a == r[k]
             v == variables[k + 1]
             z == [b       |-> (a.b + Piece(v)) % Mod,
                   outside |-> a.outside \/ ((BufLen - a.b) % Mod) + a.b > BufLen,
                   left    |-> a.left - 1]
  <2>1. k + 1 \in 1 .. n /\ k \in 0 .. n /\ k + 1 \in 0 .. n /\ (k + 1) - 1 = k
    BY <1>1, <1>7
  <2>2. a \in Counter /\ a.left = n - k /\ Counts(a, Width(k))
    BY <1>2, <1>7, <2>1
  <2>3. r[k + 1] = AddVariable(a, v)
    BY <1>3, <2>1
  <2>4. r[k + 1] = IF a.left > 1 THEN Put(z) ELSE z
    BY <2>3 DEF AddVariable
  <2>5. Piece(v) \in Nat /\ BufLen + Piece(v) < Mod
    BY <2>1, PieceBound
  <2>6. Counts(z, Width(k) + Piece(v))
    <3>1. z.b = (a.b + Piece(v)) % Mod
      OBVIOUS
    <3>2. z.outside <=> a.outside \/ ((BufLen - a.b) % Mod) + a.b > BufLen
      OBVIOUS
    <3>3. Width(k) \in Nat
      BY <1>5, <2>1
    <3> HIDE DEF a, v, z
    <3> QED
      BY <2>2, <2>5, <3>1, <3>2, <3>3, AddCounts
  <2>7. z \in Counter /\ z.left = n - (k + 1)
    <3>1. z.left = a.left - 1
      OBVIOUS
    <3>2. Mod \in Nat \ {0}
      BY EnvAssumption
    <3>3. z.b \in 0 .. Mod - 1
      <4> DEFINE x == a.b + Piece(v)
      <4>1. x \in Int
        BY <2>2, <2>5 DEF Counter
      <4>2. z.b = x % Mod
        OBVIOUS
      <4> HIDE DEF x, z
      <4> QED
        BY <3>2, <4>1, <4>2, DivMod
    <3>4. z.outside \in BOOLEAN
      BY Zenon
    <3>5. z = [b |-> z.b, outside |-> z.outside, left |-> z.left]
      OBVIOUS
    <3> HIDE DEF z, a
    <3>6. z.left \in Int /\ z.left = n - (k + 1)
      BY <1>1, <2>1, <2>2, <3>1
    <3> QED
      BY <3>3, <3>4, <3>5, <3>6 DEF Counter
  <2>8. Width(k + 1) = Width(k) + Piece(v) + (IF k + 1 < n THEN 1 ELSE 0)
    <3>1. t[k + 1] = t[k] + Piece(v) /\ t[k] \in Nat
      BY <1>4, <2>1
    <3>2. Width(k) = 1 + t[k] + IF k < n THEN k ELSE IF n = 0 THEN 0 ELSE n - 1
      BY DEF Width
    <3>3. Width(k + 1) =
            1 + t[k + 1] + IF k + 1 < n THEN k + 1 ELSE IF n = 0 THEN 0 ELSE n - 1
      BY DEF Width
    <3> DEFINE p == Piece(v)
               x == t[k]
               y == t[k + 1]
    <3> HIDE DEF p, x, y, n
    <3>4. k \in 0 .. n - 1 /\ n \in Nat /\ p \in Nat /\ x \in Nat /\ y = x + p
      BY <1>1, <2>1, <2>5, <3>1 DEF p, x, y
    <3>5. /\ Width(k) = 1 + x + IF k < n THEN k ELSE IF n = 0 THEN 0 ELSE n - 1
          /\ Width(k + 1) =
               1 + y + IF k + 1 < n THEN k + 1 ELSE IF n = 0 THEN 0 ELSE n - 1
      BY <3>2, <3>3 DEF x, y
    <3>6. Width(k + 1) = Width(k) + p + (IF k + 1 < n THEN 1 ELSE 0)
      BY <3>4, <3>5
    <3> QED
      BY <3>6 DEF p
  <2>9. Width(k) \in Nat /\ Width(k) + Piece(v) \in Nat
    BY <1>5, <2>1, <2>5
  <2> HIDE DEF a, v, z
  <2>10. CASE k + 1 < n
    <3>1. a.left > 1 /\ r[k + 1] = Put(z)
      BY <1>1, <2>1, <2>2, <2>4, <2>10
    <3>2. Counts(Put(z), Width(k + 1))
      <4> DEFINE w == Width(k) + Piece(v)
      <4>1. Counts(z, w) /\ w \in Nat
        BY <2>6, <2>9
      <4>2. Width(k + 1) = w + 1
        BY <2>8, <2>10, <2>9
      <4> HIDE DEF w
      <4> QED
        BY <2>7, <4>1, <4>2, PutCounts
    <3>3. Put(z).left = z.left
      BY <2>7 DEF Put, Counter
    <3> HIDE DEF r
    <3> QED
      BY <2>1, <2>7, <3>1, <3>2, <3>3
  <2>11. CASE ~(k + 1 < n)
    <3>1. ~(a.left > 1) /\ r[k + 1] = z
      BY <1>1, <2>1, <2>2, <2>4, <2>11
    <3>2. Width(k + 1) = Width(k) + Piece(v)
      BY <2>8, <2>9, <2>11
    <3> HIDE DEF r
    <3> QED
      BY <2>1, <2>6, <2>7, <3>1, <3>2
  <2> QED
    BY <2>10, <2>11
<1>8. 0 .. n \subseteq S
  <2> HIDE DEF S, n
  <2> QED
    BY <1>1, <1>6, <1>7, InductionTo
<1> QED
  BY <1>5, <1>8

\* What env_read returns 0 for, and when it leaves its buffer.
LEMMA ReadIs ==
    ASSUME Readable(variables)
    PROVE  /\ Read(variables).outside => Whole >= BufLen
           /\ ~Read(variables).outside =>
                /\ Read(variables).ok <=> Whole < BufLen
                /\ Read(variables).ok => Read(variables).b = Whole
<1> DEFINE n == Len(variables)
           a == ReadUpTo(variables)[n]
           z == Put(a)
<1>1. n \in Nat /\ BufLen \in Nat /\ n \in 0 .. n
  BY EnvAssumption DEF Readable
<1>2. a \in Counter
  BY <1>1, ReadRecursion
<1>3. Width(n) \in Nat /\ Counts(a, Width(n))
  BY <1>1, LoopCounts
<1>4. Whole = Width(n) + 1
  <2>1. TextUpTo[n] \in Nat
    BY <1>1, TextRecursion
  <2> DEFINE w == TextUpTo[n]
  <2>2. Whole = 2 + w + IF n = 0 THEN 0 ELSE n - 1
    BY DEF Whole
  <2>3. Width(n) = 1 + w + IF n < n THEN n ELSE IF n = 0 THEN 0 ELSE n - 1
    BY DEF Width
  <2> HIDE DEF w, n
  <2> QED
    BY <1>1, <2>1, <2>2, <2>3 DEF w
<1>5. Counts(z, Whole)
  <2> HIDE DEF a
  <2> QED
    BY <1>2, <1>3, <1>4, PutCounts
<1>6. /\ Read(variables).outside = z.outside
      /\ Read(variables).b = z.b
      /\ Read(variables).ok <=> z.b < BufLen
  BY DEF Read, ReadVars
<1>7. z.b \in Int
  <2> HIDE DEF a
  <2> QED
    BY <1>1, <1>2 DEF Put, Counter
<1> HIDE DEF z
<1> QED
  BY <1>1, <1>3, <1>4, <1>5, <1>6, <1>7 DEF Counts

\* A reply that shows all shows what env_read left; no other step makes one.
LEMMA ReadsStep == ServedInv /\ ReadsWhole /\ [EnvNext]_envVars => ReadsWhole'
<1> SUFFICES ASSUME ServedInv, ReadsWhole, [EnvNext]_envVars PROVE ReadsWhole'
  OBVIOUS
<1>1. ASSUME variables' = variables PROVE Whole' = Whole
  BY <1>1 DEF Whole, TextUpTo
<1>2. ASSUME answer' = NoAnswer PROVE ReadsWhole'
  BY <1>2 DEF ReadsWhole, NoAnswer
<1>3. CASE Initialize \/ ReadConfig \/ Load
  <2>1. answer = NoAnswer
    BY <1>3 DEF Initialize, ReadConfig, Load, ServedInv
  <2>2. answer' = answer
    BY <1>3 DEF Initialize, ReadConfig, Load
  <2> QED
    BY <1>2, <2>1, <2>2
<1>4. CASE Deinit \/ Send
  BY <1>2, <1>4 DEF Deinit, Send
<1>5. ASSUME NEW q \in Queries, GetOne(q) PROVE ReadsWhole'
  <2>1. answer'.to = "one"
    BY <1>5 DEF GetOne
  <2> QED
    BY <2>1 DEF ReadsWhole
<1>6. ASSUME NEW q \in Queries, GetAll(q) PROVE ReadsWhole'
  <2>1. answer'.to = "all" /\ answer'.read = Read(variables) /\ ~Read(variables).outside
    BY <1>6 DEF GetAll
  <2>2. Whole' = Whole
    BY <1>1, <1>6 DEF GetAll
  <2> QED
    BY <2>1, <2>2, ReadIs, EnvsReadable DEF ReadsWhole
<1>7. ASSUME NEW q \in Queries, GetUndefined(q) PROVE ReadsWhole'
  <2>1. Whole' = Whole /\ lib' = lib
    BY <1>1, <1>7 DEF GetUndefined
  <2>2. answer = NoAnswer /\ (lib # "open" \/ Read(variables).outside)
    BY <1>7, Zenon DEF GetUndefined
  <2>3. answer' = answer \/ answer' = [to |-> "undefined"]
    BY <1>7 DEF GetUndefined
  <2>4. CASE answer' = answer
    BY <1>2, <2>2, <2>4
  <2>5. CASE answer' = [to |-> "undefined"]
    <3>1. answer'.to = "undefined"
      BY <2>5
    <3>2. lib = "open" => Whole >= BufLen
      BY <2>2, ReadIs, EnvsReadable
    <3> QED
      BY <2>1, <3>1, <3>2 DEF ReadsWhole
  <2> QED
    BY <2>3, <2>4, <2>5
<1>8. CASE Ended \/ UNCHANGED envVars
  <2>1. answer' = answer /\ lib' = lib /\ variables' = variables
    BY <1>8 DEF Ended, envVars
  <2> QED
    BY <1>1, <2>1 DEF ReadsWhole
<1> QED
  BY <1>3, <1>4, <1>5, <1>6, <1>7, <1>8 DEF EnvNext

\* env_read returns 0 exactly when all of the text fits its buffer, and then
\* all of it is there; the reply is left to chance only when it does not fit,
\* or when there is no environment.
THEOREM WholeTextRead == EnvSpec => []ReadsWhole
<1>1. EnvInit => ServedInv /\ ReadsWhole
  BY DEF EnvInit, ServedInv, ReadsWhole, NoAnswer
<1> QED
  BY <1>1, ServedStep, ReadsStep, PTL DEF EnvSpec

-----------------------------------------------------------------------------
\* Min is the least member.
LEMMA MinIs ==
    ASSUME NEW T \in SUBSET Nat, T # {}
    PROVE  Min(T) \in T /\ \A x \in T : Min(T) <= x
<1>1. PICK x \in T : \A y \in T : x <= y
  BY Least
<1> QED
  BY <1>1 DEF Min

\* A query without "var" has no such parameter; the first "var", with '=' right
\* after it, has what is up to the next '&' for its value.
LEMMA QueryIs ==
    ASSUME NEW q \in Seq(Symbol)
    PROVE  /\ (\A i \in 1 .. Len(q) : q[i] # Var) => QueryStr(q) = {}
           /\ \A i \in 1 .. Len(q), e \in 1 .. Len(q) + 1 :
                /\ q[i] = Var /\ \A k \in 1 .. Len(q) : q[k] = Var => k >= i
                /\ i + 1 < e /\ q[i + 1] = Eq
                /\ e = Len(q) + 1 \/ q[e] = And
                /\ \A k \in i .. e - 1 : q[k] # And
                => QueryStr(q) = {SubSeq(q, i + 2, e - 1)}
<1> DEFINE I == {i \in 1 .. Len(q) : q[i] = Var}
           spot == SelectInSeq(q, LAMBDA c : c = Var)
           marks == {i \in spot + 1 .. Len(q) : q[i] = And} \cup {Len(q) + 1}
           end == Min(marks)
<1>1. Len(q) \in Nat
  BY LenProperties
<1>2. spot = IF I # {} THEN Min(I) ELSE 0
  BY DEF SelectInSeq
<1>3. QueryStr(q) = IF spot = 0 \/ spot = Len(q) THEN {}
                    ELSE IF q[spot + 1] # Eq THEN {} ELSE {SubSeq(q, spot + 2, end - 1)}
  BY DEF QueryStr
<1> HIDE DEF spot
<1>4. ASSUME \A i \in 1 .. Len(q) : q[i] # Var PROVE QueryStr(q) = {}
  <2>1. spot = 0
    BY <1>2, <1>4
  <2> QED
    BY <1>3, <2>1
<1>5. ASSUME NEW i \in 1 .. Len(q), NEW e \in 1 .. Len(q) + 1,
             q[i] = Var, \A k \in 1 .. Len(q) : q[k] = Var => k >= i,
             i + 1 < e, q[i + 1] = Eq,
             e = Len(q) + 1 \/ q[e] = And,
             \A k \in i .. e - 1 : q[k] # And
      PROVE  QueryStr(q) = {SubSeq(q, i + 2, e - 1)}
  <2>1. spot = i
    <3>1. I \in SUBSET Nat /\ I # {} /\ i \in I
      BY <1>5
    <3>2. \A k \in I : k \in Nat /\ k >= i
      BY <1>5
    <3> HIDE DEF I
    <3>3. Min(I) \in I /\ \A x \in I : Min(I) <= x
      BY <3>1, MinIs
    <3>4. Min(I) <= i /\ Min(I) >= i /\ Min(I) \in Nat
      BY <3>1, <3>2, <3>3
    <3> QED
      BY <1>2, <3>1, <3>4
  <2>2. end = e
    <3>1. marks \in SUBSET Nat /\ e \in marks
      BY <1>1, <1>5, <2>1
    <3>2. \A x \in marks : x \in Nat /\ x >= e
      <4>1. ASSUME NEW x \in marks, x < e PROVE FALSE
        <5>1. x \in i .. e - 1 /\ q[x] = And
          BY <1>1, <1>5, <2>1, <4>1
        <5> QED
          BY <1>5, <5>1
      <4>2. \A x \in marks : x \in Nat
        BY <3>1
      <4> HIDE DEF marks
      <4> QED
        BY <4>1, <4>2
    <3> HIDE DEF marks
    <3>3. Min(marks) \in marks /\ \A x \in marks : Min(marks) <= x
      BY <3>1, MinIs
    <3>4. Min(marks) <= e /\ Min(marks) >= e /\ Min(marks) \in Nat
      BY <3>1, <3>2, <3>3
    <3> QED
      BY <3>4
  <2>3. i # 0 /\ i # Len(q)
    BY <1>1, <1>5
  <2> HIDE DEF end
  <2> QED
    BY <1>3, <1>5, <2>1, <2>2, <2>3
<1> QED
  BY <1>4, <1>5

\* A name that is asked for is the value the parser finds.
LEMMA AskedIs ==
    ASSUME NEW q \in Seq(Symbol), NEW n \in Asked(q)
    PROVE  QueryStr(q) = {n} /\ n \in Seq(Symbol)
<1>1. DOMAIN q = 1 .. Len(q) /\ Len(q) \in Nat
  BY LenProperties
<1> DEFINE spots == {i \in DOMAIN q : q[i] = Var}
           ends  == {i \in DOMAIN q : q[i] = And} \cup {Len(q) + 1}
<1>2. PICK i \in spots, e \in ends :
        /\ i + 1 < e /\ q[i + 1] = Eq
        /\ n = SubSeq(q, i + 2, e - 1)
        /\ \A k \in i .. e - 1 : q[k] # And
        /\ \A k \in spots : k >= i
  BY DEF Asked
<1>3. i \in 1 .. Len(q) /\ q[i] = Var
  BY <1>1
<1>4. e \in 1 .. Len(q) + 1 /\ (e = Len(q) + 1 \/ q[e] = And)
  BY <1>1
<1>5. \A k \in 1 .. Len(q) : q[k] = Var => k >= i
  BY <1>1, <1>2
<1>6. QueryStr(q) = {SubSeq(q, i + 2, e - 1)}
  BY <1>2, <1>3, <1>4, <1>5, QueryIs
<1>7. SubSeq(q, i + 2, e - 1) \in Seq(Symbol)
  <2>1. \A k \in i + 2 .. e - 1 : k \in 1 .. Len(q)
    BY <1>1, <1>3, <1>4
  <2>2. \A k \in i + 2 .. e - 1 : q[k] \in Symbol
    BY <2>1, ElementOfSeq
  <2>3. i + 2 \in Int /\ e - 1 \in Int
    BY <1>1, <1>3, <1>4
  <2> QED
    BY <2>2, <2>3, SubSeqProperties
<1> QED
  BY <1>2, <1>6, <1>7

\* A name that is shorter than key is not cut.
LEMMA CutIs ==
    ASSUME NEW n \in Seq(Symbol), Len(n) < PointerSize
    PROVE  Cut(n) = n
BY SubSeqFull DEF Cut

\* The variable that is found is one of the name, when there is one.
LEMMA ReadValIs ==
    ASSUME NEW vs \in Seq(Variable), NEW n
    PROVE  IF \E i \in 1 .. Len(vs) : vs[i].name = n
           THEN ReadVal(vs, n) \in 1 .. Len(vs) /\ vs[ReadVal(vs, n)].name = n
           ELSE ReadVal(vs, n) = 0
<1> DEFINE I == {i \in 1 .. Len(vs) : vs[i].name = n}
<1>1. ReadVal(vs, n) = IF I # {} THEN Min(I) ELSE 0
  BY DEF ReadVal, SelectInSeq
<1>2. CASE I # {}
  <2>1. I \in SUBSET Nat
    BY LenProperties
  <2>2. Min(I) \in I
    <3> HIDE DEF I
    <3> QED
      BY <1>2, <2>1, MinIs
  <2>3. \E i \in 1 .. Len(vs) : vs[i].name = n
    BY <1>2
  <2> QED
    BY <1>1, <1>2, <2>2, <2>3
<1>3. CASE I = {}
  BY <1>1, <1>3
<1> QED
  BY <1>2, <1>3

LEMMA ShowsStep ==
    ServedInv /\ ShowsWhatIsAsked /\ [EnvNext]_envVars => ShowsWhatIsAsked'
<1> SUFFICES ASSUME ServedInv, ShowsWhatIsAsked, [EnvNext]_envVars
             PROVE  ShowsWhatIsAsked'
  OBVIOUS
<1>1. ASSUME answer' = NoAnswer PROVE ShowsWhatIsAsked'
  BY <1>1 DEF ShowsWhatIsAsked, NoAnswer
<1>2. variables \in Seq(Variable) /\ DOMAIN variables = 1 .. Len(variables)
  BY EnvsReadable, LenProperties DEF Readable
<1>3. CASE Initialize \/ ReadConfig \/ Load
  <2>1. answer = NoAnswer
    BY <1>3 DEF Initialize, ReadConfig, Load, ServedInv
  <2>2. answer' = answer
    BY <1>3 DEF Initialize, ReadConfig, Load
  <2> QED
    BY <1>1, <2>1, <2>2
<1>4. CASE Deinit \/ Send
  BY <1>1, <1>4 DEF Deinit, Send
<1>5. ASSUME NEW q \in Queries, GetOne(q) PROVE ShowsWhatIsAsked'
  <2>1. PICK text \in QueryStr(q) :
          LET i == ReadVal(variables, Cut(text))
          IN  answer' = [to |-> "one", query |-> q, code |-> IF i = 0 THEN 404 ELSE 200,
                         variable |-> i]
    BY <1>5 DEF GetOne
  <2> DEFINE j == ReadVal(variables, Cut(text))
  <2>2. /\ answer'.to = "one" /\ answer'.query = q
        /\ answer'.code = (IF j = 0 THEN 404 ELSE 200)
        /\ answer'.variable = j
    BY <2>1
  <2> HIDE DEF j
  <2>3. variables' = variables /\ q \in Seq(Symbol) /\ DOMAIN q = 1 .. Len(q)
    BY <1>5, EnvAssumption, LenProperties DEF GetOne
  <2>4. ~\A i \in DOMAIN q : q[i] # Var
    BY <2>1, <2>3, QueryIs
  <2>5. ASSUME NEW n \in Asked(q), Len(n) < PointerSize
        PROVE  IF \E i \in DOMAIN variables : variables[i].name = n
               THEN answer'.code = 200 /\ variables[answer'.variable].name = n
               ELSE answer'.code = 404
    <3>1. text = n /\ n \in Seq(Symbol)
      BY <2>1, <2>3, <2>5, AskedIs
    <3>2. j = ReadVal(variables, n)
      BY <2>5, <3>1, CutIs DEF j
    <3>3. IF \E i \in 1 .. Len(variables) : variables[i].name = n
          THEN j \in 1 .. Len(variables) /\ variables[j].name = n
          ELSE j = 0
      BY <1>2, <3>2, ReadValIs
    <3> QED
      BY <1>2, <2>2, <3>3
  <2> QED
    BY <2>2, <2>3, <2>4, <2>5 DEF ShowsWhatIsAsked
<1>6. ASSUME NEW q \in Queries, GetAll(q) PROVE ShowsWhatIsAsked'
  <2>1. answer'.to = "all" /\ answer'.query = q /\ QueryStr(q) = {}
    BY <1>6 DEF GetAll
  <2>2. q \in Seq(Symbol)
    BY EnvAssumption
  <2>3. \A n \in Asked(q) : FALSE
    BY <2>1, <2>2, AskedIs
  <2> QED
    BY <2>1, <2>3 DEF ShowsWhatIsAsked
<1>7. ASSUME NEW q \in Queries, GetUndefined(q) PROVE ShowsWhatIsAsked'
  <2>1. answer = NoAnswer /\ (answer' = answer \/ answer' = [to |-> "undefined"])
    BY <1>7 DEF GetUndefined
  <2>2. CASE answer' = [to |-> "undefined"]
    BY <2>2 DEF ShowsWhatIsAsked
  <2> QED
    BY <1>1, <2>1, <2>2
<1>8. CASE Ended \/ UNCHANGED envVars
  <2>1. answer' = answer /\ variables' = variables
    BY <1>8 DEF Ended, envVars
  <2> QED
    BY <2>1 DEF ShowsWhatIsAsked
<1> QED
  BY <1>3, <1>4, <1>5, <1>6, <1>7, <1>8 DEF EnvNext

\* Of any environment, the variable a query asks for is the one that is shown.
THEOREM AskedIsShown == EnvSpec => []ShowsWhatIsAsked
<1>1. EnvInit => ServedInv /\ ShowsWhatIsAsked
  BY DEF EnvInit, ServedInv, ShowsWhatIsAsked, NoAnswer
<1> QED
  BY <1>1, ServedStep, ShowsStep, PTL DEF EnvSpec
=============================================================================
