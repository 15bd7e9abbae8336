---------------------------- MODULE JsmnProofs ----------------------------
(***************************************************************************)
(* Proofs about Jsmn, for any labels and any length of the token array.    *)
(*                                                                         *)
(* That the tokens are a tree in preorder is not inductive: it needs that  *)
(* what the parser takes for superior is never left of an open bracket,    *)
(* and that all tokens after it are below it.                              *)
(***************************************************************************)
EXTENDS Json, Arithmetic, FiniteSetTheorems, SequenceTheorems, TLAPS

SuperAbove ==
    \A k \in toksuper + 1 .. Len(tokens) : parent[k] >= toksuper

OpenAbove ==
    \A i \in DOMAIN tokens : tokens[i].open =>
        /\ i <= toksuper
        /\ \A k \in i + 1 .. Len(tokens) : parent[k] >= i

EarlierParent == \A k \in DOMAIN tokens : parent[k] < k

ParserInv == JsmnTypeOK /\ EarlierParent /\ SuperAbove /\ OpenAbove /\ TokensAreTree

-----------------------------------------------------------------------------
\* LastOpen is the last open token up to n, 0 when there is none.
LEMMA LastOpenIs ==
    ASSUME JsmnTypeOK, NEW n \in 0 .. Len(tokens)
    PROVE  /\ LastOpen(n) \in 0 .. n
           /\ LastOpen(n) # 0 => tokens[LastOpen(n)].open
           /\ \A i \in 1 .. n : tokens[i].open => i <= LastOpen(n)
<1> DEFINE T == {0} \cup {i \in 1 .. n : Open(i)}
<1>1. n \in Nat /\ T \in SUBSET (0 .. n) /\ T # {}
    BY DEF JsmnTypeOK
<1>2. Max(T) \in T /\ \A y \in T : Max(T) >= y
    <2> HIDE DEF T
    <2> QED BY <1>1, Greatest DEF Max
<1>3. LastOpen(n) = Max(T)
    BY DEF LastOpen
<1> HIDE DEF T
<1>4. \A i \in 1 .. n : tokens[i].open => i \in T
    BY DEF T, Open
<1>5. Max(T) # 0 => tokens[Max(T)].open
    BY <1>2 DEF T, Open
<1> QED BY <1>1, <1>2, <1>3, <1>4, <1>5

-----------------------------------------------------------------------------
\* What a new token changes.
LEMMA AddFacts ==
    ASSUME JsmnTypeOK, ~Full, NEW t \in Token, Add(t)
    PROVE  /\ tokens' \in Seq(Token) /\ parent' \in Seq(0 .. MaxToks)
           /\ Len(tokens') = Len(tokens) + 1 /\ Len(parent') = Len(tokens) + 1
           /\ Len(tokens) + 1 <= MaxToks
           /\ \A i \in 1 .. Len(tokens) :
                /\ parent'[i] = parent[i]
                /\ tokens'[i].open = tokens[i].open
                /\ tokens'[i].type = tokens[i].type
                /\ tokens'[i].size =
                        IF i = toksuper THEN tokens[i].size + 1 ELSE tokens[i].size
           /\ parent'[Len(tokens) + 1] = toksuper
           /\ tokens'[Len(tokens) + 1] = t
<1> DEFINE grown == IF toksuper = 0 THEN tokens
                    ELSE [tokens EXCEPT ![toksuper].size = @ + 1]
<1>1. /\ Len(tokens) \in Nat /\ Len(tokens) + 1 <= MaxToks
      /\ toksuper \in 0 .. MaxToks
    BY JsmnAssumption DEF JsmnTypeOK, Full
<1>2. /\ grown \in Seq(Token) /\ Len(grown) = Len(tokens)
      /\ \A i \in 1 .. Len(tokens) :
            /\ grown[i].open = tokens[i].open
            /\ grown[i].type = tokens[i].type
            /\ grown[i].size = IF i = toksuper THEN tokens[i].size + 1 ELSE tokens[i].size
    <2>1. CASE toksuper = 0
        BY <2>1 DEF JsmnTypeOK
    <2>2. CASE toksuper # 0
        <3>1. toksuper \in 1 .. Len(tokens)
            BY <2>2 DEF JsmnTypeOK
        <3>2. \A i \in 1 .. Len(tokens) : tokens[i] \in Token
            BY DEF JsmnTypeOK
        <3>3. [tokens[toksuper] EXCEPT !.size = @ + 1] \in Token
            BY <3>1, <3>2 DEF Token
        <3>4. grown = [tokens EXCEPT ![toksuper] = [tokens[toksuper] EXCEPT !.size = @ + 1]]
            BY <2>2
        <3> HIDE DEF grown
        <3>5. grown \in Seq(Token) /\ Len(grown) = Len(tokens)
            BY <3>1, <3>3, <3>4 DEF JsmnTypeOK
        <3>6. \A i \in 1 .. Len(tokens) :
                grown[i] = IF i = toksuper THEN [tokens[toksuper] EXCEPT !.size = @ + 1]
                           ELSE tokens[i]
            BY <3>1, <3>4 DEF JsmnTypeOK
        <3> QED BY <3>1, <3>2, <3>5, <3>6 DEF Token
    <2> QED BY <2>1, <2>2
<1>3. tokens' = Append(grown, t) /\ parent' = Append(parent, toksuper)
    BY DEF Add
<1> HIDE DEF grown
<1>4. parent \in Seq(0 .. MaxToks) /\ Len(parent) = Len(tokens)
    BY DEF JsmnTypeOK
<1> QED BY <1>1, <1>2, <1>3, <1>4

\* A new token is counted once, in its superior.
LEMMA AddCounts ==
    ASSUME ParserInv, ~Full, NEW t \in Token, t.size = 0, Add(t)
    PROVE  \A i \in DOMAIN tokens' : tokens'[i].size = Cardinality(Children(i)')
<1> DEFINE n == Len(tokens)
<1>1. n \in Nat /\ DOMAIN parent = 1 .. n /\ DOMAIN parent' = 1 .. n + 1
      /\ DOMAIN tokens' = 1 .. n + 1 /\ toksuper \in 0 .. n
    BY AddFacts DEF ParserInv, JsmnTypeOK
<1>2. /\ \A i \in 1 .. n : parent'[i] = parent[i]
      /\ parent'[n + 1] = toksuper
    BY AddFacts DEF ParserInv
<1>3. \A i \in 1 .. n : tokens'[i].size =
            IF i = toksuper THEN tokens[i].size + 1 ELSE tokens[i].size
    BY AddFacts DEF ParserInv
<1>4. tokens'[n + 1].size = 0
    BY AddFacts DEF ParserInv
<1>5. \A i \in 1 .. n : tokens[i].size = Cardinality(Children(i))
    BY DEF ParserInv, TokensAreTree, JsmnTypeOK
<1>6. \A k \in 1 .. n : parent[k] \in Nat /\ parent[k] < k
    BY JsmnAssumption, <1>1 DEF ParserInv, JsmnTypeOK, EarlierParent
<1> HIDE DEF n
<1>7. ASSUME NEW i \in 1 .. n PROVE tokens'[i].size = Cardinality(Children(i)')
    <2>1. IsFiniteSet(Children(i)) /\ n + 1 \notin Children(i)
        <3>1. Children(i) \subseteq 1 .. n
            BY <1>1 DEF Children
        <3>2. IsFiniteSet(1 .. n)
            BY <1>1, FS_Interval
        <3> QED BY <1>1, <3>1, <3>2, FS_Subset
    <2>2. CASE i = toksuper
        <3>1. Children(i)' = Children(i) \cup {n + 1}
            BY <1>1, <1>2, <2>2 DEF Children
        <3>2. Cardinality(Children(i) \cup {n + 1}) = Cardinality(Children(i)) + 1
            BY <2>1, FS_AddElement
        <3> QED BY <1>3, <1>5, <2>2, <3>1, <3>2
    <2>3. CASE i # toksuper
        <3>1. Children(i)' = Children(i)
            BY <1>1, <1>2, <2>3 DEF Children
        <3> QED BY <1>3, <1>5, <2>3, <3>1
    <2> QED BY <2>2, <2>3
<1>8. ASSUME NEW i \in 1 .. n + 1, i = n + 1
      PROVE  tokens'[i].size = Cardinality(Children(i)')
    <2>1. \A k \in 1 .. n + 1 : parent'[k] # i
        BY <1>1, <1>2, <1>6, <1>8
    <2>2. Children(i)' = {}
        BY <1>1, <2>1 DEF Children
    <2> QED BY <1>4, <1>8, <2>2, FS_EmptySet
<1> QED BY <1>1, <1>7, <1>8

\* A new token below the superior keeps the tokens a tree, also when it is
\* open and becomes the superior itself.
LEMMA AddKeepsInv ==
    ASSUME ParserInv, ~Full, NEW t \in Token, t.size = 0, Add(t),
           \/ toksuper' = toksuper /\ ~t.open
           \/ toksuper' = Len(tokens) + 1,
           symbol' \in Symbol, result' = result
    PROVE  ParserInv'
<1> DEFINE n == Len(tokens)
<1>1. n \in Nat /\ DOMAIN tokens = 1 .. n /\ Len(tokens') = n + 1
      /\ DOMAIN tokens' = 1 .. n + 1 /\ toksuper \in 0 .. n
    BY AddFacts DEF ParserInv, JsmnTypeOK
<1>2. /\ \A i \in 1 .. n : parent'[i] = parent[i] /\ tokens'[i].open = tokens[i].open
      /\ parent'[n + 1] = toksuper
      /\ tokens'[n + 1] = t
    BY AddFacts DEF ParserInv
<1>3. \A k \in 1 .. n : parent[k] \in Nat /\ parent[k] < k
    BY JsmnAssumption, <1>1 DEF ParserInv, JsmnTypeOK, EarlierParent
<1>4. JsmnTypeOK'
    BY AddFacts, <1>1 DEF ParserInv, JsmnTypeOK
<1>5. EarlierParent'
    BY <1>1, <1>2, <1>3 DEF EarlierParent
<1>6. SuperAbove'
    BY <1>1, <1>2 DEF SuperAbove, ParserInv
<1>7. OpenAbove'
    BY <1>1, <1>2 DEF OpenAbove, ParserInv
<1>8. TokensAreTree'
    <2>1. \A k \in 1 .. n : \A j \in parent[k] + 1 .. k : parent[j] >= parent[k]
        BY <1>1 DEF ParserInv, TokensAreTree
    <2>2. \A j \in toksuper + 1 .. n : parent[j] >= toksuper
        BY DEF ParserInv, SuperAbove
    <2>3. ASSUME NEW k \in 1 .. n + 1, NEW j \in parent'[k] + 1 .. k
          PROVE  parent'[j] >= parent'[k]
        <3>1. CASE k \in 1 .. n
            BY <1>1, <1>2, <1>3, <2>1, <3>1
        <3>2. CASE k = n + 1
            BY <1>1, <1>2, <2>2, <3>2
        <3> QED BY <1>1, <3>1, <3>2
    <2> QED BY <1>1, <2>3, AddCounts DEF TokensAreTree
<1> QED BY <1>4, <1>5, <1>6, <1>7, <1>8 DEF ParserInv

-----------------------------------------------------------------------------
\* A step that adds no token, closes at most one and leaves the superior no
\* further left than the last open token keeps the invariant.
LEMMA NoTokenKeepsInv ==
    ASSUME ParserInv, UNCHANGED parent, symbol' \in Symbol,
           result' \in {"run", "ok", "inval", "part", "nomem"},
           tokens' \in Seq(Token), Len(tokens') = Len(tokens),
           \A i \in 1 .. Len(tokens) :
                tokens'[i].size = tokens[i].size /\ (tokens'[i].open => tokens[i].open),
           toksuper' \in 0 .. Len(tokens),
           \A i \in 1 .. Len(tokens) : tokens'[i].open => i <= toksuper',
           \A k \in toksuper' + 1 .. Len(tokens) : parent[k] >= toksuper'
    PROVE  ParserInv'
<1>1. JsmnTypeOK' /\ DOMAIN tokens = 1 .. Len(tokens) /\ DOMAIN tokens' = DOMAIN tokens
    BY DEF ParserInv, JsmnTypeOK
<1>2. EarlierParent' /\ SuperAbove'
    BY <1>1 DEF ParserInv, EarlierParent, SuperAbove
<1>3. OpenAbove'
    BY <1>1 DEF ParserInv, OpenAbove
<1>4. TokensAreTree'
    <2>1. \A i \in DOMAIN tokens : Children(i)' = Children(i)
        BY DEF Children
    <2> QED BY <1>1, <2>1 DEF ParserInv, TokensAreTree
<1> QED BY <1>1, <1>2, <1>3, <1>4 DEF ParserInv

\* An error leaves the tokens alone.
LEMMA FailsKeepsInv ==
    ASSUME ParserInv, NEW error \in {"inval", "part", "nomem"}, Fails(error)
    PROVE  ParserInv'
<1>1. UNCHANGED <<tokens, toksuper, symbol, parent>>
    BY DEF Fails
<1> QED BY <1>1, NoTokenKeepsInv
    DEF Fails, ParserInv, JsmnTypeOK, OpenAbove, SuperAbove

\* The last open token, or none, is a superior that keeps the invariant when
\* nothing to the right of it is open.
LEMMA LastOpenAbove ==
    ASSUME ParserInv, NEW n \in 0 .. Len(tokens)
    PROVE  \A k \in LastOpen(n) + 1 .. Len(tokens) : parent[k] >= LastOpen(n)
<1>1. LastOpen(n) \in 0 .. Len(tokens)
    BY LastOpenIs DEF ParserInv, JsmnTypeOK
<1>2. CASE LastOpen(n) = 0
    <2>1. \A k \in 1 .. Len(tokens) : parent[k] \in 0 .. MaxToks
        BY JsmnAssumption DEF ParserInv, JsmnTypeOK
    <2> QED BY JsmnAssumption, <1>2, <2>1
<1>3. CASE LastOpen(n) # 0
    BY <1>1, <1>3, LastOpenIs DEF ParserInv, OpenAbove, JsmnTypeOK
<1> QED BY <1>2, <1>3

\* The brackets are symbols.
LEMMA BracketSymbols ==
    ASSUME NEW c \in Container
    PROVE  Opening[c] \in Symbol /\ Closing[c] \in Symbol
<1>1. CASE c = "object"
    BY <1>1 DEF Opening, Closing, Symbol
<1>2. CASE c = "array"
    BY <1>2 DEF Opening, Closing, Symbol
<1> QED BY <1>1, <1>2 DEF Container

\* An opening bracket.
LEMMA OpenBracketKeepsInv ==
    ASSUME ParserInv, NEW c \in Container, OpenBracket(c)
    PROVE  ParserInv'
<1> DEFINE t == [type |-> c, label |-> NoLabel, open |-> TRUE, size |-> 0]
<1>1. CASE \E error \in {"inval", "nomem"} : Fails(error)
    BY <1>1, FailsKeepsInv
<1>2. CASE ~Full /\ Add(t) /\ toksuper' = Len(tokens) + 1
           /\ symbol' = Opening[c] /\ UNCHANGED result
    <2>1. t \in Token /\ t.size = 0
        BY DEF Token
    <2>2. symbol' \in Symbol
        BY <1>2, BracketSymbols
    <2> HIDE DEF t
    <2> QED BY <1>2, <2>1, <2>2, AddKeepsInv
<1> QED BY <1>1, <1>2 DEF OpenBracket

\* A closing bracket.
LEMMA CloseBracketKeepsInv ==
    ASSUME ParserInv, NEW c \in Container, CloseBracket(c)
    PROVE  ParserInv'
<1> DEFINE i == LastOpen(Len(tokens))
<1>1. CASE Fails("inval")
    BY <1>1, FailsKeepsInv
<1>2. CASE /\ i # 0
           /\ tokens' = [tokens EXCEPT ![i].open = FALSE]
           /\ toksuper' = LastOpen(i - 1)
           /\ symbol' = Closing[c]
           /\ UNCHANGED <<result, parent>>
    <2>1. /\ Len(tokens) \in Nat /\ i \in 1 .. Len(tokens)
          /\ \A k \in 1 .. Len(tokens) : tokens[k].open => k <= i
        BY <1>2, LastOpenIs DEF ParserInv, JsmnTypeOK
    <2>2. \A k \in 1 .. Len(tokens) : tokens[k] \in Token
        BY DEF ParserInv, JsmnTypeOK
    <2> HIDE DEF i
    <2>3. /\ LastOpen(i - 1) \in 0 .. i - 1
          /\ \A k \in 1 .. i - 1 : tokens[k].open => k <= LastOpen(i - 1)
        BY <2>1, LastOpenIs DEF ParserInv
    <2>4. [tokens[i] EXCEPT !.open = FALSE] \in Token
        BY <2>1, <2>2 DEF Token
    <2>5. tokens' = [tokens EXCEPT ![i] = [tokens[i] EXCEPT !.open = FALSE]]
        BY <1>2
    <2>6. tokens' \in Seq(Token) /\ Len(tokens') = Len(tokens)
        BY <2>1, <2>4, <2>5 DEF ParserInv, JsmnTypeOK
    <2>7. \A k \in 1 .. Len(tokens) :
            tokens'[k] = IF k = i THEN [tokens[i] EXCEPT !.open = FALSE] ELSE tokens[k]
        BY <2>1, <2>5 DEF ParserInv, JsmnTypeOK
    <2>8. \A k \in 1 .. Len(tokens) :
            /\ tokens'[k].size = tokens[k].size
            /\ tokens'[k].open => tokens[k].open /\ k # i
        BY <2>1, <2>2, <2>7 DEF Token
    <2>9. \A k \in 1 .. Len(tokens) : tokens'[k].open => k <= LastOpen(i - 1)
        BY <2>1, <2>3, <2>8
    <2>10. symbol' \in Symbol
        BY <1>2, BracketSymbols
    <2>11. \A k \in LastOpen(i - 1) + 1 .. Len(tokens) : parent[k] >= LastOpen(i - 1)
        BY <2>1, LastOpenAbove
    <2>12. result' \in {"run", "ok", "inval", "part", "nomem"}
        BY <1>2 DEF ParserInv, JsmnTypeOK
    <2>13. toksuper' \in 0 .. Len(tokens)
        BY <1>2, <2>1, <2>3
    <2> QED BY <1>2, <2>6, <2>8, <2>9, <2>10, <2>11, <2>12, <2>13, NoTokenKeepsInv
<1> QED BY <1>1, <1>2 DEF CloseBracket

\* A string.
LEMMA StringKeepsInv ==
    ASSUME ParserInv, NEW l \in Label, String(l)
    PROVE  ParserInv'
<1> DEFINE t == [type |-> "string", label |-> l, open |-> FALSE, size |-> 0]
<1>1. CASE \E error \in {"inval", "part", "nomem"} : Fails(error)
    BY <1>1, FailsKeepsInv
<1>2. CASE ~Full /\ Add(t) /\ symbol' = "other" /\ UNCHANGED <<toksuper, result>>
    <2>1. t \in Token /\ t.size = 0 /\ ~t.open /\ symbol' \in Symbol
        BY <1>2 DEF Token, Symbol
    <2> HIDE DEF t
    <2> QED BY <1>2, <2>1, AddKeepsInv
<1> QED BY <1>1, <1>2 DEF String

\* A primitive.
LEMMA PrimitiveKeepsInv ==
    ASSUME ParserInv, Primitive
    PROVE  ParserInv'
<1> DEFINE t == [type |-> "primitive", label |-> NoLabel, open |-> FALSE, size |-> 0]
<1>1. CASE \E error \in {"inval", "part", "nomem"} : Fails(error)
    BY <1>1, FailsKeepsInv
<1>2. CASE ~Full /\ Add(t) /\ symbol' = "primitive" /\ UNCHANGED <<toksuper, result>>
    <2>1. t \in Token /\ t.size = 0 /\ ~t.open /\ symbol' \in Symbol
        BY <1>2 DEF Token, Symbol
    <2> HIDE DEF t
    <2> QED BY <1>2, <2>1, AddKeepsInv
<1> QED BY <1>1, <1>2 DEF Primitive

\* A colon, a comma, a blank and the end of the text.
LEMMA OthersKeepInv ==
    ASSUME ParserInv, Colon \/ Comma \/ Blank \/ End
    PROVE  ParserInv'
<1>1. UNCHANGED <<tokens, parent>>
    BY DEF Colon, Comma, Blank, End
<1>2. symbol' \in Symbol /\ result' \in {"run", "ok", "inval", "part", "nomem"}
    BY DEF Colon, Comma, Blank, End, ParserInv, JsmnTypeOK, Symbol
<1>3. /\ tokens \in Seq(Token) /\ Len(tokens) \in Nat /\ toksuper \in 0 .. Len(tokens)
      /\ DOMAIN tokens = 1 .. Len(tokens)
    BY DEF ParserInv, JsmnTypeOK
<1>4. \/ toksuper' = toksuper
      \/ toksuper' = Len(tokens)
      \/ toksuper' = LastOpen(Len(tokens))
    BY DEF Colon, Comma, Blank, End
<1>5. /\ toksuper' \in 0 .. Len(tokens)
      /\ \A i \in 1 .. Len(tokens) : tokens[i].open => i <= toksuper'
      /\ \A k \in toksuper' + 1 .. Len(tokens) : parent[k] >= toksuper'
    <2>1. CASE toksuper' = toksuper
        BY <1>3, <2>1 DEF ParserInv, OpenAbove, SuperAbove
    <2>2. CASE toksuper' = Len(tokens)
        BY <1>3, <2>2
    <2>3. CASE toksuper' = LastOpen(Len(tokens))
        BY <1>3, <2>3, LastOpenIs, LastOpenAbove DEF ParserInv
    <2> QED BY <1>4, <2>1, <2>2, <2>3
<1> QED BY <1>1, <1>2, <1>3, <1>5, NoTokenKeepsInv

-----------------------------------------------------------------------------
\* The invariant of jsmn_parse, for every text.
THEOREM ParserInvariant == ParserSpec => []ParserInv
<1>1. ParserInit => ParserInv
    BY JsmnAssumption, FS_EmptySet
    DEF ParserInit, ParserInv, JsmnTypeOK, Symbol, EarlierParent, SuperAbove, OpenAbove,
        TokensAreTree
<1>2. ParserInv /\ [ParserNext]_parserVars => ParserInv'
    <2> SUFFICES ASSUME ParserInv, [ParserNext]_parserVars PROVE ParserInv'
        OBVIOUS
    <2>1. ASSUME NEW c \in Container, OpenBracket(c) PROVE ParserInv'
        BY <2>1, OpenBracketKeepsInv
    <2>2. ASSUME NEW c \in Container, CloseBracket(c) PROVE ParserInv'
        BY <2>2, CloseBracketKeepsInv
    <2>3. ASSUME NEW l \in Label, String(l) PROVE ParserInv'
        BY <2>3, StringKeepsInv
    <2>4. CASE Primitive
        BY <2>4, PrimitiveKeepsInv
    <2>5. CASE Colon \/ Comma \/ Blank \/ End
        BY <2>5, OthersKeepInv
    <2>6. CASE Other
        BY <2>6, FailsKeepsInv DEF Other
    <2>7. CASE UNCHANGED parserVars
        BY <2>7, NoTokenKeepsInv
        DEF parserVars, ParserInv, JsmnTypeOK, OpenAbove, SuperAbove
    <2> QED BY <2>1, <2>2, <2>3, <2>4, <2>5, <2>6, <2>7 DEF ParserNext, Done
<1> QED BY <1>1, <1>2, PTL DEF ParserSpec

\* Whatever the text, the tokens jsmn_parse has stored are a tree in preorder
\* whose sizes are the numbers of children.
THEOREM TreeCorrect == ParserSpec => []TokensAreTree
<1>1. ParserInv => TokensAreTree
    BY DEF ParserInv
<1> QED BY <1>1, ParserInvariant, PTL

-----------------------------------------------------------------------------
\* The types of tokens.
Kind == Container \cup {"string", "primitive"}

\* The kinds of the open tokens are collected from left to right.
LEMMA KindsRecursion ==
    ASSUME NEW ts \in Seq(Token)
    PROVE  /\ KindsUpTo(ts) \in [0 .. Len(ts) -> Seq(Kind)]
           /\ KindsUpTo(ts)[0] = <<>>
           /\ \A i \in 1 .. Len(ts) :
                KindsUpTo(ts)[i] = IF ts[i].open
                                   THEN Append(KindsUpTo(ts)[i - 1], ts[i].type)
                                   ELSE KindsUpTo(ts)[i - 1]
<1> DEFINE n == Len(ts)
           Add1(s, i) == IF ts[i].open THEN Append(s, ts[i].type) ELSE s
           step == [x \in (1 .. n) \X Seq(Kind) |-> Add1(x[2], x[1])]
           Is(f) == f = [i \in 0 .. n |-> IF i = 0 THEN <<>>
                                          ELSE IF ts[i].open
                                               THEN Append(f[i - 1], ts[i].type)
                                               ELSE f[i - 1]]
<1>1. n \in Nat
    BY LenProperties
<1>2. \A i \in 1 .. n, s \in Seq(Kind) : Add1(s, i) \in Seq(Kind)
    <2>1. ASSUME NEW i \in 1 .. n PROVE ts[i].type \in Kind
        <3>1. ts[i] \in Token
            BY ElementOfSeq
        <3> QED BY <3>1 DEF Token, Kind
    <2> QED BY <2>1, AppendProperties
<1>3. step \in [(1 .. n) \X Seq(Kind) -> Seq(Kind)]
    <2> HIDE DEF Add1
    <2> QED BY <1>2
<1>4. <<>> \in Seq(Kind)
    BY EmptySeq
<1>5. PICK f \in [0 .. n -> Seq(Kind)] : Computes(f, 0 .. n, <<>>, step)
    <2> HIDE DEF step, n
    <2> QED BY <1>1, <1>3, <1>4, RecursionTo
<1>6. ASSUME NEW i \in 0 .. n, i # 0 PROVE step[<<i, f[i - 1]>>] = Add1(f[i - 1], i)
    <2>1. i \in 1 .. n /\ i - 1 \in 0 .. n
        BY <1>1, <1>6
    <2>2. f[i - 1] \in Seq(Kind)
        BY <2>1
    <2> HIDE DEF Add1
    <2> QED BY <2>1, <2>2
<1>7. Is(f)
    <2>1. f = [i \in 0 .. n |-> IF i = 0 THEN <<>> ELSE step[<<i, f[i - 1]>>]]
        BY <1>5 DEF Computes
    <2> HIDE DEF step
    <2>2. f = [i \in 0 .. n |-> IF i = 0 THEN <<>> ELSE Add1(f[i - 1], i)]
        <3> HIDE DEF Add1
        <3> QED BY <1>6, <2>1
    <2> QED BY <2>2
<1>8. KindsUpTo(ts) = CHOOSE g : Is(g)
    BY DEF KindsUpTo
<1>9. Is(KindsUpTo(ts))
    <2> HIDE DEF Is
    <2> QED BY <1>7, <1>8
<1> DEFINE k == KindsUpTo(ts)
           S == {i \in 0 .. n : k[i] \in Seq(Kind)}
<1>10. k = [i \in 0 .. n |-> IF i = 0 THEN <<>> ELSE Add1(k[i - 1], i)]
    BY <1>9
<1> HIDE DEF k, Add1
<1>11. k[0] = <<>> /\ \A i \in 1 .. n : k[i] = Add1(k[i - 1], i)
    BY <1>1, <1>10
<1>12. 0 .. n \subseteq S
    <2>1. 0 \in S
        <3>1. 0 \in 0 .. n
            BY <1>1
        <3>2. k[0] \in Seq(Kind)
            BY <1>4, <1>11, Zenon
        <3> QED BY <3>1, <3>2
    <2>2. ASSUME NEW i \in 0 .. n - 1, i \in S PROVE i + 1 \in S
        <3>1. i + 1 \in 1 .. n /\ (i + 1) - 1 = i /\ k[i] \in Seq(Kind)
            BY <1>1, <2>2
        <3>2. k[i + 1] = Add1(k[i], i + 1)
            BY <1>11, <3>1
        <3>3. Add1(k[i], i + 1) \in Seq(Kind)
            BY <1>2, <3>1
        <3> QED BY <3>1, <3>2, <3>3
    <2> HIDE DEF S
    <2> QED BY <1>1, <2>1, <2>2, InductionTo
<1>13. k \in [0 .. n -> Seq(Kind)]
    <2>1. k = [i \in 0 .. n |-> k[i]]
        BY <1>10
    <2> QED BY <1>12, <2>1
<1> QED BY <1>11, <1>13 DEF k, Add1

\* Only the open tokens matter.
LEMMA KindsAgree ==
    ASSUME NEW ts \in Seq(Token), NEW us \in Seq(Token),
           NEW n \in 0 .. Len(ts), n <= Len(us),
           \A i \in 1 .. n : us[i].open = ts[i].open /\ us[i].type = ts[i].type
    PROVE  KindsUpTo(us)[n] = KindsUpTo(ts)[n]
<1> DEFINE k == KindsUpTo(ts)
           l == KindsUpTo(us)
           S == {i \in 0 .. n : l[i] = k[i]}
<1>1. n \in Nat /\ Len(ts) \in Nat /\ Len(us) \in Nat
    BY LenProperties
<1>2. /\ k[0] = <<>>
      /\ \A i \in 1 .. Len(ts) :
            k[i] = IF ts[i].open THEN Append(k[i - 1], ts[i].type) ELSE k[i - 1]
    BY KindsRecursion
<1>3. /\ l[0] = <<>>
      /\ \A i \in 1 .. Len(us) :
            l[i] = IF us[i].open THEN Append(l[i - 1], us[i].type) ELSE l[i - 1]
    BY KindsRecursion
<1> HIDE DEF k, l
<1>4. 0 \in S
    BY <1>1, <1>2, <1>3
<1>5. ASSUME NEW i \in 0 .. n - 1, i \in S PROVE i + 1 \in S
    <2>1. i + 1 \in 1 .. n /\ i + 1 \in 1 .. Len(ts) /\ i + 1 \in 1 .. Len(us)
          /\ (i + 1) - 1 = i /\ l[i] = k[i]
        BY <1>1, <1>5
    <2>2. k[i + 1] = IF ts[i + 1].open THEN Append(k[i], ts[i + 1].type) ELSE k[i]
        BY <1>2, <2>1
    <2>3. l[i + 1] = IF us[i + 1].open THEN Append(l[i], us[i + 1].type) ELSE l[i]
        BY <1>3, <2>1
    <2>4. us[i + 1].open = ts[i + 1].open /\ us[i + 1].type = ts[i + 1].type
        BY <2>1
    <2> QED BY <2>1, <2>2, <2>3, <2>4
<1>6. 0 .. n \subseteq S
    <2> HIDE DEF S
    <2> QED BY <1>1, <1>4, <1>5, InductionTo
<1> QED BY <1>1, <1>6 DEF k, l

\* Tokens that are not open add nothing.
LEMMA KindsStay ==
    ASSUME NEW ts \in Seq(Token), NEW m \in 0 .. Len(ts),
           \A i \in m + 1 .. Len(ts) : ~ts[i].open
    PROVE  KindsUpTo(ts)[Len(ts)] = KindsUpTo(ts)[m]
<1> DEFINE k == KindsUpTo(ts)
           d == Len(ts) - m
           S == {i \in 0 .. d : k[m + i] = k[m]}
<1>1. m \in Nat /\ Len(ts) \in Nat /\ d \in Nat
    BY LenProperties
<1>2. \A i \in 1 .. Len(ts) :
        k[i] = IF ts[i].open THEN Append(k[i - 1], ts[i].type) ELSE k[i - 1]
    BY KindsRecursion
<1> HIDE DEF k
<1>3. 0 \in S
    BY <1>1
<1>4. ASSUME NEW i \in 0 .. d - 1, i \in S PROVE i + 1 \in S
    <2>1. m + (i + 1) \in m + 1 .. Len(ts) /\ m + (i + 1) \in 1 .. Len(ts)
          /\ (m + (i + 1)) - 1 = m + i /\ i + 1 \in 0 .. d
        BY <1>1, <1>4
    <2>2. k[m + (i + 1)] = k[m + i]
        BY <1>2, <2>1
    <2> QED BY <1>4, <2>1, <2>2
<1>5. 0 .. d \subseteq S
    <2> HIDE DEF S, d
    <2> QED BY <1>1, <1>3, <1>4, InductionTo
<1>6. d \in 0 .. d /\ m + d = Len(ts)
    BY <1>1
<1>7. d \in S
    BY <1>5, <1>6
<1>8. k[m + d] = k[m]
    BY <1>7
<1> QED BY <1>6, <1>8 DEF k

\* A new token is the last of those that are open, if it is.
LEMMA AddKinds ==
    ASSUME ParserInv, ~Full, NEW t \in Token, Add(t)
    PROVE  OpenKinds' = IF t.open THEN Append(OpenKinds, t.type) ELSE OpenKinds
<1> DEFINE n == Len(tokens)
           us == tokens'
<1>1. /\ tokens \in Seq(Token) /\ us \in Seq(Token) /\ n \in Nat /\ Len(us) = n + 1
      /\ us[n + 1] = t
      /\ \A i \in 1 .. n : us[i].open = tokens[i].open /\ us[i].type = tokens[i].type
    BY AddFacts DEF ParserInv, JsmnTypeOK
<1>2. OpenKinds' = KindsUpTo(us)[n + 1]
    BY <1>1 DEF OpenKinds
<1> HIDE DEF us
<1>3. KindsUpTo(us)[n + 1] = IF us[n + 1].open
                             THEN Append(KindsUpTo(us)[n], us[n + 1].type)
                             ELSE KindsUpTo(us)[n]
    <2>1. \A i \in 1 .. Len(us) :
            KindsUpTo(us)[i] = IF us[i].open THEN Append(KindsUpTo(us)[i - 1], us[i].type)
                               ELSE KindsUpTo(us)[i - 1]
        BY <1>1, KindsRecursion
    <2>2. n + 1 \in 1 .. Len(us) /\ (n + 1) - 1 = n
        BY <1>1
    <2> QED BY <2>1, <2>2
<1>4. KindsUpTo(us)[n] = KindsUpTo(tokens)[n]
    <2>1. n \in 0 .. Len(tokens) /\ n <= Len(us)
        BY <1>1
    <2> QED BY <1>1, <2>1, KindsAgree
<1> QED BY <1>1, <1>2, <1>3, <1>4 DEF OpenKinds

\* Whatever a step does to the tokens, it does to the brackets what they allow.
LEMMA BracketsStep ==
    ParserInv /\ [ParserNext]_parserVars
        => [Brackets!NestingNext]_<<OpenKinds, result = "ok">>
<1> SUFFICES ASSUME ParserInv, [ParserNext]_parserVars
             PROVE  [Brackets!NestingNext]_<<OpenKinds, result = "ok">>
    OBVIOUS
<1> DEFINE Steps == [Brackets!NestingNext]_<<OpenKinds, result = "ok">>
           n == Len(tokens)
<1>1. ASSUME tokens' = tokens, (result' = "ok") <=> (result = "ok") PROVE Steps
    <2>1. OpenKinds' = OpenKinds
        BY <1>1 DEF OpenKinds
    <2> QED BY <1>1, <2>1
<1>2. ASSUME NEW error \in {"inval", "part", "nomem"}, result = "run", Fails(error)
      PROVE  Steps
    BY <1>1, <1>2 DEF Fails
<1>3. ASSUME NEW c \in Container, OpenBracket(c) PROVE Steps
    <2> DEFINE t == [type |-> c, label |-> NoLabel, open |-> TRUE, size |-> 0]
    <2>1. result = "run"
        BY <1>3 DEF OpenBracket, Reads
    <2>2. CASE \E error \in {"inval", "nomem"} : Fails(error)
        BY <1>2, <2>1, <2>2
    <2>3. CASE ~Full /\ Add(t) /\ symbol' = Opening[c] /\ UNCHANGED result
        <3>1. t \in Token /\ t.open /\ t.type = c
            BY DEF Token
        <3> HIDE DEF t
        <3>2. OpenKinds' = Append(OpenKinds, c)
            BY <2>3, <3>1, AddKinds
        <3> QED BY <2>1, <2>3, <3>2 DEF Brackets!NestingNext, Brackets!Opens
    <2> QED BY <1>3, <2>2, <2>3 DEF OpenBracket
<1>4. ASSUME NEW c \in Container, CloseBracket(c) PROVE Steps
    <2> DEFINE i == LastOpen(n)
    <2>1. result = "run"
        BY <1>4 DEF CloseBracket, ReadsDelimiter
    <2>2. CASE Fails("inval")
        BY <1>2, <2>1, <2>2
    <2>3. CASE /\ i # 0 /\ tokens[i].type = c
               /\ tokens' = [tokens EXCEPT ![i].open = FALSE]
               /\ symbol' = Closing[c]
               /\ UNCHANGED result
        <3>1. /\ tokens \in Seq(Token) /\ n \in Nat /\ i \in 1 .. n /\ tokens[i].open
              /\ \A k \in 1 .. n : tokens[k].open => k <= i
            BY <2>3, LastOpenIs DEF ParserInv, JsmnTypeOK
        <3> HIDE DEF i
        <3> DEFINE e == [tokens[i] EXCEPT !.open = FALSE]
                   us == tokens'
        <3>2. tokens[i] \in Token
            BY <3>1, ElementOfSeq
        <3>3. e \in Token /\ ~e.open
            BY <3>2 DEF Token
        <3>4. us = [tokens EXCEPT ![i] = e]
            BY <2>3
        <3>5. OpenKinds' = KindsUpTo(us)[Len(us)]
            BY DEF OpenKinds
        <3> HIDE DEF e, us
        <3>6. /\ us \in Seq(Token) /\ Len(us) = n
              /\ \A k \in 1 .. n : us[k] = IF k = i THEN e ELSE tokens[k]
            BY <3>1, <3>3, <3>4, ExceptSeq
        <3>7. KindsUpTo(us)[n] = KindsUpTo(us)[i - 1]
            <4>1. \A k \in (i - 1) + 1 .. Len(us) : ~us[k].open
                BY <3>1, <3>3, <3>6
            <4>2. i - 1 \in 0 .. Len(us)
                BY <3>1, <3>6
            <4>3. KindsUpTo(us)[Len(us)] = KindsUpTo(us)[i - 1]
                BY <3>6, <4>1, <4>2, KindsStay
            <4> QED BY <3>6, <4>3
        <3>8. KindsUpTo(us)[i - 1] = KindsUpTo(tokens)[i - 1]
            <4>1. \A k \in 1 .. i - 1 :
                    us[k].open = tokens[k].open /\ us[k].type = tokens[k].type
                BY <3>1, <3>6
            <4>2. i - 1 \in 0 .. Len(tokens) /\ i - 1 <= Len(us)
                BY <3>1, <3>6
            <4> QED BY <3>1, <3>6, <4>1, <4>2, KindsAgree
        <3>9. KindsUpTo(tokens)[n] = Append(KindsUpTo(tokens)[i - 1], c)
            <4>1. \A k \in i + 1 .. Len(tokens) : ~tokens[k].open
                BY <3>1
            <4>2. i \in 0 .. Len(tokens)
                BY <3>1
            <4>3. KindsUpTo(tokens)[n] = KindsUpTo(tokens)[i]
                BY <3>1, <4>1, <4>2, KindsStay
            <4>4. KindsUpTo(tokens)[i] = Append(KindsUpTo(tokens)[i - 1], tokens[i].type)
                BY <3>1, KindsRecursion
            <4> QED BY <2>3, <4>3, <4>4
        <3>10. OpenKinds = Append(OpenKinds', c)
            BY <3>5, <3>6, <3>7, <3>8, <3>9 DEF OpenKinds
        <3> QED BY <2>1, <2>3, <3>10 DEF Brackets!NestingNext, Brackets!Closes
    <2> QED BY <1>4, <2>2, <2>3 DEF CloseBracket
<1>5. ASSUME NEW l \in Label, String(l) PROVE Steps
    <2> DEFINE t == [type |-> "string", label |-> l, open |-> FALSE, size |-> 0]
    <2>1. result = "run"
        BY <1>5 DEF String, Reads
    <2>2. CASE \E error \in {"inval", "part", "nomem"} : Fails(error)
        BY <1>2, <2>1, <2>2
    <2>3. CASE ~Full /\ Add(t) /\ UNCHANGED result
        <3>1. t \in Token /\ ~t.open
            BY DEF Token
        <3> HIDE DEF t
        <3>2. OpenKinds' = OpenKinds
            BY <2>3, <3>1, AddKinds
        <3> QED BY <2>3, <3>2
    <2> QED BY <1>5, <2>2, <2>3 DEF String
<1>6. CASE Primitive
    <2> DEFINE t == [type |-> "primitive", label |-> NoLabel, open |-> FALSE, size |-> 0]
    <2>1. result = "run"
        BY <1>6 DEF Primitive, Reads
    <2>2. CASE \E error \in {"inval", "part", "nomem"} : Fails(error)
        BY <1>2, <2>1, <2>2
    <2>3. CASE ~Full /\ Add(t) /\ UNCHANGED result
        <3>1. t \in Token /\ ~t.open
            BY DEF Token
        <3> HIDE DEF t
        <3>2. OpenKinds' = OpenKinds
            BY <2>3, <3>1, AddKinds
        <3> QED BY <2>3, <3>2
    <2> QED BY <1>6, <2>2, <2>3 DEF Primitive
<1>7. CASE Colon \/ Comma \/ Blank \/ UNCHANGED parserVars
    BY <1>1, <1>7 DEF Colon, Comma, Blank, parserVars
<1>8. CASE Other
    BY <1>2, <1>8 DEF Other, Reads
<1>9. CASE End
    <2>1. result = "run" /\ tokens' = tokens
        BY <1>9 DEF End, Reads
    <2>2. CASE LastOpen(n) # 0
        <3>1. result' = "part"
            BY <1>9, <2>2 DEF End
        <3> QED BY <1>1, <2>1, <3>1
    <2>3. CASE LastOpen(n) = 0
        <3>1. result' = "ok"
            BY <1>9, <2>3 DEF End
        <3>2. tokens \in Seq(Token) /\ n \in Nat
            BY DEF ParserInv, JsmnTypeOK
        <3>3. \A k \in 1 .. n : ~tokens[k].open
            <4>1. \A k \in 1 .. n : tokens[k].open => k <= LastOpen(n)
                BY <3>2, LastOpenIs DEF ParserInv
            <4> QED BY <2>3, <3>2, <4>1
        <3>4. KindsUpTo(tokens)[n] = KindsUpTo(tokens)[0]
            <4>1. 0 \in 0 .. Len(tokens) /\ \A k \in 0 + 1 .. Len(tokens) : ~tokens[k].open
                BY <3>2, <3>3
            <4> QED BY <3>2, <4>1, KindsStay
        <3>5. OpenKinds = <<>>
            BY <3>2, <3>4, KindsRecursion DEF OpenKinds
        <3>6. OpenKinds' = OpenKinds
            BY <2>1 DEF OpenKinds
        <3> QED BY <2>1, <3>1, <3>5, <3>6 DEF Brackets!NestingNext
    <2> QED BY <2>2, <2>3
<1> QED BY <1>3, <1>4, <1>5, <1>6, <1>7, <1>8, <1>9 DEF ParserNext, Done

\* Whatever else the text has, jsmn_parse closes each bracket by its own kind,
\* the last opened first, and accepts no text with one open.
THEOREM BracketsNested == ParserSpec => ImplementsNesting
<1>1. ParserInit => Brackets!NestingInit
    <2>1. SUFFICES ASSUME ParserInit PROVE Brackets!NestingInit
        OBVIOUS
    <2>2. tokens = <<>> /\ <<>> \in Seq(Token) /\ Len(<<>>) = 0
        BY <2>1, EmptySeq DEF ParserInit
    <2>3. KindsUpTo(<<>>)[0] = <<>>
        BY <2>2, KindsRecursion
    <2> QED BY <2>1, <2>2, <2>3 DEF Brackets!NestingInit, OpenKinds, ParserInit
<1> QED BY <1>1, BracketsStep, ParserInvariant, PTL
    DEF ParserSpec, ImplementsNesting, Brackets!NestingSpec

-----------------------------------------------------------------------------
\* The first token after i that is not below it.  Whatever comes after the last
\* token is taken for one without children.
Beyond(i) ==
    Min({k \in i + 1 .. Len(tokens) : parent[k] < i}
        \cup {IF i \in 1 .. Len(tokens) THEN Len(tokens) + 1 ELSE i + 1})

\* Min is the least member.
LEMMA MinIs ==
    ASSUME NEW T \in SUBSET Nat, T # {}
    PROVE  Min(T) \in T /\ \A x \in T : Min(T) <= x
<1>1. PICK x \in T : \A y \in T : x <= y
    BY Least
<1> QED BY <1>1 DEF Min

\* What the proofs below need of the tokens.
LEMMA TreeFacts ==
    ASSUME ParserInv
    PROVE  /\ Len(tokens) \in Nat
           /\ DOMAIN tokens = 1 .. Len(tokens) /\ DOMAIN parent = 1 .. Len(tokens)
           /\ \A k \in 1 .. Len(tokens) : parent[k] \in Nat /\ parent[k] < k
           /\ \A k \in 1 .. Len(tokens) :
                \A j \in parent[k] + 1 .. k : parent[j] >= parent[k]
           /\ \A i \in 1 .. Len(tokens) :
                /\ SizeOf(i) = Cardinality(Children(i))
                /\ IsFiniteSet(Children(i)) /\ SizeOf(i) \in Nat
           /\ \A i \in Nat : i \notin 1 .. Len(tokens) => SizeOf(i) = 0
<1> DEFINE n == Len(tokens)
<1>1. n \in Nat /\ DOMAIN tokens = 1 .. n /\ DOMAIN parent = 1 .. n
    BY DEF ParserInv, JsmnTypeOK
<1>2. \A k \in 1 .. n : parent[k] \in Nat /\ parent[k] < k
    BY JsmnAssumption, <1>1 DEF ParserInv, JsmnTypeOK, EarlierParent
<1>3. \A k \in 1 .. n : \A j \in parent[k] + 1 .. k : parent[j] >= parent[k]
    BY <1>1 DEF ParserInv, TokensAreTree
<1>4. \A i \in 1 .. n : SizeOf(i) = Cardinality(Children(i))
    BY <1>1 DEF ParserInv, TokensAreTree, SizeOf
<1>5. \A i \in 1 .. n : IsFiniteSet(Children(i)) /\ Cardinality(Children(i)) \in Nat
    <2>1. IsFiniteSet(1 .. n)
        BY <1>1, FS_Interval
    <2>2. \A i \in 1 .. n : Children(i) \subseteq 1 .. n
        BY <1>1 DEF Children
    <2> QED BY <2>1, <2>2, FS_Subset, FS_CardinalityType
<1>6. \A i \in Nat : i \notin 1 .. n => SizeOf(i) = 0
    BY <1>1 DEF SizeOf
<1> QED BY <1>1, <1>2, <1>3, <1>4, <1>5, <1>6

LEMMA BeyondIs ==
    ASSUME ParserInv, NEW i \in 1 .. Len(tokens)
    PROVE  /\ Beyond(i) \in i + 1 .. Len(tokens) + 1
           /\ \A k \in i + 1 .. Beyond(i) - 1 : parent[k] >= i
           /\ Beyond(i) <= Len(tokens) => parent[Beyond(i)] < i
<1> DEFINE n == Len(tokens)
           T == {k \in i + 1 .. n : parent[k] < i} \cup {n + 1}
<1>1. n \in Nat /\ \A k \in 1 .. n : parent[k] \in Nat
    BY TreeFacts
<1>2. Beyond(i) = Min(T)
    BY DEF Beyond
<1>3. T \in SUBSET Nat /\ T # {}
    BY <1>1
<1>4. Min(T) \in T /\ \A x \in T : Min(T) <= x
    <2> HIDE DEF T
    <2> QED BY <1>3, MinIs
<1> DEFINE b == Min(T)
<1>5. b \in i + 1 .. n + 1 /\ (b <= n => parent[b] < i)
    BY <1>1, <1>4
<1>6. ASSUME NEW k \in i + 1 .. b - 1 PROVE parent[k] >= i
    <2>1. k \in i + 1 .. n /\ ~(b <= k) /\ parent[k] \in Nat
        BY <1>1, <1>5
    <2>2. k \notin T
        BY <1>4, <2>1
    <2> QED BY <2>1, <2>2
<1> HIDE DEF T
<1> QED BY <1>2, <1>5, <1>6

\* What has its parent in a subtree is in it.
LEMMA SubtreeClosed ==
    ASSUME ParserInv, NEW i \in 1 .. Len(tokens), NEW k \in 1 .. Len(tokens),
           parent[k] \in i .. Beyond(i) - 1
    PROVE  k \in i + 1 .. Beyond(i) - 1
<1> DEFINE n == Len(tokens)
           b == Beyond(i)
<1>1. n \in Nat /\ parent[k] < k /\ b \in i + 1 .. n + 1 /\ (b <= n => parent[b] < i)
    BY BeyondIs, TreeFacts
<1>2. \A j \in parent[k] + 1 .. k : parent[j] >= parent[k]
    BY TreeFacts
<1>3. \A j \in 1 .. n : parent[j] \in Nat
    BY TreeFacts
<1> HIDE DEF b
<1>4. ASSUME k >= b PROVE FALSE
    <2>1. b \in parent[k] + 1 .. k /\ b \in 1 .. n
        BY <1>1, <1>4 DEF b
    <2>2. parent[b] >= parent[k] /\ parent[b] < i /\ parent[b] \in Nat
        BY <1>1, <1>2, <1>3, <2>1
    <2> QED BY <1>1, <2>2
<1> QED BY <1>1, <1>4 DEF b

\* The first token of a subtree is a child of its root.
LEMMA FirstChild ==
    ASSUME ParserInv, NEW t \in 1 .. Len(tokens), t + 1 # Beyond(t)
    PROVE  t + 1 \in 1 .. Len(tokens) /\ t + 1 < Beyond(t) /\ parent[t + 1] = t
<1>1. /\ Beyond(t) \in t + 1 .. Len(tokens) + 1
      /\ \A k \in t + 1 .. Beyond(t) - 1 : parent[k] >= t
    BY BeyondIs
<1>2. t + 1 \in 1 .. Len(tokens) /\ t + 1 < Beyond(t) /\ t + 1 \in t + 1 .. Beyond(t) - 1
    BY <1>1, TreeFacts
<1>3. parent[t + 1] \in Nat /\ parent[t + 1] < t + 1 /\ parent[t + 1] >= t
    BY <1>1, <1>2, TreeFacts
<1> QED BY <1>2, <1>3

\* After the subtree of a child comes the next child, if there is one.
LEMMA NextChild ==
    ASSUME ParserInv, NEW t \in 1 .. Len(tokens), NEW c \in 1 .. Len(tokens), parent[c] = t
    PROVE  /\ c \in t + 1 .. Beyond(t) - 1
           /\ Beyond(c) \in c + 1 .. Beyond(t)
           /\ Beyond(c) # Beyond(t) =>
                Beyond(c) \in 1 .. Len(tokens) /\ parent[Beyond(c)] = t
           /\ \A m \in Children(t) : m < Beyond(c) <=> m <= c
<1> DEFINE n == Len(tokens)
           b == Beyond(c)
           e == Beyond(t)
<1>1. /\ n \in Nat /\ e \in t + 1 .. n + 1 /\ (e <= n => parent[e] < t)
      /\ \A k \in t + 1 .. e - 1 : parent[k] >= t
    BY BeyondIs, TreeFacts
<1>2. /\ b \in c + 1 .. n + 1 /\ (b <= n => parent[b] < c)
      /\ \A k \in c + 1 .. b - 1 : parent[k] >= c
    BY BeyondIs
<1>3. \A k \in 1 .. n : parent[k] \in Nat /\ parent[k] < k
    BY TreeFacts
<1>4. c \in t + 1 .. e - 1
    <2>1. parent[c] \in t .. Beyond(t) - 1
        BY <1>1
    <2> QED BY <2>1, SubtreeClosed
<1> HIDE DEF b, e
<1>5. b <= e
    <2>1. ASSUME e < b PROVE FALSE
        <3>1. e \in c + 1 .. b - 1 /\ e \in 1 .. n
            BY <1>1, <1>2, <1>4, <2>1
        <3>2. parent[e] >= c /\ parent[e] < t /\ parent[e] \in Nat
            BY <1>1, <1>2, <1>3, <3>1
        <3> QED BY <1>4, <3>2
    <2> QED BY <1>1, <1>2, <2>1
<1>6. ASSUME b # e PROVE b \in 1 .. n /\ parent[b] = t
    <2>1. b \in t + 1 .. e - 1 /\ b \in 1 .. n
        BY <1>1, <1>2, <1>4, <1>5, <1>6
    <2>2. parent[b] >= t /\ parent[b] < c /\ parent[b] \in Nat
        BY <1>1, <1>2, <1>3, <2>1
    <2>3. ASSUME parent[b] # t PROVE FALSE
        <3>1. c \in parent[b] + 1 .. b
            BY <1>2, <2>2
        <3>2. parent[c] >= parent[b]
            BY <2>1, <3>1, TreeFacts
        <3> QED BY <2>2, <2>3, <3>2
    <2> QED BY <2>1, <2>3
<1>7. ASSUME NEW m \in Children(t) PROVE m < b <=> m <= c
    <2>1. m \in 1 .. n /\ parent[m] = t
        BY TreeFacts DEF Children
    <2>2. ASSUME m \in c + 1 .. b - 1 PROVE FALSE
        BY <1>2, <1>4, <2>1, <2>2
    <2> QED BY <1>2, <2>1, <2>2
<1> QED BY <1>2, <1>4, <1>5, <1>6, <1>7 DEF b, e

\* g[u][n] is the token after the n subtrees that begin at u, if u > t.
Skips(g, t) ==
    \A u \in Nat : u > t =>
        /\ g[u][0] = u
        /\ \A n \in Nat : n # 0 => g[u][n] = g[Beyond(u)][n - 1]

\* Who skips as many subtrees as a token has children comes to its end, and
\* until then from child to child.
LEMMA SkipsChildren ==
    ASSUME ParserInv, NEW t \in 1 .. Len(tokens), NEW g, Skips(g, t)
    PROVE  /\ g[t + 1][SizeOf(t)] = Beyond(t)
           /\ \A j \in Nat : j < SizeOf(t) =>
                /\ g[t + 1][j] \in Children(t)
                /\ Cardinality({m \in Children(t) : m < g[t + 1][j]}) = j
                /\ g[t + 1][j + 1] = Beyond(g[t + 1][j])
<1> DEFINE s == SizeOf(t)
           C == Children(t)
           e == Beyond(t)
           Before(c) == {m \in C : m < c}
           At(c, j) == /\ c = e \/ c \in C
                       /\ Cardinality(Before(c)) = j
                       /\ \A m \in Nat : m >= j => g[t + 1][m] = g[c][m - j]
           S == {j \in 0 .. s : \E c \in t + 1 .. e : At(c, j)}
<1>1. /\ Len(tokens) \in Nat /\ s \in Nat /\ s = Cardinality(C) /\ IsFiniteSet(C)
      /\ e \in t + 1 .. Len(tokens) + 1
    BY TreeFacts, BeyondIs
<1>2. \A c \in C : c \in 1 .. Len(tokens) /\ parent[c] = t /\ c \in t + 1 .. e - 1
    <2>1. \A c \in C : c \in 1 .. Len(tokens) /\ parent[c] = t
        BY TreeFacts DEF Children
    <2> QED BY <2>1, NextChild
<1>3. \A c : IsFiniteSet(Before(c))
    <2>1. \A c : Before(c) \in SUBSET C
        OBVIOUS
    <2> HIDE DEF C, Before
    <2> QED BY <1>1, <2>1, FS_Subset
<1>4. Before(e) = C
    BY <1>1, <1>2
<1>5. \A c \in C : Cardinality(Before(c) \cup {c}) = Cardinality(Before(c)) + 1
    <2>1. ASSUME NEW c \in C PROVE c \notin Before(c)
        BY <1>2
    <2> HIDE DEF C, Before
    <2> QED BY <1>3, <2>1, FS_AddElement
<1>6. ASSUME NEW c \in C PROVE Cardinality(Before(c)) < s
    <2>1. Before(c) \cup {c} \in SUBSET C
        OBVIOUS
    <2>2. Cardinality(Before(c) \cup {c}) <= Cardinality(C)
        <3> HIDE DEF C, Before
        <3> QED BY <1>1, <2>1, FS_Subset
    <2>3. Cardinality(Before(c)) \in Nat
        BY <1>3, FS_CardinalityType
    <2> HIDE DEF C, Before, s
    <2> QED BY <1>1, <1>5, <2>2, <2>3
<1>7. 0 \in S
    <2>1. t + 1 = e \/ t + 1 \in C
        BY <1>1, FirstChild, TreeFacts DEF Children
    <2>2. Before(t + 1) = {}
        BY <1>2
    <2>3. \A m \in Nat : m >= 0 => g[t + 1][m] = g[t + 1][m - 0]
        OBVIOUS
    <2>4. t + 1 \in t + 1 .. e /\ 0 \in 0 .. s
        BY <1>1
    <2>5. Cardinality(Before(t + 1)) = 0
        BY <2>2, FS_EmptySet
    <2>6. At(t + 1, 0)
        BY <2>1, <2>3, <2>5
    <2> HIDE DEF At
    <2> QED BY <2>4, <2>6
<1>8. ASSUME NEW j \in 0 .. s - 1, j \in S PROVE j + 1 \in S
    <2>1. PICK c \in t + 1 .. e : At(c, j)
        BY <1>8
    <2>2. c \in C
        <3>1. ASSUME c = e PROVE FALSE
            <4>1. Before(c) = C /\ Cardinality(Before(c)) = j
                BY <1>4, <2>1, <3>1
            <4> HIDE DEF C, Before, s
            <4> QED BY <1>1, <4>1
        <3> QED BY <2>1, <3>1
    <2> DEFINE d == Beyond(c)
    <2>3. /\ d \in c + 1 .. e
          /\ d # e => d \in 1 .. Len(tokens) /\ parent[d] = t
          /\ \A m \in C : m < d <=> m <= c
        BY <1>2, <2>2, NextChild
    <2>4. d \in t + 1 .. e /\ (d = e \/ d \in C)
        BY <1>1, <2>3, TreeFacts DEF Children
    <2>5. Cardinality(Before(d)) = j + 1
        <3>1. Before(d) = Before(c) \cup {c}
            <4>1. ASSUME NEW m \in C PROVE m < d <=> m = c \/ m < c
                <5>1. m \in Int /\ c \in Int /\ (m < d <=> m <= c)
                    BY <1>2, <2>3
                <5> QED BY <5>1
            <4> HIDE DEF C, d
            <4> QED BY <2>2, <4>1
        <3> HIDE DEF C, Before, d
        <3> QED BY <1>5, <2>1, <2>2, <3>1
    <2>6. ASSUME NEW m \in Nat, m >= j + 1 PROVE g[t + 1][m] = g[d][m - (j + 1)]
        <3>1. m >= j /\ m - j \in Nat /\ m - j # 0 /\ (m - j) - 1 = m - (j + 1)
            BY <1>1, <2>6
        <3>2. g[t + 1][m] = g[c][m - j]
            BY <2>1, <3>1
        <3>3. c \in Nat /\ c > t
            BY <1>1
        <3>4. g[c][m - j] = g[d][(m - j) - 1]
            BY <3>1, <3>3 DEF Skips
        <3> QED BY <3>1, <3>2, <3>4
    <2>7. At(d, j + 1)
        <3> HIDE DEF d, C, Before
        <3> QED BY <2>4, <2>5, <2>6
    <2>8. j + 1 \in 0 .. s
        BY <1>1
    <2> HIDE DEF At, d
    <2> QED BY <2>4, <2>7, <2>8
<1>9. 0 .. s \subseteq S
    <2> HIDE DEF S, s
    <2> QED BY <1>1, <1>7, <1>8, InductionTo
<1>10. ASSUME NEW j \in 0 .. s
       PROVE  \E c \in t + 1 .. e : At(c, j) /\ g[t + 1][j] = c
    <2>1. PICK c \in t + 1 .. e : At(c, j)
        BY <1>9
    <2>2. j \in Nat /\ j >= j /\ j - j = 0 /\ c \in Nat /\ c > t
        BY <1>1
    <2>3. g[t + 1][j] = g[c][0]
        BY <2>1, <2>2
    <2>4. g[c][0] = c
        BY <2>2 DEF Skips
    <2> HIDE DEF At
    <2> QED BY <2>1, <2>3, <2>4
<1>11. g[t + 1][s] = e
    <2>1. s \in 0 .. s
        BY <1>1
    <2>2. PICK c \in t + 1 .. e : At(c, s) /\ g[t + 1][s] = c
        BY <1>10, <2>1
    <2>3. c \notin C
        BY <1>1, <1>6, <2>2
    <2> QED BY <2>2, <2>3
<1>12. ASSUME NEW j \in Nat, j < s
       PROVE  /\ g[t + 1][j] \in C /\ Cardinality(Before(g[t + 1][j])) = j
              /\ g[t + 1][j + 1] = Beyond(g[t + 1][j])
    <2>1. j \in 0 .. s
        BY <1>1, <1>12
    <2>2. PICK c \in t + 1 .. e : At(c, j) /\ g[t + 1][j] = c
        BY <1>10, <2>1
    <2>3. ASSUME c = e PROVE FALSE
        <3>1. Before(c) = C /\ Cardinality(Before(c)) = j
            BY <1>4, <2>2, <2>3
        <3> HIDE DEF C, Before, s
        <3> QED BY <1>1, <1>12, <3>1
    <2>4. c \in C /\ c \in 1 .. Len(tokens) /\ c > t
        BY <1>1, <1>2, <2>2, <2>3
    <2>5. g[t + 1][j + 1] = Beyond(c)
        <3>1. j + 1 \in Nat /\ j + 1 >= j /\ (j + 1) - j = 1 /\ 1 \in Nat /\ 1 - 1 = 0
            BY <1>12
        <3>2. g[t + 1][j + 1] = g[c][1]
            BY <2>2, <3>1
        <3>3. c \in Nat /\ Beyond(c) \in Nat /\ Beyond(c) > t
            BY <1>1, <2>4, BeyondIs
        <3>4. g[c][1] = g[Beyond(c)][1 - 1]
            BY <2>4, <3>1, <3>3 DEF Skips
        <3>5. g[Beyond(c)][0] = Beyond(c)
            BY <3>3 DEF Skips
        <3> QED BY <3>1, <3>2, <3>4, <3>5
    <2> QED BY <2>2, <2>4, <2>5
<1> QED BY <1>11, <1>12

\* After is what its definition says, and goes from subtree to subtree.
LEMMA AfterIs ==
    ASSUME ParserInv
    PROVE  \A t \in Nat :
              /\ Beyond(t) \in Nat
              /\ After[t][0] = t
              /\ \A n \in Nat : n # 0 => After[t][n] = After[Beyond(t)][n - 1]
              /\ After[t + 1][SizeOf(t)] = Beyond(t)
<1> DEFINE Is(f) == f = [t \in Nat |-> [n \in Nat |->
                            IF n = 0 THEN t ELSE f[f[t + 1][SizeOf(t)]][n - 1]]]
<1>1. \A t \in Nat : t \notin 1 .. Len(tokens) => SizeOf(t) = 0 /\ Beyond(t) = t + 1
    <2>1. SUFFICES ASSUME NEW t \in Nat, t \notin 1 .. Len(tokens)
                   PROVE  SizeOf(t) = 0 /\ Beyond(t) = t + 1
        OBVIOUS
    <2> DEFINE T == {k \in t + 1 .. Len(tokens) : parent[k] < t} \cup {t + 1}
    <2>2. T = {t + 1}
        <3>1. ASSUME NEW k \in t + 1 .. Len(tokens), parent[k] < t PROVE FALSE
            <4>1. k \in 1 .. Len(tokens) /\ t = 0
                BY <2>1, TreeFacts
            <4> QED BY <3>1, <4>1, TreeFacts
        <3> QED BY <3>1
    <2>3. Beyond(t) = Min(T)
        BY <2>1 DEF Beyond
    <2>4. Min({t + 1}) = t + 1
        BY MinIs
    <2> QED BY <2>1, <2>2, <2>3, <2>4, TreeFacts
<1>2. \A t \in Nat : Beyond(t) \in Nat
    <2>1. ASSUME NEW t \in 1 .. Len(tokens) PROVE Beyond(t) \in Nat
        BY <2>1, BeyondIs, TreeFacts
    <2> QED BY <1>1, <2>1
<1>3. \E f : Is(f)
    <2> DEFINE T == [Nat -> Nat]
               base == [t \in Nat |-> t]
               step == [x \in Nat \X T |-> [t \in Nat |-> x[2][Beyond(t)]]]
    <2>1. base \in T
        OBVIOUS
    <2>2. step \in [Nat \X T -> T]
        <3>1. ASSUME NEW x \in Nat \X T PROVE [t \in Nat |-> x[2][Beyond(t)]] \in T
            <4>1. x[2] \in [Nat -> Nat]
                OBVIOUS
            <4>2. \A t \in Nat : x[2][Beyond(t)] \in Nat
                BY <1>2, <4>1
            <4> QED BY <4>2
        <3> HIDE DEF T
        <3> QED BY <3>1
    <2>3. PICK r \in [Nat -> T] : Computes(r, Nat, base, step)
        <3> HIDE DEF T, base, step
        <3> QED BY <2>1, <2>2, Recursion
    <2> DEFINE f == [t \in Nat |-> [n \in Nat |-> r[n][t]]]
    <2>4. /\ r[0] = base
          /\ \A n \in Nat : n # 0 => r[n] = [t \in Nat |-> r[n - 1][Beyond(t)]]
        <3>1. \A n \in Nat : r[n] = IF n = 0 THEN base ELSE step[<<n, r[n - 1]>>]
            BY <2>3 DEF Computes
        <3>2. ASSUME NEW n \in Nat, n # 0
              PROVE  step[<<n, r[n - 1]>>] = [t \in Nat |-> r[n - 1][Beyond(t)]]
            <4>1. n - 1 \in Nat
                BY <3>2
            <4>2. r[n - 1] \in T
                BY <4>1
            <4> HIDE DEF T
            <4> QED BY <4>2
        <3> HIDE DEF step, base
        <3> QED BY <3>1, <3>2
    <2>5. ASSUME NEW t \in Nat
          PROVE  /\ f[t][0] = t
                 /\ \A n \in Nat : n # 0 => f[t][n] = f[Beyond(t)][n - 1]
        <3>1. f[t][0] = r[0][t]
            OBVIOUS
        <3>2. r[0][t] = t
            BY <2>4
        <3>3. ASSUME NEW n \in Nat, n # 0 PROVE f[t][n] = f[Beyond(t)][n - 1]
            <4>1. n - 1 \in Nat /\ Beyond(t) \in Nat
                BY <1>2, <3>3
            <4>2. f[t][n] = r[n][t] /\ f[Beyond(t)][n - 1] = r[n - 1][Beyond(t)]
                BY <4>1
            <4>3. r[n][t] = r[n - 1][Beyond(t)]
                BY <2>4, <3>3
            <4> QED BY <4>2, <4>3
        <3> QED BY <3>1, <3>2, <3>3
    <2>6. f = [t \in Nat |-> f[t]] /\ \A t \in Nat : f[t] = [n \in Nat |-> f[t][n]]
        OBVIOUS
    <2> HIDE DEF f
    <2>7. \A t \in Nat : f[t + 1][SizeOf(t)] = Beyond(t)
        <3>1. \A t \in Nat : Skips(f, t)
            BY <2>5 DEF Skips
        <3>2. ASSUME NEW t \in Nat, t \notin 1 .. Len(tokens)
              PROVE  f[t + 1][SizeOf(t)] = Beyond(t)
            <4>1. SizeOf(t) = 0 /\ Beyond(t) = t + 1 /\ t + 1 \in Nat
                BY <1>1, <3>2
            <4> QED BY <2>5, <4>1
        <3>3. ASSUME NEW t \in 1 .. Len(tokens) PROVE f[t + 1][SizeOf(t)] = Beyond(t)
            <4>1. t \in Nat
                OBVIOUS
            <4> QED BY <3>1, <4>1, SkipsChildren
        <3> QED BY <3>2, <3>3
    <2>8. \A t \in Nat, n \in Nat :
            f[t][n] = IF n = 0 THEN t ELSE f[f[t + 1][SizeOf(t)]][n - 1]
        <3>1. ASSUME NEW t \in Nat, NEW n \in Nat, n # 0
              PROVE  f[t][n] = f[f[t + 1][SizeOf(t)]][n - 1]
            <4>1. f[t][n] = f[Beyond(t)][n - 1]
                BY <2>5, <3>1
            <4>2. f[t + 1][SizeOf(t)] = Beyond(t)
                BY <2>7
            <4> QED BY <4>1, <4>2
        <3> QED BY <2>5, <3>1
    <2>9. Is(f)
        <3>1. ASSUME NEW t \in Nat
              PROVE  f[t] = [n \in Nat |-> IF n = 0 THEN t ELSE f[f[t + 1][SizeOf(t)]][n - 1]]
            <4> DEFINE G(n) == IF n = 0 THEN t ELSE f[f[t + 1][SizeOf(t)]][n - 1]
            <4>1. f[t] = [n \in Nat |-> f[t][n]] /\ \A n \in Nat : f[t][n] = G(n)
                BY <2>6, <2>8
            <4> HIDE DEF G
            <4>2. f[t] = [n \in Nat |-> G(n)]
                BY <4>1
            <4> QED BY <4>2 DEF G
        <3> DEFINE H(t) ==
                [n \in Nat |-> IF n = 0 THEN t ELSE f[f[t + 1][SizeOf(t)]][n - 1]]
        <3>2. f = [t \in Nat |-> f[t]] /\ \A t \in Nat : f[t] = H(t)
            BY <2>6, <3>1
        <3> HIDE DEF H
        <3>3. f = [t \in Nat |-> H(t)]
            BY <3>2
        <3> QED BY <3>3 DEF H
    <2> HIDE DEF Is
    <2> QED BY <2>9
<1>4. After = CHOOSE f : Is(f)
    BY DEF After
<1>5. Is(After)
    <2> HIDE DEF Is
    <2> QED BY <1>3, <1>4
<1> DEFINE a == After
<1>6. \A t \in Nat, n \in Nat :
        a[t][n] = IF n = 0 THEN t ELSE a[a[t + 1][SizeOf(t)]][n - 1]
    <2> DEFINE H(t) == [n \in Nat |-> IF n = 0 THEN t ELSE a[a[t + 1][SizeOf(t)]][n - 1]]
    <2>1. a = [t \in Nat |-> H(t)]
        BY <1>5
    <2> HIDE DEF a, H
    <2>2. \A t \in Nat : a[t] = H(t)
        BY <2>1
    <2>3. \A t \in Nat, n \in Nat :
            H(t)[n] = IF n = 0 THEN t ELSE a[a[t + 1][SizeOf(t)]][n - 1]
        BY DEF H
    <2> QED BY <2>2, <2>3
<1> HIDE DEF a
<1>7. \A t \in Nat : a[t][0] = t
    BY <1>6
<1>8. ASSUME NEW t \in Nat PROVE a[t + 1][SizeOf(t)] = Beyond(t)
    <2>1. CASE t \notin 1 .. Len(tokens)
        <3>1. SizeOf(t) = 0 /\ Beyond(t) = t + 1 /\ t + 1 \in Nat
            BY <1>1, <2>1
        <3> QED BY <1>7, <3>1
    <2>2. CASE t \in 1 .. Len(tokens)
        <3> DEFINE Bad == {u \in 1 .. Len(tokens) : a[u + 1][SizeOf(u)] # Beyond(u)}
        <3>1. SUFFICES ASSUME Bad # {} PROVE FALSE
            BY <2>2
        <3>2. PICK u \in Bad : \A v \in Bad : u >= v
            <4>1. Len(tokens) \in Nat /\ Bad \in SUBSET (0 .. Len(tokens))
                BY TreeFacts
            <4> HIDE DEF Bad
            <4> QED BY <3>1, <4>1, Greatest
        <3>3. Skips(a, u)
            <4>1. ASSUME NEW v \in Nat, v > u PROVE a[v + 1][SizeOf(v)] = Beyond(v)
                <5>1. CASE v \notin 1 .. Len(tokens)
                    <6>1. SizeOf(v) = 0 /\ Beyond(v) = v + 1 /\ v + 1 \in Nat
                        BY <1>1, <5>1
                    <6> QED BY <1>7, <6>1
                <5>2. CASE v \in 1 .. Len(tokens)
                    BY <3>2, <4>1, <5>2
                <5> QED BY <5>1, <5>2
            <4>2. ASSUME NEW v \in Nat, v > u, NEW n \in Nat, n # 0
                  PROVE  a[v][n] = a[Beyond(v)][n - 1]
                <5>1. a[v][n] = a[a[v + 1][SizeOf(v)]][n - 1]
                    BY <1>6, <4>2
                <5>2. a[v + 1][SizeOf(v)] = Beyond(v)
                    BY <4>1, <4>2
                <5> QED BY <5>1, <5>2
            <4> HIDE DEF Bad
            <4> QED BY <1>7, <4>2 DEF Skips
        <3>4. u \in 1 .. Len(tokens) /\ a[u + 1][SizeOf(u)] # Beyond(u)
            BY <3>2
        <3> QED BY <3>3, <3>4, SkipsChildren
    <2> QED BY <2>1, <2>2
<1>9. \A t \in Nat, n \in Nat : n # 0 => a[t][n] = a[Beyond(t)][n - 1]
    BY <1>6, <1>8
<1> QED BY <1>2, <1>7, <1>8, <1>9 DEF a

\* The tokens a token is below, from where subtrees end.
Above(i) == IF i = 0 THEN {} ELSE {0} \cup {a \in 1 .. i - 1 : i < Beyond(a)}

\* They are its parent and those that is below.
LEMMA AboveParent ==
    ASSUME ParserInv, NEW i \in 1 .. Len(tokens)
    PROVE  Above(i) = {parent[i]} \cup Above(parent[i])
<1> DEFINE p == parent[i]
<1>1. Len(tokens) \in Nat /\ p \in 0 .. i - 1
    BY TreeFacts
<1>2. ASSUME NEW a \in 1 .. i - 1, i < Beyond(a) PROVE a = p \/ (a < p /\ p < Beyond(a))
    <2>1. a \in 1 .. Len(tokens) /\ i \in a + 1 .. Beyond(a) - 1 /\ Beyond(a) \in Int
        BY <1>1, <1>2, BeyondIs
    <2>2. p >= a
        BY <2>1, BeyondIs
    <2>3. p < Beyond(a)
        BY <1>1, <2>1
    <2> QED BY <1>1, <2>2, <2>3
<1>3. ASSUME NEW a \in 1 .. p, p < Beyond(a) PROVE a \in 1 .. i - 1 /\ i < Beyond(a)
    <2>1. a \in 1 .. Len(tokens) /\ p \in a .. Beyond(a) - 1
        BY <1>1, <1>3, BeyondIs
    <2>2. i \in a + 1 .. Beyond(a) - 1 /\ Beyond(a) \in Int
        BY <1>1, <2>1, SubtreeClosed, BeyondIs
    <2> QED BY <1>1, <1>3, <2>2
<1>4. p # 0 => p \in 1 .. p /\ p < Beyond(p)
    <2>1. p # 0 => p \in 1 .. Len(tokens)
        BY <1>1
    <2>2. p # 0 => Beyond(p) \in p + 1 .. Len(tokens) + 1
        BY <2>1, BeyondIs
    <2> QED BY <1>1, <2>2
<1> HIDE DEF p
<1>5. Above(i) \subseteq {p} \cup Above(p)
    <2>1. ASSUME NEW a \in Above(i) PROVE a \in {p} \cup Above(p)
        <3>1. CASE a = 0
            BY <3>1 DEF Above
        <3>2. CASE a \in 1 .. i - 1 /\ i < Beyond(a)
            BY <1>1, <1>2, <3>2 DEF Above
        <3> QED BY <3>1, <3>2 DEF Above
    <2> QED BY <2>1
<1>6. p \in Above(i)
    BY <1>1, <1>3, <1>4 DEF Above
<1>7. Above(p) \subseteq Above(i)
    <2>1. ASSUME NEW a \in Above(p) PROVE a \in Above(i)
        <3>1. CASE a = 0
            BY <3>1 DEF Above
        <3>2. CASE a \in 1 .. p - 1 /\ p < Beyond(a)
            BY <1>1, <1>3, <3>2 DEF Above
        <3> QED BY <2>1, <3>1, <3>2 DEF Above
    <2> QED BY <2>1
<1> QED BY <1>5, <1>6, <1>7 DEF p

\* Ancestors is what its definition says.
LEMMA AncestorsAre ==
    ASSUME ParserInv
    PROVE  \A i \in 0 .. Len(tokens) : Ancestors[i] = Above(i)
<1> DEFINE n == Len(tokens)
           Is(f) == f = [i \in 0 .. n |-> IF i = 0 THEN {} ELSE {parent[i]} \cup f[parent[i]]]
<1>1. n \in Nat /\ \A i \in 1 .. n : parent[i] \in 0 .. n /\ parent[i] < i
    BY TreeFacts
<1>2. \E f : Is(f)
    <2> DEFINE f == [i \in 0 .. n |-> Above(i)]
    <2>1. \A i \in 0 .. n : f[i] = IF i = 0 THEN {} ELSE {parent[i]} \cup f[parent[i]]
        <3>1. f[0] = {}
            BY <1>1 DEF Above
        <3>2. ASSUME NEW i \in 1 .. n PROVE f[i] = {parent[i]} \cup f[parent[i]]
            <4>1. f[i] = Above(i) /\ f[parent[i]] = Above(parent[i])
                BY <1>1
            <4> HIDE DEF f
            <4> QED BY <4>1, AboveParent
        <3>3. \A i \in 0 .. n : i = 0 \/ i \in 1 .. n
            BY <1>1
        <3> HIDE DEF f
        <3> QED BY <3>1, <3>2, <3>3
    <2>2. f = [i \in 0 .. n |-> f[i]]
        OBVIOUS
    <2> HIDE DEF f
    <2>3. Is(f)
        BY <2>1, <2>2
    <2> HIDE DEF Is
    <2> QED BY <2>3
<1>3. Ancestors = CHOOSE f : Is(f)
    BY DEF Ancestors
<1>4. Is(Ancestors)
    <2> HIDE DEF Is
    <2> QED BY <1>2, <1>3
<1> DEFINE up == Ancestors
<1>5. \A i \in 0 .. n : up[i] = IF i = 0 THEN {} ELSE {parent[i]} \cup up[parent[i]]
    <2>1. up = [i \in 0 .. n |-> IF i = 0 THEN {} ELSE {parent[i]} \cup up[parent[i]]]
        BY <1>4
    <2> HIDE DEF up
    <2> QED BY <2>1
<1> HIDE DEF up
<1> DEFINE Bad == {i \in 0 .. n : up[i] # Above(i)}
<1>6. SUFFICES ASSUME Bad # {} PROVE FALSE
    BY DEF up
<1>7. PICK i \in Bad : \A k \in Bad : i <= k
    <2>1. Bad \in SUBSET Nat
        OBVIOUS
    <2> HIDE DEF Bad
    <2> QED BY <1>6, <2>1, Least
<1>8. i \in 0 .. n /\ up[i] # Above(i) /\ \A k \in 0 .. n : k < i => up[k] = Above(k)
    BY <1>1, <1>7
<1> HIDE DEF Bad
<1>9. i # 0
    BY <1>5, <1>8 DEF Above
<1>10. i \in 1 .. n /\ up[i] = {parent[i]} \cup Above(parent[i])
    <2>1. i \in 1 .. n /\ parent[i] \in 0 .. n /\ parent[i] < i
        BY <1>1, <1>8, <1>9
    <2>2. up[i] = {parent[i]} \cup up[parent[i]]
        BY <1>5, <1>8, <1>9
    <2> QED BY <1>8, <2>1, <2>2
<1> QED BY <1>8, <1>10, AboveParent

\* From any token, json_next comes to the first one after it that is not below
\* it, whatever the text: while jsmn_parse goes on, too.
THEOREM NextIsNext == ParserSpec => []NextSkipsSubtree
<1>1. ParserInv => NextSkipsSubtree
    <2> SUFFICES ASSUME ParserInv, NEW i \in DOMAIN tokens
                 PROVE  {k \in DOMAIN tokens : i \in Ancestors[k]} = i + 1 .. Next(i) - 1
        BY DEF NextSkipsSubtree
    <2>1. DOMAIN tokens = 1 .. Len(tokens) /\ Len(tokens) \in Nat /\ i \in 1 .. Len(tokens)
        BY TreeFacts
    <2>2. Next(i) = Beyond(i) /\ Beyond(i) \in i + 1 .. Len(tokens) + 1
        <3>1. i \in Nat
            BY <2>1
        <3>2. After[i + 1][SizeOf(i)] = Beyond(i)
            BY <3>1, AfterIs
        <3> QED BY <2>1, <3>2, BeyondIs DEF Next
    <2>3. ASSUME NEW k \in 1 .. Len(tokens)
          PROVE  i \in Ancestors[k] <=> k \in i + 1 .. Beyond(i) - 1
        <3>1. Ancestors[k] = Above(k)
            BY <2>1, AncestorsAre
        <3> QED BY <2>1, <2>2, <3>1 DEF Above
    <2> QED BY <2>1, <2>2, <2>3
<1> QED BY <1>1, ParserInvariant, PTL

-----------------------------------------------------------------------------
\* The children of a token, by the order of which its lookups walk over them.
Rank(t, k) == Cardinality({m \in Children(t) : m < k})

\* json_next goes over them in this order.
LEMMA NthChild ==
    ASSUME ParserInv, NEW t \in 1 .. Len(tokens), NEW j \in Nat, j < SizeOf(t)
    PROVE  /\ After[t + 1][j] \in Children(t)
           /\ Rank(t, After[t + 1][j]) = j
           /\ After[t + 1][j + 1] = Beyond(After[t + 1][j])
<1>1. Skips(After, t)
    BY AfterIs DEF Skips
<1> QED BY <1>1, SkipsChildren DEF Rank

\* A child's rank is less than the number of children, and it is the order.
LEMMA RankIs ==
    ASSUME ParserInv, NEW t \in 1 .. Len(tokens), NEW k \in Children(t)
    PROVE  /\ Rank(t, k) \in Nat /\ Rank(t, k) < SizeOf(t)
           /\ \A l \in Children(t) : k < l => Rank(t, k) < Rank(t, l)
<1> DEFINE C == Children(t)
           Before(c) == {m \in C : m < c}
<1>1. IsFiniteSet(C) /\ SizeOf(t) = Cardinality(C) /\ \A c \in C : c \in Nat
    BY TreeFacts DEF Children
<1>2. k \notin Before(k) /\ Before(k) \in SUBSET C
    BY <1>1
<1>3. \A l \in C : Before(l) \in SUBSET C /\ (k < l => Before(k) \cup {k} \in SUBSET Before(l))
    BY <1>1
<1>4. Before(k) \cup {k} \in SUBSET C
    OBVIOUS
<1>5. \A l \in C : Rank(t, l) = Cardinality(Before(l))
    BY DEF Rank
<1> HIDE DEF C, Before
<1>6. \A l \in C : IsFiniteSet(Before(l)) /\ Cardinality(Before(l)) \in Nat
    BY <1>1, <1>3, FS_Subset, FS_CardinalityType
<1>7. k \in C
    BY DEF C
<1>8. Cardinality(Before(k) \cup {k}) = Cardinality(Before(k)) + 1
    BY <1>2, <1>6, <1>7, FS_AddElement
<1>9. Cardinality(Before(k) \cup {k}) <= Cardinality(C)
    BY <1>1, <1>4, FS_Subset
<1>10. ASSUME NEW l \in C, k < l PROVE Rank(t, k) < Rank(t, l)
    <2>1. Cardinality(Before(k) \cup {k}) <= Cardinality(Before(l))
        BY <1>3, <1>6, <1>10, FS_Subset
    <2> QED BY <1>5, <1>6, <1>7, <1>8, <2>1
<1>11. Cardinality(C) \in Nat
    BY <1>1, FS_CardinalityType
<1> QED BY <1>1, <1>5, <1>6, <1>7, <1>8, <1>9, <1>10, <1>11 DEF C

\* A child is where its rank says.
LEMMA ChildByRank ==
    ASSUME ParserInv, NEW t \in 1 .. Len(tokens), NEW k \in Children(t)
    PROVE  After[t + 1][Rank(t, k)] = k
<1> DEFINE c == After[t + 1][Rank(t, k)]
<1>1. Rank(t, k) \in Nat /\ Rank(t, k) < SizeOf(t)
    BY RankIs
<1>2. c \in Children(t) /\ Rank(t, c) = Rank(t, k)
    BY <1>1, NthChild
<1> HIDE DEF c
<1>3. c \in Nat /\ k \in Nat
    BY <1>2, TreeFacts DEF Children
<1>4. ~(c < k) /\ ~(k < c)
    BY <1>1, <1>2, RankIs
<1> QED BY <1>3, <1>4 DEF c

\* The only child of a key is the token after it, and ends where the key does.
LEMMA OnlyChild ==
    ASSUME ParserInv, NEW k \in 1 .. Len(tokens), Cardinality(Children(k)) = 1
    PROVE  /\ k + 1 \in 1 .. Len(tokens) /\ Children(k) = {k + 1}
           /\ Beyond(k + 1) = Beyond(k)
<1>1. IsFiniteSet(Children(k)) /\ Len(tokens) \in Nat
    BY TreeFacts
<1>2. PICK c : Children(k) = {c}
    BY <1>1, FS_Singleton
<1>3. c \in 1 .. Len(tokens) /\ parent[c] = k /\ c \in k + 1 .. Beyond(k) - 1
    <2>1. c \in 1 .. Len(tokens) /\ parent[c] = k
        BY <1>2, TreeFacts DEF Children
    <2> QED BY <2>1, NextChild
<1>4. k + 1 # Beyond(k)
    BY <1>3, BeyondIs
<1>5. k + 1 \in 1 .. Len(tokens) /\ k + 1 \in Children(k) /\ parent[k + 1] = k
    BY <1>4, FirstChild, TreeFacts DEF Children
<1>6. c = k + 1
    BY <1>2, <1>5
<1>7. Beyond(k + 1) = Beyond(k)
    <2>1. ASSUME Beyond(k + 1) # Beyond(k) PROVE FALSE
        <3>1. Beyond(k + 1) \in k + 2 .. Beyond(k)
            BY <1>5, NextChild
        <3>2. Beyond(k + 1) \in 1 .. Len(tokens) /\ parent[Beyond(k + 1)] = k
            BY <1>5, <2>1, NextChild
        <3>3. Beyond(k + 1) \in Children(k)
            BY <3>2, TreeFacts DEF Children
        <3> QED BY <1>2, <1>6, <3>1, <3>3
    <2> QED BY <2>1
<1> QED BY <1>2, <1>5, <1>6, <1>7

\* Each key of an object has one value.
OneValue(o) == \A k \in Children(o) : Cardinality(Children(k)) = 1

\* json_for_each_obj comes to all keys of an object that are children of it.
LEMMA KeysAre ==
    ASSUME ParserInv, NEW o \in 1 .. Len(tokens), OneValue(o)
    PROVE  /\ DOMAIN Keys(o) = 1 .. SizeOf(o)
           /\ \A j \in 1 .. SizeOf(o) : Keys(o)[j] = After[o + 1][j - 1]
<1> DEFINE s == SizeOf(o)
           Is(f) == f = [n \in Nat |-> IF n = 0 THEN o + 1 ELSE Next(f[n - 1] + 1)]
           F == CHOOSE f : Is(f)
<1>1. \A t \in Nat : Next(t) = Beyond(t) /\ Beyond(t) \in Nat
    BY AfterIs DEF Next
<1>2. \E f : Is(f)
    <2> DEFINE step == [x \in Nat \X Nat |-> Next(x[2] + 1)]
    <2>1. step \in [Nat \X Nat -> Nat]
        <3>1. ASSUME NEW x \in Nat \X Nat PROVE Next(x[2] + 1) \in Nat
            <4>1. x[2] + 1 \in Nat
                OBVIOUS
            <4> QED BY <1>1, <4>1
        <3> QED BY <3>1
    <2>2. o + 1 \in Nat
        OBVIOUS
    <2>3. PICK f \in [Nat -> Nat] : Computes(f, Nat, o + 1, step)
        <3> HIDE DEF step
        <3> QED BY <2>1, <2>2, Recursion
    <2>4. ASSUME NEW n \in Nat, n # 0 PROVE step[<<n, f[n - 1]>>] = Next(f[n - 1] + 1)
        <3>1. n - 1 \in Nat
            BY <2>4
        <3>2. f[n - 1] \in Nat
            BY <3>1
        <3> QED BY <3>2
    <2>5. f = [n \in Nat |-> IF n = 0 THEN o + 1 ELSE step[<<n, f[n - 1]>>]]
        BY <2>3 DEF Computes
    <2>6. Is(f)
        <3> HIDE DEF step
        <3> QED BY <2>4, <2>5
    <2> HIDE DEF Is
    <2> QED BY <2>6
<1>3. Keys(o) = [n \in 1 .. s |-> F[n - 1]]
    BY DEF Keys
<1>4. Is(F)
    <2> HIDE DEF Is
    <2> QED BY <1>2
<1> HIDE DEF F
<1>5. F[0] = o + 1 /\ \A n \in Nat : n # 0 => F[n] = Next(F[n - 1] + 1)
    BY <1>4
<1>6. s \in Nat
    BY TreeFacts
<1> DEFINE S == {j \in 0 .. s : F[j] = After[o + 1][j]}
<1>7. 0 \in S
    <2>1. o + 1 \in Nat /\ 0 \in 0 .. s
        BY <1>6
    <2> QED BY <1>5, <2>1, AfterIs
<1>8. ASSUME NEW j \in 0 .. s - 1, j \in S PROVE j + 1 \in S
    <2> DEFINE c == After[o + 1][j]
    <2>1. j \in Nat /\ j < s /\ j + 1 \in Nat /\ j + 1 # 0 /\ (j + 1) - 1 = j
          /\ j + 1 \in 0 .. s
        BY <1>6
    <2>2. c \in Children(o) /\ After[o + 1][j + 1] = Beyond(c)
        BY <2>1, NthChild
    <2>3. F[j + 1] = Next(c + 1)
        BY <1>5, <1>8, <2>1
    <2> HIDE DEF c
    <2>4. c \in 1 .. Len(tokens) /\ Cardinality(Children(c)) = 1
        BY <2>2, TreeFacts DEF Children, OneValue
    <2>5. c + 1 \in Nat /\ Beyond(c + 1) = Beyond(c)
        BY <2>4, OnlyChild
    <2>6. F[j + 1] = After[o + 1][j + 1]
        BY <1>1, <2>2, <2>3, <2>5
    <2> QED BY <2>1, <2>6
<1>9. 0 .. s \subseteq S
    <2> HIDE DEF S, s
    <2> QED BY <1>6, <1>7, <1>8, InductionTo
<1>10. ASSUME NEW j \in 1 .. s PROVE Keys(o)[j] = After[o + 1][j - 1]
    <2>1. j - 1 \in 0 .. s
        BY <1>6
    <2>2. F[j - 1] = After[o + 1][j - 1]
        BY <1>9, <2>1
    <2> QED BY <1>3, <2>2
<1> QED BY <1>3, <1>10

\* The keys of an object that say this.
Matches(o, label) ==
    {k \in Children(o) : tokens[k].type = "string" /\ tokens[k].label = label}

\* json_get_member gives the value of the first of them.
LEMMA GetMemberIs ==
    ASSUME ParserInv, NEW o \in 1 .. Len(tokens), NEW label,
           tokens[o].type = "object" => OneValue(o)
    PROVE  IF tokens[o].type # "object" \/ Matches(o, label) = {}
           THEN GetMember(o, label) = NULL
           ELSE \E k \in Matches(o, label) :
                    GetMember(o, label) = k + 1 /\ \A l \in Matches(o, label) : k <= l
<1>1. TypeOf(o) = tokens[o].type
    BY TreeFacts DEF TypeOf
<1>2. CASE tokens[o].type # "object"
    BY <1>1, <1>2 DEF GetMember
<1>3. CASE tokens[o].type = "object"
    <2> DEFINE keys == Keys(o)
               s == SizeOf(o)
               M == Matches(o, label)
               hits == {n \in DOMAIN keys : StrEq(keys[n], label)}
    <2>1. GetMember(o, label) = IF hits = {} THEN NULL ELSE keys[Min(hits)] + 1
        BY <1>1, <1>3 DEF GetMember
    <2>2. /\ DOMAIN keys = 1 .. s /\ s \in Nat
          /\ \A j \in 1 .. s : keys[j] = After[o + 1][j - 1]
        BY <1>3, KeysAre, TreeFacts
    <2>3. ASSUME NEW j \in 1 .. s
          PROVE  keys[j] \in Children(o) /\ Rank(o, keys[j]) = j - 1
        <3>1. j - 1 \in Nat /\ j - 1 < s
            BY <2>2
        <3> QED BY <2>2, <3>1, NthChild
    <2>4. \A k \in Children(o) : StrEq(k, label) <=> k \in M
        BY TreeFacts DEF StrEq, TypeOf, Matches, Children
    <2> HIDE DEF keys, M, hits
    <2>5. \A j \in hits : j \in 1 .. s /\ keys[j] \in M
        BY <2>2, <2>3, <2>4 DEF hits
    <2>6. ASSUME NEW k \in M PROVE Rank(o, k) + 1 \in hits /\ keys[Rank(o, k) + 1] = k
        <3>1. k \in Children(o)
            BY DEF M, Matches
        <3>2. Rank(o, k) \in Nat /\ Rank(o, k) < s
            BY <3>1, RankIs
        <3>3. Rank(o, k) + 1 \in 1 .. s /\ (Rank(o, k) + 1) - 1 = Rank(o, k)
            BY <2>2, <3>2
        <3>4. keys[Rank(o, k) + 1] = k
            BY <2>2, <3>1, <3>3, ChildByRank
        <3> QED BY <2>2, <2>4, <3>1, <3>3, <3>4 DEF hits
    <2>7. CASE hits = {}
        <3>1. M = {}
            BY <2>6, <2>7
        <3> QED BY <2>1, <2>7, <3>1 DEF M
    <2>8. CASE hits # {}
        <3> DEFINE h == Min(hits)
        <3>1. hits \in SUBSET Nat
            BY <2>5
        <3>2. h \in hits /\ \A x \in hits : h <= x
            BY <2>8, <3>1, MinIs
        <3> HIDE DEF h
        <3>3. h \in 1 .. s /\ keys[h] \in M /\ Rank(o, keys[h]) = h - 1
            BY <2>3, <2>5, <3>2
        <3>4. ASSUME NEW l \in M, l < keys[h] PROVE FALSE
            <4>1. Rank(o, l) + 1 \in hits
                BY <2>6
            <4>2. h <= Rank(o, l) + 1
                BY <3>2, <4>1
            <4>3. l \in Children(o) /\ keys[h] \in Children(o)
                BY <3>3 DEF M, Matches
            <4>4. Rank(o, l) < Rank(o, keys[h]) /\ Rank(o, l) \in Nat
                BY <3>4, <4>3, RankIs
            <4> QED BY <3>3, <4>2, <4>4
        <3>5. \A l \in M : l \in Nat
            BY TreeFacts DEF M, Matches, Children
        <3>6. \A l \in M : keys[h] <= l
            BY <3>3, <3>4, <3>5
        <3>7. GetMember(o, label) = keys[h] + 1
            BY <2>1, <2>8 DEF h
        <3> QED BY <1>3, <3>3, <3>6, <3>7 DEF M
    <2> QED BY <2>7, <2>8
<1> QED BY <1>2, <1>3

\* json_get_arr gives the members of an array in their order.
LEMMA GetArrIs ==
    ASSUME ParserInv, NEW i \in 1 .. Len(tokens), tokens[i].type = "array", NEW n \in Nat
    PROVE  GetArr(i, n) = IF n >= Cardinality(Children(i)) THEN NULL
                          ELSE CHOOSE k \in Children(i) : Rank(i, k) = n
<1>1. TypeOf(i) = "array" /\ SizeOf(i) = Cardinality(Children(i)) /\ SizeOf(i) \in Nat
    BY TreeFacts DEF TypeOf
<1>2. CASE n >= SizeOf(i)
    BY <1>1, <1>2 DEF GetArr
<1>3. CASE n < SizeOf(i)
    <2> DEFINE a == After[i + 1][n]
               c == CHOOSE k \in Children(i) : Rank(i, k) = n
    <2>1. GetArr(i, n) = a
        BY <1>1, <1>3 DEF GetArr
    <2>2. a \in Children(i) /\ Rank(i, a) = n
        BY <1>3, NthChild
    <2> HIDE DEF a
    <2>3. c \in Children(i) /\ Rank(i, c) = n
        BY <2>2
    <2> HIDE DEF c
    <2>4. a = After[i + 1][n] /\ c = After[i + 1][n]
        <3>1. After[i + 1][Rank(i, c)] = c /\ After[i + 1][Rank(i, a)] = a
            BY <2>2, <2>3, ChildByRank
        <3> QED BY <2>2, <2>3, <3>1
    <2>5. GetArr(i, n) = c /\ ~(n >= Cardinality(Children(i)))
        BY <1>1, <1>3, <2>1, <2>4
    <2> QED BY <2>5 DEF c
<1> QED BY <1>1, <1>2, <1>3

-----------------------------------------------------------------------------
\* A tree in which json_delve looks something up.
Good ==
    /\ ParserInv /\ 1 \in 1 .. Len(tokens)
    /\ \A o \in 1 .. Len(tokens) : tokens[o].type = "object" => OneValue(o)

\* The walk along a guide is what its definition says.
LEMMA DelveIs ==
    ASSUME Good, NEW g \in Seq(Label)
    PROVE  /\ DelveUpTo(g)[0] = 1
           /\ \A n \in 1 .. Len(g) :
                DelveUpTo(g)[n] = IF DelveUpTo(g)[n - 1] = NULL THEN NULL
                                  ELSE GetMember(DelveUpTo(g)[n - 1], g[n])
<1> DEFINE T == 0 .. Len(tokens)
           N == Len(g)
           Go(t, n) == IF t = NULL THEN NULL ELSE GetMember(t, g[n])
           step == [x \in (1 .. N) \X T |-> Go(x[2], x[1])]
           Is(f) == f = [n \in 0 .. N |->
                            IF n = 0 THEN 1
                            ELSE IF f[n - 1] = NULL THEN NULL ELSE GetMember(f[n - 1], g[n])]
<1>1. N \in Nat /\ Len(tokens) \in Nat
    BY LenProperties, TreeFacts DEF Good
<1>2. ASSUME NEW t \in T, NEW n PROVE Go(t, n) \in T
    <2>1. CASE t = NULL
        BY <2>1
    <2>2. CASE t # NULL
        <3>1. t \in 1 .. Len(tokens)
            BY <2>2 DEF NULL
        <3>2. GetMember(t, g[n]) = NULL \/ \E k \in Matches(t, g[n]) : GetMember(t, g[n]) = k + 1
            BY <3>1, GetMemberIs DEF Good
        <3>3. ASSUME NEW k \in Matches(t, g[n]), tokens[t].type = "object"
              PROVE  k + 1 \in T
            <4>1. k \in Children(t) /\ k \in 1 .. Len(tokens) /\ Cardinality(Children(k)) = 1
                BY <3>1, <3>3, TreeFacts DEF Matches, Children, OneValue, Good
            <4> QED BY <4>1, OnlyChild, <1>1 DEF Good
        <3>4. tokens[t].type # "object" => GetMember(t, g[n]) = NULL
            BY <3>1, GetMemberIs DEF Good
        <3>5. NULL \in T
            BY <1>1 DEF NULL
        <3> QED BY <2>2, <3>2, <3>3, <3>4, <3>5
    <2> QED BY <2>1, <2>2
<1>3. step \in [(1 .. N) \X T -> T]
    <2> HIDE DEF Go
    <2> QED BY <1>2
<1>4. 1 \in T
    BY <1>1 DEF Good
<1>5. PICK f \in [0 .. N -> T] : Computes(f, 0 .. N, 1, step)
    <2> HIDE DEF step, N, T
    <2> QED BY <1>1, <1>3, <1>4, RecursionTo
<1>6. ASSUME NEW n \in 0 .. N, n # 0 PROVE step[<<n, f[n - 1]>>] = Go(f[n - 1], n)
    <2>1. n \in 1 .. N /\ n - 1 \in 0 .. N
        BY <1>1, <1>6
    <2>2. f[n - 1] \in T
        BY <2>1
    <2> HIDE DEF Go, T
    <2> QED BY <2>1, <2>2
<1>7. Is(f)
    <2>1. f = [n \in 0 .. N |-> IF n = 0 THEN 1 ELSE step[<<n, f[n - 1]>>]]
        BY <1>5 DEF Computes
    <2> HIDE DEF step
    <2>2. f = [n \in 0 .. N |-> IF n = 0 THEN 1 ELSE Go(f[n - 1], n)]
        <3> HIDE DEF Go
        <3> QED BY <1>6, <2>1
    <2> QED BY <2>2
<1>8. DelveUpTo(g) = CHOOSE f1 : Is(f1)
    BY DEF DelveUpTo
<1>9. Is(DelveUpTo(g))
    <2> HIDE DEF Is
    <2> QED BY <1>7, <1>8
<1> DEFINE d == DelveUpTo(g)
<1>10. d = [n \in 0 .. N |-> IF n = 0 THEN 1 ELSE Go(d[n - 1], n)]
    BY <1>9
<1> HIDE DEF d, Go
<1>11. d[0] = 1 /\ \A n \in 1 .. N : d[n] = Go(d[n - 1], n)
    BY <1>1, <1>10
<1> QED BY <1>11 DEF d, Go

\* The values of the keys of that label, in the objects among some tokens.
Values(from, label) ==
    {v \in 1 .. Len(tokens) :
        /\ parent[v] # 0 /\ parent[parent[v]] \in from
        /\ tokens[parent[parent[v]]].type = "object"
        /\ tokens[parent[v]].type = "string"
        /\ tokens[parent[v]].label = label}

\* The tokens that are reached are what their definition says.
LEMMA ReachedIs ==
    ASSUME Good, NEW g \in Seq(Label)
    PROVE  /\ ReachedUpTo(g)[0] = {1}
           /\ \A n \in 1 .. Len(g) : ReachedUpTo(g)[n] = Values(ReachedUpTo(g)[n - 1], g[n])
<1> DEFINE T == SUBSET (1 .. Len(tokens))
           N == Len(g)
           step == [x \in (1 .. N) \X T |-> Values(x[2], g[x[1]])]
           Is(f) == f = [n \in 0 .. N |->
                IF n = 0 THEN {1}
                ELSE {v \in DOMAIN tokens :
                        /\ parent[v] # 0 /\ parent[parent[v]] \in f[n - 1]
                        /\ tokens[parent[parent[v]]].type = "object"
                        /\ tokens[parent[v]].type = "string"
                        /\ tokens[parent[v]].label = g[n]}]
<1>1. N \in Nat /\ DOMAIN tokens = 1 .. Len(tokens)
    BY LenProperties, TreeFacts DEF Good
<1>2. step \in [(1 .. N) \X T -> T]
    <2>1. \A from, label : Values(from, label) \in T
        BY DEF Values
    <2> HIDE DEF T
    <2> QED BY <2>1
<1>3. {1} \in T
    BY DEF Good
<1>4. PICK f \in [0 .. N -> T] : Computes(f, 0 .. N, {1}, step)
    <2> HIDE DEF step, N, T
    <2> QED BY <1>1, <1>2, <1>3, RecursionTo
<1>5. ASSUME NEW n \in 0 .. N, n # 0
      PROVE  step[<<n, f[n - 1]>>] = Values(f[n - 1], g[n])
    <2>1. n \in 1 .. N /\ n - 1 \in 0 .. N
        BY <1>1, <1>5
    <2>2. f[n - 1] \in T
        BY <2>1
    <2> HIDE DEF T
    <2> QED BY <2>1, <2>2
<1>6. f = [n \in 0 .. N |-> IF n = 0 THEN {1} ELSE Values(f[n - 1], g[n])]
    <2>1. f = [n \in 0 .. N |-> IF n = 0 THEN {1} ELSE step[<<n, f[n - 1]>>]]
        BY <1>4 DEF Computes
    <2> HIDE DEF step
    <2> QED BY <1>5, <2>1
<1>7. Is(f)
    BY <1>1, <1>6, Zenon DEF Values
<1>8. ReachedUpTo(g) = CHOOSE f1 : Is(f1)
    BY DEF ReachedUpTo
<1>9. Is(ReachedUpTo(g))
    <2> HIDE DEF Is
    <2> QED BY <1>7, <1>8
<1> DEFINE r == ReachedUpTo(g)
<1>10. r = [n \in 0 .. N |-> IF n = 0 THEN {1} ELSE Values(r[n - 1], g[n])]
    BY <1>1, <1>9, Zenon DEF Values
<1> HIDE DEF r
<1>11. r[0] = {1} /\ \A n \in 1 .. N : r[n] = Values(r[n - 1], g[n])
    <2> DEFINE V(n) == IF n = 0 THEN {1} ELSE Values(r[n - 1], g[n])
    <2>1. r = [n \in 0 .. N |-> V(n)]
        BY <1>10
    <2> HIDE DEF V
    <2>2. \A n \in 0 .. N : r[n] = V(n)
        BY <2>1
    <2>3. 0 \in 0 .. N /\ \A n \in 1 .. N : n \in 0 .. N /\ n # 0
        BY <1>1
    <2> QED BY <2>2, <2>3 DEF V
<1> QED BY <1>11 DEF r

\* A value is what follows a key that matches.
LEMMA ValuesAre ==
    ASSUME Good, NEW from \in SUBSET (1 .. Len(tokens)), NEW label
    PROVE  \A v : v \in Values(from, label) <=>
              \E o \in from : tokens[o].type = "object" /\ \E k \in Matches(o, label) : v = k + 1
<1>1. ParserInv /\ \A o \in 1 .. Len(tokens) : tokens[o].type = "object" => OneValue(o)
    BY DEF Good
<1>2. ASSUME NEW v \in Values(from, label)
      PROVE  \E o \in from : tokens[o].type = "object" /\ \E k \in Matches(o, label) : v = k + 1
    <2> DEFINE k == parent[v]
               o == parent[k]
    <2>1. /\ v \in 1 .. Len(tokens) /\ k # 0 /\ o \in from /\ tokens[o].type = "object"
          /\ tokens[k].type = "string" /\ tokens[k].label = label
        BY DEF Values
    <2>2. k \in 1 .. Len(tokens)
        BY <1>1, <2>1, TreeFacts
    <2>3. k \in Children(o) /\ v \in Children(k)
        BY <1>1, <2>1, <2>2, TreeFacts DEF Children
    <2>4. Cardinality(Children(k)) = 1
        BY <1>1, <2>1, <2>3 DEF OneValue
    <2>5. v = k + 1
        BY <1>1, <2>2, <2>3, <2>4, OnlyChild
    <2>6. k \in Matches(o, label)
        BY <2>1, <2>3 DEF Matches
    <2> HIDE DEF k, o
    <2> QED BY <2>1, <2>5, <2>6
<1>3. ASSUME NEW o \in from, tokens[o].type = "object", NEW k \in Matches(o, label)
      PROVE  k + 1 \in Values(from, label)
    <2>1. k \in Children(o) /\ tokens[k].type = "string" /\ tokens[k].label = label
        BY DEF Matches
    <2>2. k \in 1 .. Len(tokens) /\ parent[k] = o
        BY <1>1, <2>1, TreeFacts DEF Children
    <2>3. Cardinality(Children(k)) = 1
        BY <1>1, <1>3, <2>1 DEF OneValue
    <2>4. k + 1 \in 1 .. Len(tokens) /\ k + 1 \in Children(k)
        BY <1>1, <2>2, <2>3, OnlyChild
    <2>5. parent[k + 1] = k
        BY <2>4 DEF Children
    <2> QED BY <1>3, <2>1, <2>2, <2>4, <2>5 DEF Values
<1> QED BY <1>2, <1>3

\* What the tokens that are reached are at each depth: they are side by side,
\* the walk is at the first of them, and when there is none, or a key is twice
\* in an object, it may have ended.
Walked(t, from) ==
    /\ from \in SUBSET (1 .. Len(tokens))
    /\ \A v, w \in from : v < w => Beyond(v) <= w
    /\ UniqueKeys => \A v, w \in from : v = w
    /\ IF t = NULL THEN from = {} \/ ~UniqueKeys
       ELSE t \in from /\ \A v \in from : t <= v

\* One key more.
LEMMA WalkOn ==
    ASSUME Good, NEW t, NEW from, Walked(t, from), NEW label
    PROVE  Walked(IF t = NULL THEN NULL ELSE GetMember(t, label), Values(from, label))
<1> DEFINE n == Len(tokens)
           t1 == IF t = NULL THEN NULL ELSE GetMember(t, label)
           R == Values(from, label)
<1>1. /\ n \in Nat /\ ParserInv
      /\ from \in SUBSET (1 .. n)
      /\ \A o \in 1 .. n : tokens[o].type = "object" => OneValue(o)
    BY TreeFacts DEF Good, Walked
<1>2. \A v : v \in R <=> \E o \in from : tokens[o].type = "object"
                                      /\ \E k \in Matches(o, label) : v = k + 1
    BY <1>1, ValuesAre
<1>3. ASSUME NEW o \in from, tokens[o].type = "object", NEW k \in Matches(o, label)
      PROVE  /\ k \in 1 .. n /\ parent[k] = o /\ k \in Children(o)
             /\ tokens[k].label = label
             /\ k \in o + 1 .. Beyond(o) - 1 /\ Beyond(o) \in Nat
             /\ Beyond(k + 1) = Beyond(k)
             /\ Beyond(k) \in k + 1 .. Beyond(o)
             /\ \A m \in Children(o) : m < Beyond(k) <=> m <= k
    <2>1. k \in Children(o) /\ tokens[k].label = label
        BY DEF Matches
    <2>2. k \in 1 .. n /\ parent[k] = o /\ o \in 1 .. n
        BY <1>1, <2>1, TreeFacts DEF Children
    <2>3. Cardinality(Children(k)) = 1
        BY <1>1, <1>3, <2>1, <2>2 DEF OneValue
    <2>4. Beyond(k + 1) = Beyond(k)
        BY <1>1, <2>2, <2>3, OnlyChild
    <2>5. Beyond(o) \in Nat
        BY <1>1, <2>2, BeyondIs
    <2> QED BY <1>1, <2>1, <2>2, <2>4, <2>5, NextChild
<1>4. R \in SUBSET (1 .. n)
    BY DEF Values
<1>5. ASSUME NEW o \in from, tokens[o].type = "object", NEW k \in Matches(o, label),
             NEW p \in from, tokens[p].type = "object", NEW l \in Matches(p, label),
             k < l
      PROVE  Beyond(k) <= l
    <2>1. /\ k \in 1 .. n /\ k \in o + 1 .. Beyond(o) - 1 /\ Beyond(o) \in Nat
          /\ Beyond(k) \in k + 1 .. Beyond(o)
          /\ k \in Children(o)
          /\ \A m \in Children(o) : m < Beyond(k) <=> m <= k
        BY <1>3, <1>5
    <2>2. /\ l \in 1 .. n /\ l \in p + 1 .. Beyond(p) - 1 /\ Beyond(p) \in Nat
          /\ l \in Children(p)
        BY <1>3, <1>5
    <2>3. o \in 1 .. n /\ p \in 1 .. n
        BY <1>1
    <2>4. CASE o = p
        <3>1. ~(l < Beyond(k))
            BY <1>5, <2>1, <2>2, <2>4
        <3> QED BY <2>1, <2>2, <3>1
    <2>5. CASE o < p
        <3>1. Beyond(o) <= p
            BY <2>5 DEF Walked
        <3> QED BY <2>1, <2>2, <2>3, <3>1
    <2>6. CASE p < o
        <3>1. Beyond(p) <= o
            BY <2>6 DEF Walked
        <3>2. l < k
            BY <2>1, <2>2, <2>3, <3>1
        <3> QED BY <1>5, <2>1, <2>2, <3>2
    <2> QED BY <2>3, <2>4, <2>5, <2>6
<1>6. ASSUME NEW v \in R, NEW w \in R, v < w PROVE Beyond(v) <= w
    <2>1. PICK o \in from : tokens[o].type = "object" /\ \E k \in Matches(o, label) : v = k + 1
        BY <1>2
    <2>2. PICK k \in Matches(o, label) : v = k + 1
        BY <2>1
    <2>3. PICK p \in from : tokens[p].type = "object" /\ \E l \in Matches(p, label) : w = l + 1
        BY <1>2
    <2>4. PICK l \in Matches(p, label) : w = l + 1
        BY <2>3
    <2>5. k \in 1 .. n /\ l \in 1 .. n /\ Beyond(v) = Beyond(k) /\ Beyond(k) \in Int
        BY <1>3, <2>1, <2>2, <2>3, <2>4
    <2>6. Beyond(k) <= l
        BY <1>5, <1>6, <2>1, <2>2, <2>3, <2>4, <2>5
    <2> QED BY <2>4, <2>5, <2>6
<1>7. ASSUME UniqueKeys, NEW v \in R, NEW w \in R PROVE v = w
    <2>1. PICK o \in from : tokens[o].type = "object" /\ \E k \in Matches(o, label) : v = k + 1
        BY <1>2
    <2>2. PICK k \in Matches(o, label) : v = k + 1
        BY <2>1
    <2>3. PICK p \in from : tokens[p].type = "object" /\ \E l \in Matches(p, label) : w = l + 1
        BY <1>2
    <2>4. PICK l \in Matches(p, label) : w = l + 1
        BY <2>3
    <2>5. o = p
        BY <1>7 DEF Walked
    <2>6. /\ k \in 1 .. n /\ l \in 1 .. n /\ parent[k] = o /\ parent[l] = o
          /\ tokens[k].label = tokens[l].label /\ o \in 1 .. n
        BY <1>1, <1>3, <2>1, <2>2, <2>3, <2>4, <2>5
    <2>7. TypeOf(o) = "object" /\ k \in DOMAIN tokens /\ l \in DOMAIN tokens /\ o # 0
        BY <1>1, <2>1, <2>6, TreeFacts DEF TypeOf
    <2>8. k = l
        BY <1>7, <2>6, <2>7 DEF UniqueKeys
    <2> QED BY <2>2, <2>4, <2>8
<1>8. IF t1 = NULL THEN R = {} \/ ~UniqueKeys ELSE t1 \in R /\ \A v \in R : t1 <= v
    <2>1. CASE t = NULL
        <3>1. from = {} \/ ~UniqueKeys
            BY <2>1 DEF Walked
        <3>2. from = {} => R = {}
            BY <1>2
        <3> QED BY <2>1, <3>1, <3>2
    <2>2. CASE t # NULL
        <3>1. t \in from /\ t \in 1 .. n /\ \A v \in from : t <= v
            BY <1>1, <2>2 DEF Walked
        <3>2. t1 = GetMember(t, label)
            BY <2>2
        <3>3. IF tokens[t].type # "object" \/ Matches(t, label) = {}
              THEN GetMember(t, label) = NULL
              ELSE \E k \in Matches(t, label) :
                       GetMember(t, label) = k + 1 /\ \A l \in Matches(t, label) : k <= l
            BY <1>1, <3>1, GetMemberIs
        <3>4. CASE tokens[t].type # "object" \/ Matches(t, label) = {}
            <4>1. t1 = NULL
                BY <3>2, <3>3, <3>4
            <4>2. ASSUME UniqueKeys, NEW v \in R PROVE FALSE
                <5>1. PICK o \in from : tokens[o].type = "object"
                                     /\ \E k \in Matches(o, label) : v = k + 1
                    BY <1>2
                <5>2. o = t
                    BY <3>1, <4>2 DEF Walked
                <5> QED BY <3>4, <5>1, <5>2
            <4> QED BY <4>1, <4>2
        <3>5. CASE tokens[t].type = "object" /\ Matches(t, label) # {}
            <4>1. PICK k \in Matches(t, label) :
                    GetMember(t, label) = k + 1 /\ \A l \in Matches(t, label) : k <= l
                BY <3>3, <3>5
            <4>2. k \in 1 .. n /\ k \in t + 1 .. Beyond(t) - 1 /\ Beyond(t) \in Nat
                BY <1>3, <3>1, <3>5
            <4>3. t1 = k + 1 /\ t1 # NULL /\ t1 \in R
                BY <1>2, <3>1, <3>2, <3>5, <4>1, <4>2 DEF NULL
            <4>4. ASSUME NEW v \in R PROVE t1 <= v
                <5>1. PICK o \in from : tokens[o].type = "object"
                                     /\ \E l \in Matches(o, label) : v = l + 1
                    BY <1>2
                <5>2. PICK l \in Matches(o, label) : v = l + 1
                    BY <5>1
                <5>3. l \in 1 .. n /\ l \in o + 1 .. Beyond(o) - 1 /\ o \in 1 .. n
                    BY <1>1, <1>3, <5>1
                <5>4. CASE o = t
                    BY <4>1, <4>2, <4>3, <5>2, <5>3, <5>4
                <5>5. CASE o # t
                    <6>1. t < o /\ Beyond(t) <= o
                        BY <3>1, <5>3, <5>5 DEF Walked
                    <6> QED BY <4>2, <4>3, <5>2, <5>3, <6>1
                <5> QED BY <5>4, <5>5
            <4> QED BY <4>3, <4>4
        <3> QED BY <3>4, <3>5
    <2> QED BY <2>1, <2>2
<1> HIDE DEF t1, R
<1>9. Walked(t1, R)
    BY <1>4, <1>6, <1>7, <1>8 DEF Walked
<1> QED BY <1>9 DEF t1, R

\* Along the whole guide.
LEMMA DelveCorrect ==
    ASSUME Good, NEW g \in Seq(Label)
    PROVE  Walked(Delve(g), Reached(g))
<1> DEFINE d == DelveUpTo(g)
           r == ReachedUpTo(g)
           N == Len(g)
           S == {n \in 0 .. N : Walked(d[n], r[n])}
<1>1. N \in Nat
    BY LenProperties
<1>2. /\ d[0] = 1
      /\ \A n \in 1 .. N : d[n] = IF d[n - 1] = NULL THEN NULL ELSE GetMember(d[n - 1], g[n])
    BY DelveIs
<1>3. r[0] = {1} /\ \A n \in 1 .. N : r[n] = Values(r[n - 1], g[n])
    BY ReachedIs
<1> HIDE DEF d, r
<1>4. 0 \in S
    <2>1. 1 \in 1 .. Len(tokens) /\ NULL # 1 /\ 0 \in 0 .. N
        BY <1>1 DEF Good, NULL
    <2>2. Walked(1, {1})
        BY <2>1 DEF Walked
    <2> QED BY <1>2, <1>3, <2>1, <2>2
<1>5. ASSUME NEW n \in 0 .. N - 1, n \in S PROVE n + 1 \in S
    <2>1. n + 1 \in 1 .. N /\ n + 1 \in 0 .. N /\ (n + 1) - 1 = n /\ Walked(d[n], r[n])
        BY <1>1, <1>5
    <2>2. d[n + 1] = IF d[n] = NULL THEN NULL ELSE GetMember(d[n], g[n + 1])
        BY <1>2, <2>1
    <2>3. r[n + 1] = Values(r[n], g[n + 1])
        BY <1>3, <2>1
    <2>4. Walked(d[n + 1], r[n + 1])
        BY <2>1, <2>2, <2>3, WalkOn
    <2> QED BY <2>1, <2>4
<1>6. 0 .. N \subseteq S
    <2> HIDE DEF S, N
    <2> QED BY <1>1, <1>4, <1>5, InductionTo
<1>7. Walked(d[N], r[N])
    <2>1. N \in 0 .. N
        BY <1>1
    <2> QED BY <1>6, <2>1
<1> QED BY <1>7 DEF Delve, Reached, d, r

\* In an accepted text in which each key has one value, json_delve comes to the
\* first token the guide leads to, and json_get_arr to the members of an array
\* in their order, however deep the text and however long the guide.
THEOREM LookupsCorrect == ParserSpec => []LookupsFind
<1>1. ParserInv => LookupsFind
    <2> SUFFICES ASSUME ParserInv, Proper PROVE LookupsFind
        BY DEF LookupsFind
    <2>1. DOMAIN tokens = 1 .. Len(tokens) /\ Len(tokens) \in Nat
        BY TreeFacts
    <2>2. Good
        <3>1. 1 \in 1 .. Len(tokens)
            <4>1. tokens \in Seq(Token) /\ tokens # <<>>
                BY DEF Proper, ParserInv, JsmnTypeOK
            <4> QED BY <2>1, <4>1, EmptySeq
        <3> QED BY <2>1, <3>1 DEF Good, Proper, OneValue
    <2>3. ASSUME NEW g \in Guides
          PROVE  IF Delve(g) = NULL THEN Reached(g) = {} \/ ~UniqueKeys
                 ELSE Reached(g) # {} /\ Delve(g) = Min(Reached(g))
        <3> DEFINE R == Reached(g)
                   d == Delve(g)
        <3>1. Walked(d, R)
            BY <2>2, DelveCorrect, GuidesAssumption
        <3> HIDE DEF R, d
        <3>2. ASSUME d # NULL PROVE R # {} /\ d = Min(R)
            <4>1. d \in R /\ (\A v \in R : d <= v) /\ R \in SUBSET Nat
                BY <2>1, <3>1, <3>2 DEF Walked
            <4>2. Min(R) \in R /\ \A x \in R : Min(R) <= x
                BY <4>1, MinIs
            <4>3. d <= Min(R) /\ Min(R) <= d /\ d \in Nat /\ Min(R) \in Nat
                BY <4>1, <4>2
            <4> QED BY <4>1, <4>3
        <3>3. d = NULL => R = {} \/ ~UniqueKeys
            BY <3>1 DEF Walked
        <3> QED BY <3>2, <3>3 DEF R, d
    <2>4. ASSUME NEW i \in 1 .. Len(tokens), tokens[i].type = "array",
                 NEW n \in 0 .. Len(tokens)
          PROVE  GetArr(i, n) = IF n >= Cardinality(Children(i)) THEN NULL
                    ELSE CHOOSE k \in Children(i) :
                            Cardinality({m \in Children(i) : m < k}) = n
        <3>1. n \in Nat
            BY <2>1
        <3> QED BY <2>4, <3>1, GetArrIs DEF Rank
    <2> QED BY <2>1, <2>3, <2>4 DEF LookupsFind
<1> QED BY <1>1, ParserInvariant, PTL
=============================================================================
