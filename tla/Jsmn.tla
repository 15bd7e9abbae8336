------------------------------- MODULE Jsmn -------------------------------
(***************************************************************************)
(* jsmn_parse of src/src/jsmn.h as src/src/json.c builds it: strict, and   *)
(* without links to parents.  One step reads one symbol of the text, so    *)
(* the texts are all those of at most MaxToks tokens, and what comes after.*)
(*                                                                         *)
(* Tokens are numbered from 1, and 0 stands for -1.  The bytes of a string *)
(* are a label and those of a primitive are nothing; where a token starts  *)
(* and ends is only kept as whether it has ended.                          *)
(***************************************************************************)
EXTENDS SequencesExt

CONSTANTS
    Label,      \* what strings say
    NoLabel,
    MaxToks     \* num_tokens, the length of the array of tokens

ASSUME JsmnAssumption ==
    /\ MaxToks \in Nat \ {0}
    /\ NoLabel \notin Label

VARIABLES
    tokens,     \* the tokens allocated so far
    toksuper,   \* parser->toksuper
    symbol,     \* the last symbol that was taken, of those that matter later
    result,     \* run, or what jsmn_parse returned: ok for the number of tokens
    parent      \* history: toksuper when the token was allocated

parserVars == <<tokens, toksuper, symbol, result, parent>>

Container == {"object", "array"}
Opening   == [object |-> "{", array |-> "["]
Closing   == [object |-> "}", array |-> "]"]
Symbol    == {"{", "}", "[", "]", "primitive", "other"}
Token     == [type : Container \cup {"string", "primitive"}, label : Label \cup {NoLabel},
              open : BOOLEAN, size : Nat]

\* jsmn_init, and the start of jsmn_parse.
ParserInit ==
    /\ tokens = <<>> /\ toksuper = 0
    /\ symbol = "other"
    /\ result = "run"
    /\ parent = <<>>

\* A delimiter may come at any time, anything else not after a primitive,
\* which would go on with it.
ReadsDelimiter == result = "run"
Reads == result = "run" /\ symbol # "primitive"

\* Returns an error; nobody looks at the tokens then.
Fails(error) == result' = error /\ UNCHANGED <<tokens, toksuper, symbol, parent>>

Full == Len(tokens) >= MaxToks

\* Mutant: the superior's size is not counted.
AddUncounted(t) ==
    /\ tokens' = Append(tokens, t)
    /\ parent' = Append(parent, toksuper)

\* jsmn_alloc_token and the count in its superior.
Add(t) ==
    /\ tokens' = Append(IF toksuper = 0 THEN tokens
                        ELSE [tokens EXCEPT ![toksuper].size = @ + 1], t)
    /\ parent' = Append(parent, toksuper)

\* An object or array that was opened and not closed.
Open(i) == tokens[i].open

\* The last of them, 0 when there is none below n.
LastOpen(n) == Max({0} \cup {i \in 1 .. n : Open(i)})

SuperIs(types) == toksuper # 0 /\ tokens[toksuper].type \in types

-----------------------------------------------------------------------------
\* '{' and '['
OpenBracket(c) ==
    /\ Reads
    /\ IF Full THEN Fails("nomem")
       ELSE IF SuperIs({"object"}) THEN Fails("inval")
       ELSE /\ Add([type |-> c, label |-> NoLabel, open |-> TRUE, size |-> 0])
            /\ toksuper' = Len(tokens) + 1
            /\ symbol' = Opening[c]
            /\ UNCHANGED result

\* Mutant: the bracket closes the innermost of its own kind.
CloseOwnKind(c) ==
    /\ ReadsDelimiter
    /\ LET i == Max({0} \cup {k \in DOMAIN tokens : Open(k) /\ tokens[k].type = c})
       IN  IF i = 0 THEN Fails("inval")
           ELSE /\ tokens' = [tokens EXCEPT ![i].open = FALSE]
                /\ toksuper' = LastOpen(i - 1)
                /\ symbol' = Closing[c]
                /\ UNCHANGED <<result, parent>>

\* '}' and ']'
CloseBracket(c) ==
    /\ ReadsDelimiter
    /\ LET i == LastOpen(Len(tokens))
       IN  IF i = 0 \/ (i # 0 /\ tokens[i].type # c) THEN Fails("inval")
           ELSE /\ tokens' = [tokens EXCEPT ![i].open = FALSE]
                /\ toksuper' = LastOpen(i - 1)
                /\ symbol' = Closing[c]
                /\ UNCHANGED <<result, parent>>

\* jsmn_parse_string: a bad escape, no closing quote, or the string.
String(label) ==
    /\ Reads
    /\ \/ Fails("inval")
       \/ Fails("part")
       \/ Full /\ Fails("nomem")
       \/ /\ ~Full
          /\ Add([type |-> "string", label |-> label, open |-> FALSE, size |-> 0])
          /\ symbol' = "other"
          /\ UNCHANGED <<toksuper, result>>

\* A primitive, which goes on to a delimiter: jsmn_parse_primitive fails at a
\* byte that is not printable and at the end of the text.
Primitive ==
    /\ Reads
    /\ IF SuperIs({"object"}) \/ (SuperIs({"string"}) /\ tokens[toksuper].size # 0)
       THEN Fails("inval")
       ELSE \/ Fails("inval")
            \/ Fails("part")
            \/ Full /\ Fails("nomem")
            \/ /\ ~Full
               /\ Add([type |-> "primitive", label |-> NoLabel, open |-> FALSE, size |-> 0])
               /\ symbol' = "primitive"
               /\ UNCHANGED <<toksuper, result>>

\* ':' makes the last token the superior, whatever it is.
Colon ==
    /\ Reads
    /\ toksuper' = Len(tokens)
    /\ symbol' = "other"
    /\ UNCHANGED <<tokens, result, parent>>

\* ',' goes back to the innermost open bracket.
Comma ==
    /\ ReadsDelimiter
    /\ toksuper' = IF SuperIs({"string", "primitive"}) /\ LastOpen(Len(tokens)) # 0
                   THEN LastOpen(Len(tokens)) ELSE toksuper
    /\ symbol' = "other"
    /\ UNCHANGED <<tokens, result, parent>>

Blank ==
    /\ ReadsDelimiter
    /\ symbol' = "other"
    /\ UNCHANGED <<tokens, toksuper, result, parent>>

\* Any other character.
Other == Reads /\ Fails("inval")

End ==
    /\ Reads
    /\ result' = IF LastOpen(Len(tokens)) # 0 THEN "part" ELSE "ok"
    /\ UNCHANGED <<tokens, toksuper, symbol, parent>>

Done == result # "run" /\ UNCHANGED parserVars

ParserNext ==
    \/ \E c \in Container : OpenBracket(c) \/ CloseBracket(c)
    \/ \E l \in Label : String(l)
    \/ Primitive
    \/ Colon \/ Comma \/ Blank
    \/ Other \/ End
    \/ Done

ParserSpec == ParserInit /\ [][ParserNext]_parserVars

-----------------------------------------------------------------------------
JsmnTypeOK ==
    /\ tokens \in Seq(Token) /\ Len(tokens) <= MaxToks
    /\ toksuper \in 0 .. Len(tokens)
    /\ symbol \in Symbol
    /\ result \in {"run", "ok", "inval", "part", "nomem"}
    /\ parent \in Seq(0 .. MaxToks) /\ Len(parent) = Len(tokens)

Children(i) == {k \in DOMAIN parent : parent[k] = i}

\* The tokens are a tree written down from the root, whatever colons, commas
\* and brackets the text has: a token's size is the number of its children,
\* and between two tokens of which one is below the other there is nothing
\* that is not below it as well.  Lookups have only the sizes (jsmn.h:281-300,
\* 363-391, 424-433).
TokensAreTree ==
    /\ \A i \in DOMAIN tokens : tokens[i].size = Cardinality(Children(i))
    /\ \A k \in DOMAIN tokens : \A j \in parent[k] + 1 .. k : parent[j] >= parent[k]

\* The search for the last open token does what a stack of brackets would:
\* whatever else the text has, each bracket is closed by its own kind, and no
\* text is accepted with one open (jsmn.h:331-357, 441-448).
KindsUpTo(ts) ==
    LET kinds[i \in 0 .. Len(ts)] ==
            IF i = 0 THEN <<>>
            ELSE IF ts[i].open THEN Append(kinds[i - 1], ts[i].type) ELSE kinds[i - 1]
    IN  kinds
OpenKinds == KindsUpTo(tokens)[Len(tokens)]
Brackets == INSTANCE Nesting WITH stack <- OpenKinds, accepted <- result = "ok"
ImplementsNesting == Brackets!NestingSpec
=============================================================================
