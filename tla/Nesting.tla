------------------------------ MODULE Nesting ------------------------------
(***************************************************************************)
(* What jsmn_parse promises of brackets: each is closed by one of its      *)
(* kind, the last opened first, and a text is accepted when none is open.  *)
(***************************************************************************)
EXTENDS Sequences

CONSTANTS
    Container,          \* the kinds of bracket
    Opening, Closing    \* their symbols

VARIABLES
    stack,      \* the kinds that are open, the last opened last
    symbol,     \* the symbol that was read
    accepted    \* the text ended and was accepted

NestingInit == stack = <<>> /\ accepted = FALSE

Opens(c)  == symbol' = Opening[c] /\ stack' = Append(stack, c)
Closes(c) == symbol' = Closing[c] /\ stack = Append(stack', c)

NestingNext ==
    /\ ~accepted
    /\ \/ (\E c \in Container : Opens(c) \/ Closes(c)) /\ accepted' = FALSE
       \/ stack = <<>> /\ stack' = <<>> /\ accepted' = TRUE

NestingSpec == NestingInit /\ [][NestingNext]_<<stack, accepted>>
=============================================================================
