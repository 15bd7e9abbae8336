------------------------------- MODULE MCEnv -------------------------------
(* Env with names of up to three letters, one more than key holds, and     *)
(* short and cut values; three variables are only in one order.  A wide    *)
(* name is longer than the rest of the buffer wherever it stands, so that  *)
(* variables follow when the offset has left the buffer.  The queries have *)
(* up to five symbols; of those without "var", which are all answered      *)
(* alike, only the shortest.                                               *)
EXTENDS Env

Letters   == {"m", "n"}
MCSymbol  == {"var", "=", "&"} \cup Letters
MCQueries == {q \in SeqOf(MCSymbol, 5) :
                Len(q) < 2 \/ \E i \in DOMAIN q : q[i] = "var"}
Names     == {<<"m">>, <<"m", "n">>, <<"m", "n", "m">>}
Ordinary  == {e \in SeqOf([name : Names, length : {0, 5}], 3) :
                \A i, k \in DOMAIN e : i < k =>
                    IF Len(e) < 3 THEN e[i].name # e[k].name
                    ELSE Len(e[i].name) < Len(e[k].name)}
Wide      == [i \in 1 .. 20 |-> "n"]
Overlong  == {e \in SeqOf([name : {<<"m">>, Wide}, length : {5}], 3) :
                \E i \in DOMAIN e : e[i].name = Wide}
MCEnvs    == Ordinary \cup Overlong
=============================================================================
