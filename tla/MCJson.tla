------------------------------ MODULE MCJson ------------------------------
(* Json with two labels, of which it does not matter which is which, and   *)
(* guides of one and two keys.                                             *)
EXTENDS Json, TLC

LabelSymmetry == Permutations(Label)
MCGuides      == {<<a>> : a \in Label} \cup {<<a, b>> : a, b \in Label}
=============================================================================
