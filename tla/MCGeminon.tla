----------------------------- MODULE MCGeminon -----------------------------
(***************************************************************************)
(* Command lines of up to four options for TLC: three -b overfill the      *)
(* array, and there is room for what they restrict.  An int has eight bits *)
(* and a port four: 7 is one, 200 is not even an int.                      *)
(***************************************************************************)
EXTENDS Geminon, TLC

CONSTANTS n1, n2, n3, n4
MCNodes == {n1, n2, n3, n4}
MCPortTexts == {<<>>, <<7>>, <<2, 0, 0>>}

(* Addresses are told apart only by being different. *)
AnyAddress == Permutations(MCNodes)
=============================================================================
