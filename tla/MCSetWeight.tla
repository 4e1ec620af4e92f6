---------------------------- MODULE MCSetWeight ----------------------------
(***************************************************************************)
(* Two operators, who are alike, one validator, and two weights, of which  *)
(* nothing is used but that they differ.                                   *)
(***************************************************************************)
EXTENDS SetWeight, TLC

CONSTANTS alice, bob, one, spare, active

TwoOperators == {alice, bob}
OneIdentity == {one}
TwoWeights == {spare, active}
Alike == Permutations(TwoOperators) \union Permutations(TwoWeights)

=============================================================================
