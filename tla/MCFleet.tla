------------------------------ MODULE MCFleet ------------------------------
(***************************************************************************)
(* Small fleets for TLC.  "flat" is three validators of one chain, the     *)
(* smallest fleet where a swap leaves a bystander.  "mixed" has every kind *)
(* of machine: two validators and an RPC node of the main chain, one       *)
(* validator of a second chain, and the P-chain machine.                   *)
(***************************************************************************)
EXTENDS Fleet

CONSTANTS a, b, c, d, e

FlatMachines == 1..3
FlatIdentities == {a, b, c}
FlatRole == [m \in FlatMachines |-> "validator"]
FlatChain == [m \in FlatMachines |-> "main"]
FlatHome == [i \in FlatIdentities |->
               CASE i = a -> 1 [] i = b -> 2 [] i = c -> 3]

MixedMachines == 1..5
MixedIdentities == {a, b, c, d, e}
MixedRole == <<"validator", "validator", "rpc", "validator", "pchain">>
MixedChain == <<"main", "main", "main", "trading", "">>
MixedHome == [i \in MixedIdentities |->
                CASE i = a -> 1 [] i = b -> 2 [] i = c -> 3
                  [] i = d -> 4 [] i = e -> 5]

=============================================================================
