------------------------------ MODULE MCPChain ------------------------------
(***************************************************************************)
(* The management set and one chain for the gate, one set for the copies.  *)
(***************************************************************************)
EXTENDS PChain

CONSTANTS management, main

TwoSets == {management, main}
OneSet == {main}

=============================================================================
