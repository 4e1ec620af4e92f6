----------------------------- MODULE MCCreation ------------------------------
(***************************************************************************)
(* The management L1, an oracle L1 and the main L1.                        *)
(***************************************************************************)
EXTENDS Creation

ThreeL1s == <<"management", "oracle", "main">>

=============================================================================
