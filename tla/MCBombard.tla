----------------------------- MODULE MCBombard -----------------------------
(***************************************************************************)
(* The bounds are numbers, given in the configurations.                    *)
(***************************************************************************)
EXTENDS Bombard

=============================================================================
