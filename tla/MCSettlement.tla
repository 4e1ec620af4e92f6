---------------------------- MODULE MCSettlement ----------------------------
(***************************************************************************)
(* The two assets of an oracle feed and the one of a direct feed.          *)
(***************************************************************************)
EXTENDS Settlement

CONSTANTS btc, usdc

BothAssets == <<btc, usdc>>
UsdcOnly == <<usdc>>

=============================================================================
