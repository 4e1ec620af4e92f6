--------------------------- MODULE PlacementFile ---------------------------
(***************************************************************************)
(* What deployment/placement.json promises its readers, whatever the fleet *)
(* is going through: it starts as keygen wrote it, and it only ever        *)
(* changes by an exchange of the identities of two validator machines of   *)
(* one chain.  Roles, chains and the homes of the immovable identities are *)
(* fixed (internal/fleet/place.go, internal/placement).                    *)
(***************************************************************************)
CONSTANTS Machines, Identities, Role, ChainOf, Home

VARIABLE placement

\* keygen writes every identity to the machine it was generated for.
Init ==
  /\ placement \in [Machines -> Identities]
  /\ \A m \in Machines : Home[placement[m]] = m

Exchange(m, n) ==
  /\ m # n
  /\ Role[m] = "validator" /\ Role[n] = "validator"
  /\ ChainOf[m] = ChainOf[n]
  /\ placement' = [placement EXCEPT ![m] = placement[n], ![n] = placement[m]]

Next == \E m, n \in Machines : Exchange(m, n)

Spec == Init /\ [][Next]_placement

=============================================================================
