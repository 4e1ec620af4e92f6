--------------------------- MODULE PriceRegister ---------------------------
(***************************************************************************)
(* What a consumer of the relayed price feed may rely on, whatever the     *)
(* feeder, the relay and their mempools are going through: the aggregator  *)
(* numbers the prices of an asset 1, 2, 3, ...; the receiver holds for     *)
(* each asset one of them, and what it holds only ever moves to a later    *)
(* one.  Prices may be passed over; none is shown that was not announced   *)
(* under that number.                                                      *)
(***************************************************************************)
EXTENDS Naturals, Sequences

CONSTANTS Assets, Prices

VARIABLES
  announced,  \* asset -> prices, in the order of their sequence numbers
  stored      \* asset -> sequence number and price the receiver holds

NoPrice == [seq |-> 0, price |-> 0]

Init ==
  /\ announced = [a \in Assets |-> <<>>]
  /\ stored = [a \in Assets |-> NoPrice]

Announce(a, p) ==
  /\ announced' = [announced EXCEPT ![a] = Append(@, p)]
  /\ UNCHANGED stored

Keeps(a) == stored'[a] = stored[a]

Advances(a) ==
  \E n \in DOMAIN announced[a] :
    /\ n > stored[a].seq
    /\ stored'[a] = [seq |-> n, price |-> announced[a][n]]

\* One delivery carries several messages, of one asset or of many.
Adopt ==
  /\ stored' \in [Assets -> [seq : Nat, price : Prices \union {0}]]
  /\ \A a \in Assets : Keeps(a) \/ Advances(a)
  /\ UNCHANGED announced

Next == Adopt \/ \E a \in Assets, p \in Prices : Announce(a, p)

Spec == Init /\ [][Next]_<<announced, stored>>

=============================================================================
