--------------------------- MODULE CreationProofs ----------------------------
(***************************************************************************)
(* What network.env says is always enough to find every deposit of the     *)
(* deployment; destroy removes it only when the deposits it could see are  *)
(* back; and a top-up lasts.  For any L1s, fees, lag of the replicas and   *)
(* kills, and whatever is accepted late.                                   *)
(***************************************************************************)
EXTENDS Creation, FiniteSetTheorems, SequenceTheorems, TLAPS

Transacted == mempool \union {platform[i] : i \in DOMAIN platform}
Saved(k) == record[Todo[k].l1][Todo[k].step] # 0

Before == {"keys", "public", "check", "genesis"}
Filling == proc.cmd = "create" /\ proc.phase \in {"issue", "wait", "save"}
Spending == proc.cmd \in {"topup", "destroy"} /\ proc.phase \in {"increase", "disable", "wait"}

\* Which command a phase is of, and that network.env is of an earlier command
\* than the one that reads it.
CommandOK ==
  /\ env <= commands
  /\ proc.cmd \in {"topup", "destroy"} => env < commands
  /\ proc.phase \in {"issue", "save"} => proc.cmd = "create"
  /\ proc.phase = "increase" => proc.cmd = "topup"
  /\ proc.phase \in {"survey", "disable", "remove"} => proc.cmd = "destroy"
  /\ proc.phase \in Before => proc.cmd \in {"keygen", "create"}
  /\ proc.phase \in {"check", "genesis"} => proc.cmd = "create"
  /\ proc.cmd # "none" => commands > 0

\* Tickets name commands that have run, and a command that has not come to its
\* transactions has none.
TicketsOK ==
  /\ \A tx \in Transacted : tx.ticket[1] \in 1 .. commands
  /\ proc.phase \in Before \union {"survey"} =>
       \A tx \in Transacted : tx.ticket[1] # commands

\* network.env holds transactions of the create that wrote it, each under its
\* own L1 and step, and is filled in the order of Todo.
RecordOK ==
  /\ \A l \in L1s, s \in Steps :
       record[l][s] # 0 =>
         /\ record[l][s] \in DOMAIN platform
         /\ platform[record[l][s]].ticket[1] = env
         /\ platform[record[l][s]].l1 = l /\ platform[record[l][s]].step = s
  /\ \A j, k \in DOMAIN Todo : j < k /\ Saved(k) => Saved(j)

\* A transaction of the deployment was issued when everything before it in Todo
\* had been saved, and a conversion is of what was saved.
Made(tx) ==
  /\ tx.ticket[2] \in DOMAIN Todo
  /\ tx.l1 = Todo[tx.ticket[2]].l1 /\ tx.step = Todo[tx.ticket[2]].step
  /\ \A j \in DOMAIN Todo : j < tx.ticket[2] => Saved(j)
  /\ tx.step = "convert" => /\ tx.on = record[tx.l1]["subnet"]
                            /\ tx.manager = record["management"]["chain"]

OwnOK == env # 0 => \A tx \in Transacted : tx.ticket[1] = env => Made(tx)

\* Create has saved exactly what comes before the entry it works on.
FillOK ==
  Filling =>
    /\ env = commands /\ proc.at \in DOMAIN Todo
    /\ \A k \in DOMAIN Todo : Saved(k) <=> k < proc.at
    /\ proc.phase = "save" =>
         /\ proc.tx \in DOMAIN platform
         /\ platform[proc.tx].ticket[1] = commands
         /\ platform[proc.tx].ticket[2] = proc.at

\* A subnet is converted once.
OneConversion == \A c, d \in Conversions : platform[c].on = platform[d].on => c = d

\* Payments and refunds are of validators that were there before them.
PaymentsOK ==
  /\ \A tx \in mempool : tx.step \in {"disable", "increase"} => tx.on \in DOMAIN platform
  /\ \A i \in DOMAIN platform :
       platform[i].step \in {"disable", "increase"} => platform[i].on \in 1 .. i - 1

\* What topup and destroy issue is what they have listed, after their survey.
SpendOK ==
  Spending =>
    /\ proc.at \in DOMAIN proc.list
    /\ \A k \in DOMAIN proc.list : proc.list[k].on \in DOMAIN platform
    /\ proc.since <= Len(platform)
    /\ \A tx \in Transacted :
         tx.ticket[1] = commands =>
           /\ tx.ticket[2] \in 1 .. proc.at
           /\ tx.step = IF proc.cmd = "topup" THEN "increase" ELSE "disable"
           /\ tx.on = proc.list[tx.ticket[2]].on
           /\ tx.amount = proc.list[tx.ticket[2]].amount
    /\ \A i \in DOMAIN platform : platform[i].ticket[1] = commands => i > proc.since

LifeInv ==
  /\ TypeOK /\ CommandOK /\ TicketsOK /\ RecordOK /\ OwnOK /\ FillOK
  /\ OneConversion /\ PaymentsOK /\ SpendOK

\* A disabled validator is without balance, but for a later payment.
DisabledOK ==
  \A i \in DOMAIN platform :
    platform[i].step = "disable" =>
      \/ balance[platform[i].on] = 0
      \/ \E j \in i + 1 .. Len(platform) :
           platform[j].step = "increase" /\ platform[j].on = platform[i].on

\* Not yet on every replica when the validators were asked for.
Unseen(c) ==
  \E i \in proc.since + 1 .. Len(platform) :
    i = c \/ (platform[i].step = "increase" /\ platform[i].on = c)

\* Destroy has got back, or has still on its list, all that it could see.
ReturnedOK ==
  proc.cmd = "destroy" /\ proc.phase \in {"disable", "wait", "remove"} =>
    /\ proc.since <= Len(platform)
    /\ \A c \in Recorded :
         \/ balance[c] = 0 \/ Unseen(c)
         \/ /\ proc.phase # "remove"
            /\ \E k \in DOMAIN proc.list : k >= proc.at /\ proc.list[k].on = c

Refunded(c) ==
  \E i \in proc.since + 1 .. Len(platform) :
    platform[i].step = "disable" /\ platform[i].on = c
Paid(k) ==
  \E i \in DOMAIN platform :
    platform[i].ticket[1] = commands /\ platform[i].ticket[2] = k

\* A validator on topup's list has, or will have with the payment, what lasts for
\* the days and the buffer, less the time since topup read its balance.
Lasts(k) ==
  \/ Refunded(proc.list[k].on)
  \/ balance[proc.list[k].on] + (IF Paid(k) THEN 0 ELSE proc.list[k].amount)
       >= proc.target + Buffer - (ticks - proc.began)

PaidOK ==
  proc.cmd = "topup" =>
    /\ proc.phase \in {"increase", "wait"} /\ proc.began <= ticks
    /\ \A k \in DOMAIN proc.list : k < proc.at => Paid(k)
    /\ \A k \in DOMAIN proc.list : Lasts(k)

-----------------------------------------------------------------------------
(* The order of create, and the shapes of the state.                       *)

Processes == [cmd : {"none", "keygen", "create", "topup", "destroy"},
              phase : Phases, at : Nat, tries : 0 .. Attempts, tx : Nat,
              list : Seq([on : Nat, amount : Nat]),
              target : Nat, since : Nat, began : Nat]

LEMMA DivMod ==
  /\ \A n \in Nat : n = 3 * (n \div 3) + (n % 3) /\ n % 3 \in 0 .. 2 /\ n \div 3 \in Nat
  /\ \A n, q \in Nat, r \in 0 .. 2 : n = 3 * q + r => n \div 3 = q /\ n % 3 = r
OBVIOUS

LEMMA TodoShape ==
  /\ DOMAIN Todo = 1 .. 3 * Len(Order) /\ Len(Order) \in Nat \ {0}
  /\ \A k \in DOMAIN Todo : Todo[k].l1 \in L1s /\ Todo[k].step \in Steps
  /\ 1 \in DOMAIN Todo /\ 3 \in DOMAIN Todo
  /\ Todo[3].l1 = "management" /\ Todo[3].step = "convert"
<1>1. Order \in Seq(STRING) /\ Len(Order) \in Nat \ {0} /\ DOMAIN Order = 1 .. Len(Order)
  BY CreationAssumption, EmptySeq, LenProperties
<1>2. DOMAIN Todo = 1 .. 3 * Len(Order)
  BY DEF Todo
<1>3. ASSUME NEW k \in DOMAIN Todo
      PROVE  Todo[k].l1 \in L1s /\ Todo[k].step \in Steps
  <2>1. (k - 1) \div 3 + 1 \in DOMAIN Order /\ k % 3 \in 0 .. 2
    BY <1>1, <1>2
  <2> QED BY <1>2, <2>1 DEF Todo, L1s, Steps
<1>4. Todo[3].l1 = Order[1] /\ Todo[3].step = "convert"
  <2>1. (3 - 1) \div 3 + 1 = 1 /\ 3 % 3 = 0 /\ 3 \in 1 .. 3 * Len(Order)
    BY <1>1
  <2> QED BY <1>1, <1>2, <2>1 DEF Todo
<1> QED BY <1>1, <1>2, <1>3, <1>4, CreationAssumption

\* Every L1 and step has one place in the order, and before a conversion come
\* the subnet it is of and the chain of the management L1.
LEMMA TodoOrder ==
  /\ \A j, k \in DOMAIN Todo :
       Todo[j].l1 = Todo[k].l1 /\ Todo[j].step = Todo[k].step => j = k
  /\ \A l \in L1s, s \in Steps : \E k \in DOMAIN Todo : Todo[k].l1 = l /\ Todo[k].step = s
  /\ \A k \in DOMAIN Todo : Todo[k].step = "convert" =>
       \E i, j \in DOMAIN Todo : /\ i < k /\ Todo[i].l1 = Todo[k].l1 /\ Todo[i].step = "subnet"
                                 /\ j < k /\ Todo[j].l1 = "management" /\ Todo[j].step = "chain"
<1>1. Order \in Seq(STRING) /\ Len(Order) \in Nat \ {0} /\ DOMAIN Order = 1 .. Len(Order)
  BY CreationAssumption, EmptySeq, LenProperties
<1>2. DOMAIN Todo = 1 .. 3 * Len(Order)
  BY DEF Todo
<1>3. \A k \in DOMAIN Todo :
        /\ Todo[k].l1 = Order[(k - 1) \div 3 + 1] /\ (k - 1) \div 3 + 1 \in DOMAIN Order
        /\ Todo[k].step = "subnet" <=> k % 3 = 1
        /\ Todo[k].step = "chain" <=> k % 3 = 2
        /\ Todo[k].step = "convert" <=> k % 3 = 0
  <2> SUFFICES ASSUME NEW k \in DOMAIN Todo
               PROVE  /\ Todo[k].l1 = Order[(k - 1) \div 3 + 1]
                      /\ (k - 1) \div 3 + 1 \in DOMAIN Order
                      /\ Todo[k].step = "subnet" <=> k % 3 = 1
                      /\ Todo[k].step = "chain" <=> k % 3 = 2
                      /\ Todo[k].step = "convert" <=> k % 3 = 0
    OBVIOUS
  <2>1. (k - 1) \div 3 + 1 \in DOMAIN Order /\ k % 3 \in 0 .. 2
    BY <1>1, <1>2
  <2> QED BY <1>2, <2>1 DEF Todo
<1>4. ASSUME NEW j \in DOMAIN Todo, NEW k \in DOMAIN Todo,
             Todo[j].l1 = Todo[k].l1, Todo[j].step = Todo[k].step
      PROVE  j = k
  <2>1. (j - 1) \div 3 + 1 = (k - 1) \div 3 + 1
    BY <1>3, <1>4, CreationAssumption
  <2>2. j % 3 = k % 3
    <3>1. j % 3 \in 0 .. 2 /\ k % 3 \in 0 .. 2
      BY <1>1, <1>2
    <3> QED BY <1>3, <1>4, <3>1
  <2>3. j - 1 \in Nat /\ k - 1 \in Nat /\ j \in Nat /\ k \in Nat
    BY <1>1, <1>2
  <2>4. (j - 1) \div 3 = (k - 1) \div 3
    BY <2>1, <2>3, DivMod
  <2> DEFINE q == (j - 1) \div 3
             a == (j - 1) % 3
             b == (k - 1) % 3
  <2>5. /\ q \in Nat /\ a \in 0 .. 2 /\ b \in 0 .. 2
        /\ j = 3 * q + a + 1 /\ k = 3 * q + b + 1
    <3>1. j - 1 = 3 * ((j - 1) \div 3) + ((j - 1) % 3) /\ a \in 0 .. 2 /\ q \in Nat
      BY <2>3, DivMod
    <3>2. k - 1 = 3 * ((k - 1) \div 3) + ((k - 1) % 3) /\ b \in 0 .. 2
      BY <2>3, DivMod
    <3>3. j - 1 = 3 * q + a /\ k - 1 = 3 * q + b
      BY <2>4, <3>1, <3>2
    <3>4. q \in Nat /\ a \in Int /\ b \in Int
      BY <3>1, <3>2
    <3> HIDE DEF q, a, b
    <3>5. j = 3 * q + a + 1 /\ k = 3 * q + b + 1
      BY <2>3, <3>3, <3>4
    <3> QED BY <3>1, <3>2, <3>4, <3>5
  <2>6. ASSUME NEW n \in Nat, NEW c \in 0 .. 2, n = 3 * q + c + 1
        PROVE  n % 3 = IF c = 2 THEN 0 ELSE c + 1
    <3>1. CASE c = 2
      <4>1. n = 3 * (q + 1) + 0 /\ q + 1 \in Nat
        BY <2>5, <2>6, <3>1
      <4> QED BY <4>1, <3>1, DivMod
    <3>2. CASE c # 2
      <4>1. n = 3 * q + (c + 1) /\ c + 1 \in 0 .. 2
        BY <2>5, <2>6, <3>2
      <4> QED BY <4>1, <3>2, <2>5, DivMod
    <3> QED BY <3>1, <3>2
  <2> HIDE DEF q, a, b
  <2>7. j % 3 = (IF a = 2 THEN 0 ELSE a + 1) /\ k % 3 = (IF b = 2 THEN 0 ELSE b + 1)
    BY <2>3, <2>5, <2>6
  <2> QED BY <2>2, <2>5, <2>7
<1>5. ASSUME NEW l \in L1s, NEW s \in Steps
      PROVE  \E k \in DOMAIN Todo : Todo[k].l1 = l /\ Todo[k].step = s
  <2>1. PICK i \in DOMAIN Order : Order[i] = l
    BY DEF L1s
  <2> DEFINE base == 3 * (i - 1)
  <2>2. ASSUME NEW d \in 1 .. 3
        PROVE  /\ base + d \in DOMAIN Todo /\ Todo[base + d].l1 = l
               /\ Todo[base + d].step = "subnet" <=> d = 1
               /\ Todo[base + d].step = "chain" <=> d = 2
               /\ Todo[base + d].step = "convert" <=> d = 3
    <3>1. i - 1 \in Nat /\ i \in 1 .. Len(Order)
      BY <1>1, <2>1
    <3>2. base + d \in DOMAIN Todo
      BY <1>1, <1>2, <3>1
    <3>3. (base + d - 1) \div 3 = i - 1
      <4>1. base + d - 1 = 3 * (i - 1) + (d - 1) /\ d - 1 \in 0 .. 2 /\ base + d - 1 \in Nat
        BY <3>1
      <4> QED BY <3>1, <4>1, DivMod
    <3>4. (base + d) % 3 = IF d = 3 THEN 0 ELSE d
      <4>1. CASE d = 3
        <5>1. base + d = 3 * i + 0 /\ i \in Nat
          BY <3>1, <4>1
        <5> QED BY <4>1, <5>1, DivMod
      <4>2. CASE d # 3
        <5>1. base + d = 3 * (i - 1) + d /\ d \in 0 .. 2 /\ base + d \in Nat
          BY <3>1, <4>2
        <5> QED BY <3>1, <4>2, <5>1, DivMod
      <4> QED BY <4>1, <4>2
    <3>5. base \in Int
      BY <3>1
    <3>6. (base + d - 1) \div 3 + 1 = i
      BY <3>1, <3>3
    <3> HIDE DEF base
    <3>7. \A n \in DOMAIN Todo : (n - 1) \div 3 + 1 = i => Todo[n].l1 = Order[i]
      BY <1>3
    <3>8. /\ Todo[base + d].step = "subnet" <=> (base + d) % 3 = 1
          /\ Todo[base + d].step = "chain" <=> (base + d) % 3 = 2
          /\ Todo[base + d].step = "convert" <=> (base + d) % 3 = 0
      BY <1>3, <3>2
    <3>9. Todo[base + d].l1 = l
      BY <2>1, <3>2, <3>7, <3>6, <3>5
    <3> QED BY <3>2, <3>4, <3>8, <3>9
  <2> HIDE DEF base
  <2>4. CASE s = "subnet"
    BY <2>2, <2>4
  <2>5. CASE s = "chain"
    BY <2>2, <2>5
  <2>6. CASE s = "convert"
    BY <2>2, <2>6
  <2> QED BY <2>4, <2>5, <2>6 DEF Steps
<1>6. ASSUME NEW k \in DOMAIN Todo, Todo[k].step = "convert"
      PROVE  \E i, j \in DOMAIN Todo :
               /\ i < k /\ Todo[i].l1 = Todo[k].l1 /\ Todo[i].step = "subnet"
               /\ j < k /\ Todo[j].l1 = "management" /\ Todo[j].step = "chain"
  <2>1. /\ k - 2 \in DOMAIN Todo /\ (k - 2 - 1) \div 3 = (k - 1) \div 3 /\ (k - 2) % 3 = 1
        /\ 2 \in DOMAIN Todo /\ 2 < k /\ k - 2 < k /\ (2 - 1) \div 3 + 1 = 1 /\ 2 % 3 = 2
    <3>1. k \in Nat \ {0} /\ k % 3 = 0 /\ k <= 3 * Len(Order)
      BY <1>2, <1>3, <1>6, <1>1
    <3>2. k >= 3
      BY <3>1, DivMod
    <3> DEFINE q == k \div 3
    <3>3. k = 3 * q /\ q \in Nat
      BY <3>1, DivMod
    <3>4. PICK m \in Nat : q = m + 1
      BY <3>2, <3>3
    <3> HIDE DEF q
    <3>5. k - 2 = 3 * m + 1 /\ k - 3 = 3 * m + 0 /\ k - 1 = 3 * m + 2
      BY <3>3, <3>4
    <3>6. k - 2 \in Nat /\ k - 3 \in Nat /\ k - 1 \in Nat
      BY <3>1, <3>2
    <3>7. (k - 2) % 3 = 1 /\ (k - 3) \div 3 = m /\ (k - 1) \div 3 = m
      <4>1. (k - 2) % 3 = 1
        BY <3>4, <3>5, <3>6, DivMod
      <4>2. (k - 3) \div 3 = m
        BY <3>4, <3>5, <3>6, DivMod
      <4>3. (k - 1) \div 3 = m
        BY <3>4, <3>5, <3>6, DivMod
      <4> QED BY <4>1, <4>2, <4>3
    <3>8. k - 2 - 1 = k - 3
      BY <3>1
    <3>9. k - 2 \in DOMAIN Todo /\ 2 \in DOMAIN Todo
      BY <1>1, <1>2, <3>1, <3>2
    <3>10. (2 - 1) \div 3 + 1 = 1 /\ 2 % 3 = 2
      OBVIOUS
    <3>11. (k - 2 - 1) \div 3 = (k - 1) \div 3
      BY <3>7, <3>8
    <3>12. 2 < k /\ k - 2 < k
      BY <3>1, <3>2
    <3> QED BY <3>7, <3>9, <3>10, <3>11, <3>12
  <2>2. Todo[k - 2].l1 = Todo[k].l1 /\ Todo[k - 2].step = "subnet"
    BY <1>3, <2>1
  <2>3. Todo[2].l1 = "management" /\ Todo[2].step = "chain"
    BY <1>3, <2>1, CreationAssumption
  <2> QED BY <2>1, <2>2, <2>3
<1> QED BY <1>4, <1>5, <1>6

LEMMA TypeParts ==
  /\ TypeOK <=> /\ files \subseteq {"keys", "public"} /\ genesis \subseteq L1s
                /\ env \in Nat /\ record \in [L1s -> [Steps -> Nat]]
                /\ platform \in Seq(Transactions)
                /\ balance \in Seq(Nat) /\ Len(balance) = Len(platform)
                /\ mempool \subseteq Transactions
                /\ proc \in Processes
                /\ commands \in Nat /\ faults \in Nat /\ ticks \in Nat
  /\ TypeOK' <=> /\ files' \subseteq {"keys", "public"} /\ genesis' \subseteq L1s
                 /\ env' \in Nat /\ record' \in [L1s -> [Steps -> Nat]]
                 /\ platform' \in Seq(Transactions)
                 /\ balance' \in Seq(Nat) /\ Len(balance') = Len(platform')
                 /\ mempool' \subseteq Transactions
                 /\ proc' \in Processes
                 /\ commands' \in Nat /\ faults' \in Nat /\ ticks' \in Nat
BY DEF TypeOK, Processes

LEMMA ManagementRecord ==
  TypeOK => record["management"]["chain"] \in Nat /\ "management" \in L1s /\ "main" \in L1s
<1>1. "management" \in L1s /\ "main" \in L1s
  BY TodoShape, CreationAssumption
<1> QED BY <1>1 DEF TypeOK, Steps

\* What appending a transaction does to the chain.
LEMMA PlatformGrows ==
  ASSUME TypeOK, NEW tx \in Transactions, platform' = Append(platform, tx)
  PROVE  /\ Len(platform) \in Nat /\ DOMAIN platform = 1 .. Len(platform)
         /\ platform' \in Seq(Transactions) /\ Len(platform') = Len(platform) + 1
         /\ DOMAIN platform' = 1 .. Len(platform) + 1
         /\ \A i \in DOMAIN platform : platform'[i] = platform[i]
         /\ platform'[Len(platform) + 1] = tx
BY DEF TypeOK

LEMMA PlatformShape ==
  TypeOK => /\ Len(platform) \in Nat /\ DOMAIN platform = 1 .. Len(platform)
            /\ \A i \in DOMAIN platform : platform[i] \in Transactions
            /\ DOMAIN balance = 1 .. Len(platform)
            /\ \A i \in DOMAIN platform : balance[i] \in Nat
            /\ Transacted \subseteq Transactions
BY DEF TypeOK, Transacted

\* The validators of a list are those of the set it lists.
LEMMA ListedShape ==
  ASSUME NEW S \in SUBSET Nat, IsFiniteSet(S), NEW rank, NEW amount,
         \A c \in S : amount[c] \in Nat,
         NEW list \in Listed(S, rank, amount)
  PROVE  /\ list \in Seq([on : Nat, amount : Nat])
         /\ Cardinality(S) \in Nat /\ DOMAIN list = 1 .. Cardinality(S)
         /\ Len(list) = Cardinality(S)
         /\ \A k \in DOMAIN list : list[k].on \in S /\ list[k].amount = amount[list[k].on]
         /\ \A c \in S : \E k \in DOMAIN list : list[k].on = c
<1> DEFINE n == Cardinality(S)
<1>1. n \in Nat
  BY FS_CardinalityType
<1>2. PICK order \in Bijection(1 .. n, S) :
        list = [k \in DOMAIN order |-> [on |-> order[k], amount |-> amount[order[k]]]]
  BY DEF Listed
<1>3. order \in [1 .. n -> S] /\ \A c \in S : \E k \in 1 .. n : order[k] = c
  BY DEF Bijection, Injection, Surjection
<1> HIDE DEF n
<1>4. list = [k \in 1 .. n |-> [on |-> order[k], amount |-> amount[order[k]]]]
  BY <1>2, <1>3
<1>5. \A k \in 1 .. n : /\ list[k] \in [on : Nat, amount : Nat]
                        /\ list[k].on = order[k] /\ list[k].amount = amount[order[k]]
  BY <1>3, <1>4
<1>6. list \in [1 .. n -> [on : Nat, amount : Nat]]
  BY <1>4, <1>5
<1>7. list \in Seq([on : Nat, amount : Nat]) /\ Len(list) = n /\ DOMAIN list = 1 .. n
  <2> DEFINE X == [on : Nat, amount : Nat]
  <2>1. list \in [1 .. n -> X]
    BY <1>6
  <2> HIDE DEF X
  <2>2. list \in Seq(X)
    BY <1>1, <2>1
  <2>3. DOMAIN list = 1 .. n
    BY <2>1
  <2>4. Len(list) = n
    BY <1>1, <2>2, <2>3, LenProperties
  <2> QED BY <2>2, <2>3, <2>4 DEF X
<1>8. \A k \in DOMAIN list : list[k].on \in S /\ list[k].amount = amount[list[k].on]
  BY <1>3, <1>5, <1>7
<1>9. \A c \in S : \E k \in DOMAIN list : list[k].on = c
  BY <1>3, <1>5, <1>7
<1> QED BY <1>1, <1>7, <1>8, <1>9 DEF n

LEMMA RecordedShape ==
  ASSUME TypeOK, RecordOK
  PROVE  /\ Recorded \subseteq DOMAIN platform
         /\ \A c \in Recorded : platform[c].step = "convert" /\ platform[c].ticket[1] = env
         /\ \A S \in Reports : S \subseteq Recorded /\ S \subseteq Nat /\ IsFiniteSet(S)
<1>1. \A c \in Recorded : \E l \in L1s : c = record[l]["convert"] /\ c # 0
  BY DEF Recorded
<1>2. \A c \in Recorded : /\ c \in DOMAIN platform /\ platform[c].step = "convert"
                          /\ platform[c].ticket[1] = env
  BY <1>1 DEF RecordOK, Steps
<1>3. ASSUME NEW S \in Reports
      PROVE  S \subseteq Recorded /\ S \subseteq Nat /\ IsFiniteSet(S)
  <2>1. S \subseteq Recorded
    BY DEF Reports
  <2>2. S \in SUBSET (1 .. Len(platform)) /\ Len(platform) \in Nat
    BY <1>2, <2>1, PlatformShape
  <2>3. IsFiniteSet(1 .. Len(platform))
    BY <2>2, FS_Interval
  <2>4. IsFiniteSet(S)
    BY <2>2, <2>3, FS_Subset
  <2> QED BY <2>1, <2>2, <2>4
<1> QED BY <1>2, <1>3

LEMMA SettledShape == TypeOK => Settled \in Nat /\ Settled <= Len(platform)
BY CreationAssumption, PlatformShape DEF Settled

LEMMA LifeInit == Init => LifeInv
<1> SUFFICES ASSUME Init PROVE LifeInv
  OBVIOUS
<1> USE DEF Init
<1>1. Nothing \in [L1s -> [Steps -> Nat]] /\ \A l \in L1s, s \in Steps : Nothing[l][s] = 0
  BY DEF Nothing
<1>2. TypeOK
  <2>1. Idle \in Processes
    BY CreationAssumption DEF Idle, Processes, Phases
  <2> QED BY <1>1, <2>1, TypeParts
<1>3. Transacted = {} /\ DOMAIN platform = {}
  BY DEF Transacted
<1>4. CommandOK /\ TicketsOK /\ FillOK /\ OwnOK /\ PaymentsOK
  BY <1>3 DEF CommandOK, TicketsOK, FillOK, Filling, OwnOK, PaymentsOK, Idle, Before
<1>5. RecordOK
  BY <1>1, TodoShape DEF RecordOK, Saved
<1>6. OneConversion /\ SpendOK
  BY <1>3 DEF OneConversion, Conversions, SpendOK, Spending, Idle
<1> QED BY <1>2, <1>4, <1>5, <1>6 DEF LifeInv

-----------------------------------------------------------------------------
(* Every step keeps the shapes.                                            *)

LEMMA IssueKeepsType ==
  ASSUME TypeOK, NEW step \in Steps \union {"disable", "increase"}, NEW l1 \in L1s,
         NEW on \in Nat, NEW amount \in Nat, Issue(step, l1, on, amount)
  PROVE  TypeOK'
<1> DEFINE tx == [ticket |-> <<commands, proc.at, proc.tries>>, step |-> step, l1 |-> l1,
                  on |-> on, manager |-> record["management"]["chain"], amount |-> amount]
<1>1. proc \in Processes /\ commands \in Nat
  BY TypeParts
<1>2. proc.at \in Nat /\ proc.tries \in Nat
  BY <1>1, CreationAssumption DEF Processes
<1>3. tx \in Transactions
  BY <1>1, <1>2, ManagementRecord DEF Transactions
<1>4. mempool' = mempool \union {tx} /\ proc' = [proc EXCEPT !.phase = "wait"]
  BY DEF Issue, Goto
<1>5. proc' \in Processes
  BY <1>1, <1>4 DEF Processes, Phases
<1>6. mempool' \subseteq Transactions
  BY <1>3, <1>4 DEF TypeOK
<1> QED BY <1>5, <1>6, TypeParts DEF Issue, local

LEMMA AcceptKeepsType ==
  ASSUME TypeOK, NEW tx \in mempool, Accept(tx)
  PROVE  TypeOK'
<1>1. tx \in Transactions
  BY DEF TypeOK
<1>2. platform' \in Seq(Transactions) /\ Len(platform') = Len(platform) + 1
  BY <1>1, PlatformGrows DEF Accept
<1>3. balance \in Seq(Nat) /\ Len(balance) = Len(platform) /\ Len(balance) \in Nat
  BY DEF TypeOK
<1>4. \A x \in Nat : Append(balance, x) \in Seq(Nat) /\ Len(Append(balance, x)) = Len(balance) + 1
  BY <1>3, AppendProperties
<1>5. \A c, y \in Nat :
        LET b == [balance EXCEPT ![c] = y] IN
        Append(b, 0) \in Seq(Nat) /\ Len(Append(b, 0)) = Len(balance) + 1
  <2> SUFFICES ASSUME NEW c \in Nat, NEW y \in Nat, NEW b, b = [balance EXCEPT ![c] = y]
               PROVE  Append(b, 0) \in Seq(Nat) /\ Len(Append(b, 0)) = Len(balance) + 1
    OBVIOUS
  <2>1. b \in Seq(Nat) /\ Len(b) = Len(balance)
    <3>1. CASE c \in 1 .. Len(balance)
      BY <1>3, <3>1, ExceptSeq
    <3>2. CASE c \notin 1 .. Len(balance)
      <4>1. b = balance
        BY <1>3, <3>2
      <4> QED BY <1>3, <4>1
    <3> QED BY <3>1, <3>2
  <2> QED BY <2>1, AppendProperties
<1>6. tx.on \in Nat /\ tx.amount \in Nat
  BY <1>1 DEF Transactions
<1>7. balance' \in Seq(Nat) /\ Len(balance') = Len(balance) + 1
  <2>1. CASE tx.step = "convert"
    BY <1>4, <2>1, CreationAssumption DEF Accept
  <2>2. CASE tx.step = "disable"
    BY <1>5, <1>6, <2>2 DEF Accept
  <2>3. CASE tx.step = "increase"
    <3>1. balance' = Append([balance EXCEPT ![tx.on] = @ + tx.amount], 0)
      BY <2>3 DEF Accept
    <3>2. CASE tx.on \in DOMAIN balance
      <4>1. balance[tx.on] + tx.amount \in Nat
        BY <1>3, <1>6, <3>2
      <4> QED BY <1>5, <1>6, <3>1, <4>1
    <3>3. CASE tx.on \notin DOMAIN balance
      <4>1. [balance EXCEPT ![tx.on] = @ + tx.amount] = balance
        BY <1>3, <3>3
      <4> QED BY <1>4, <3>1, <4>1
    <3> QED BY <3>2, <3>3
  <2>4. CASE tx.step \notin {"convert", "disable", "increase"}
    BY <1>4, <2>4 DEF Accept
  <2> QED BY <2>1, <2>2, <2>3, <2>4
<1> QED BY <1>2, <1>3, <1>7, TypeParts DEF Accept, local

LEMMA TickKeepsType ==
  ASSUME TypeOK, Tick
  PROVE  TypeOK'
<1>1. balance \in Seq(Nat) /\ Len(balance) = Len(platform) /\ Len(balance) \in Nat
  BY DEF TypeOK
<1>2. balance' = [c \in 1 .. Len(balance) |-> IF balance[c] > 0 THEN balance[c] - 1 ELSE 0]
  BY <1>1 DEF Tick
<1>3. \A c \in 1 .. Len(balance) : (IF balance[c] > 0 THEN balance[c] - 1 ELSE 0) \in Nat
  BY <1>1
<1>4. balance' \in [1 .. Len(balance) -> Nat]
  BY <1>2, <1>3
<1>5. balance' \in Seq(Nat)
  BY <1>1, <1>4
<1>6. Len(balance') = Len(balance)
  BY <1>1, <1>4, <1>5, LenProperties
<1> QED BY <1>1, <1>5, <1>6, TypeParts DEF Tick, local

\* The steps of keygen and create but for their transactions.
LEMMA CreateKeepsType ==
  ASSUME TypeOK, CommandOK, FillOK,
         \/ Keygen \/ WriteKeys \/ WritePublic \/ Create \/ Check \/ WriteGenesis
         \/ WriteOracleGenesis \/ Retry \/ Accepted \/ Destroy \/ Stop
  PROVE  TypeOK'
<1>1. /\ proc \in Processes /\ commands \in Nat /\ faults \in Nat /\ genesis \subseteq L1s
      /\ files \subseteq {"keys", "public"}
  BY TypeParts
<1>2. Idle \in Processes /\ 1 \in 0 .. Attempts
  BY CreationAssumption DEF Idle, Processes, Phases
<1>3. ASSUME NEW cmd \in {"keygen", "create", "destroy"}, NEW phase \in Phases, Start(cmd, phase)
      PROVE  TypeOK'
  <2>1. proc' \in Processes
    BY <1>2, <1>3 DEF Start, Processes
  <2> QED BY <1>3, <2>1, TypeParts DEF Start, local, chain
<1>4. CASE Keygen \/ Create \/ Destroy
  BY <1>3, <1>4 DEF Keygen, Create, Destroy, Phases
<1>5. \A ph \in Phases : [proc EXCEPT !.phase = ph] \in Processes
  BY <1>1 DEF Processes
<1>6. CASE WriteKeys
  <2>1. proc' \in Processes
    BY <1>5, <1>6 DEF WriteKeys, Goto, Phases
  <2> QED BY <1>6, <2>1, TypeParts DEF WriteKeys, chain
<1>7. CASE WritePublic
  <2>1. proc' \in Processes
    BY <1>2, <1>5, <1>7 DEF WritePublic, Goto, Phases
  <2>2. files' \subseteq {"keys", "public"}
    BY <1>1, <1>7 DEF WritePublic
  <2> QED BY <1>7, <2>1, <2>2, TypeParts DEF WritePublic, chain
<1>8. CASE Check
  <2>1. proc' \in Processes
    BY <1>2, <1>5, <1>8 DEF Check, Goto, Phases
  <2> QED BY <1>8, <2>1, TypeParts DEF Check, local, chain
<1>9. CASE WriteGenesis
  <2> DEFINE left == {i \in DOMAIN Order : Order[i] \notin {"management", "oracle"} \union genesis}
  <2>1. CASE left # {}
    <3>1. PICK i \in DOMAIN Order : /\ genesis' = genesis \union {Order[i]}
                                     /\ UNCHANGED <<env, record, proc>>
      BY <1>9, <2>1 DEF WriteGenesis
    <3>2. genesis' \subseteq L1s
      BY <1>1, <3>1 DEF L1s
    <3> QED BY <1>9, <3>1, <3>2, TypeParts DEF WriteGenesis, chain
  <2>2. CASE left = {}
    <3>1. env' = commands /\ record' = Nothing /\ genesis' = genesis
          /\ proc' = [proc EXCEPT !.phase = "issue", !.at = 1, !.tries = 1]
      BY <1>9, <2>2 DEF WriteGenesis
    <3>2. proc' \in Processes
      BY <1>1, <1>2, <3>1 DEF Processes, Phases
    <3>3. record' \in [L1s -> [Steps -> Nat]]
      BY <3>1 DEF Nothing
    <3> QED BY <1>1, <1>9, <3>1, <3>2, <3>3, TypeParts DEF WriteGenesis, chain
  <2> QED BY <2>1, <2>2
<1>10. CASE WriteOracleGenesis
  <2>1. proc.at \in DOMAIN Todo /\ Now.l1 = "oracle"
    BY <1>10 DEF WriteOracleGenesis, CommandOK, FillOK, Filling
  <2>2. "oracle" \in L1s
    BY <2>1, TodoShape DEF Now
  <2>3. genesis' \subseteq L1s
    BY <1>1, <1>10, <2>2 DEF WriteOracleGenesis
  <2> QED BY <1>10, <2>3, TypeParts DEF WriteOracleGenesis, chain
<1>11. CASE Retry
  <2>1. proc' \in Processes
    <3>1. CASE proc.tries < Attempts
      <4>1. proc' = [proc EXCEPT !.phase = "issue", !.at = proc.at, !.tries = proc.tries + 1]
        BY <1>11, <3>1 DEF Retry, Again
      <4>2. proc.tries + 1 \in 0 .. Attempts
        BY <1>1, <3>1, CreationAssumption DEF Processes
      <4> QED BY <1>1, <4>1, <4>2 DEF Processes, Phases
    <3> QED BY <1>2, <1>11, <3>1 DEF Retry, Again
  <2>2. faults' \in Nat
    BY <1>1, <1>11 DEF Retry
  <2> QED BY <1>11, <2>1, <2>2, TypeParts DEF Retry, local, chain
<1>12. CASE Accepted
  <2>1. PICK id \in DOMAIN platform : proc' = [proc EXCEPT !.phase = "save", !.tx = id]
    BY <1>12 DEF Accepted
  <2>2. id \in Nat
    BY PlatformShape
  <2>3. proc' \in Processes
    BY <1>1, <2>1, <2>2 DEF Processes, Phases
  <2> QED BY <1>12, <2>3, TypeParts DEF Accepted, local, chain
<1>13. CASE Stop
  BY <1>2, <1>13, TypeParts DEF Stop, local, chain
<1> QED BY <1>4, <1>6, <1>7, <1>8, <1>9, <1>10, <1>11, <1>12, <1>13

LEMMA SaveKeepsType ==
  ASSUME TypeOK, FillOK, CommandOK, Save
  PROVE  TypeOK'
<1>1. proc \in Processes /\ record \in [L1s -> [Steps -> Nat]]
  BY TypeParts
<1>2. proc.at \in DOMAIN Todo /\ proc.at \in Nat /\ proc.tx \in Nat
  BY <1>1 DEF Save, FillOK, CommandOK, Filling, Processes
<1>3. record' \in [L1s -> [Steps -> Nat]]
  <2>1. Now.l1 \in L1s /\ Now.step \in Steps
    BY <1>2, TodoShape DEF Now
  <2> QED BY <1>1, <1>2, <2>1 DEF Save
<1>4. proc' \in Processes
  <2>1. Idle \in Processes /\ 1 \in 0 .. Attempts
    BY CreationAssumption DEF Idle, Processes, Phases
  <2>2. CASE proc.at = Len(Todo)
    BY <2>1, <2>2 DEF Save
  <2>3. CASE proc.at # Len(Todo)
    <3>1. proc' = [proc EXCEPT !.phase = "issue", !.at = proc.at + 1, !.tries = 1, !.tx = 0]
      BY <2>3 DEF Save
    <3>2. proc.at + 1 \in Nat
      BY <1>2
    <3> QED BY <1>1, <2>1, <3>1, <3>2 DEF Processes, Phases
  <2> QED BY <2>2, <2>3
<1> QED BY <1>3, <1>4, TypeParts DEF Save, chain

\* The steps of topup and destroy but for their transactions.
LEMMA TopUpKeepsType ==
  ASSUME TypeOK, RecordOK, NEW days \in Days, TopUp(days)
  PROVE  /\ TypeOK'
         /\ \/ proc' = Idle
            \/ /\ proc'.cmd = "topup" /\ proc'.phase = "increase" /\ proc'.at = 1
               /\ proc'.since = Settled /\ proc'.target = days /\ proc'.began = ticks
               /\ 1 \in DOMAIN proc'.list
               /\ \A k \in DOMAIN proc'.list :
                    /\ proc'.list[k].on \in DOMAIN platform
                    /\ balance[proc'.list[k].on] + proc'.list[k].amount = days + Buffer
<1>1. PICK report \in Reports :
        LET short == {c \in report : balance[c] < days} IN
        \/ short = {} /\ proc' = Idle
        \/ /\ short # {}
           /\ \E list \in Listed(short, [c \in short |-> Rank(c)],
                                [c \in short |-> Target(days) - balance[c]]) :
                proc' = [Idle EXCEPT !.cmd = "topup", !.phase = "increase",
                           !.at = 1, !.list = list, !.target = days,
                           !.since = Settled, !.began = ticks]
  BY DEF TopUp
<1> DEFINE short == {c \in report : balance[c] < days}
           amount == [c \in short |-> Target(days) - balance[c]]
<1>2. days \in Nat /\ Buffer \in Nat /\ Target(days) = days + Buffer
  BY CreationAssumption DEF TopUp, Target
<1>3. short \subseteq DOMAIN platform /\ short \in SUBSET Nat /\ IsFiniteSet(short)
  BY RecordedShape, FS_Subset
<1>4. \A c \in short : /\ balance[c] \in Nat /\ amount[c] \in Nat
                       /\ balance[c] + amount[c] = days + Buffer
  BY <1>2, <1>3, PlatformShape
<1>5. Idle \in Processes /\ commands \in Nat /\ ticks \in Nat /\ commands' \in Nat
  <2>1. Idle \in Processes
    BY CreationAssumption DEF Idle, Processes, Phases
  <2>2. commands \in Nat /\ ticks \in Nat /\ commands' = commands + 1
    BY TypeParts DEF TopUp
  <2> QED BY <2>1, <2>2
<1>6. CASE proc' = Idle
  BY <1>5, <1>6, TypeParts DEF TopUp, local, chain
<1>7. CASE short # {}
             /\ \E list \in Listed(short, [c \in short |-> Rank(c)], amount) :
                  proc' = [Idle EXCEPT !.cmd = "topup", !.phase = "increase",
                             !.at = 1, !.list = list, !.target = days,
                             !.since = Settled, !.began = ticks]
  <2>1. PICK list \in Listed(short, [c \in short |-> Rank(c)], amount) :
          proc' = [Idle EXCEPT !.cmd = "topup", !.phase = "increase",
                     !.at = 1, !.list = list, !.target = days,
                     !.since = Settled, !.began = ticks]
    BY <1>7
  <2> HIDE DEF amount, short
  <2>2. /\ list \in Seq([on : Nat, amount : Nat])
        /\ Cardinality(short) \in Nat /\ DOMAIN list = 1 .. Cardinality(short)
        /\ \A k \in DOMAIN list : /\ list[k].on \in short
                                  /\ list[k].amount = amount[list[k].on]
    BY <1>3, <1>4, ListedShape
  <2>3. proc' \in Processes
    BY <1>2, <1>5, <2>1, <2>2, SettledShape DEF Processes, Phases
  <2>4. /\ proc'.cmd = "topup" /\ proc'.phase = "increase" /\ proc'.at = 1
        /\ proc'.since = Settled /\ proc'.target = days /\ proc'.began = ticks
        /\ proc'.list = list
    BY <2>1 DEF Idle
  <2>5. Cardinality(short) # 0
    BY <1>3, <1>7, FS_EmptySet
  <2>6. 1 \in DOMAIN list
    BY <2>2, <2>5
  <2>7. \A k \in DOMAIN list : /\ list[k].on \in DOMAIN platform
                               /\ balance[list[k].on] + list[k].amount = days + Buffer
    BY <1>3, <1>4, <2>2
  <2>8. TypeOK'
    BY <1>5, <2>3, TypeParts DEF TopUp, local, chain
  <2> QED BY <2>4, <2>6, <2>7, <2>8
<1> QED BY <1>1, <1>6, <1>7

LEMMA SurveyKeepsType ==
  ASSUME TypeOK, RecordOK, Survey
  PROVE  /\ TypeOK' /\ proc'.cmd = proc.cmd /\ proc'.since <= Len(platform)
         /\ \/ Unconverted /\ proc'.phase = "remove" /\ proc'.since = Len(platform)
            \/ \E report \in Reports :
                 /\ proc'.since = Settled /\ proc'.at = 1
                 /\ \/ proc'.phase = "remove" /\ report = {}
                    \/ proc'.phase = "disable" /\ 1 \in DOMAIN proc'.list
                 /\ \A k \in DOMAIN proc'.list : proc'.list[k].on \in DOMAIN platform
                 /\ \A c \in report : \E k \in DOMAIN proc'.list : proc'.list[k].on = c
<1>1. proc \in Processes /\ Len(platform) \in Nat
  BY TypeParts, PlatformShape
<1>2. CASE Unconverted
  <2>1. proc' = [proc EXCEPT !.phase = "remove", !.since = Len(platform)]
    BY <1>2 DEF Survey
  <2>2. proc' \in Processes /\ proc'.cmd = proc.cmd
    BY <1>1, <2>1 DEF Processes, Phases
  <2>3. TypeOK'
    BY <2>2, TypeParts DEF Survey, local, chain
  <2>4. proc'.phase = "remove" /\ proc'.since = Len(platform)
    BY <1>1, <2>1 DEF Processes
  <2> QED BY <1>1, <1>2, <2>2, <2>3, <2>4
<1>3. CASE ~Unconverted
  <2>0. PICK report \in Reports : \E list \in Reclaimable(report) :
          proc' = [proc EXCEPT !.phase = IF report = {} THEN "remove" ELSE "disable",
                               !.at = 1, !.list = list, !.since = Settled]
    BY <1>3 DEF Survey
  <2>1. PICK list \in Reclaimable(report) :
          proc' = [proc EXCEPT !.phase = IF report = {} THEN "remove" ELSE "disable",
                               !.at = 1, !.list = list, !.since = Settled]
    BY <2>0
  <2> DEFINE rank == [c \in report |-> IF platform[c].l1 = "management"
                                       THEN Len(platform) + 2 ELSE Rank(c)]
             amount == [c \in report |-> 0]
  <2>2. report \subseteq DOMAIN platform /\ report \in SUBSET Nat /\ IsFiniteSet(report)
    BY RecordedShape
  <2>3. list \in Listed(report, rank, amount)
    BY DEF Reclaimable
  <2>4. \A c \in report : amount[c] \in Nat
    OBVIOUS
  <2> HIDE DEF rank, amount
  <2>5. /\ list \in Seq([on : Nat, amount : Nat])
        /\ Cardinality(report) \in Nat /\ DOMAIN list = 1 .. Cardinality(report)
        /\ \A k \in DOMAIN list : list[k].on \in report
        /\ \A c \in report : \E k \in DOMAIN list : list[k].on = c
    BY <2>2, <2>3, <2>4, ListedShape
  <2>6. proc' \in Processes
    <3>1. (IF report = {} THEN "remove" ELSE "disable") \in Phases
      BY DEF Phases
    <3> QED BY <1>1, <2>1, <2>5, <3>1, SettledShape DEF Processes
  <2>7. /\ proc'.phase = IF report = {} THEN "remove" ELSE "disable"
        /\ proc'.at = 1 /\ proc'.list = list /\ proc'.since = Settled
        /\ proc'.cmd = proc.cmd
    BY <1>1, <2>1 DEF Processes
  <2>8. report # {} => 1 \in DOMAIN list
    BY <2>2, <2>5, FS_EmptySet
  <2>9. TypeOK'
    BY <2>6, TypeParts DEF Survey, local, chain
  <2> QED BY <2>2, <2>5, <2>7, <2>8, <2>9, SettledShape
<1> QED BY <1>2, <1>3

LEMMA SpendKeepsType ==
  ASSUME TypeOK, SpendOK, CommandOK, Increased \/ DisableAccepted \/ Remove
  PROVE  TypeOK'
<1>1. proc \in Processes /\ Idle \in Processes
  <2>1. proc \in Processes
    BY TypeParts
  <2>2. Idle \in Processes
    BY CreationAssumption DEF Idle, Processes, Phases
  <2> QED BY <2>1, <2>2
<1>2. proc.at + 1 \in Nat
  <2>1. proc.at \in Nat
    BY <1>1 DEF Processes
  <2> QED BY <2>1
<1>3. \A ph \in Phases : /\ [proc EXCEPT !.phase = ph] \in Processes
                         /\ [proc EXCEPT !.phase = ph, !.at = proc.at + 1] \in Processes
  BY <1>1, <1>2 DEF Processes
<1>4. CASE Increased
  <2>1. proc' \in Processes
    BY <1>1, <1>3, <1>4 DEF Increased, Phases
  <2> QED BY <1>4, <2>1, TypeParts DEF Increased, local, chain
<1>5. CASE DisableAccepted
  <2>1. proc' \in Processes
    BY <1>1, <1>3, <1>5 DEF DisableAccepted, Phases
  <2> QED BY <1>5, <2>1, TypeParts DEF DisableAccepted, local, chain
<1>6. CASE Remove
  <2>1. /\ files' \subseteq files /\ genesis' \subseteq genesis
        /\ (env' = env /\ record' = record) \/ (env' = 0 /\ record' = Nothing)
        /\ proc' = proc \/ proc' = Idle
    BY <1>6 DEF Remove
  <2>2. Nothing \in [L1s -> [Steps -> Nat]]
    BY DEF Nothing
  <2>3. /\ files' \subseteq {"keys", "public"} /\ genesis' \subseteq L1s
        /\ env' \in Nat /\ record' \in [L1s -> [Steps -> Nat]] /\ proc' \in Processes
    <3>1. /\ TypeOK /\ env \in Nat /\ record \in [L1s -> [Steps -> Nat]]
          /\ files \subseteq {"keys", "public"} /\ genesis \subseteq L1s
      BY TypeParts
    <3> QED BY <1>1, <2>1, <2>2, <3>1
  <2> QED BY <1>6, <2>3, TypeParts DEF Remove, chain
<1> QED BY <1>4, <1>5, <1>6

-----------------------------------------------------------------------------
(* Every step keeps the rest.                                              *)

LEMMA ListShape ==
  TypeOK => /\ Len(proc.list) \in Nat /\ DOMAIN proc.list = 1 .. Len(proc.list)
            /\ \A k \in DOMAIN proc.list : proc.list[k].on \in Nat /\ proc.list[k].amount \in Nat
<1> SUFFICES ASSUME TypeOK
             PROVE  /\ Len(proc.list) \in Nat /\ DOMAIN proc.list = 1 .. Len(proc.list)
                    /\ \A k \in DOMAIN proc.list :
                         proc.list[k].on \in Nat /\ proc.list[k].amount \in Nat
  OBVIOUS
<1> DEFINE X == [on : Nat, amount : Nat]
<1>1. proc.list \in Seq(X)
  BY TypeParts DEF Processes
<1>2. \A x \in X : x.on \in Nat /\ x.amount \in Nat
  OBVIOUS
<1> HIDE DEF X
<1>3. /\ Len(proc.list) \in Nat /\ DOMAIN proc.list = 1 .. Len(proc.list)
      /\ \A k \in DOMAIN proc.list : proc.list[k] \in X
  BY <1>1
<1> QED BY <1>2, <1>3

LEMMA ProcMoves ==
  TypeOK =>
    \A ph \in Phases :
      LET p == [proc EXCEPT !.phase = ph] IN
      /\ p.phase = ph /\ p.cmd = proc.cmd /\ p.at = proc.at /\ p.tx = proc.tx
      /\ p.list = proc.list /\ p.since = proc.since
      /\ p.target = proc.target /\ p.began = proc.began
BY DEF TypeOK

\* What does not touch the transactions and the file.
LEMMA QuietKeeps ==
  ASSUME LifeInv, UNCHANGED <<platform, mempool, record, env>>
  PROVE  /\ Transacted' = Transacted /\ (\A k \in DOMAIN Todo : Saved(k)' <=> Saved(k))
         /\ RecordOK' /\ OwnOK' /\ OneConversion' /\ PaymentsOK'
<1>1. Transacted' = Transacted
  BY DEF Transacted
<1>2. \A k \in DOMAIN Todo : Saved(k)' <=> Saved(k)
  BY DEF Saved
<1>3. RecordOK'
  BY <1>2 DEF LifeInv, RecordOK
<1>4. OwnOK'
  BY <1>1, <1>2 DEF LifeInv, OwnOK, Made
<1>5. OneConversion' /\ PaymentsOK'
  BY DEF LifeInv, OneConversion, Conversions, PaymentsOK
<1> QED BY <1>1, <1>2, <1>3, <1>4, <1>5

LEMMA StopKeeps ==
  ASSUME LifeInv, TypeOK', UNCHANGED <<platform, mempool, record, env, commands>>, proc' = Idle
  PROVE  LifeInv'
<1>1. CommandOK' /\ TicketsOK' /\ FillOK' /\ SpendOK'
  BY QuietKeeps DEF LifeInv, CommandOK, TicketsOK, FillOK, Filling, SpendOK, Spending, Idle, Before
<1> QED BY <1>1, QuietKeeps DEF LifeInv

LEMMA StartKeeps ==
  ASSUME LifeInv, TypeOK', NEW cmd \in {"keygen", "create", "destroy"},
         NEW phase \in {"keys", "check", "survey"}, Start(cmd, phase),
         phase = "survey" <=> cmd = "destroy", phase = "check" => cmd = "create"
  PROVE  LifeInv'
<1>1. proc'.cmd = cmd /\ proc'.phase = phase /\ commands' = commands + 1
  BY DEF Start, Idle
<1>2. UNCHANGED <<platform, mempool, record, env>> /\ commands \in Nat /\ env \in Nat
  BY DEF Start, local, chain, LifeInv, TypeOK
<1>3. CommandOK'
  BY <1>1, <1>2 DEF LifeInv, CommandOK, Before
<1>4. TicketsOK'
  BY <1>1, <1>2, QuietKeeps DEF LifeInv, TicketsOK
<1>5. FillOK' /\ SpendOK'
  BY <1>1 DEF FillOK, Filling, SpendOK, Spending
<1> QED BY <1>2, <1>3, <1>4, <1>5, QuietKeeps DEF LifeInv

\* What issuing does.
LEMMA IssueEffect ==
  ASSUME TypeOK, NEW step \in Steps \union {"disable", "increase"}, NEW l1 \in L1s,
         NEW on \in Nat, NEW amount \in Nat, Issue(step, l1, on, amount)
  PROVE  \E tx \in Transactions :
           /\ tx.ticket[1] = commands /\ tx.ticket[2] = proc.at
           /\ tx.step = step /\ tx.l1 = l1 /\ tx.on = on /\ tx.amount = amount
           /\ tx.manager = record["management"]["chain"]
           /\ mempool' = mempool \union {tx} /\ Transacted' = Transacted \union {tx}
           /\ UNCHANGED <<local, platform, balance, commands, faults, ticks>>
           /\ proc'.phase = "wait" /\ proc'.cmd = proc.cmd /\ proc'.at = proc.at
           /\ proc'.tx = proc.tx /\ proc'.list = proc.list /\ proc'.since = proc.since
           /\ proc'.target = proc.target /\ proc'.began = proc.began
<1> DEFINE tx == [ticket |-> <<commands, proc.at, proc.tries>>, step |-> step, l1 |-> l1,
                  on |-> on, manager |-> record["management"]["chain"], amount |-> amount]
<1>1. proc \in Processes /\ commands \in Nat
  BY TypeParts
<1>2. proc.at \in Nat /\ proc.tries \in Nat
  BY <1>1, CreationAssumption DEF Processes
<1>3. tx \in Transactions
  BY <1>1, <1>2, ManagementRecord DEF Transactions
<1>4. /\ mempool' = mempool \union {tx} /\ proc' = [proc EXCEPT !.phase = "wait"]
      /\ UNCHANGED <<local, platform, balance, commands, faults, ticks>>
  BY DEF Issue, Goto
<1>5. /\ tx.ticket[1] = commands /\ tx.ticket[2] = proc.at
      /\ tx.step = step /\ tx.l1 = l1 /\ tx.on = on /\ tx.amount = amount
      /\ tx.manager = record["management"]["chain"]
  OBVIOUS
<1>6. "wait" \in Phases
  BY DEF Phases
<1>7. Transacted' = Transacted \union {tx}
  BY <1>4 DEF Transacted
<1> HIDE DEF tx
<1> QED BY <1>3, <1>4, <1>5, <1>6, <1>7, ProcMoves

LEMMA IssueNextKeeps ==
  ASSUME LifeInv, IssueNext
  PROVE  LifeInv'
<1> DEFINE on == IF Now.step = "subnet" THEN 0 ELSE record[Now.l1]["subnet"]
<1>1. /\ TypeOK /\ proc.phase = "issue" /\ proc.cmd = "create" /\ env = commands
      /\ commands > 0 /\ proc.at \in DOMAIN Todo
      /\ \A k \in DOMAIN Todo : Saved(k) <=> k < proc.at
  BY DEF LifeInv, IssueNext, CommandOK, FillOK, Filling
<1>2. Now.l1 \in L1s /\ Now.step \in Steps
  BY <1>1, TodoShape DEF Now
<1>3. on \in Nat
  BY <1>1, <1>2 DEF TypeOK, Steps
<1>4. Issue(Now.step, Now.l1, on, 0)
  BY DEF IssueNext
<1> HIDE DEF on
<1>5. PICK tx \in Transactions :
        /\ tx.ticket[1] = commands /\ tx.ticket[2] = proc.at
        /\ tx.step = Now.step /\ tx.l1 = Now.l1 /\ tx.on = on
        /\ tx.manager = record["management"]["chain"]
        /\ mempool' = mempool \union {tx} /\ Transacted' = Transacted \union {tx}
        /\ UNCHANGED <<local, platform, balance, commands, faults, ticks>>
        /\ proc'.phase = "wait" /\ proc'.cmd = proc.cmd /\ proc'.at = proc.at
  BY <1>1, <1>2, <1>3, <1>4, IssueEffect
<1>6. UNCHANGED <<record, env, commands, platform>> /\ commands \in Nat
  BY <1>1, <1>5 DEF local, TypeOK
<1>7. TypeOK'
  BY <1>1, <1>2, <1>3, <1>4, IssueKeepsType
<1>8. CommandOK'
  BY <1>1, <1>5, <1>6 DEF LifeInv, CommandOK, Before
<1>9. TicketsOK'
  BY <1>1, <1>5, <1>6 DEF LifeInv, TicketsOK, Before
<1>10. \A k \in DOMAIN Todo : Saved(k)' <=> Saved(k)
  BY <1>6 DEF Saved
<1>11. RecordOK'
  BY <1>6, <1>10 DEF LifeInv, RecordOK
<1>12. OwnOK'
  <2>1. Made(tx)'
    <3>1. tx.step = "convert" => tx.on = record[tx.l1]["subnet"]
      BY <1>5 DEF on
    <3> QED BY <1>1, <1>5, <1>6, <1>10, <3>1 DEF Made, Now
  <2>2. \A t \in Transacted : Made(t) => Made(t)'
    BY <1>6, <1>10 DEF Made
  <2> QED BY <1>5, <1>6, <2>1, <2>2 DEF LifeInv, OwnOK
<1>13. FillOK'
  BY <1>1, <1>5, <1>6, <1>10 DEF FillOK
<1>14. OneConversion' /\ PaymentsOK'
  BY <1>2, <1>5, <1>6 DEF LifeInv, OneConversion, Conversions, PaymentsOK, Steps
<1>15. SpendOK'
  BY <1>1, <1>5 DEF SpendOK, Spending
<1> QED BY <1>7, <1>8, <1>9, <1>11, <1>12, <1>13, <1>14, <1>15 DEF LifeInv

\* A payment or a refund is issued.
LEMMA PaymentKeeps ==
  ASSUME LifeInv, Increase \/ Disable
  PROVE  LifeInv'
<1> DEFINE v == proc.list[proc.at]
           step == IF proc.cmd = "topup" THEN "increase" ELSE "disable"
<1>1. /\ TypeOK /\ proc.cmd \in {"topup", "destroy"} /\ Spending
      /\ env < commands /\ commands > 0 /\ proc.phase \in {"increase", "disable"}
  BY DEF LifeInv, Increase, Disable, CommandOK, Spending
<1>2. Issue(step, platform[v.on].l1, v.on, v.amount)
  BY DEF LifeInv, Increase, Disable, CommandOK
<1>3. proc.at \in DOMAIN proc.list /\ v.on \in DOMAIN platform
  BY <1>1 DEF LifeInv, SpendOK
<1>4. v.on \in Nat /\ v.amount \in Nat /\ platform[v.on].l1 \in L1s
  <2>1. v.on \in Nat /\ v.amount \in Nat
    BY <1>1, <1>3, ListShape
  <2>2. platform[v.on] \in Transactions
    BY <1>1, <1>3, PlatformShape
  <2> QED BY <1>3, <2>1, <2>2 DEF Transactions
<1> HIDE DEF v
<1>5. PICK tx \in Transactions :
        /\ tx.ticket[1] = commands /\ tx.ticket[2] = proc.at
        /\ tx.step = step /\ tx.on = v.on /\ tx.amount = v.amount
        /\ mempool' = mempool \union {tx} /\ Transacted' = Transacted \union {tx}
        /\ UNCHANGED <<local, platform, balance, commands, faults, ticks>>
        /\ proc'.phase = "wait" /\ proc'.cmd = proc.cmd /\ proc'.at = proc.at
        /\ proc'.list = proc.list /\ proc'.since = proc.since
  <2>1. step \in Steps \union {"disable", "increase"}
    OBVIOUS
  <2> HIDE DEF step
  <2> QED BY <1>1, <1>2, <1>4, <2>1, IssueEffect
<1>6. UNCHANGED <<record, env, commands, platform>> /\ commands \in Nat /\ env \in Nat
  BY <1>1, <1>5 DEF local, TypeOK
<1>7. TypeOK'
  BY <1>1, <1>2, <1>4, IssueKeepsType
<1>8. CommandOK'
  BY <1>1, <1>5, <1>6 DEF LifeInv, CommandOK, Before
<1>9. TicketsOK'
  BY <1>1, <1>5, <1>6 DEF LifeInv, TicketsOK, Before
<1>10. \A k \in DOMAIN Todo : Saved(k)' <=> Saved(k)
  BY <1>6 DEF Saved
<1>11. RecordOK'
  BY <1>6, <1>10 DEF LifeInv, RecordOK
<1>12. OwnOK'
  <2>1. \A t \in Transacted : Made(t) => Made(t)'
    BY <1>6, <1>10 DEF Made
  <2> QED BY <1>1, <1>5, <1>6, <2>1 DEF LifeInv, OwnOK
<1>13. FillOK'
  BY <1>1, <1>5 DEF FillOK, Filling
<1>14. OneConversion' /\ PaymentsOK'
  BY <1>3, <1>5, <1>6 DEF LifeInv, OneConversion, Conversions, PaymentsOK
<1>15. SpendOK'
  <2>1. Spending'
    BY <1>1, <1>5 DEF Spending
  <2>2. proc.at \in 1 .. proc.at
    BY <1>1, <1>3, ListShape
  <2>3. \A i \in DOMAIN platform : platform[i].ticket[1] = commands => i > proc.since
    BY <1>1 DEF LifeInv, SpendOK
  <2> QED BY <1>1, <1>3, <1>5, <1>6, <2>1, <2>2, <2>3 DEF LifeInv, SpendOK, v
<1> QED BY <1>7, <1>8, <1>9, <1>11, <1>12, <1>13, <1>14, <1>15 DEF LifeInv

\* A transaction is accepted, now or late.
LEMMA AcceptKeeps ==
  ASSUME LifeInv, NEW tx \in mempool, Accept(tx)
  PROVE  LifeInv'
<1> DEFINE n == Len(platform)
<1>1. TypeOK /\ tx \in Transactions /\ tx \in Transacted
  BY DEF LifeInv, TypeOK, Transacted
<1>2. /\ n \in Nat /\ DOMAIN platform = 1 .. n /\ DOMAIN platform' = 1 .. n + 1
      /\ \A i \in DOMAIN platform : platform'[i] = platform[i]
      /\ platform'[n + 1] = tx /\ Len(platform') = n + 1
  BY <1>1, PlatformGrows DEF Accept
<1>3. UNCHANGED <<env, record, proc, commands>> /\ mempool' \subseteq mempool
  BY DEF Accept, local
<1> HIDE DEF n
<1>4. Transacted' \subseteq Transacted
  <2>1. ASSUME NEW i \in DOMAIN platform'
        PROVE  platform'[i] \in Transacted
    <3>1. i \in DOMAIN platform \/ i = n + 1
      BY <1>2
    <3> QED BY <1>1, <1>2, <3>1 DEF Transacted
  <2> QED BY <1>3, <2>1 DEF Transacted
<1>5. TypeOK'
  BY <1>1, AcceptKeepsType
<1>6. DOMAIN platform \subseteq DOMAIN platform' /\ commands' = commands
  BY <1>2, <1>3
<1>7. CommandOK' /\ TicketsOK'
  BY <1>3, <1>4 DEF LifeInv, CommandOK, TicketsOK
<1>8. \A k \in DOMAIN Todo : Saved(k)' <=> Saved(k)
  BY <1>3 DEF Saved
<1>9. RecordOK'
  BY <1>2, <1>3, <1>6, <1>8 DEF LifeInv, RecordOK
<1>10. OwnOK'
  <2>1. \A t \in Transacted : Made(t) => Made(t)'
    BY <1>3, <1>8 DEF Made
  <2> QED BY <1>3, <1>4, <2>1 DEF LifeInv, OwnOK
<1>11. FillOK'
  BY <1>2, <1>3, <1>6, <1>8 DEF LifeInv, FillOK, Filling
<1>12. OneConversion'
  <2> SUFFICES ASSUME NEW c \in DOMAIN platform', NEW d \in DOMAIN platform',
                      platform'[c].step = "convert", platform'[d].step = "convert",
                      platform'[c].on = platform'[d].on
               PROVE  c = d
    BY DEF OneConversion, Conversions
  <2>1. \A e \in DOMAIN platform' : e \in DOMAIN platform \/ e = n + 1
    BY <1>2
  <2>2. CASE c \in DOMAIN platform /\ d \in DOMAIN platform
    BY <1>2, <2>2 DEF LifeInv, OneConversion, Conversions
  <2>3. ASSUME NEW e \in DOMAIN platform, platform[e].step = "convert",
               tx.step = "convert", platform[e].on = tx.on
        PROVE  FALSE
    BY <2>3 DEF Accept, Valid, Conversions
  <2> QED BY <1>2, <2>1, <2>2, <2>3
<1>13. PaymentsOK'
  <2>1. \A t \in mempool' : t.step \in {"disable", "increase"} => t.on \in DOMAIN platform'
    BY <1>3, <1>6 DEF LifeInv, PaymentsOK
  <2>2. ASSUME NEW i \in DOMAIN platform', platform'[i].step \in {"disable", "increase"}
        PROVE  platform'[i].on \in 1 .. i - 1
    <3>1. CASE i \in DOMAIN platform
      BY <1>2, <2>2, <3>1 DEF LifeInv, PaymentsOK
    <3>2. CASE i = n + 1
      BY <1>2, <2>2, <3>2 DEF LifeInv, PaymentsOK
    <3> QED BY <1>2, <3>1, <3>2
  <2> QED BY <2>1, <2>2 DEF PaymentsOK
<1>14. SpendOK'
  <2> SUFFICES ASSUME Spending PROVE SpendOK'
    BY <1>3 DEF SpendOK, Spending
  <2>1. /\ proc.at \in DOMAIN proc.list
        /\ \A k \in DOMAIN proc.list : proc.list[k].on \in DOMAIN platform
        /\ proc.since <= n
        /\ \A i \in DOMAIN platform : platform[i].ticket[1] = commands => i > proc.since
    BY DEF LifeInv, SpendOK, n
  <2>2. proc.since \in Nat
    BY <1>1, TypeParts DEF Processes
  <2>3. \A i \in DOMAIN platform' : platform'[i].ticket[1] = commands => i > proc.since
    BY <1>2, <2>1, <2>2
  <2>4. proc.since <= Len(platform')
    BY <1>2, <2>1, <2>2
  <2> QED BY <1>3, <1>4, <1>6, <2>1, <2>3, <2>4 DEF LifeInv, SpendOK
<1> QED BY <1>5, <1>7, <1>9, <1>10, <1>11, <1>12, <1>13, <1>14 DEF LifeInv

LEMMA TickKeeps ==
  ASSUME LifeInv, Tick
  PROVE  LifeInv'
<1>1. UNCHANGED <<platform, mempool, record, env, proc, commands>>
  BY DEF Tick, local
<1>2. TypeOK'
  BY TickKeepsType DEF LifeInv
<1>3. CommandOK' /\ TicketsOK' /\ SpendOK'
  BY <1>1, QuietKeeps DEF LifeInv, CommandOK, TicketsOK, SpendOK, Spending
<1>4. FillOK'
  BY <1>1, QuietKeeps DEF LifeInv, FillOK, Filling
<1> QED BY <1>1, <1>2, <1>3, <1>4, QuietKeeps DEF LifeInv

\* Files are written, a transaction is tried again or seen accepted.
LEMMA CreateKeeps ==
  ASSUME LifeInv, WriteKeys \/ WritePublic \/ Check \/ WriteOracleGenesis \/ Retry \/ Accepted
  PROVE  LifeInv'
<1>1. TypeOK'
  BY CreateKeepsType DEF LifeInv
<1>2. UNCHANGED <<platform, mempool, record, env, commands>>
  BY DEF WriteKeys, WritePublic, Check, WriteOracleGenesis, Retry, Accepted, local, chain
<1>3. TypeOK
  BY DEF LifeInv
<1>4. CASE proc' = Idle
  BY <1>1, <1>2, <1>4, StopKeeps
<1>5. ASSUME NEW ph \in {"public", "check", "genesis"}, proc' = [proc EXCEPT !.phase = ph],
             proc.phase \in {"keys", "public", "check"},
             ph \in {"check", "genesis"} => proc.cmd = "create"
      PROVE  LifeInv'
  <2>1. proc'.phase = ph /\ proc'.cmd = proc.cmd
    BY <1>3, <1>5, ProcMoves DEF Phases
  <2>2. CommandOK' /\ TicketsOK'
    BY <1>2, <1>5, <2>1, QuietKeeps DEF LifeInv, CommandOK, TicketsOK, Before
  <2>3. FillOK' /\ SpendOK'
    BY <2>1 DEF FillOK, Filling, SpendOK, Spending
  <2> QED BY <1>1, <1>2, <2>2, <2>3, QuietKeeps DEF LifeInv
<1>6. CASE WriteKeys
  BY <1>5, <1>6 DEF WriteKeys, Goto
<1>7. CASE WritePublic
  BY <1>4, <1>5, <1>7 DEF WritePublic, Goto
<1>8. CASE Check
  BY <1>4, <1>5, <1>8 DEF Check, Goto, LifeInv, CommandOK
<1>9. CASE WriteOracleGenesis
  <2>1. proc' = proc
    BY <1>9 DEF WriteOracleGenesis
  <2>2. CommandOK' /\ TicketsOK' /\ SpendOK'
    BY <1>2, <2>1, QuietKeeps DEF LifeInv, CommandOK, TicketsOK, SpendOK, Spending
  <2>3. FillOK'
    BY <1>2, <2>1, QuietKeeps DEF LifeInv, FillOK, Filling
  <2> QED BY <1>1, <1>2, <2>2, <2>3, QuietKeeps DEF LifeInv
<1>10. ASSUME NEW ph \in {"issue", "save"}, proc.cmd = "create", proc.phase \in {"issue", "wait"},
              proc'.phase = ph, proc'.cmd = proc.cmd, proc'.at = proc.at,
              ph = "save" => /\ proc'.tx \in DOMAIN platform
                             /\ platform[proc'.tx].ticket[1] = commands
                             /\ platform[proc'.tx].ticket[2] = proc.at
       PROVE  LifeInv'
  <2>1. CommandOK' /\ TicketsOK'
    BY <1>2, <1>10, QuietKeeps DEF LifeInv, CommandOK, TicketsOK, Before
  <2>2. FillOK'
    BY <1>2, <1>10, QuietKeeps DEF LifeInv, FillOK, Filling
  <2>3. SpendOK'
    BY <1>10 DEF SpendOK, Spending
  <2> QED BY <1>1, <1>2, <2>1, <2>2, <2>3, QuietKeeps DEF LifeInv
<1>11. CASE Retry
  <2>1. \/ proc' = Idle
        \/ proc' = [proc EXCEPT !.phase = "issue", !.at = proc.at, !.tries = proc.tries + 1]
    BY <1>11 DEF Retry, Again
  <2>2. proc' # Idle => proc'.phase = "issue" /\ proc'.cmd = proc.cmd /\ proc'.at = proc.at
    BY <1>3, <2>1, TypeParts DEF Processes
  <2> QED BY <1>4, <1>10, <1>11, <2>2 DEF Retry
<1>12. CASE Accepted
  <2>1. PICK id \in DOMAIN platform :
          Awaited(id) /\ proc' = [proc EXCEPT !.phase = "save", !.tx = id]
    BY <1>12 DEF Accepted
  <2>2. /\ proc'.phase = "save" /\ proc'.cmd = proc.cmd /\ proc'.at = proc.at
        /\ proc'.tx = id
    BY <1>3, <2>1, TypeParts DEF Processes
  <2>3. platform[id].ticket[1] = commands /\ platform[id].ticket[2] = proc.at
    BY <2>1 DEF Awaited
  <2> QED BY <1>10, <1>12, <2>2, <2>3 DEF Accepted
<1> QED BY <1>6, <1>7, <1>8, <1>9, <1>11, <1>12

LEMMA WriteGenesisKeeps ==
  ASSUME LifeInv, WriteGenesis
  PROVE  LifeInv'
<1>1. TypeOK'
  BY CreateKeepsType DEF LifeInv
<1>2. TypeOK /\ UNCHANGED <<platform, mempool, commands>>
  BY DEF LifeInv, WriteGenesis, chain
<1>3. CASE UNCHANGED <<env, record, proc>>
  <2>1. CommandOK' /\ TicketsOK' /\ SpendOK'
    BY <1>2, <1>3, QuietKeeps DEF LifeInv, CommandOK, TicketsOK, SpendOK, Spending
  <2>2. FillOK'
    BY <1>2, <1>3, QuietKeeps DEF LifeInv, FillOK, Filling
  <2> QED BY <1>1, <1>2, <1>3, <2>1, <2>2, QuietKeeps DEF LifeInv
<1>4. CASE /\ env' = commands /\ record' = Nothing
           /\ proc' = [proc EXCEPT !.phase = "issue", !.at = 1, !.tries = 1]
  <2>1. proc.phase = "genesis" /\ proc.cmd = "create" /\ commands > 0 /\ commands \in Nat
    BY <1>2 DEF WriteGenesis, LifeInv, CommandOK, TypeOK
  <2>2. proc'.phase = "issue" /\ proc'.at = 1 /\ proc'.cmd = "create"
    BY <1>2, <1>4, <2>1, TypeParts DEF Processes
  <2>3. \A l \in L1s, s \in Steps : record'[l][s] = 0
    BY <1>4 DEF Nothing
  <2>4. \A k \in DOMAIN Todo : ~Saved(k)'
    BY <2>3, TodoShape DEF Saved
  <2>5. Transacted' = Transacted /\ \A tx \in Transacted : tx.ticket[1] # commands
    BY <1>2, <2>1 DEF Transacted, LifeInv, TicketsOK, Before
  <2>6. CommandOK' /\ TicketsOK'
    BY <1>2, <1>4, <2>1, <2>2, <2>5 DEF LifeInv, CommandOK, TicketsOK, Before
  <2>7. RecordOK'
    BY <2>3, <2>4 DEF RecordOK
  <2>8. OwnOK'
    BY <1>4, <2>5 DEF OwnOK
  <2>9. FillOK'
    BY <1>2, <1>4, <2>2, <2>4, TodoShape DEF FillOK
  <2>10. OneConversion' /\ PaymentsOK'
    BY <1>2 DEF LifeInv, OneConversion, Conversions, PaymentsOK
  <2>11. SpendOK'
    BY <2>2 DEF SpendOK, Spending
  <2> QED BY <1>1, <2>6, <2>7, <2>8, <2>9, <2>10, <2>11 DEF LifeInv
<1> QED BY <1>3, <1>4 DEF WriteGenesis

\* The ID of the accepted transaction goes into the file: into the first place
\* that is empty.
LEMMA SaveKeeps ==
  ASSUME LifeInv, Save
  PROVE  LifeInv'
<1> DEFINE l == Now.l1
           s == Now.step
<1>1. /\ TypeOK /\ proc.phase = "save" /\ proc.cmd = "create" /\ env = commands /\ commands > 0
      /\ proc.at \in DOMAIN Todo /\ proc.tx \in DOMAIN platform
      /\ (\A k \in DOMAIN Todo : Saved(k) <=> k < proc.at)
      /\ platform[proc.tx].ticket[1] = env /\ platform[proc.tx].ticket[2] = proc.at
  BY DEF LifeInv, Save, CommandOK, FillOK, Filling
<1>2. UNCHANGED <<platform, mempool, env, commands>> /\ commands \in Nat
  BY <1>1 DEF Save, chain, TypeOK
<1>3. l \in L1s /\ s \in Steps /\ Todo[proc.at].l1 = l /\ Todo[proc.at].step = s
  BY <1>1, TodoShape DEF Now
<1> HIDE DEF l, s
<1>4. TypeOK'
  BY SaveKeepsType DEF LifeInv
<1>5. Transacted' = Transacted /\ platform[proc.tx] \in Transacted
  BY <1>1, <1>2 DEF Transacted
<1>6. proc.tx # 0 /\ DOMAIN Todo \subseteq Nat /\ proc.at \in Nat /\ Len(Todo) = 3 * Len(Order)
  <2>1. proc.tx # 0
    BY <1>1, PlatformShape
  <2>2. DOMAIN Todo \subseteq Nat /\ proc.at \in Nat
    BY <1>1, TodoShape
  <2>3. Len(Todo) = 3 * Len(Order)
    BY TodoShape DEF Todo
  <2> QED BY <2>1, <2>2, <2>3
<1>7. /\ record'[l][s] = proc.tx /\ record[l][s] = 0
      /\ \A m \in L1s, t \in Steps : m # l \/ t # s => record'[m][t] = record[m][t]
  <2>1. record' = [record EXCEPT ![l][s] = proc.tx] /\ record \in [L1s -> [Steps -> Nat]]
    BY <1>1, TypeParts DEF Save, l, s
  <2>2. record'[l][s] = proc.tx
    BY <1>3, <2>1
  <2>3. \A m \in L1s, t \in Steps : m # l \/ t # s => record'[m][t] = record[m][t]
    BY <1>3, <2>1
  <2>4. record[l][s] = 0
    BY <1>1, <1>3, <1>6 DEF Saved
  <2> QED BY <2>2, <2>3, <2>4
<1>8. \A k \in DOMAIN Todo : Saved(k)' <=> k < proc.at + 1
  <2> SUFFICES ASSUME NEW k \in DOMAIN Todo PROVE Saved(k)' <=> k < proc.at + 1
    OBVIOUS
  <2>1. CASE k = proc.at
    BY <1>3, <1>6, <1>7, <2>1 DEF Saved
  <2>2. CASE k # proc.at
    <3>1. Todo[k].l1 # l \/ Todo[k].step # s
      BY <1>1, <1>3, <2>2, TodoOrder
    <3>2. Todo[k].l1 \in L1s /\ Todo[k].step \in Steps
      BY TodoShape
    <3>3. record'[Todo[k].l1][Todo[k].step] = record[Todo[k].l1][Todo[k].step]
      BY <1>7, <3>1, <3>2
    <3>4. Saved(k)' <=> Saved(k)
      BY <3>3 DEF Saved
    <3>5. k < proc.at + 1 <=> k < proc.at
      BY <1>6, <2>2
    <3> QED BY <1>1, <3>4, <3>5
  <2> QED BY <2>1, <2>2
<1>9. /\ proc' = Idle \/ (/\ proc'.phase = "issue" /\ proc'.cmd = "create"
                          /\ proc'.at = proc.at + 1 /\ proc.at # Len(Todo))
  BY <1>1, TypeParts DEF Save, Processes
<1>10. CommandOK' /\ TicketsOK' /\ SpendOK'
  BY <1>1, <1>2, <1>5, <1>9
     DEF LifeInv, CommandOK, TicketsOK, SpendOK, Spending, Idle, Before
<1>11. RecordOK'
  <2>1. ASSUME NEW m \in L1s, NEW t \in Steps, record'[m][t] # 0
        PROVE  /\ record'[m][t] \in DOMAIN platform
               /\ platform[record'[m][t]].ticket[1] = env
               /\ platform[record'[m][t]].l1 = m /\ platform[record'[m][t]].step = t
    <3>1. CASE m = l /\ t = s
      <4>1. Made(platform[proc.tx])
        BY <1>1, <1>2, <1>5 DEF LifeInv, OwnOK
      <4> QED BY <1>1, <1>3, <1>7, <3>1, <4>1 DEF Made
    <3>2. CASE m # l \/ t # s
      BY <1>7, <2>1, <3>2 DEF LifeInv, RecordOK
    <3> QED BY <3>1, <3>2
  <2>2. \A j, k \in DOMAIN Todo : j < k /\ k < proc.at + 1 => j < proc.at + 1
    BY <1>6
  <2>3. \A j, k \in DOMAIN Todo : j < k /\ Saved(k)' => Saved(j)'
    BY <1>8, <2>2
  <2> QED BY <1>2, <2>1, <2>3 DEF RecordOK
<1>12. OwnOK'
  <2> SUFFICES ASSUME NEW tx \in Transacted, tx.ticket[1] = env PROVE Made(tx)'
    BY <1>2, <1>5 DEF OwnOK
  <2>1. Made(tx)
    BY <1>1, <1>2 DEF LifeInv, OwnOK
  <2> DEFINE k == tx.ticket[2]
  <2>2. /\ k \in DOMAIN Todo /\ tx.l1 = Todo[k].l1 /\ tx.step = Todo[k].step
        /\ \A j \in DOMAIN Todo : j < k => Saved(j)
        /\ tx.step = "convert" => /\ tx.on = record[tx.l1]["subnet"]
                                  /\ tx.manager = record["management"]["chain"]
    BY <2>1 DEF Made
  <2> HIDE DEF k
  <2>3. \A j \in DOMAIN Todo : j < k => Saved(j)'
    <3>1. \A j \in DOMAIN Todo : j < proc.at => j < proc.at + 1
      BY <1>6
    <3> QED BY <1>1, <1>8, <2>2, <3>1
  <2>4. ASSUME tx.step = "convert"
        PROVE  /\ record'[tx.l1]["subnet"] = record[tx.l1]["subnet"]
               /\ record'["management"]["chain"] = record["management"]["chain"]
    <3>1. PICK i \in DOMAIN Todo, j \in DOMAIN Todo :
            /\ i < k /\ Todo[i].l1 = Todo[k].l1 /\ Todo[i].step = "subnet"
            /\ j < k /\ Todo[j].l1 = "management" /\ Todo[j].step = "chain"
      BY <2>2, <2>4, TodoOrder
    <3>2. Saved(i) /\ Saved(j)
      BY <2>2, <3>1
    <3>3. record[tx.l1]["subnet"] # 0 /\ record["management"]["chain"] # 0
      BY <2>2, <3>1, <3>2 DEF Saved
    <3>4. tx.l1 \in L1s /\ "management" \in L1s /\ "subnet" \in Steps /\ "chain" \in Steps
      BY <1>1, <2>2, TodoShape, ManagementRecord DEF Steps
    <3> QED BY <1>7, <3>3, <3>4
  <2> QED BY <2>2, <2>3, <2>4 DEF Made, k
<1>13. FillOK'
  <2>1. CASE proc' = Idle
    BY <2>1 DEF FillOK, Filling, Idle
  <2>2. CASE proc' # Idle
    <3>1. proc.at + 1 \in DOMAIN Todo
      BY <1>1, <1>6, <1>9, <2>2, TodoShape
    <3> QED BY <1>1, <1>2, <1>8, <1>9, <2>2, <3>1 DEF FillOK
  <2> QED BY <2>1, <2>2
<1>14. OneConversion' /\ PaymentsOK'
  BY <1>2 DEF LifeInv, OneConversion, Conversions, PaymentsOK
<1> QED BY <1>4, <1>10, <1>11, <1>12, <1>13, <1>14 DEF LifeInv

LEMMA TopUpKeeps ==
  ASSUME LifeInv, NEW days \in Days, TopUp(days)
  PROVE  LifeInv'
<1>1. /\ TypeOK /\ UNCHANGED <<platform, mempool, record, env>> /\ commands' = commands + 1
      /\ commands \in Nat /\ env \in Nat /\ env <= commands
  BY DEF LifeInv, TopUp, local, chain, TypeOK, CommandOK
<1>2. /\ TypeOK'
      /\ \/ proc' = Idle
         \/ /\ proc'.cmd = "topup" /\ proc'.phase = "increase" /\ proc'.at = 1
            /\ proc'.since = Settled /\ 1 \in DOMAIN proc'.list
            /\ \A k \in DOMAIN proc'.list : proc'.list[k].on \in DOMAIN platform
  BY TopUpKeepsType DEF LifeInv
<1>3. \A tx \in Transacted : tx.ticket[1] \in 1 .. commands
  BY DEF LifeInv, TicketsOK
<1>4. CommandOK'
  BY <1>1, <1>2 DEF CommandOK, Idle, Before
<1>5. TicketsOK'
  BY <1>1, <1>2, <1>3, QuietKeeps DEF TicketsOK, Idle, Before
<1>6. FillOK'
  BY <1>2 DEF FillOK, Filling, Idle
<1>7. SpendOK'
  <2>1. \A tx \in Transacted' : tx.ticket[1] # commands'
    BY <1>1, <1>3, QuietKeeps
  <2>2. \A i \in DOMAIN platform' : platform'[i].ticket[1] # commands'
    BY <2>1 DEF Transacted
  <2> QED BY <1>1, <1>2, <2>1, <2>2, SettledShape DEF SpendOK, Spending, Idle
<1> QED BY <1>1, <1>2, <1>4, <1>5, <1>6, <1>7, QuietKeeps DEF LifeInv

LEMMA SurveyKeeps ==
  ASSUME LifeInv, Survey
  PROVE  LifeInv'
<1>1. /\ TypeOK /\ UNCHANGED <<platform, mempool, record, env, commands>>
      /\ proc.cmd = "destroy" /\ proc.phase = "survey"
  BY DEF LifeInv, Survey, local, chain, CommandOK
<1>2. /\ TypeOK' /\ proc'.cmd = "destroy" /\ proc'.since <= Len(platform)
      /\ \/ proc'.phase = "remove"
         \/ /\ proc'.phase = "disable" /\ proc'.at = 1 /\ 1 \in DOMAIN proc'.list
            /\ \A k \in DOMAIN proc'.list : proc'.list[k].on \in DOMAIN platform
  BY <1>1, SurveyKeepsType DEF LifeInv
<1>3. \A tx \in Transacted : tx.ticket[1] # commands
  BY <1>1 DEF LifeInv, TicketsOK
<1>4. CommandOK' /\ TicketsOK'
  BY <1>1, <1>2, QuietKeeps DEF LifeInv, CommandOK, TicketsOK, Before
<1>5. FillOK'
  BY <1>2 DEF FillOK, Filling
<1>6. SpendOK'
  <2>1. \A i \in DOMAIN platform : platform[i].ticket[1] # commands
    BY <1>3 DEF Transacted
  <2> QED BY <1>1, <1>2, <1>3, <2>1, QuietKeeps DEF SpendOK, Spending
<1> QED BY <1>1, <1>2, <1>4, <1>5, <1>6, QuietKeeps DEF LifeInv

\* A payment or a refund is seen accepted.
LEMMA SpendStep ==
  ASSUME TypeOK, CommandOK, Increased \/ DisableAccepted
  PROVE  \/ proc' = Idle /\ proc.at = Len(proc.list) /\ proc.cmd = "topup"
         \/ /\ proc'.cmd = proc.cmd /\ proc'.list = proc.list /\ proc'.since = proc.since
            /\ proc'.target = proc.target /\ proc'.began = proc.began
            /\ \/ /\ proc'.phase = "remove" /\ proc.cmd = "destroy"
                  /\ proc.at = Len(proc.list)
               \/ /\ proc'.at = proc.at + 1 /\ proc.at # Len(proc.list)
                  /\ proc'.phase = IF proc.cmd = "topup" THEN "increase" ELSE "disable"
<1>1. proc \in Processes
  BY TypeParts
<1>2. CASE Increased
  BY <1>1, <1>2 DEF Increased, Processes
<1>3. CASE DisableAccepted
  BY <1>1, <1>3 DEF DisableAccepted, Processes
<1> QED BY <1>2, <1>3

LEMMA SpendKeeps ==
  ASSUME LifeInv, Increased \/ DisableAccepted
  PROVE  LifeInv'
<1>1. TypeOK /\ TypeOK' /\ CommandOK
  BY SpendKeepsType DEF LifeInv
<1>2. UNCHANGED <<platform, mempool, record, env, commands>>
  BY DEF Increased, DisableAccepted, local, chain
<1>3. Spending /\ proc.cmd \in {"topup", "destroy"}
  BY DEF Increased, DisableAccepted, Spending
<1>4. CASE proc' = Idle
  BY <1>1, <1>2, <1>4, StopKeeps
<1>5. CASE proc' # Idle
  <2>1. CommandOK' /\ TicketsOK' /\ FillOK'
    BY <1>1, <1>2, <1>3, <1>5, SpendStep, QuietKeeps
       DEF LifeInv, CommandOK, TicketsOK, FillOK, Filling, Before
  <2>2. SpendOK'
    <3>1. CASE proc'.phase = "remove"
      BY <3>1 DEF SpendOK, Spending
    <3>2. CASE proc'.phase # "remove"
      <4>1. proc'.at = proc.at + 1 /\ proc'.list = proc.list /\ proc'.since = proc.since
            /\ proc'.cmd = proc.cmd /\ proc.at # Len(proc.list)
        BY <1>1, <1>5, <3>2, SpendStep
      <4>2. proc.at + 1 \in DOMAIN proc.list /\ \A n \in 1 .. proc.at : n \in 1 .. proc.at + 1
        BY <1>1, <1>3, <4>1, ListShape DEF LifeInv, SpendOK
      <4> QED BY <1>2, <1>3, <4>1, <4>2, QuietKeeps DEF LifeInv, SpendOK
    <3> QED BY <3>1, <3>2
  <2> QED BY <1>1, <1>2, <2>1, <2>2, QuietKeeps DEF LifeInv
<1> QED BY <1>4, <1>5

LEMMA RemoveKeeps ==
  ASSUME LifeInv, Remove
  PROVE  LifeInv'
<1>1. TypeOK' /\ UNCHANGED <<platform, mempool, commands>>
  BY SpendKeepsType DEF LifeInv, Remove, chain
<1>2. proc.phase = "remove" /\ proc.cmd = "destroy" /\ commands > 0 /\ commands \in Nat
  BY DEF LifeInv, Remove, CommandOK, TypeOK
<1>3. CASE proc' = Idle /\ UNCHANGED <<env, record>>
  BY <1>1, <1>3, StopKeeps
<1>4. CASE proc' = proc /\ UNCHANGED <<env, record>>
  <2>1. CommandOK' /\ TicketsOK' /\ SpendOK' /\ FillOK'
    BY <1>1, <1>2, <1>4, QuietKeeps
       DEF LifeInv, CommandOK, TicketsOK, SpendOK, Spending, FillOK, Filling
  <2> QED BY <1>1, <1>4, <2>1, QuietKeeps DEF LifeInv
<1>5. CASE proc' = proc /\ env' = 0 /\ record' = Nothing
  <2>1. Transacted' = Transacted
    BY <1>1 DEF Transacted
  <2>2. CommandOK' /\ TicketsOK'
    BY <1>1, <1>2, <1>5, <2>1 DEF LifeInv, CommandOK, TicketsOK
  <2>3. \A l \in L1s, s \in Steps : record'[l][s] = 0
    BY <1>5 DEF Nothing
  <2>4. RecordOK'
    BY <2>3, TodoShape DEF RecordOK, Saved
  <2>5. OwnOK' /\ FillOK' /\ SpendOK'
    BY <1>2, <1>5 DEF OwnOK, FillOK, Filling, SpendOK, Spending
  <2>6. OneConversion' /\ PaymentsOK'
    BY <1>1 DEF LifeInv, OneConversion, Conversions, PaymentsOK
  <2> QED BY <1>1, <2>2, <2>4, <2>5, <2>6 DEF LifeInv
<1> QED BY <1>3, <1>4, <1>5 DEF Remove

LEMMA LifeStep == LifeInv /\ [Next]_vars => LifeInv'
<1> SUFFICES ASSUME LifeInv, [Next]_vars PROVE LifeInv'
  OBVIOUS
<1>1. ASSUME NEW tx \in mempool, Accept(tx) PROVE LifeInv'
  BY <1>1, AcceptKeeps
<1>2. CASE Tick
  BY <1>2, TickKeeps
<1>3. CASE Keygen \/ Create \/ Destroy
  <2>1. TypeOK'
    BY <1>3, CreateKeepsType DEF LifeInv
  <2>2. CASE Keygen
    BY <2>1, <2>2, StartKeeps DEF Keygen
  <2>3. CASE Create
    BY <2>1, <2>3, StartKeeps DEF Create
  <2>4. CASE Destroy
    BY <2>1, <2>4, StartKeeps DEF Destroy
  <2> QED BY <1>3, <2>2, <2>3, <2>4
<1>4. CASE WriteKeys \/ WritePublic \/ Check \/ WriteOracleGenesis \/ Retry \/ Accepted
  BY <1>4, CreateKeeps
<1>5. CASE WriteGenesis
  BY <1>5, WriteGenesisKeeps
<1>6. CASE IssueNext
  BY <1>6, IssueNextKeeps
<1>7. CASE Save
  BY <1>7, SaveKeeps
<1>8. ASSUME NEW d \in Days, TopUp(d) PROVE LifeInv'
  BY <1>8, TopUpKeeps
<1>9. CASE Increase \/ Disable
  BY <1>9, PaymentKeeps
<1>10. CASE Increased \/ DisableAccepted
  BY <1>10, SpendKeeps
<1>11. CASE Survey
  BY <1>11, SurveyKeeps
<1>12. CASE Remove
  BY <1>12, RemoveKeeps
<1>13. CASE Stop
  <2>1. TypeOK' /\ proc' = Idle
    BY <1>13, CreateKeepsType DEF LifeInv, Stop
  <2> QED BY <1>13, <2>1, StopKeeps DEF Stop, local, chain
<1>14. CASE UNCHANGED vars
  <2>1. UNCHANGED <<platform, mempool, record, env, commands, proc>>
    BY <1>14 DEF vars
  <2>2. TypeOK' /\ CommandOK' /\ TicketsOK' /\ SpendOK'
    <3>1. TypeOK'
      BY <1>14 DEF LifeInv, vars, TypeOK
    <3>2. CommandOK'
      BY <1>14 DEF LifeInv, vars, CommandOK
    <3>3. TicketsOK'
      BY <1>14, <2>1, QuietKeeps DEF LifeInv, vars, TicketsOK
    <3>4. SpendOK'
      BY <1>14, <2>1, QuietKeeps DEF LifeInv, vars, SpendOK, Spending
    <3> QED BY <3>1, <3>2, <3>3, <3>4
  <2>3. FillOK'
    BY <2>1, QuietKeeps DEF LifeInv, FillOK, Filling
  <2> QED BY <2>1, <2>2, <2>3, QuietKeeps DEF LifeInv
<1> QED BY <1>1, <1>2, <1>3, <1>4, <1>5, <1>6, <1>7, <1>8, <1>9, <1>10, <1>11, <1>12,
           <1>13, <1>14 DEF Next, PlatformChain, Command

LEMMA LifeAlways == Spec => []LifeInv
BY LifeInit, LifeStep, PTL DEF Spec

\* The shapes of ./deployment, of the P-chain and of the command in progress,
\* and that a balance is never negative (create.go:684, topup.go:131).
THEOREM CreationTypeCorrect == Spec => []TypeOK
<1>1. LifeInv => TypeOK
  BY DEF LifeInv
<1> QED BY LifeAlways, <1>1, PTL

LEMMA FoundFromLife == LifeInv => DepositCanBeFound
<1> SUFFICES ASSUME LifeInv, env # 0
             PROVE  LET own == {c \in Conversions : platform[c].ticket[1] = env} IN
                    /\ \A c \in own :
                         /\ record[platform[c].l1]["subnet"] = platform[c].on
                         /\ record["management"]["chain"] = platform[c].manager
                    /\ Cardinality(own \ Recorded) <= 1
  BY DEF DepositCanBeFound
<1> DEFINE own == {c \in Conversions : platform[c].ticket[1] = env}
           missing == own \ Recorded
<1>1. \A c \in own : c \in DOMAIN platform /\ platform[c].step = "convert" /\ Made(platform[c])
  BY DEF LifeInv, OwnOK, Conversions, Transacted
<1>2. \A c \in own : /\ record[platform[c].l1]["subnet"] = platform[c].on
                     /\ record["management"]["chain"] = platform[c].manager
  BY <1>1 DEF Made
<1>3. ASSUME NEW c \in missing
      PROVE  ~Saved(platform[c].ticket[2])
  <2> DEFINE k == platform[c].ticket[2]
             l == platform[c].l1
             d == record[l]["convert"]
  <2> SUFFICES ASSUME Saved(k) PROVE FALSE
    OBVIOUS
  <2>1. k \in DOMAIN Todo /\ l = Todo[k].l1 /\ Todo[k].step = "convert"
    BY <1>1 DEF Made
  <2>2. d # 0 /\ l \in L1s
    BY <2>1, TodoShape DEF Saved
  <2>3. /\ d \in DOMAIN platform /\ platform[d].ticket[1] = env
        /\ platform[d].l1 = l /\ platform[d].step = "convert"
    BY <2>2 DEF LifeInv, RecordOK, Steps
  <2>4. d \in own
    BY <2>3 DEF Conversions
  <2>5. platform[d].on = platform[c].on
    BY <1>2, <2>3, <2>4
  <2>6. c = d
    BY <2>4, <2>5 DEF LifeInv, OneConversion
  <2> QED BY <2>2, <2>6 DEF Recorded
<1>4. ASSUME NEW c \in missing, NEW d \in missing
      PROVE  c = d
  <2>1. Made(platform[c]) /\ Made(platform[d])
    BY <1>1
  <2>2. platform[c].ticket[2] \in Nat /\ platform[d].ticket[2] \in Nat
    <3>1. platform[c].ticket[2] \in DOMAIN Todo /\ platform[d].ticket[2] \in DOMAIN Todo
      BY <2>1 DEF Made
    <3>2. DOMAIN Todo \subseteq Nat
      BY TodoShape
    <3> QED BY <3>1, <3>2
  <2>3. platform[c].ticket[2] = platform[d].ticket[2]
    BY <1>3, <2>1, <2>2 DEF Made
  <2>4. platform[c].l1 = platform[d].l1
    BY <2>1, <2>3 DEF Made
  <2>5. platform[c].on = platform[d].on
    BY <1>2, <2>4
  <2> QED BY <2>5 DEF LifeInv, OneConversion
<1>5. Cardinality(missing) <= 1
  <2>1. CASE missing = {}
    BY <2>1, FS_EmptySet
  <2>2. CASE missing # {}
    <3>1. PICK c \in missing : missing = {c}
      BY <1>4, <2>2
    <3> HIDE DEF missing
    <3>2. Cardinality({c}) = 1
      BY FS_Singleton
    <3> QED BY <3>1, <3>2
  <2> QED BY <2>1, <2>2
<1> QED BY <1>2, <1>5

\* network.env names the subnet of every conversion made for it and the chain
\* that manages it, and is at most one conversion behind, whatever retries,
\* kills and late acceptances there were (create.go:630).
THEOREM DepositsAreFound == Spec => []DepositCanBeFound
BY LifeAlways, FoundFromLife, PTL

-----------------------------------------------------------------------------
(* Teardown.                                                               *)

LEMMA AcceptedBalance ==
  ASSUME TypeOK, PaymentsOK, NEW tx \in mempool, Accept(tx)
  PROVE  /\ \A c \in DOMAIN platform :
              \/ balance'[c] = balance[c]
              \/ balance'[c] = 0 /\ tx.step = "disable" /\ tx.on = c
              \/ balance'[c] = balance[c] + tx.amount /\ tx.step = "increase" /\ tx.on = c
         /\ tx.step = "disable" => balance'[tx.on] = 0
         /\ tx.step = "increase" => balance'[tx.on] = balance[tx.on] + tx.amount
         /\ tx.step \in {"disable", "increase"} => tx.on \in DOMAIN platform
         /\ tx.amount \in Nat
<1>1. /\ balance \in Seq(Nat) /\ Len(balance) = Len(platform) /\ Len(platform) \in Nat
      /\ DOMAIN platform = 1 .. Len(platform) /\ tx \in Transactions
  BY PlatformShape DEF TypeOK
<1>2. tx.on \in Nat /\ tx.amount \in Nat
  BY <1>1 DEF Transactions
<1>3. ASSUME NEW b \in Seq(Nat), Len(b) = Len(balance), NEW x \in Nat,
             NEW c \in DOMAIN platform
      PROVE  Append(b, x)[c] = b[c]
  BY <1>1, <1>3, AppendProperties
<1>4. ASSUME NEW c \in DOMAIN platform, NEW y \in Nat
      PROVE  /\ [balance EXCEPT ![c] = y] \in Seq(Nat)
             /\ Len([balance EXCEPT ![c] = y]) = Len(balance)
             /\ \A d \in DOMAIN platform :
                  [balance EXCEPT ![c] = y][d] = IF d = c THEN y ELSE balance[d]
  BY <1>1, <1>4, ExceptSeq
<1>5. tx.step \in {"disable", "increase"} => tx.on \in DOMAIN platform
  BY DEF PaymentsOK
<1>6. CASE tx.step \notin {"disable", "increase"}
  <2>1. \E x \in Nat : balance' = Append(balance, x)
    BY <1>6, CreationAssumption DEF Accept
  <2> QED BY <1>1, <1>2, <1>3, <1>6, <2>1
<1>7. CASE tx.step = "disable"
  <2>1. balance' = Append([balance EXCEPT ![tx.on] = 0], 0)
    BY <1>7 DEF Accept
  <2>2. \A c \in DOMAIN platform : balance'[c] = IF c = tx.on THEN 0 ELSE balance[c]
    BY <1>3, <1>4, <1>5, <1>7, <2>1
  <2> QED BY <1>2, <1>5, <1>7, <2>2
<1>8. CASE tx.step = "increase"
  <2>1. balance' = Append([balance EXCEPT ![tx.on] = balance[tx.on] + tx.amount], 0)
    BY <1>8 DEF Accept
  <2>2. balance[tx.on] + tx.amount \in Nat
    BY <1>1, <1>2, <1>5, <1>8
  <2>3. \A c \in DOMAIN platform :
          balance'[c] = IF c = tx.on THEN balance[tx.on] + tx.amount ELSE balance[c]
    BY <1>3, <1>4, <1>5, <1>8, <2>1, <2>2
  <2> QED BY <1>2, <1>5, <1>8, <2>3
<1> QED BY <1>6, <1>7, <1>8

\* Only the steps named here bear on what topup and destroy have paid and got
\* back.
LEMMA StepKinds ==
  ASSUME LifeInv, [Next]_vars
  PROVE  \/ \E tx \in mempool : Accept(tx)
         \/ Tick
         \/ Increase \/ Disable
         \/ Increased \/ DisableAccepted
         \/ \E d \in Days : TopUp(d)
         \/ Survey
         \/ Remove
         \/ /\ UNCHANGED <<platform, balance, ticks>>
            /\ proc'.cmd \in {"none", "keygen", "create"}
                 \/ (proc'.cmd = "destroy" /\ proc'.phase = "survey")
         \/ UNCHANGED vars
<1>1. /\ proc.phase \in Before => proc.cmd \in {"keygen", "create"}
      /\ proc.phase \in {"issue", "save"} => proc.cmd = "create"
      /\ proc \in Processes
  BY TypeParts DEF LifeInv, CommandOK
<1> DEFINE Other == /\ UNCHANGED <<platform, balance, ticks>>
                    /\ proc'.cmd \in {"none", "keygen", "create"}
                         \/ (proc'.cmd = "destroy" /\ proc'.phase = "survey")
<1>2. CASE Keygen \/ Create \/ Destroy
  BY <1>2 DEF Keygen, Create, Destroy, Start, Idle, chain
<1>3. CASE WriteKeys \/ WritePublic \/ Check
  <2>1. proc'.cmd = proc.cmd \/ proc' = Idle
    BY <1>1, <1>3 DEF WriteKeys, WritePublic, Check, Goto, Processes
  <2> QED BY <1>1, <1>3, <2>1 DEF WriteKeys, WritePublic, Check, Before, Idle, chain
<1>4. CASE WriteGenesis \/ WriteOracleGenesis
  <2>1. proc'.cmd = proc.cmd
    BY <1>1, <1>4 DEF WriteGenesis, WriteOracleGenesis, Processes
  <2> QED BY <1>1, <1>4, <2>1 DEF WriteGenesis, WriteOracleGenesis, Before, chain
<1>5. CASE IssueNext
  <2>1. proc'.cmd = proc.cmd /\ UNCHANGED <<platform, balance, ticks>>
    BY <1>1, <1>5 DEF IssueNext, Issue, Goto, Processes
  <2> QED BY <1>1, <1>5, <2>1 DEF IssueNext
<1>6. CASE Retry \/ Accepted \/ Save
  <2>1. proc'.cmd = proc.cmd \/ proc' = Idle
    BY <1>1, <1>6 DEF Retry, Again, Accepted, Save, Processes
  <2>2. proc.cmd = "create"
    BY <1>1, <1>6 DEF Retry, Accepted, Save
  <2>3. UNCHANGED <<platform, balance, ticks>>
    BY <1>6 DEF Retry, Accepted, Save, chain
  <2> QED BY <2>1, <2>2, <2>3 DEF Idle
<1>7. CASE Stop
  BY <1>7 DEF Stop, Idle, chain
<1> QED BY <1>2, <1>3, <1>4, <1>5, <1>6, <1>7 DEF Next, PlatformChain, Command

LEMMA DisabledStep == LifeInv /\ DisabledOK /\ [Next]_vars => DisabledOK'
<1> SUFFICES ASSUME LifeInv, DisabledOK, [Next]_vars PROVE DisabledOK'
  OBVIOUS
<1>1. TypeOK /\ PaymentsOK
  BY DEF LifeInv
<1>2. ASSUME NEW tx \in mempool, Accept(tx) PROVE DisabledOK'
  <2> DEFINE n == Len(platform)
  <2>1. /\ n \in Nat /\ DOMAIN platform = 1 .. n /\ DOMAIN platform' = 1 .. n + 1
        /\ \A i \in DOMAIN platform : platform'[i] = platform[i]
        /\ platform'[n + 1] = tx /\ Len(platform') = n + 1
    BY <1>1, <1>2, PlatformGrows DEF Accept, TypeOK
  <2> HIDE DEF n
  <2> SUFFICES ASSUME NEW i \in DOMAIN platform', platform'[i].step = "disable"
               PROVE  \/ balance'[platform'[i].on] = 0
                      \/ \E j \in i + 1 .. n + 1 :
                           platform'[j].step = "increase" /\ platform'[j].on = platform'[i].on
    BY <2>1 DEF DisabledOK
  <2>2. CASE i = n + 1
    BY <1>1, <1>2, <2>1, <2>2, AcceptedBalance
  <2>3. CASE i \in DOMAIN platform
    <3> DEFINE c == platform[i].on
    <3>1. platform'[i] = platform[i] /\ c \in DOMAIN platform
      BY <1>1, <2>1, <2>3 DEF PaymentsOK
    <3>2. CASE \E j \in i + 1 .. n : platform[j].step = "increase" /\ platform[j].on = c
      <4>1. PICK j \in i + 1 .. n : platform[j].step = "increase" /\ platform[j].on = c
        BY <3>2
      <4>2. j \in DOMAIN platform /\ j \in i + 1 .. n + 1
        BY <2>1, <2>3
      <4> QED BY <2>1, <3>1, <4>1, <4>2
    <3>3. CASE balance[c] = 0
      <4>1. balance'[c] = 0 \/ (tx.step = "increase" /\ tx.on = c)
        BY <1>1, <1>2, <3>1, <3>3, AcceptedBalance
      <4>2. n + 1 \in i + 1 .. n + 1
        BY <2>1, <2>3
      <4> QED BY <2>1, <3>1, <4>1, <4>2
    <3>4. \/ balance[c] = 0
          \/ \E j \in i + 1 .. n : platform[j].step = "increase" /\ platform[j].on = c
      BY <2>3, <3>1 DEF DisabledOK, n
    <3> QED BY <3>2, <3>3, <3>4
  <2> QED BY <2>1, <2>2, <2>3
<1>3. CASE Tick
  <2>1. platform' = platform /\ \A c \in DOMAIN balance : balance[c] = 0 => balance'[c] = 0
    BY <1>3 DEF Tick
  <2>2. \A i \in DOMAIN platform : platform[i].step = "disable" =>
          platform[i].on \in DOMAIN balance
    BY <1>1, PlatformShape DEF PaymentsOK
  <2> QED BY <2>1, <2>2 DEF DisabledOK
<1>4. ASSUME UNCHANGED <<platform, balance>> PROVE DisabledOK'
  BY <1>4 DEF DisabledOK
<1>5. CASE Increase \/ Disable
  BY <1>4, <1>5 DEF Increase, Disable, Issue
<1>6. CASE Increased \/ DisableAccepted \/ Survey \/ Remove \/ \E d \in Days : TopUp(d)
  BY <1>4, <1>6 DEF Increased, DisableAccepted, Survey, Remove, TopUp, chain
<1>7. CASE UNCHANGED vars
  BY <1>4, <1>7 DEF vars
<1> QED BY <1>2, <1>3, <1>4, <1>5, <1>6, <1>7, StepKinds

\* Nothing is recorded when neither the management nor the main L1 has been
\* converted, as management comes first.
LEMMA NothingRecorded ==
  ASSUME TypeOK, RecordOK, Unconverted
  PROVE  Recorded = {}
<1> SUFFICES ASSUME NEW l \in L1s, record[l]["convert"] # 0 PROVE FALSE
  BY DEF Recorded
<1>1. PICK k \in DOMAIN Todo : Todo[k].l1 = l /\ Todo[k].step = "convert"
  BY TodoOrder DEF Steps
<1>2. Saved(k)
  BY <1>1 DEF Saved
<1>3. ~Saved(3) /\ 3 \in DOMAIN Todo
  BY TodoShape DEF Unconverted, Saved
<1>4. PICK i \in DOMAIN Todo, j \in DOMAIN Todo :
        i < k /\ Todo[i].step = "subnet" /\ j < k /\ Todo[j].step = "chain"
  BY <1>1, TodoOrder
<1>5. i # j
  BY <1>4
<1>6. k >= 3
  BY <1>4, <1>5, TodoShape
<1>7. k # 3
  BY <1>2, <1>3
<1> QED BY <1>2, <1>3, <1>6, <1>7, TodoShape DEF RecordOK

LEMMA UnseenKept ==
  ASSUME NEW c, Unseen(c), proc'.since = proc.since, platform' = platform
  PROVE  Unseen(c)'
BY DEF Unseen

LEMMA ReturnedStep ==
  ASSUME LifeInv, DisabledOK, ReturnedOK, [Next]_vars
  PROVE  ReturnedOK'
<1> DEFINE Refunding == proc.cmd = "destroy" /\ proc.phase \in {"disable", "wait", "remove"}
           n == Len(platform)
<1>1. /\ TypeOK /\ PaymentsOK /\ n \in Nat /\ DOMAIN platform = 1 .. n /\ proc.since \in Nat
      /\ proc.at \in Nat /\ Recorded \subseteq DOMAIN platform
  BY PlatformShape, TypeParts, RecordedShape DEF LifeInv, Processes
<1>2. Refunding =>
        /\ proc.since <= n
        /\ \A c \in Recorded :
             \/ balance[c] = 0 \/ Unseen(c)
             \/ /\ proc.phase # "remove"
                /\ \E k \in DOMAIN proc.list : k >= proc.at /\ proc.list[k].on = c
  BY DEF ReturnedOK
<1>3. ASSUME record' = record PROVE Recorded' = Recorded
  BY <1>3 DEF Recorded
<1>4. ASSUME NEW tx \in mempool, Accept(tx) PROVE ReturnedOK'
  <2>1. /\ DOMAIN platform' = 1 .. n + 1 /\ Len(platform') = n + 1 /\ platform'[n + 1] = tx
        /\ \A i \in DOMAIN platform : platform'[i] = platform[i]
    BY <1>1, <1>4, PlatformGrows DEF Accept, TypeOK
  <2>2. proc' = proc /\ record' = record
    BY <1>4 DEF Accept, local
  <2> HIDE DEF n
  <2> SUFFICES ASSUME Refunding
               PROVE  /\ proc.since <= n + 1
                      /\ \A c \in Recorded :
                           \/ balance'[c] = 0 \/ Unseen(c)'
                           \/ /\ proc.phase # "remove"
                              /\ \E k \in DOMAIN proc.list :
                                   k >= proc.at /\ proc.list[k].on = c
    BY <1>3, <2>1, <2>2 DEF ReturnedOK
  <2>3. \A c \in Recorded : Unseen(c) => Unseen(c)'
    <3> SUFFICES ASSUME NEW c \in Recorded, Unseen(c) PROVE Unseen(c)'
      OBVIOUS
    <3>1. PICK i \in proc.since + 1 .. n :
            i = c \/ (platform[i].step = "increase" /\ platform[i].on = c)
      BY DEF Unseen, n
    <3>2. i \in DOMAIN platform /\ i \in proc.since + 1 .. n + 1
      BY <1>1
    <3> QED BY <2>1, <2>2, <3>1, <3>2 DEF Unseen
  <2>4. ASSUME NEW c \in Recorded, balance[c] = 0
        PROVE  balance'[c] = 0 \/ Unseen(c)'
    <3>1. balance'[c] = 0 \/ (tx.step = "increase" /\ tx.on = c)
      BY <1>1, <1>4, <2>4, AcceptedBalance
    <3>2. n + 1 \in proc.since + 1 .. n + 1
      BY <1>1, <1>2
    <3> QED BY <2>1, <2>2, <3>1, <3>2 DEF Unseen
  <2> QED BY <1>1, <1>2, <2>3, <2>4
<1>5. CASE Tick
  <2>1. UNCHANGED <<platform, record, proc>>
    BY <1>5 DEF Tick, local
  <2>2. \A c \in Recorded : balance[c] = 0 => balance'[c] = 0
    BY <1>1, <1>5, PlatformShape DEF Tick
  <2>3. \A c \in Recorded : Unseen(c) => Unseen(c)'
    BY <2>1 DEF Unseen
  <2> QED BY <1>3, <2>1, <2>2, <2>3 DEF ReturnedOK
<1>6. CASE Increase \/ Disable
  <2>1. UNCHANGED <<platform, balance, record>> /\ proc' = [proc EXCEPT !.phase = "wait"]
    BY <1>6 DEF Increase, Disable, Issue, Goto, local
  <2>2. /\ proc'.cmd = proc.cmd /\ proc'.at = proc.at /\ proc'.list = proc.list
        /\ proc'.since = proc.since /\ proc'.phase = "wait"
    BY <1>1, <2>1, ProcMoves DEF Phases
  <2>3. proc'.cmd = "destroy" => Refunding
    BY <1>6, <2>2 DEF LifeInv, CommandOK, Increase, Disable
  <2>4. \A c \in Recorded : Unseen(c) => Unseen(c)'
    BY <2>1, <2>2, UnseenKept
  <2>5. proc.phase # "remove"
    BY <1>6 DEF Increase, Disable
  <2> QED BY <1>2, <1>3, <2>1, <2>2, <2>3, <2>4, <2>5 DEF ReturnedOK
<1>7. CASE Increased \/ DisableAccepted
  <2>1. UNCHANGED <<platform, balance, record>>
    BY <1>7 DEF Increased, DisableAccepted, local, chain
  <2> SUFFICES ASSUME proc'.cmd = "destroy" PROVE ReturnedOK'
    BY DEF ReturnedOK
  <2>2. /\ proc'.list = proc.list /\ proc'.since = proc.since /\ proc.cmd = "destroy"
        /\ \/ proc'.phase = "remove" /\ proc.at = Len(proc.list)
           \/ /\ proc'.phase = "disable" /\ proc'.at = proc.at + 1
              /\ proc.at # Len(proc.list)
    BY <1>1, <1>7, SpendStep DEF LifeInv, Idle
  <2>3. /\ DisableAccepted /\ Spending /\ Refunding
    BY <1>7, <2>2 DEF Increased, DisableAccepted, Spending
  <2>4. PICK id \in DOMAIN platform : Awaited(id)
    BY <2>3 DEF DisableAccepted
  <2>5. /\ platform[id].ticket[1] = commands /\ platform[id].ticket[2] = proc.at
        /\ platform[id] \in Transacted
    BY <2>4 DEF Awaited, Transacted
  <2>6. /\ platform[id].step = "disable" /\ platform[id].on = proc.list[proc.at].on
        /\ id > proc.since /\ proc.at \in DOMAIN proc.list
    BY <2>2, <2>3, <2>5 DEF LifeInv, SpendOK
  <2>7. balance[proc.list[proc.at].on] = 0 \/ Unseen(proc.list[proc.at].on)
    <3>1. CASE \E j \in id + 1 .. n : /\ platform[j].step = "increase"
                                      /\ platform[j].on = platform[id].on
      <4>1. PICK j \in id + 1 .. n : /\ platform[j].step = "increase"
                                     /\ platform[j].on = platform[id].on
        BY <3>1
      <4>2. j \in proc.since + 1 .. n
        BY <1>1, <2>6
      <4> QED BY <2>6, <4>1, <4>2 DEF Unseen
    <3> QED BY <2>6, <3>1 DEF DisabledOK
  <2>8. \A c \in Recorded : Unseen(c) => Unseen(c)'
    BY <2>1, <2>2, UnseenKept
  <2>9. ASSUME NEW c \in Recorded
        PROVE  \/ balance[c] = 0 \/ Unseen(c)
               \/ /\ proc'.phase = "disable"
                  /\ \E k \in DOMAIN proc.list : k >= proc.at + 1 /\ proc.list[k].on = c
    <3> SUFFICES ASSUME NEW k \in DOMAIN proc.list, k >= proc.at, proc.list[k].on = c,
                        k # proc.at
                 PROVE  proc'.phase = "disable" /\ k >= proc.at + 1
      BY <1>2, <2>3, <2>7
    <3>1. k > proc.at /\ proc.at # Len(proc.list)
      BY <1>1, ListShape
    <3> QED BY <1>1, <2>2, <3>1, ListShape
  <2> QED BY <1>2, <1>3, <2>1, <2>2, <2>3, <2>8, <2>9 DEF ReturnedOK
<1>8. CASE \E d \in Days : TopUp(d)
  <2>1. proc'.cmd # "destroy"
    BY <1>8, TopUpKeepsType DEF LifeInv, Idle
  <2> QED BY <2>1 DEF ReturnedOK
<1>9. CASE Survey
  <2>1. UNCHANGED <<platform, balance, record>>
    BY <1>9 DEF Survey, local, chain
  <2>2. CASE Unconverted
    <3>1. Recorded' = {}
      BY <1>3, <2>1, <2>2, NothingRecorded DEF LifeInv
    <3>2. proc'.since <= Len(platform')
      BY <1>9, <2>1, SurveyKeepsType DEF LifeInv
    <3> QED BY <3>1, <3>2 DEF ReturnedOK
  <2>3. CASE ~Unconverted
    <3>1. PICK report \in Reports :
            /\ proc'.since = Settled /\ proc'.at = 1
            /\ (proc'.phase = "remove" /\ report = {}) \/ proc'.phase = "disable"
            /\ \A c \in report : \E k \in DOMAIN proc'.list : proc'.list[k].on = c
      BY <1>9, <2>3, SurveyKeepsType DEF LifeInv
    <3>2. TypeOK' /\ proc'.since <= n
      BY <1>9, SurveyKeepsType DEF LifeInv
    <3>3. ASSUME NEW c \in Recorded, c \notin report
          PROVE  balance[c] = 0 \/ Unseen(c)'
      <4>1. \/ balance[c] = 0 \/ c > Settled \/ Recent("increase", c)
        BY <1>1, <3>3, PlatformShape, SettledShape DEF Reports
      <4>2. CASE c > Settled
        <5>1. c \in Settled + 1 .. n
          BY <1>1, <4>2, SettledShape
        <5> QED BY <2>1, <3>1, <5>1 DEF Unseen
      <4>3. CASE Recent("increase", c)
        BY <2>1, <3>1, <4>3 DEF Unseen, Recent
      <4> QED BY <4>1, <4>2, <4>3
    <3>4. ASSUME NEW c \in report
          PROVE  /\ proc'.phase # "remove"
                 /\ \E k \in DOMAIN proc'.list : k >= proc'.at /\ proc'.list[k].on = c
      <4>1. PICK k \in DOMAIN proc'.list : proc'.list[k].on = c
        BY <3>1
      <4>2. k >= 1
        <5>1. DOMAIN proc'.list = 1 .. Len(proc'.list)
          BY <3>2, TypeParts DEF Processes
        <5> QED BY <5>1
      <4> QED BY <3>1, <4>1, <4>2
    <3> QED BY <1>3, <2>1, <3>2, <3>3, <3>4 DEF ReturnedOK
  <2> QED BY <2>2, <2>3
<1>10. CASE Remove
  <2>1. UNCHANGED <<platform, balance>> /\ (proc' = proc \/ proc' = Idle) /\ Refunding
    BY <1>10 DEF Remove, chain, LifeInv, CommandOK
  <2>2. CASE proc' = Idle
    BY <2>2 DEF ReturnedOK, Idle
  <2>3. CASE proc' = proc /\ record' = record
    <3>1. \A c \in Recorded : Unseen(c) => Unseen(c)'
      BY <2>1, <2>3, UnseenKept
    <3> QED BY <1>2, <1>3, <2>1, <2>3, <3>1 DEF ReturnedOK
  <2>4. CASE proc' = proc /\ record' = Nothing
    <3>1. Recorded' = {}
      BY <2>4 DEF Recorded, Nothing, Steps
    <3> QED BY <1>2, <2>1, <2>4, <3>1 DEF ReturnedOK
  <2> QED BY <1>10, <2>2, <2>3, <2>4 DEF Remove
<1>11. CASE \/ proc'.cmd \in {"none", "keygen", "create"}
            \/ proc'.cmd = "destroy" /\ proc'.phase = "survey"
  BY <1>11 DEF ReturnedOK
<1>12. CASE UNCHANGED vars
  <2>1. UNCHANGED <<platform, balance, record, proc>>
    BY <1>12 DEF vars
  <2>2. \A c \in Recorded : Unseen(c) => Unseen(c)'
    BY <2>1 DEF Unseen
  <2> QED BY <1>3, <2>1, <2>2 DEF ReturnedOK
<1> QED BY <1>4, <1>5, <1>6, <1>7, <1>8, <1>9, <1>10, <1>11, <1>12, StepKinds

\* Which steps take network.env away.
LEMMA OnlyRemoveClears ==
  ASSUME LifeInv, [Next]_vars, env # 0, env' = 0
  PROVE  Remove
<1>1. CASE WriteGenesis
  <2>1. env' = env \/ env' = commands
    BY <1>1 DEF WriteGenesis
  <2>2. env \in Nat /\ commands \in Nat /\ env <= commands
    BY DEF LifeInv, TypeOK, CommandOK
  <2> QED BY <2>1, <2>2
<1>2. ASSUME NEW tx \in mempool, Accept(tx) PROVE env' = env
  BY <1>2 DEF Accept, local
<1>3. CASE Tick \/ UNCHANGED vars
  BY <1>3 DEF Tick, local, vars
<1>4. CASE Keygen \/ Create \/ Destroy
  BY <1>4 DEF Keygen, Create, Destroy, Start, local
<1>5. CASE WriteKeys \/ WritePublic \/ Check \/ WriteOracleGenesis
  BY <1>5 DEF WriteKeys, WritePublic, Check, WriteOracleGenesis, local
<1>6. CASE IssueNext \/ Increase \/ Disable
  BY <1>6 DEF IssueNext, Increase, Disable, Issue, local
<1>7. CASE Retry \/ Accepted \/ Save \/ Stop
  BY <1>7 DEF Retry, Accepted, Save, Stop, local
<1>8. CASE Increased \/ DisableAccepted \/ Survey \/ \E d \in Days : TopUp(d)
  BY <1>8 DEF Increased, DisableAccepted, Survey, TopUp, local
<1> QED BY <1>1, <1>2, <1>3, <1>4, <1>5, <1>6, <1>7, <1>8
           DEF Next, PlatformChain, Command

\* Destroy removes network.env only when every deposit it could see is back,
\* whatever replicas it asked and whenever it is killed (main.go:405).
THEOREM TeardownIsSafe == Spec => TeardownReturnsDeposits
<1> DEFINE Inv == LifeInv /\ DisabledOK /\ ReturnedOK
           Clear == env # 0 /\ env' = 0 =>
                      \A c \in Recorded :
                        balance[c] > 0 =>
                          \E i \in proc.since + 1 .. Len(platform) :
                            i = c \/ (platform[i].step = "increase" /\ platform[i].on = c)
<1>1. Init => Inv
  BY LifeInit DEF Init, DisabledOK, ReturnedOK, Idle
<1>2. Inv /\ [Next]_vars => Inv'
  BY LifeStep, DisabledStep, ReturnedStep
<1>3. ASSUME Inv, [Next]_vars PROVE Clear
  <2> SUFFICES ASSUME env # 0, env' = 0, NEW c \in Recorded, balance[c] > 0
               PROVE  Unseen(c)
    BY DEF Unseen
  <2>1. proc.phase = "remove" /\ proc.cmd = "destroy"
    BY <1>3, OnlyRemoveClears DEF Remove, LifeInv, CommandOK
  <2> QED BY <1>3, <2>1 DEF ReturnedOK
<1>4. Inv /\ [Next]_vars => [Clear]_vars
  BY <1>3
<1> HIDE DEF Inv, Clear
<1>5. Spec => [][Clear]_vars
  BY <1>1, <1>2, <1>4, PTL DEF Spec
<1> QED BY <1>5 DEF TeardownReturnsDeposits, Clear

-----------------------------------------------------------------------------
(* Top-up.                                                                 *)

LEMMA LastsKept ==
  ASSUME NEW k, Lasts(k), UNCHANGED <<platform, balance, ticks, commands>>,
         proc'.list = proc.list, proc'.since = proc.since,
         proc'.target = proc.target, proc'.began = proc.began
  PROVE  Lasts(k)'
BY DEF Lasts, Refunded, Paid

LEMMA PaidAccept ==
  ASSUME LifeInv, PaidOK, proc.cmd = "topup", NEW tx \in mempool, Accept(tx),
         NEW k \in DOMAIN proc.list
  PROVE  Lasts(k)' /\ (Paid(k) => Paid(k)')
<1> DEFINE n == Len(platform)
           c == proc.list[k].on
<1>1. /\ TypeOK /\ PaymentsOK /\ n \in Nat /\ DOMAIN platform = 1 .. n /\ Spending
      /\ proc.since \in Nat /\ proc.target \in Nat /\ proc.began \in Nat
      /\ ticks \in Nat /\ Buffer \in Nat
  BY PlatformShape, TypeParts, CreationAssumption
     DEF LifeInv, Processes, PaidOK, Spending
<1>2. /\ DOMAIN platform' = 1 .. n + 1 /\ Len(platform') = n + 1 /\ platform'[n + 1] = tx
      /\ \A i \in DOMAIN platform : platform'[i] = platform[i]
  BY <1>1, PlatformGrows DEF Accept, TypeOK
<1>3. UNCHANGED <<proc, commands, ticks>>
  BY DEF Accept
<1>4. /\ c \in DOMAIN platform /\ proc.since <= n /\ tx \in Transacted
      /\ tx.ticket[1] = commands => /\ tx.step = "increase"
                                    /\ tx.on = proc.list[tx.ticket[2]].on
                                    /\ tx.amount = proc.list[tx.ticket[2]].amount
  BY <1>1 DEF LifeInv, SpendOK, Transacted
<1>5. balance[c] \in Nat /\ proc.list[k].amount \in Nat
  BY <1>1, <1>4, PlatformShape, ListShape
<1> HIDE DEF n
<1>6. Paid(k) => Paid(k)'
  <2> SUFFICES ASSUME NEW i \in DOMAIN platform, platform[i].ticket[1] = commands,
                      platform[i].ticket[2] = k
               PROVE  Paid(k)'
    BY DEF Paid
  <2>1. i \in DOMAIN platform' /\ platform'[i] = platform[i]
    BY <1>1, <1>2
  <2> QED BY <1>3, <2>1 DEF Paid
<1>7. Paid(k)' => Paid(k) \/ (tx.ticket[1] = commands /\ tx.ticket[2] = k)
  <2> SUFFICES ASSUME NEW i \in DOMAIN platform', platform'[i].ticket[1] = commands,
                      platform'[i].ticket[2] = k
               PROVE  Paid(k) \/ (tx.ticket[1] = commands /\ tx.ticket[2] = k)
    BY <1>3 DEF Paid
  <2>1. i = n + 1 \/ i \in DOMAIN platform
    BY <1>1, <1>2
  <2> QED BY <1>2, <2>1 DEF Paid
<1>8. Refunded(c) \/ (tx.step = "disable" /\ tx.on = c) => Refunded(c)'
  <2>1. CASE Refunded(c)
    <3>1. PICK i \in proc.since + 1 .. n : platform[i].step = "disable" /\ platform[i].on = c
      BY <2>1 DEF Refunded, n
    <3>2. i \in DOMAIN platform /\ i \in proc.since + 1 .. n + 1
      BY <1>1
    <3> QED BY <1>2, <1>3, <3>1, <3>2 DEF Refunded
  <2>2. CASE tx.step = "disable" /\ tx.on = c
    <3>1. n + 1 \in proc.since + 1 .. n + 1
      BY <1>1, <1>4
    <3> QED BY <1>2, <1>3, <2>2, <3>1 DEF Refunded
  <2> QED BY <2>1, <2>2
<1> DEFINE floor == proc.target + Buffer - (ticks - proc.began)
           owed == IF Paid(k) THEN 0 ELSE proc.list[k].amount
<1>9. c' = c /\ floor' = floor /\ proc'.list[k].amount = proc.list[k].amount
  BY <1>3
<1>10. Refunded(c) \/ balance[c] + owed >= floor
  BY DEF PaidOK, Lasts
<1>11. floor \in Int
  BY <1>1
<1>12. /\ tx.amount \in Nat
       /\ \/ balance'[c] = balance[c]
          \/ tx.step = "disable" /\ tx.on = c
          \/ balance'[c] = balance[c] + tx.amount
       /\ tx.step = "increase" /\ tx.on = c => balance'[c] = balance[c] + tx.amount
  BY <1>1, <1>4, AcceptedBalance
<1>13. ASSUME ~Refunded(c)'
       PROVE  balance'[c] + (IF Paid(k)' THEN 0 ELSE proc.list[k].amount) >= floor
  <2>1. /\ balance[c] + owed >= floor
        /\ balance'[c] = balance[c] \/ balance'[c] = balance[c] + tx.amount
    BY <1>8, <1>10, <1>12, <1>13
  <2> HIDE DEF floor, c
  <2>2. CASE Paid(k)
    BY <1>5, <1>6, <1>11, <1>12, <2>1, <2>2
  <2>3. CASE ~Paid(k) /\ ~Paid(k)'
    BY <1>5, <1>11, <1>12, <2>1, <2>3
  <2>4. CASE ~Paid(k) /\ Paid(k)'
    <3>1. balance'[c] = balance[c] + proc.list[k].amount
      BY <1>4, <1>7, <1>12, <2>4 DEF c
    <3> QED BY <1>5, <1>11, <2>1, <2>4, <3>1
  <2> QED BY <2>2, <2>3, <2>4
<1>14. Lasts(k)'
  <2>1. CASE Refunded(c)'
    BY <1>9, <2>1 DEF Lasts
  <2>2. CASE ~Refunded(c)'
    BY <1>3, <1>9, <1>13, <2>2 DEF Lasts
  <2> QED BY <2>1, <2>2
<1> QED BY <1>6, <1>14

LEMMA PaidStep == LifeInv /\ PaidOK /\ [Next]_vars => PaidOK'
<1> SUFFICES ASSUME LifeInv, PaidOK, [Next]_vars PROVE PaidOK'
  OBVIOUS
<1>1. /\ TypeOK /\ CommandOK /\ ticks \in Nat /\ commands \in Nat /\ proc.at \in Nat
      /\ proc.target \in Nat /\ proc.began \in Nat /\ Buffer \in Nat
      /\ \A k \in DOMAIN proc.list : k \in Nat
  <2>1. TypeOK /\ CommandOK
    BY DEF LifeInv
  <2>2. proc \in Processes /\ ticks \in Nat /\ commands \in Nat
    BY <2>1, TypeParts
  <2>3. \A k \in DOMAIN proc.list : k \in Nat
    BY <2>1, ListShape
  <2> QED BY <2>1, <2>2, <2>3, CreationAssumption DEF Processes
<1>2. ASSUME NEW tx \in mempool, Accept(tx) PROVE PaidOK'
  <2>1. UNCHANGED <<proc, commands, ticks>>
    BY <1>2 DEF Accept
  <2> SUFFICES ASSUME proc.cmd = "topup" PROVE PaidOK'
    BY <2>1 DEF PaidOK
  <2>2. \A k \in DOMAIN proc.list : Lasts(k)' /\ (Paid(k) => Paid(k)')
    BY <1>2, PaidAccept
  <2> QED BY <2>1, <2>2 DEF PaidOK
<1>3. CASE Tick
  <2>1. /\ UNCHANGED <<platform, proc, commands>> /\ ticks' = ticks + 1
        /\ \A c \in DOMAIN platform : /\ balance[c] \in Nat /\ balance'[c] \in Nat
                                      /\ balance'[c] >= balance[c] - 1
    <3>1. DOMAIN platform = DOMAIN balance /\ \A c \in DOMAIN platform : balance[c] \in Nat
      BY <1>1, PlatformShape
    <3> QED BY <1>3, <3>1 DEF Tick
  <2> SUFFICES ASSUME proc.cmd = "topup" PROVE PaidOK'
    BY <2>1 DEF PaidOK
  <2>2. \A k : (Paid(k)' <=> Paid(k)) /\ \A c : Refunded(c)' <=> Refunded(c)
    BY <2>1 DEF Paid, Refunded
  <2>3. ASSUME NEW k \in DOMAIN proc.list PROVE Lasts(k)'
    <3>1. Lasts(k) /\ proc.list[k].on \in DOMAIN platform /\ proc.list[k].amount \in Nat
      BY <1>1, ListShape DEF PaidOK, LifeInv, SpendOK, Spending
    <3>2. CASE Refunded(proc.list[k].on)
      BY <2>1, <2>2, <3>2 DEF Lasts
    <3>3. CASE ~Refunded(proc.list[k].on)
      <4> DEFINE owed == IF Paid(k) THEN 0 ELSE proc.list[k].amount
                 b == balance[proc.list[k].on]
                 b1 == balance'[proc.list[k].on]
      <4>1. b + owed >= proc.target + Buffer - (ticks - proc.began)
        BY <3>1, <3>3 DEF Lasts
      <4>2. owed \in Nat /\ b \in Nat /\ b1 >= b - 1 /\ b1 \in Nat
        BY <2>1, <3>1
      <4> HIDE DEF owed, b, b1
      <4>3. b1 + owed >= proc.target + Buffer - (ticks + 1 - proc.began)
        BY <1>1, <4>1, <4>2
      <4>4. (IF Paid(k)' THEN 0 ELSE proc'.list[k].amount) = owed
        BY <2>1, <2>2 DEF owed
      <4>5. /\ b1 = balance'[proc'.list[k].on] /\ proc'.target = proc.target
            /\ proc'.began = proc.began
        BY <2>1 DEF b1
      <4>6. balance'[proc'.list[k].on] + (IF Paid(k)' THEN 0 ELSE proc'.list[k].amount)
              >= proc'.target + Buffer - (ticks' - proc'.began)
        <5>1. ticks' = ticks + 1
          BY <2>1
        <5> QED BY <1>1, <4>2, <4>3, <4>4, <4>5, <5>1
      <4> QED BY <4>6 DEF Lasts
    <3> QED BY <3>2, <3>3
  <2>4. proc.began <= ticks + 1
    BY <1>1 DEF PaidOK
  <2> QED BY <2>1, <2>2, <2>3, <2>4 DEF PaidOK
<1>4. CASE Increase \/ Disable
  <2>1. /\ UNCHANGED <<platform, balance, commands, ticks>>
        /\ proc' = [proc EXCEPT !.phase = "wait"]
    BY <1>4 DEF Increase, Disable, Issue, Goto
  <2>2. /\ proc'.cmd = proc.cmd /\ proc'.at = proc.at /\ proc'.list = proc.list
        /\ proc'.since = proc.since /\ proc'.phase = "wait"
        /\ proc'.target = proc.target /\ proc'.began = proc.began
    BY <1>1, <2>1, ProcMoves DEF Phases
  <2>3. \A k : (Lasts(k) => Lasts(k)') /\ (Paid(k)' <=> Paid(k))
    BY <2>1, <2>2, LastsKept DEF Paid
  <2> QED BY <2>1, <2>2, <2>3 DEF PaidOK
<1>5. CASE Increased \/ DisableAccepted
  <2>1. UNCHANGED <<platform, balance, commands, ticks>>
    BY <1>5 DEF Increased, DisableAccepted, local, chain
  <2> SUFFICES ASSUME proc'.cmd = "topup" PROVE PaidOK'
    BY DEF PaidOK
  <2>2. /\ proc.cmd = "topup" /\ proc'.list = proc.list /\ proc'.since = proc.since
        /\ proc'.target = proc.target /\ proc'.began = proc.began
        /\ proc'.at = proc.at + 1 /\ proc'.phase = "increase"
    BY <1>1, <1>5, SpendStep DEF Idle
  <2>3. Paid(proc.at)
    BY <1>5, <2>2 DEF Increased, DisableAccepted, Awaited, Paid
  <2>4. \A k : (Lasts(k) => Lasts(k)') /\ (Paid(k)' <=> Paid(k))
    BY <2>1, <2>2, LastsKept DEF Paid
  <2>5. ASSUME NEW k \in DOMAIN proc.list, k < proc.at + 1 PROVE Paid(k)
    <3>1. k < proc.at \/ k = proc.at
      BY <1>1, <2>5
    <3> QED BY <2>2, <2>3, <3>1 DEF PaidOK
  <2> QED BY <2>1, <2>2, <2>4, <2>5 DEF PaidOK
<1>6. ASSUME NEW days \in Days, TopUp(days) PROVE PaidOK'
  <2>1. UNCHANGED <<platform, balance, ticks>> /\ commands' = commands + 1
    BY <1>6 DEF TopUp, chain
  <2> SUFFICES ASSUME proc'.cmd = "topup" PROVE PaidOK'
    BY DEF PaidOK
  <2>2. /\ proc'.phase = "increase" /\ proc'.at = 1 /\ proc'.target = days
        /\ proc'.began = ticks /\ TypeOK' /\ RecordOK
        /\ \A k \in DOMAIN proc'.list :
             balance[proc'.list[k].on] + proc'.list[k].amount = days + Buffer
    BY <1>6, TopUpKeepsType DEF LifeInv, Idle
  <2>3. \A k : ~Paid(k)'
    <3>1. \A i \in DOMAIN platform : platform[i].ticket[1] # commands + 1
      <4>1. \A i \in DOMAIN platform : platform[i].ticket[1] \in 1 .. commands
        BY DEF LifeInv, TicketsOK, Transacted
      <4> QED BY <1>1, <4>1
    <3> QED BY <2>1, <3>1 DEF Paid
  <2>4. \A k \in DOMAIN proc'.list : k \in Nat /\ k >= 1
    <3>1. DOMAIN proc'.list = 1 .. Len(proc'.list)
      BY <2>2, TypeParts DEF Processes
    <3> QED BY <3>1
  <2>5. ASSUME NEW k \in DOMAIN proc'.list PROVE Lasts(k)'
    <3>1. days \in Nat
      BY CreationAssumption
    <3>2. days + Buffer >= days + Buffer - (ticks - ticks)
      BY <1>1, <3>1
    <3> QED BY <2>1, <2>2, <2>3, <3>2 DEF Lasts
  <2> QED BY <1>1, <2>1, <2>2, <2>4, <2>5 DEF PaidOK
<1>7. CASE Survey
  <2>1. proc.cmd = "destroy" /\ proc'.cmd = proc.cmd
    BY <1>1, <1>7, SurveyKeepsType DEF LifeInv, CommandOK, Survey
  <2> QED BY <2>1 DEF PaidOK
<1>8. CASE Remove
  <2>1. proc.cmd = "destroy" /\ (proc' = proc \/ proc' = Idle)
    BY <1>1, <1>8 DEF CommandOK, Remove
  <2> QED BY <2>1 DEF PaidOK, Idle
<1>9. CASE \/ proc'.cmd \in {"none", "keygen", "create"}
           \/ proc'.cmd = "destroy" /\ proc'.phase = "survey"
  BY <1>9 DEF PaidOK
<1>10. CASE UNCHANGED vars
  <2>1. UNCHANGED <<platform, balance, ticks, commands, proc>>
    BY <1>10 DEF vars
  <2>2. \A k : (Lasts(k) => Lasts(k)') /\ (Paid(k)' <=> Paid(k))
    BY <2>1, LastsKept DEF Paid
  <2> QED BY <2>1, <2>2 DEF PaidOK
<1> QED BY <1>2, <1>3, <1>4, <1>5, <1>6, <1>7, <1>8, <1>9, <1>10, StepKinds

\* A top-up that ends well has left enough for the days asked for on every
\* validator it paid for, however its transactions and those of killed commands
\* interleave, up to the time the buffer allows (topup.go:51).
THEOREM TopUpsLast == Spec => TopUpCovers
<1> DEFINE Inv == LifeInv /\ PaidOK
           Covers == Increased /\ proc' = Idle /\ ticks <= proc.began + Buffer =>
                       \A k \in DOMAIN proc.list :
                         \/ balance[proc.list[k].on] >= proc.target
                         \/ Refunded(proc.list[k].on)
<1>1. Init => Inv
  BY LifeInit DEF Init, PaidOK, Idle
<1>2. Inv /\ [Next]_vars => Inv'
  BY LifeStep, PaidStep
<1>3. ASSUME Inv PROVE Covers
  <2> SUFFICES ASSUME Increased, proc' = Idle, ticks <= proc.began + Buffer,
                      NEW k \in DOMAIN proc.list, ~Refunded(proc.list[k].on)
               PROVE  balance[proc.list[k].on] >= proc.target
    OBVIOUS
  <2>1. /\ TypeOK /\ CommandOK /\ ticks \in Nat /\ proc.target \in Nat /\ proc.began \in Nat
        /\ Buffer \in Nat /\ proc.cmd = "topup" /\ Spending
    BY <1>3, TypeParts, CreationAssumption DEF LifeInv, Processes, Increased, Spending
  <2>2. proc.at = Len(proc.list) /\ Paid(proc.at) /\ proc.at \in Nat
    <3>1. proc.at = Len(proc.list)
      BY <2>1, SpendStep DEF Idle
    <3>2. Paid(proc.at)
      BY DEF Increased, Awaited, Paid
    <3>3. proc.at \in Nat
      BY <2>1, TypeParts DEF Processes
    <3> QED BY <3>1, <3>2, <3>3
  <2>3. Paid(k)
    <3>1. k < proc.at \/ k = proc.at
      BY <2>1, <2>2, ListShape
    <3> QED BY <1>3, <2>1, <2>2, <3>1 DEF PaidOK
  <2>4. balance[proc.list[k].on] >= proc.target + Buffer - (ticks - proc.began)
    <3>1. proc.list[k].on \in DOMAIN platform
      BY <1>3, <2>1 DEF LifeInv, SpendOK
    <3>2. balance[proc.list[k].on] \in Nat
      BY <2>1, <3>1, PlatformShape
    <3>3. balance[proc.list[k].on] + 0 >= proc.target + Buffer - (ticks - proc.began)
      BY <1>3, <2>1, <2>3 DEF PaidOK, Lasts
    <3> QED BY <3>2, <3>3
  <2>5. balance[proc.list[k].on] \in Nat
    BY <1>3, <2>1, PlatformShape DEF LifeInv, SpendOK
  <2> QED BY <2>1, <2>4, <2>5
<1>4. Inv /\ [Next]_vars => [Covers]_vars
  BY <1>3
<1> HIDE DEF Inv, Covers
<1>5. Spec => [][Covers]_vars
  BY <1>1, <1>2, <1>4, PTL DEF Spec
<1> QED BY <1>5 DEF TopUpCovers, Covers, Refunded

=============================================================================
