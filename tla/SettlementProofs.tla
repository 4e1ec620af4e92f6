-------------------------- MODULE SettlementProofs --------------------------
(***************************************************************************)
(* The settlement feed keeps its types, never ends on a failure as if on a *)
(* shutdown, never queues behind a hole that an earlier run left, and its  *)
(* contracts implement the price register; for every list of assets,       *)
(* channel capacity and batch size, and any interleaving of goroutines,    *)
(* crashes, lost transactions, reverts and repeated logs.                  *)
(***************************************************************************)
EXTENDS Settlement, FiniteSetTheorems, SequenceTheorems, TLAPS

\* The main loop has something to send where it sends, and something to hand
\* over where it hands over; the prices of a tick are within the bound.
MainLoopOK ==
  /\ up => run.nonce > 0
  /\ run.at = "enqueue" => run.item \in Transaction
  /\ ~Relaying /\ run.at = "send" => tick # <<>>
  /\ Relaying => tick = <<>>
  /\ drawn + Len(tick) <= MaxPrices

\* A message repeats what the aggregator announced under its number.
Told(e) ==
  /\ e.seq \in DOMAIN announced[e.asset]
  /\ e.price = announced[e.asset][e.seq]

\* So does every message on its way: in the log channel, in the batch being
\* delivered, and in a delivery that waits in the mempool.
MessagesTold ==
  /\ \A i \in DOMAIN logs : Told(logs[i])
  /\ \A e \in batch : Told(e)
  /\ Relaying => \A t \in pool : \A e \in t.load : Told(e)

FeedInv == TypeOK /\ MainLoopOK /\ MessagesTold

-----------------------------------------------------------------------------
(* A set of naturals with a bound has a largest member.                    *)
LEMMA LargestMember ==
  ASSUME NEW S \in SUBSET Nat, S # {}, NEW b \in Nat, \A n \in S : n <= b
  PROVE  \E n \in S : \A k \in S : k <= n
<1> DEFINE R == OpToRel(<, Nat)
           T == {b - n : n \in S}
<1>1. IsWellFoundedOn(R, Nat)
  BY NatLessThanWellFounded
<1>2. T \subseteq Nat /\ T # {}
  <2>1. \A n \in S : n \in Nat /\ n <= b
    OBVIOUS
  <2>2. \A n \in Nat : n <= b => b - n \in Nat
    OBVIOUS
  <2>3. T \subseteq Nat
    BY <2>1, <2>2
  <2>4. PICK n \in S : TRUE
    OBVIOUS
  <2>5. b - n \in T
    OBVIOUS
  <2> QED BY <2>3, <2>5
<1>3. PICK x \in T : \A y \in T : ~ (<<y, x>> \in R)
  <2> HIDE DEF R, T
  <2> QED BY <1>1, <1>2, WFMin
<1>4. PICK n \in S : x = b - n
  BY <1>3
<1>5. ASSUME NEW k \in S PROVE k <= n
  <2>1. b - k \in T /\ x \in Nat /\ b - k \in Nat
    BY <1>2, <1>3
  <2>2. ~ (b - k < x)
    BY <1>3, <2>1 DEF OpToRel
  <2> QED BY <2>2, <1>4
<1> QED BY <1>5

\* So Newest is the latest message of an asset among told ones.
LEMMA NewestIsLatest ==
  ASSUME TypeOK, NEW S \in SUBSET Message, \A e \in S : Told(e),
         NEW a \in Assets, \E e \in S : e.asset = a
  PROVE  /\ Newest(S, a) \in S
         /\ Newest(S, a).asset = a
         /\ \A f \in S : f.asset = a => f.seq <= Newest(S, a).seq
<1> DEFINE N == {e.seq : e \in {e \in S : e.asset = a}}
<1>1. N \subseteq Nat /\ N # {}
  BY DEF Message
<1>2. Len(announced[a]) \in Nat /\ DOMAIN announced[a] = 1 .. Len(announced[a])
  BY DEF TypeOK
<1>3. \A n \in N : n <= Len(announced[a])
  BY <1>2 DEF Told
<1>4. PICK n \in N : \A k \in N : k <= n
  <2> HIDE DEF N
  <2> QED BY <1>1, <1>2, <1>3, LargestMember
<1>5. PICK e \in S : e.asset = a /\ e.seq = n
  BY <1>4
<1>6. \A f \in S : f.asset = a => f.seq <= e.seq
  BY <1>4, <1>5
<1> QED BY <1>5, <1>6 DEF Newest

-----------------------------------------------------------------------------
(* What most steps leave alone.                                            *)
LEMMA SameProgram ==
  ASSUME UNCHANGED program
  PROVE  /\ Transaction' = Transaction
         /\ Memory' = Memory
         /\ Relaying' = Relaying
         /\ Feeding' = Feeding
BY DEF Transaction, Memory, Load, Relaying, Feeding

LEMMA IdleType == Idle \in Memory /\ Len(Idle.pending) = 0
<1>1. <<>> \in Seq(Transaction) /\ Len(<<>>) = 0
  BY EmptySeq
<1> QED BY <1>1 DEF Idle, Memory, HelperState

\* A step of the run that touches neither chain, channel nor batch.
LEMMA QuietStep ==
  ASSUME FeedInv, UNCHANGED <<program, pool, mined, contracts, work>>,
         up' \in BOOLEAN, hidden' \in BOOLEAN,
         drawn' = drawn, starts' \in Nat, faults' \in Nat,
         run' \in Memory, Len(run'.pending) <= InFlight,
         up' => run'.nonce > 0,
         run'.at = "enqueue" => run'.item \in Transaction,
         ~Relaying /\ run'.at = "send" => tick # <<>>
  PROVE  FeedInv'
<1>0. Transaction' = Transaction /\ Memory' = Memory /\ Relaying' = Relaying
  BY SameProgram
<1>1. TypeOK'
  BY <1>0 DEF FeedInv, TypeOK, contracts, work
<1>2. MainLoopOK'
  BY <1>0 DEF FeedInv, MainLoopOK, work
<1>3. MessagesTold'
  BY <1>0 DEF FeedInv, MessagesTold, Told, contracts, work
<1> QED BY <1>1, <1>2, <1>3 DEF FeedInv

\* A run ends; the mempool may have got its last transaction.
LEMMA EndStep ==
  ASSUME FeedInv, NEW how, End(how), UNCHANGED <<program, mined, contracts>>,
         pool' \subseteq Transaction,
         Relaying => \A t \in pool' : \A e \in t.load : Told(e),
         drawn' \in Nat, drawn' <= MaxPrices, starts' \in Nat, faults' \in Nat
  PROVE  FeedInv'
<1>0. Transaction' = Transaction /\ Memory' = Memory /\ Relaying' = Relaying
  BY SameProgram
<1>1. /\ up' = FALSE /\ run' = Idle /\ tick' = <<>> /\ logs' = <<>>
      /\ fresh' = Stale /\ batch' = {} /\ hidden' \in BOOLEAN
  BY DEF End, FeedInv, TypeOK
<1>2. TypeOK'
  <2>1. run' \in Memory /\ Len(run'.pending) <= InFlight
    BY <1>1, IdleType, SettlementAssumption
  <2>2. tick' \in Seq(Assets) /\ logs' \in Seq(Message)
    BY <1>1, EmptySeq
  <2>3. fresh' \in [Assets -> Nat]
    BY <1>1 DEF Stale
  <2> QED BY <1>0, <1>1, <2>1, <2>2, <2>3 DEF FeedInv, TypeOK, contracts
<1>3. MainLoopOK'
  <2>1. Len(tick') = 0
    BY <1>1, EmptySeq
  <2> QED BY <1>1, <2>1 DEF MainLoopOK, Idle
<1>4. MessagesTold'
  BY <1>0, <1>1 DEF MessagesTold, Told, contracts
<1> QED BY <1>2, <1>3, <1>4 DEF FeedInv

\* The counters and what waits in the mempool, where a run ends.
LEMMA Counters ==
  ASSUME FeedInv
  PROVE  /\ drawn \in Nat /\ drawn <= MaxPrices /\ starts \in Nat /\ faults \in Nat
         /\ Fault => faults' \in Nat
         /\ pool \subseteq Transaction
         /\ Relaying => \A t \in pool : \A e \in t.load : Told(e)
<1>1. Len(tick) \in Nat /\ drawn \in Nat /\ starts \in Nat /\ faults \in Nat
      /\ pool \subseteq Transaction
  BY DEF FeedInv, TypeOK
<1>2. drawn <= MaxPrices
  BY <1>1, SettlementAssumption DEF FeedInv, MainLoopOK
<1>3. Fault => faults' \in Nat
  BY <1>1 DEF Fault
<1>4. Relaying => \A t \in pool : \A e \in t.load : Told(e)
  BY DEF FeedInv, MessagesTold
<1> QED BY <1>1, <1>2, <1>3, <1>4

-----------------------------------------------------------------------------
(* How a run begins, stops and ends, and its helpers.                      *)
LEMMA BeginStep == ASSUME FeedInv, Begin PROVE FeedInv'
<1>1. Len(mined) \in Nat
  BY DEF FeedInv, TypeOK
<1>2. StartNonce \in Nat \ {0}
  BY <1>1 DEF StartNonce, Frontier
<1>3. run' = [Idle EXCEPT !.nonce = StartNonce]
  BY DEF Begin
<1>4. run' \in Memory /\ Len(run'.pending) <= InFlight
  <2>1. run' \in Memory /\ run'.pending = Idle.pending
    BY <1>2, <1>3, IdleType DEF Memory
  <2> QED BY <2>1, IdleType, SettlementAssumption
<1>5. run'.nonce > 0 /\ run'.at = "select"
  BY <1>2, <1>3 DEF Idle
<1>6. starts' \in Nat
  BY DEF Begin, FeedInv, TypeOK
<1> QED BY <1>4, <1>5, <1>6, QuietStep DEF Begin, FeedInv, TypeOK, contracts, work

LEMMA StopStep ==
  ASSUME FeedInv, Crash \/ SelectStop \/ SubscriptionFails \/ EnqueueStop
  PROVE  FeedInv'
<1>1. PICK how \in {"killed", "error", "clean"} : End(how)
  BY DEF Crash, SelectStop, SubscriptionFails, EnqueueStop, Drain
<1>2. UNCHANGED <<program, pool, mined, contracts, drawn, starts>>
  BY DEF Crash, SelectStop, SubscriptionFails, EnqueueStop
<1>3. faults' \in Nat
  BY Counters DEF Crash, SelectStop, SubscriptionFails, EnqueueStop
<1>4. /\ pool' \subseteq Transaction /\ drawn' \in Nat /\ drawn' <= MaxPrices
      /\ starts' \in Nat
      /\ Relaying => \A t \in pool' : \A e \in t.load : Told(e)
  BY <1>2, Counters
<1> QED BY <1>1, <1>2, <1>3, <1>4, EndStep

\* A step of run that keeps what it sends.
KeepsSending ==
  /\ run' \in Memory
  /\ Len(run'.pending) <= InFlight
  /\ run'.nonce = run.nonce /\ run'.at = run.at /\ run'.item = run.item

LEMMA InterruptKeeps == ASSUME FeedInv, Interrupt PROVE KeepsSending
BY DEF Interrupt, FeedInv, TypeOK, Memory, KeepsSending

LEMMA FailKeeps ==
  ASSUME FeedInv, NEW h \in {"confirmer", "poller"}, FailOrReturn(h)
  PROVE  KeepsSending
<1>0. run \in Memory /\ Len(run.pending) <= InFlight
  BY DEF FeedInv, TypeOK
<1>1. CASE h = "confirmer"
  <2>1. \/ run' = [run EXCEPT !.confirmer = "gone"]
        \/ run' = [run EXCEPT !.error = TRUE, !.failed = TRUE, !.confirmer = "failing"]
    BY <1>1 DEF FailOrReturn, Fail
  <2> QED BY <1>0, <2>1 DEF Memory, HelperState, KeepsSending
<1>2. CASE h = "poller"
  <2>1. \/ run' = [run EXCEPT !.poller = "gone"]
        \/ run' = [run EXCEPT !.error = TRUE, !.failed = TRUE, !.poller = "failing"]
    BY <1>2 DEF FailOrReturn, Fail
  <2> QED BY <1>0, <2>1 DEF Memory, HelperState, KeepsSending
<1> QED BY <1>1, <1>2

LEMMA CancelKeeps ==
  ASSUME FeedInv, NEW h \in {"confirmer", "poller"}, Cancel(h)
  PROVE  KeepsSending
<1>1. CASE h = "confirmer"
  BY <1>1 DEF Cancel, FeedInv, TypeOK, Memory, HelperState, KeepsSending
<1>2. CASE h = "poller"
  BY <1>2 DEF Cancel, FeedInv, TypeOK, Memory, HelperState, KeepsSending
<1> QED BY <1>1, <1>2

LEMMA TakePendingKeeps == ASSUME FeedInv, TakePending PROVE KeepsSending
<1>1. run.pending \in Seq(Transaction) /\ run.pending # <<>>
  BY DEF TakePending, FeedInv, TypeOK, Memory
<1>2. /\ Head(run.pending) \in Transaction /\ Tail(run.pending) \in Seq(Transaction)
      /\ Len(Tail(run.pending)) = Len(run.pending) - 1 /\ Len(run.pending) \in Nat
  BY <1>1, HeadTailProperties
<1>3. Len(run.pending) <= InFlight /\ InFlight \in Nat
  BY SettlementAssumption DEF FeedInv, TypeOK
<1> DEFINE h == Head(run.pending)
           q == Tail(run.pending)
<1>4. run' = [run EXCEPT !.confirming = h, !.pending = q]
  BY DEF TakePending
<1>5. run \in Memory
  BY DEF FeedInv, TypeOK
<1>6. h \in Transaction /\ q \in Seq(Transaction) /\ Len(q) <= InFlight
  BY <1>2, <1>3
<1> HIDE DEF h, q
<1>7. run' \in Memory /\ run'.pending = q
  BY <1>4, <1>5, <1>6 DEF Memory
<1>8. run'.nonce = run.nonce /\ run'.at = run.at /\ run'.item = run.item
  BY <1>4, <1>5 DEF Memory
<1> QED BY <1>6, <1>7, <1>8 DEF KeepsSending

LEMMA ReceiptKeeps == ASSUME FeedInv, WaitReceipt PROVE KeepsSending
<1>1. CASE run' = [run EXCEPT !.confirming = NoTx]
  BY <1>1 DEF FeedInv, TypeOK, Memory, KeepsSending
<1>2. CASE FailOrReturn("confirmer")
  BY <1>2, FailKeeps
<1> QED BY <1>1, <1>2 DEF WaitReceipt

LEMMA SignalStep ==
  ASSUME FeedInv, Interrupt \/ Helper \/ pollMainPrices \/ pollOnChainPrices
  PROVE  FeedInv'
<1>1. KeepsSending
  BY InterruptKeeps, FailKeeps, CancelKeeps, TakePendingKeeps, ReceiptKeeps
     DEF Helper, confirmDeliveries, confirmSubmissions, pollMainPrices,
         pollOnChainPrices, PollFails
<1>2. UNCHANGED <<program, pool, mined, contracts, up, work, hidden, drawn, starts>>
  BY DEF Helper, Interrupt, TakePending, confirmDeliveries, confirmSubmissions,
         WaitReceipt, Cancel, pollMainPrices, pollOnChainPrices, PollFails
<1>3. faults' \in Nat
  BY Counters DEF Helper, Interrupt, TakePending, confirmDeliveries,
         confirmSubmissions, WaitReceipt, Cancel, pollMainPrices,
         pollOnChainPrices, PollFails
<1>4. /\ up' => run'.nonce > 0
      /\ run'.at = "enqueue" => run'.item \in Transaction
      /\ ~Relaying /\ run'.at = "send" => tick # <<>>
  BY <1>1, <1>2 DEF KeepsSending, FeedInv, MainLoopOK
<1> QED BY <1>1, <1>2, <1>3, <1>4, QuietStep DEF KeepsSending, FeedInv, TypeOK

-----------------------------------------------------------------------------
(* The contracts and the account.                                          *)

\* A price is announced: what was told stays told.
LEMMA AnnouncedGrows ==
  ASSUME TypeOK, NEW a \in Assets, NEW p \in Prices, SubmitPrice(a, p)
  PROVE  /\ announced' \in [Assets -> Seq(Prices)]
         /\ stored' = stored
         /\ \A e : e.asset \in Assets /\ Told(e) => Told(e)'
         /\ Len(announced'[a]) = Len(announced[a]) + 1
         /\ announced'[a][Len(announced'[a])] = p
<1>1. announced[a] \in Seq(Prices)
  BY DEF TypeOK
<1>2. announced' = [announced EXCEPT ![a] = Append(announced[a], p)] /\ stored' = stored
  BY DEF SubmitPrice
<1>3. announced'[a] = Append(announced[a], p)
  BY <1>2 DEF TypeOK
<1>4. /\ announced'[a] \in Seq(Prices)
      /\ Len(announced'[a]) = Len(announced[a]) + 1
      /\ \A i \in 1 .. Len(announced[a]) : announced'[a][i] = announced[a][i]
      /\ announced'[a][Len(announced[a]) + 1] = p
  BY <1>1, <1>3, AppendProperties
<1>5. announced' \in [Assets -> Seq(Prices)]
  BY <1>2, <1>3, <1>4 DEF TypeOK
<1>6. ASSUME NEW e, e.asset \in Assets, Told(e) PROVE Told(e)'
  <2>1. CASE e.asset = a
    <3>1. DOMAIN announced[a] = 1 .. Len(announced[a]) /\ Len(announced[a]) \in Nat
      BY <1>1
    <3>2. DOMAIN announced'[a] = 1 .. Len(announced[a]) + 1
      BY <1>4
    <3>3. e.seq \in 1 .. Len(announced[a]) /\ e.price = announced[a][e.seq]
      BY <1>6, <2>1, <3>1 DEF Told
    <3>4. e.seq \in DOMAIN announced'[a] /\ e.price = announced'[a][e.seq]
      BY <3>1, <3>2, <3>3, <1>4
    <3> QED BY <2>1, <3>4 DEF Told
  <2>2. CASE e.asset # a
    <3>1. announced'[e.asset] = announced[e.asset]
      BY <1>6, <2>2, <1>2 DEF TypeOK
    <3> QED BY <1>6, <3>1 DEF Told
  <2> QED BY <2>1, <2>2
<1> QED BY <1>2, <1>4, <1>5, <1>6

\* A delivery lands: each asset keeps what it has or moves to a message.
LEMMA ReceiveMoves ==
  ASSUME TypeOK, NEW load \in SUBSET Message, \A e \in load : Told(e),
         ReceivePrices(load)
  PROVE  /\ announced' = announced
         /\ stored' \in [Assets -> [seq : Nat, price : Prices \union {0}]]
         /\ \A a \in Assets :
              \/ stored'[a] = stored[a]
              \/ \E e \in load : /\ e.asset = a /\ e.seq > stored[a].seq
                                 /\ stored'[a] = [seq |-> e.seq, price |-> e.price]
<1>1. ASSUME NEW a \in Assets, \E e \in load : e.asset = a /\ e.seq > stored[a].seq
      PROVE  /\ Newest(load, a) \in load /\ Newest(load, a).asset = a
             /\ Newest(load, a).seq > stored[a].seq
  <2>1. PICK e \in load : e.asset = a /\ e.seq > stored[a].seq
    BY <1>1
  <2>2. /\ Newest(load, a) \in load /\ Newest(load, a).asset = a
        /\ e.seq <= Newest(load, a).seq
    BY <2>1, NewestIsLatest
  <2>3. e.seq \in Nat /\ Newest(load, a).seq \in Nat /\ stored[a].seq \in Nat
    BY <2>2 DEF Message, TypeOK
  <2> QED BY <2>1, <2>2, <2>3
<1>2. ASSUME NEW a \in Assets
      PROVE  \/ stored'[a] = stored[a]
             \/ \E e \in load : /\ e.asset = a /\ e.seq > stored[a].seq
                                /\ stored'[a] = [seq |-> e.seq, price |-> e.price]
  BY <1>1 DEF ReceivePrices
<1>3. ASSUME NEW a \in Assets
      PROVE  stored'[a] \in [seq : Nat, price : Prices \union {0}]
  <2>1. stored[a] \in [seq : Nat, price : Prices \union {0}]
    BY DEF TypeOK
  <2>2. \A e \in load : [seq |-> e.seq, price |-> e.price]
                           \in [seq : Nat, price : Prices \union {0}]
    BY DEF Message
  <2>3. CASE \E e \in load : stored'[a] = [seq |-> e.seq, price |-> e.price]
    BY <2>2, <2>3
  <2>4. CASE stored'[a] = stored[a]
    BY <2>1, <2>4
  <2> QED BY <1>2, <1>3, <2>3, <2>4
<1>4. announced' = announced /\ DOMAIN stored' = Assets
  BY DEF ReceivePrices
<1>5. stored' = [a \in Assets |-> stored'[a]]
  BY DEF ReceivePrices
<1>6. stored' \in [Assets -> [seq : Nat, price : Prices \union {0}]]
  BY <1>3, <1>5
<1> QED BY <1>2, <1>4, <1>6

\* What the contracts hold after a step that they survive.
ContractsOK ==
  /\ announced' \in [Assets -> Seq(Prices)]
  /\ stored' \in [Assets -> [seq : Nat, price : Prices \union {0}]]
  /\ \A e : e.asset \in Assets /\ Told(e) => Told(e)'

LEMMA SameContracts == ASSUME FeedInv, UNCHANGED <<announced, stored>> PROVE ContractsOK
<1>1. \A e : Told(e) => Told(e)'
  BY DEF Told
<1> QED BY <1>1 DEF ContractsOK, FeedInv, TypeOK

LEMMA OnTheWay ==
  ASSUME FeedInv
  PROVE  /\ \A i \in DOMAIN logs : logs[i] \in Message /\ logs[i].asset \in Assets
         /\ \A e \in batch : e \in Message /\ e.asset \in Assets
         /\ \A t \in pool : IF Relaying THEN t.load \in SUBSET Message
                            ELSE t.load.asset \in Assets /\ t.load.price \in Prices
<1>1. logs \in Seq(Message) /\ batch \subseteq Message /\ pool \subseteq Transaction
  BY DEF FeedInv, TypeOK
<1>2. \A e \in Message : e.asset \in Assets
  BY DEF Message
<1>3. \A t \in Transaction : t.load \in Load
  BY DEF Transaction
<1>4. Relaying => Load = SUBSET Message
  BY DEF Load
<1>5. ~Relaying => \A l \in Load : l.asset \in Assets /\ l.price \in Prices
  BY DEF Load
<1>6. \A i \in DOMAIN logs : logs[i] \in Message
  BY <1>1
<1> QED BY <1>1, <1>2, <1>3, <1>4, <1>5, <1>6

\* A transaction leaves the mempool, mined or lost; the program goes on.
LEMMA ChainStep ==
  ASSUME FeedInv, ContractsOK, pool' \subseteq pool,
         mined' \in Seq([tx : Transaction, ok : BOOLEAN]), installed' \in BOOLEAN,
         run' \in Memory, Len(run'.pending) <= InFlight,
         run'.nonce = run.nonce, run'.at = run.at, run'.item = run.item,
         faults' \in Nat,
         UNCHANGED <<program, up, work, hidden, drawn, starts>>
  PROVE  FeedInv'
<1>0. Transaction' = Transaction /\ Memory' = Memory /\ Relaying' = Relaying
  BY SameProgram
<1>1. TypeOK'
  BY <1>0 DEF FeedInv, TypeOK, ContractsOK, work
<1>2. MainLoopOK'
  BY <1>0 DEF FeedInv, MainLoopOK, work
<1>3. MessagesTold'
  <2>0. \A e : e.asset \in Assets /\ Told(e) => Told(e)'
    BY DEF ContractsOK
  <2>1. ASSUME NEW i \in DOMAIN logs PROVE Told(logs[i])'
    <3>1. logs' = logs
      BY DEF work
    <3>2. logs[i].asset \in Assets /\ Told(logs[i])
      BY OnTheWay DEF FeedInv, MessagesTold
    <3> DEFINE m == logs[i]
    <3>3. m.seq \in DOMAIN announced'[m.asset] /\ m.price = announced'[m.asset][m.seq]
      BY <3>2, <2>0 DEF Told
    <3> QED BY <3>1, <3>3 DEF Told
  <2>2. ASSUME NEW e \in batch PROVE Told(e)'
    BY <2>0, OnTheWay DEF FeedInv, MessagesTold
  <2>3. ASSUME Relaying, NEW t \in pool', NEW e \in t.load PROVE Told(e)'
    <3>1. t \in pool /\ t.load \in SUBSET Message
      BY <2>3, OnTheWay
    <3>2. e.asset \in Assets /\ Told(e)
      BY <2>3, <3>1 DEF FeedInv, MessagesTold, Message
    <3> QED BY <3>2 DEF ContractsOK
  <2>4. logs' = logs /\ batch' = batch
    BY DEF work
  <2>5. \A i \in DOMAIN logs' : Told(logs[i])'
    BY <2>1, <2>4
  <2>6. \A e \in batch' : Told(e)'
    BY <2>2, <2>4
  <2>7. Relaying => \A t \in pool' : \A e \in t.load : Told(e)'
    BY <2>3
  <2> QED BY <1>0, <2>5, <2>6, <2>7 DEF MessagesTold
<1> QED BY <1>1, <1>2, <1>3 DEF FeedInv

LEMMA MinedType ==
  ASSUME FeedInv, NEW t \in pool, NEW ok \in BOOLEAN
  PROVE  Append(mined, [tx |-> t, ok |-> ok]) \in Seq([tx : Transaction, ok : BOOLEAN])
BY DEF FeedInv, TypeOK

LEMMA MineOkStep == ASSUME FeedInv, MineOk PROVE FeedInv'
<1>1. PICK t \in pool :
        /\ mined' = Append(mined, [tx |-> t, ok |-> TRUE])
        /\ pool' = pool \ {t}
        /\ \/ Relaying /\ installed /\ ReceivePrices(t.load)
           \/ program = "oracle feed" /\ SubmitPrice(t.load.asset, t.load.price)
           \/ program = "direct feed" /\ installed /\ SubmitRound(t.load.asset, t.load.price)
           \/ program # "oracle feed" /\ ~installed /\ UNCHANGED <<announced, stored>>
        /\ UNCHANGED <<program, installed, up, run, work, hidden, drawn, starts, faults>>
  BY DEF MineOk, Queued
<1>2. ContractsOK
  <2>1. CASE Relaying /\ ReceivePrices(t.load)
    <3>1. t.load \in SUBSET Message /\ \A e \in t.load : Told(e)
      BY <2>1, OnTheWay DEF FeedInv, MessagesTold
    <3>2. /\ announced' = announced
          /\ stored' \in [Assets -> [seq : Nat, price : Prices \union {0}]]
      BY <2>1, <3>1, ReceiveMoves DEF FeedInv
    <3>3. \A e : Told(e) => Told(e)'
      BY <3>2 DEF Told
    <3> QED BY <3>2, <3>3 DEF ContractsOK, FeedInv, TypeOK
  <2>2. CASE ~Relaying /\ SubmitPrice(t.load.asset, t.load.price)
    <3>1. t.load.asset \in Assets /\ t.load.price \in Prices
      BY <2>2, OnTheWay
    <3> QED BY <2>2, <3>1, AnnouncedGrows DEF ContractsOK, FeedInv, TypeOK
  <2>3. CASE UNCHANGED <<announced, stored>>
    BY <2>3, SameContracts
  <2> QED BY <1>1, <2>1, <2>2, <2>3 DEF SubmitRound, Relaying
<1>3. mined' \in Seq([tx : Transaction, ok : BOOLEAN])
  BY <1>1, MinedType
<1> QED BY <1>1, <1>2, <1>3, ChainStep DEF FeedInv, TypeOK

LEMMA ChainLosesStep ==
  ASSUME FeedInv, MineReverted \/ LoseTx \/ Install
  PROVE  FeedInv'
<1>1. UNCHANGED <<announced, stored>> /\ pool' \subseteq pool
  BY DEF MineReverted, LoseTx, Install, contracts
<1>2. mined' \in Seq([tx : Transaction, ok : BOOLEAN])
  BY MinedType DEF MineReverted, LoseTx, Install, Queued, FeedInv, TypeOK
<1>3. installed' \in BOOLEAN /\ faults' \in Nat
  BY Counters DEF MineReverted, LoseTx, Install, contracts, FeedInv, TypeOK
<1>4. /\ run' \in Memory /\ Len(run'.pending) <= InFlight
      /\ run'.nonce = run.nonce /\ run'.at = run.at /\ run'.item = run.item
  <2>1. run \in Memory /\ Len(run.pending) <= InFlight /\ up \in BOOLEAN
    BY DEF FeedInv, TypeOK
  <2>2. CASE run' = run
    BY <2>1, <2>2
  <2>3. CASE run' = [run EXCEPT !.gap = up]
    BY <2>1, <2>3 DEF Memory
  <2> QED BY <2>2, <2>3 DEF MineReverted, LoseTx, Install
<1>5. UNCHANGED <<program, up, work, hidden, drawn, starts>>
  BY DEF MineReverted, LoseTx, Install
<1> QED BY <1>1, <1>2, <1>3, <1>4, <1>5, ChainStep, SameContracts

-----------------------------------------------------------------------------
(* The log channel of the relay.                                           *)
LEMMA LogStep ==
  ASSUME FeedInv, ContractsOK, Relaying, NEW m \in Message, Told(m)',
         logs' \in {logs, Append(logs, m)},
         drawn' \in Nat, drawn' <= MaxPrices, faults' \in Nat,
         UNCHANGED <<program, installed, pool, mined, up, run, tick, fresh,
                     batch, hidden, starts>>
  PROVE  FeedInv'
<1>0. Transaction' = Transaction /\ Memory' = Memory /\ Relaying' = Relaying
  BY SameProgram
<1>1. logs \in Seq(Message)
  BY DEF FeedInv, TypeOK
<1>2. /\ logs' \in Seq(Message)
      /\ \A i \in DOMAIN logs' : (i \in DOMAIN logs /\ logs'[i] = logs[i]) \/ logs'[i] = m
  <2>1. CASE logs' = logs
    BY <2>1, <1>1
  <2>2. CASE logs' = Append(logs, m)
    BY <2>2, <1>1, AppendProperties
  <2> QED BY <2>1, <2>2
<1>3. TypeOK'
  BY <1>0, <1>2 DEF FeedInv, TypeOK, ContractsOK
<1>4. MainLoopOK'
  <2>1. tick' = <<>> /\ Len(<<>>) = 0
    BY EmptySeq DEF FeedInv, MainLoopOK
  <2> QED BY <1>0, <2>1 DEF FeedInv, MainLoopOK
<1>5. MessagesTold'
  <2>0. \A e : e.asset \in Assets /\ Told(e) => Told(e)'
    BY DEF ContractsOK
  <2>1. ASSUME NEW i \in DOMAIN logs' PROVE Told(logs[i])'
    <3> DEFINE e == logs'[i]
    <3>1. CASE i \in DOMAIN logs /\ logs'[i] = logs[i]
      <4>1. logs[i].asset \in Assets /\ Told(logs[i])
        BY <3>1, OnTheWay DEF FeedInv, MessagesTold
      <4>2. e.seq \in DOMAIN announced'[e.asset] /\ e.price = announced'[e.asset][e.seq]
        BY <4>1, <3>1, <2>0 DEF Told
      <4> QED BY <4>2 DEF Told
    <3>2. CASE logs'[i] = m
      BY <3>2 DEF Told
    <3> QED BY <3>1, <3>2, <1>2
  <2>2. ASSUME NEW e \in batch PROVE Told(e)'
    BY <2>0, OnTheWay DEF FeedInv, MessagesTold
  <2>3. ASSUME NEW t \in pool, NEW e \in t.load PROVE Told(e)'
    <3>1. t.load \in SUBSET Message
      BY OnTheWay
    <3>2. e.asset \in Assets /\ Told(e)
      BY <3>1 DEF FeedInv, MessagesTold, Message
    <3> QED BY <3>2, <2>0
  <2>4. \A i \in DOMAIN logs' : Told(logs[i])'
    BY <2>1
  <2>5. \A e \in batch' : Told(e)'
    BY <2>2
  <2>6. \A t \in pool' : \A e \in t.load : Told(e)'
    BY <2>3
  <2> QED BY <2>4, <2>5, <2>6 DEF MessagesTold
<1> QED BY <1>3, <1>4, <1>5 DEF FeedInv

LEMMA AnnounceStep == ASSUME FeedInv, NEW a \in Assets, Announce(a) PROVE FeedInv'
<1>1. drawn' = drawn + 1 /\ drawn' \in Prices /\ drawn' \in Nat /\ drawn' <= MaxPrices
  BY Counters, SettlementAssumption DEF Announce, Prices
<1>2. SubmitPrice(a, drawn')
  BY DEF Announce
<1>3. TypeOK
  BY DEF FeedInv
<1>4. /\ ContractsOK
      /\ Len(announced'[a]) = Len(announced[a]) + 1
      /\ announced'[a][Len(announced'[a])] = drawn'
  BY <1>1, <1>2, <1>3, AnnouncedGrows DEF ContractsOK, TypeOK
<1>5. announced'[a] \in Seq(Prices) /\ Len(announced[a]) \in Nat
  BY <1>3, <1>4 DEF ContractsOK, TypeOK
<1>6. PICK n \in Nat \ {0} : n = Len(announced'[a])
  BY <1>4, <1>5
<1>7. PICK p \in Prices : p = drawn'
  BY <1>1
<1>8. PICK m \in Message : m = [asset |-> a, price |-> p, seq |-> n]
  BY DEF Message
<1>9. Told(m)'
  <2>1. n \in DOMAIN announced'[a] /\ announced'[a][n] = p
    BY <1>4, <1>5, <1>6, <1>7
  <2> QED BY <2>1, <1>8 DEF Told
<1>10. logs' \in {logs, Append(logs, m)}
  BY <1>6, <1>7, <1>8 DEF Announce
<1>11. faults' \in Nat
  BY DEF Announce, FeedInv, TypeOK
<1> QED BY <1>1, <1>4, <1>9, <1>10, <1>11, LogStep DEF Announce

LEMMA RedeliverStep == ASSUME FeedInv, Redeliver PROVE FeedInv'
<1>0. PICK a \in Assets : \E n \in DOMAIN announced[a] : logs' = Append(logs, Event(a, n))
  BY DEF Redeliver
<1>1. PICK n \in DOMAIN announced[a] : logs' = Append(logs, Event(a, n))
  BY <1>0
<1>2. announced[a] \in Seq(Prices) /\ announced' = announced /\ stored' = stored
  BY DEF FeedInv, TypeOK, Redeliver, contracts
<1>3. PICK m \in Message : m = Event(a, n)
  <2>1. announced[a][n] \in Prices /\ n \in Nat \ {0}
    BY <1>2
  <2>2. Event(a, n) \in Message
    BY <2>1 DEF Event, Message
  <2> QED BY <2>2
<1>4. Told(m)'
  BY <1>2, <1>3 DEF Event, Told
<1>5. ContractsOK
  BY <1>2, SameContracts
<1>6. drawn' \in Nat /\ drawn' <= MaxPrices /\ faults' \in Nat
  BY Counters DEF Redeliver
<1>7. logs' \in {logs, Append(logs, m)}
  BY <1>1, <1>3
<1> QED BY <1>4, <1>5, <1>6, <1>7, LogStep DEF Redeliver, contracts

-----------------------------------------------------------------------------
(* Sending.                                                                *)

\* A transaction of this run enters the mempool.
LEMMA ReplaceStep ==
  ASSUME FeedInv, up, NEW l \in Load, Relaying => \A e \in l : Told(e), Replace(Tx(l))
  PROVE  /\ Tx(l) \in Transaction
         /\ pool' \subseteq Transaction
         /\ Relaying => \A t \in pool' : \A e \in t.load : Told(e)
<1>1. run.nonce \in Nat \ {0}
  BY DEF FeedInv, MainLoopOK, TypeOK, Memory
<1>2. Tx(l) \in Transaction /\ Tx(l).load = l
  BY <1>1 DEF Tx, Transaction
<1>3. pool \subseteq Transaction
  BY DEF FeedInv, TypeOK
<1>4. \A t \in pool' : t \in pool \/ t = Tx(l)
  BY DEF Replace
<1> QED BY <1>2, <1>3, <1>4 DEF FeedInv, MessagesTold

LEMMA EnqueueStep == ASSUME FeedInv, Enqueue PROVE FeedInv'
<1> DEFINE q == Append(run.pending, run.item)
           where == IF tick = <<>> THEN "select" ELSE "send"
<1>1. run \in Memory /\ run.item \in Transaction /\ run.pending \in Seq(Transaction)
  BY DEF FeedInv, MainLoopOK, TypeOK, Enqueue, At, Memory
<1>2. q \in Seq(Transaction) /\ Len(q) = Len(run.pending) + 1 /\ Len(run.pending) \in Nat
  BY <1>1, AppendProperties
<1>3. Len(q) <= InFlight
  BY <1>2, SettlementAssumption DEF Enqueue
<1>4. run' = [run EXCEPT !.pending = q, !.item = NoTx, !.at = where]
  BY DEF Enqueue
<1>5. where \in {"select", "send"} /\ (where = "send" => tick # <<>>)
  OBVIOUS
<1> HIDE DEF q, where
<1>6. run' \in Memory /\ run'.pending = q /\ run'.at = where /\ run'.nonce = run.nonce
  BY <1>1, <1>2, <1>4, <1>5 DEF Memory
<1>7. UNCHANGED <<program, pool, mined, contracts, up, work, hidden, drawn, starts, faults>>
  BY DEF Enqueue
<1> QED BY <1>3, <1>5, <1>6, <1>7, QuietStep DEF FeedInv, TypeOK, MainLoopOK

LEMMA TickStep == ASSUME FeedInv, ~Relaying, Tick PROVE FeedInv'
<1>0. Transaction' = Transaction /\ Memory' = Memory /\ Relaying' = Relaying
  BY SameProgram DEF Tick
<1>1. Feeding \in Seq(Assets) /\ Feeding # <<>>
  BY SettlementAssumption DEF Feeding
<1>2. run' \in Memory /\ run'.pending = run.pending /\ run'.nonce = run.nonce /\ run'.at = "send"
  BY DEF Tick, FeedInv, TypeOK, Memory
<1>3. TypeOK'
  BY <1>0, <1>1, <1>2 DEF FeedInv, TypeOK, Tick, contracts
<1>4. MainLoopOK'
  BY <1>0, <1>1, <1>2 DEF FeedInv, MainLoopOK, Tick
<1>5. MessagesTold'
  BY <1>0 DEF FeedInv, MessagesTold, Told, Tick, contracts
<1> QED BY <1>3, <1>4, <1>5 DEF FeedInv

\* A transaction is sent and waits for its place in the channel; what is sent
\* next is one of the tick, or nothing.
LEMMA SentStep ==
  ASSUME FeedInv, up, NEW l \in Load, Relaying => \A e \in l : Told(e), SendOk(l),
         UNCHANGED <<program, mined, contracts, logs, fresh, starts>>,
         tick' \in Seq(Assets), Relaying => tick' = <<>>,
         batch' \in {batch, {}},
         drawn' \in Nat, drawn' + Len(tick') <= MaxPrices
  PROVE  FeedInv'
<1>0. Transaction' = Transaction /\ Memory' = Memory /\ Relaying' = Relaying
  BY SameProgram
<1>1. /\ Tx(l) \in Transaction /\ pool' \subseteq Transaction
      /\ Relaying => \A t \in pool' : \A e \in t.load : Told(e)
  BY ReplaceStep DEF SendOk
<1> DEFINE x == Tx(l)
<1>2. run' = [run EXCEPT !.at = "enqueue", !.item = x, !.nonce = run.nonce + 1]
  BY DEF SendOk
<1>3. run \in Memory /\ run.nonce \in Nat /\ x \in Transaction
  BY <1>1 DEF FeedInv, TypeOK, Memory
<1> HIDE DEF x
<1>4. /\ run' \in Memory /\ run'.pending = run.pending /\ run'.nonce = run.nonce + 1
      /\ run'.at = "enqueue" /\ run'.item = x
  <2>1. PICK n \in Nat : n = run.nonce + 1
    BY <1>3
  <2>2. run' = [run EXCEPT !.at = "enqueue", !.item = x, !.nonce = n]
    BY <1>2, <2>1
  <2>3. run' \in Memory /\ run'.pending = run.pending /\ run'.nonce = n
    BY <1>3, <2>2 DEF Memory
  <2>4. run'.at = "enqueue" /\ run'.item = x
    BY <1>3, <2>2 DEF Memory
  <2> QED BY <2>1, <2>3, <2>4
<1>5. TypeOK'
  BY <1>0, <1>1, <1>4 DEF FeedInv, TypeOK, SendOk, contracts
<1>6. MainLoopOK'
  BY <1>0, <1>3, <1>4 DEF FeedInv, MainLoopOK
<1>7. MessagesTold'
  BY <1>0, <1>1 DEF FeedInv, MessagesTold, Told, contracts
<1> QED BY <1>5, <1>6, <1>7 DEF FeedInv

\* The send does not come off, and the program ends.
LEMMA NotSentStep ==
  ASSUME FeedInv, up, NEW l \in Load, Relaying => \A e \in l : Told(e),
         SendRefused(l) \/ SendLost(l) \/ SubmitStopped,
         UNCHANGED <<program, mined, contracts, starts>>,
         drawn' \in Nat, drawn' <= MaxPrices
  PROVE  FeedInv'
<1>1. End("error")
  BY DEF SendRefused, SendLost, SubmitStopped
<1>2. pool' = pool \/ Replace(Tx(l))
  BY DEF SendRefused, SendLost, SubmitStopped
<1>3. pool' \subseteq Transaction /\ (Relaying => \A t \in pool' : \A e \in t.load : Told(e))
  BY <1>2, Counters, ReplaceStep
<1>4. faults' \in Nat /\ starts' \in Nat
  BY Counters DEF SendRefused, SendLost, SubmitStopped
<1> QED BY <1>1, <1>3, <1>4, EndStep

LEMMA SubmitStep == ASSUME FeedInv, ~Relaying, Submit PROVE FeedInv'
<1> DEFINE l == [asset |-> Head(tick), price |-> drawn + 1]
<1>1. up /\ tick \in Seq(Assets) /\ tick # <<>> /\ drawn \in Nat
  BY DEF Submit, At, FeedInv, TypeOK, MainLoopOK
<1>2. /\ Head(tick) \in Assets /\ Tail(tick) \in Seq(Assets)
      /\ Len(Tail(tick)) = Len(tick) - 1 /\ Len(tick) \in Nat /\ Len(tick) > 0
  BY <1>1, HeadTailProperties, EmptySeq
<1>3. drawn' = drawn + 1 /\ drawn + Len(tick) <= MaxPrices
  BY DEF Submit, FeedInv, MainLoopOK
<1>4. /\ drawn' \in Nat /\ drawn' <= MaxPrices /\ drawn + 1 \in Prices
      /\ drawn' + Len(Tail(tick)) <= MaxPrices
  BY <1>1, <1>2, <1>3, SettlementAssumption DEF Prices
<1>5. l \in Load
  BY <1>2, <1>4 DEF Load
<1>6. /\ \/ SendOk(l) /\ tick' = Tail(tick) /\ UNCHANGED <<logs, fresh, batch>>
         \/ SendRefused(l) \/ SendLost(l) \/ SubmitStopped
      /\ UNCHANGED <<program, mined, contracts, starts>>
  BY DEF Submit
<1> HIDE DEF l
<1>7. CASE SendOk(l) /\ tick' = Tail(tick) /\ UNCHANGED <<logs, fresh, batch>>
  BY <1>1, <1>2, <1>4, <1>5, <1>6, <1>7, SentStep
<1>8. CASE SendRefused(l) \/ SendLost(l) \/ SubmitStopped
  BY <1>1, <1>4, <1>5, <1>6, <1>8, NotSentStep
<1> QED BY <1>6, <1>7, <1>8

LEMMA CollectStep == ASSUME FeedInv, Collect PROVE FeedInv'
<1>0. Transaction' = Transaction /\ Memory' = Memory /\ Relaying' = Relaying
  BY SameProgram DEF Collect
<1>1. /\ logs \in Seq(Message) /\ Len(logs) \in Nat /\ DOMAIN logs = 1 .. Len(logs)
      /\ \A i \in DOMAIN logs : logs[i] \in Message
  BY DEF FeedInv, TypeOK
<1>2. Cardinality(Taken) \in Nat
  <2>1. IsFiniteSet(1 .. Len(logs)) /\ Taken \in SUBSET (1 .. Len(logs))
    BY <1>1, FS_Interval DEF Taken
  <2> QED BY <2>1, FS_Subset, FS_CardinalityType
<1> DEFINE c == Cardinality(Taken)
<1>3. logs' = SubSeq(logs, c + 1, Len(logs))
  BY DEF Collect
<1>4. c \in Nat
  BY <1>2
<1> HIDE DEF c
<1>5. /\ logs' \in Seq(Message)
      /\ \A i \in DOMAIN logs' : i + c \in DOMAIN logs /\ logs'[i] = logs[i + c]
  <2>1. \A i \in c + 1 .. Len(logs) : logs[i] \in Message
    BY <1>1, <1>4
  <2>2. /\ logs' \in Seq(Message)
        /\ Len(logs') = IF c + 1 <= Len(logs) THEN Len(logs) - (c + 1) + 1 ELSE 0
        /\ \A i \in 1 .. Len(logs) - (c + 1) + 1 : logs'[i] = logs[c + 1 + i - 1]
    BY <1>1, <1>3, <1>4, <2>1, SubSeqProperties
  <2>3. ASSUME NEW i \in DOMAIN logs'
        PROVE  i + c \in DOMAIN logs /\ logs'[i] = logs[i + c]
    <3>1. i \in 1 .. Len(logs') /\ Len(logs') \in Nat
      BY <2>2
    <3>2. i \in 1 .. Len(logs) - (c + 1) + 1
      <4> DEFINE k == Len(logs')
                 n == Len(logs)
      <4>1. i \in 1 .. k /\ k \in Nat /\ n \in Nat /\ c \in Nat
            /\ k = IF c + 1 <= n THEN n - (c + 1) + 1 ELSE 0
        BY <1>1, <1>4, <2>2, <3>1
      <4> HIDE DEF k, n
      <4>2. i \in 1 .. n - (c + 1) + 1
        BY <4>1
      <4> QED BY <4>2 DEF n
    <3>3. c + 1 + i - 1 = i + c
      BY <1>4, <3>1
    <3>4. i + c \in 1 .. Len(logs)
      BY <1>1, <1>4, <3>2
    <3> QED BY <1>1, <2>2, <3>2, <3>3, <3>4
  <2> QED BY <2>2, <2>3
<1>6. /\ Passed \subseteq Message
      /\ \A e \in Passed : Told(e)
  BY <1>1 DEF Passed, Taken, FeedInv, MessagesTold
<1>7. fresh' \in [Assets -> Nat]
  <2>1. ASSUME NEW a \in Assets, \E e \in Passed : e.asset = a
        PROVE  Newest(Passed, a).seq \in Nat
    <3>1. Newest(Passed, a) \in Message
      BY <1>6, <2>1, NewestIsLatest DEF FeedInv
    <3> QED BY <3>1 DEF Message
  <2>2. fresh \in [Assets -> Nat]
    BY DEF FeedInv, TypeOK
  <2> QED BY <2>1, <2>2 DEF Collect
<1> DEFINE where == IF Passed = {} THEN "select" ELSE "send"
<1>8. run' = [run EXCEPT !.at = where] /\ where \in {"select", "send"}
  BY DEF Collect
<1> HIDE DEF where
<1>9. /\ run' \in Memory /\ run'.pending = run.pending /\ run'.nonce = run.nonce
      /\ run'.at \in {"select", "send"}
  BY <1>8 DEF FeedInv, TypeOK, Memory
<1>10. TypeOK'
  BY <1>0, <1>5, <1>6, <1>7, <1>9 DEF FeedInv, TypeOK, Collect, contracts
<1>11. MainLoopOK'
  BY <1>0, <1>9 DEF FeedInv, MainLoopOK, Collect
<1>12. MessagesTold'
  <2>1. announced' = announced /\ pool' = pool /\ batch' = Passed
    BY DEF Collect, contracts
  <2>2. \A i \in DOMAIN logs' : Told(logs[i])'
    BY <1>5, <2>1 DEF FeedInv, MessagesTold, Told
  <2>3. \A e \in batch' : Told(e)'
    BY <1>6, <2>1 DEF Told
  <2>4. Relaying => \A t \in pool' : \A e \in t.load : Told(e)'
    BY <2>1 DEF FeedInv, MessagesTold, Told
  <2> QED BY <1>0, <2>2, <2>3, <2>4 DEF MessagesTold
<1> QED BY <1>10, <1>11, <1>12 DEF FeedInv

LEMMA DeliverStep == ASSUME FeedInv, Deliver PROVE FeedInv'
<1>0. Transaction' = Transaction /\ Memory' = Memory /\ Relaying' = Relaying
  BY SameProgram DEF Deliver
<1>1. Relaying /\ up /\ batch \in Load /\ (\A e \in batch : Told(e))
  BY DEF Deliver, At, FeedInv, TypeOK, MessagesTold, Load
<1>2. /\ tick = <<>> /\ tick \in Seq(Assets) /\ drawn \in Nat
      /\ drawn + Len(tick) <= MaxPrices /\ drawn <= MaxPrices
      /\ UNCHANGED <<program, mined, contracts, drawn, starts>>
  BY Counters DEF Deliver, FeedInv, TypeOK, MainLoopOK
<1>3. CASE SendOk(batch) /\ batch' = {} /\ UNCHANGED <<tick, logs, fresh>>
  BY <1>1, <1>2, <1>3, SentStep
<1>4. CASE SendRefused(batch) \/ SendLost(batch)
  BY <1>1, <1>2, <1>4, NotSentStep
<1>5. CASE DeliverStopped
  <2>1. pool' = pool \/ Replace(Tx(batch))
    BY <1>5 DEF DeliverStopped
  <2>2. pool' \subseteq Transaction /\ \A t \in pool' : \A e \in t.load : Told(e)
    BY <1>1, <2>1, Counters, ReplaceStep
  <2>3. /\ run' \in Memory /\ run'.pending = run.pending /\ run'.nonce = run.nonce
        /\ run'.at = "select"
    BY <1>5 DEF DeliverStopped, FeedInv, TypeOK, Memory
  <2>4. TypeOK'
    BY <1>0, <1>2, <1>5, <2>2, <2>3 DEF DeliverStopped, FeedInv, TypeOK, contracts
  <2>5. MainLoopOK'
    BY <1>0, <1>2, <1>5, <2>3 DEF DeliverStopped, FeedInv, MainLoopOK
  <2>6. MessagesTold'
    BY <1>0, <1>2, <1>5, <2>2 DEF DeliverStopped, FeedInv, MessagesTold, Told, contracts
  <2> QED BY <2>4, <2>5, <2>6 DEF FeedInv
<1> QED BY <1>3, <1>4, <1>5 DEF Deliver

-----------------------------------------------------------------------------
LEMMA FeedInit == Init => FeedInv
<1> SUFFICES ASSUME Init PROVE FeedInv
  OBVIOUS
<1>1. <<>> \in Seq(Assets) /\ <<>> \in Seq(Message) /\ <<>> \in Seq(Prices) /\ Len(<<>>) = 0
      /\ <<>> \in Seq([tx : Transaction, ok : BOOLEAN]) /\ DOMAIN <<>> = {}
  BY EmptySeq
<1>2. TypeOK
  <2>1. run \in Memory /\ Len(run.pending) <= InFlight
    BY IdleType, SettlementAssumption DEF Init
  <2>2. announced \in [Assets -> Seq(Prices)] /\ fresh \in [Assets -> Nat]
    BY <1>1 DEF Init, Stale
  <2>3. stored \in [Assets -> [seq : Nat, price : Prices \union {0}]]
    BY DEF Init
  <2> QED BY <1>1, <2>1, <2>2, <2>3 DEF Init, TypeOK
<1>3. MainLoopOK
  BY <1>1, SettlementAssumption DEF Init, Idle, MainLoopOK
<1>4. MessagesTold
  BY <1>1 DEF Init, MessagesTold
<1> QED BY <1>2, <1>3, <1>4 DEF FeedInv

LEMMA FeedStep == FeedInv /\ [Next]_vars => FeedInv'
<1> SUFFICES ASSUME FeedInv, [Next]_vars PROVE FeedInv'
  OBVIOUS
<1>1. CASE MainLoop
  <2>1. ~Relaying <=> program # "relay"
    BY DEF Relaying
  <2>2. CASE OracleLoop \/ DirectLoop
    BY <2>1, <2>2, TickStep, SubmitStep DEF OracleLoop, DirectLoop
  <2> QED BY <1>1, <2>2, StopStep, EnqueueStep, CollectStep, DeliverStep DEF MainLoop
<1>2. CASE Helper
  BY <1>2, SignalStep
<1>3. CASE Environment
  <2>1. CASE Relay \/ feedOracleChain \/ feedDirect
    BY <2>1, BeginStep DEF Relay, feedOracleChain, feedDirect
  <2>2. CASE \E a \in Assets : Announce(a)
    BY <2>2, AnnounceStep
  <2> QED BY <1>3, <2>1, <2>2, MineOkStep, ChainLosesStep, RedeliverStep,
             StopStep, SignalStep DEF Environment
<1>4. CASE UNCHANGED vars
  <2>1. UNCHANGED <<program, pool, mined, contracts, work>>
    BY <1>4 DEF vars, contracts, work
  <2>2. UNCHANGED <<up, hidden, drawn, starts, faults, run>>
    BY <1>4 DEF vars
  <2> QED BY <2>1, <2>2, QuietStep DEF FeedInv, TypeOK, MainLoopOK
<1> QED BY <1>1, <1>2, <1>3, <1>4 DEF Next

LEMMA FeedAlways == Spec => []FeedInv
BY FeedInit, FeedStep, PTL DEF Spec

\* The shapes of the settlement feed's state, and the capacity of the channel
\* to the confirmer (relay.go:166).
THEOREM SettlementTypeCorrect == Spec => []TypeOK
<1>1. FeedInv => TypeOK
  BY DEF FeedInv
<1> QED BY FeedAlways, <1>1, PTL

-----------------------------------------------------------------------------
(* fail() stores the error before it cancels.                              *)
FailureKnown == ~hidden /\ (run.failed => run.error)

LEMMA FailureStep ==
  ASSUME FeedInv, FailureKnown, [Next]_vars
  PROVE  FailureKnown'
<1>0. run \in Memory
  BY DEF FeedInv, TypeOK
<1>1. ASSUME NEW how, End(how), how = "clean" => ~run.error PROVE FailureKnown'
  BY <1>1 DEF End, FailureKnown, Idle
<1>2. ASSUME hidden' = hidden, run'.failed = run.failed, run'.error = run.error
      PROVE  FailureKnown'
  BY <1>2 DEF FailureKnown
<1>3. ASSUME hidden' = hidden,
             NEW h \in {"confirmer", "poller"}, FailOrReturn(h)
      PROVE  FailureKnown'
  <2>1. CASE h = "confirmer"
    <3>1. \/ run' = [run EXCEPT !.confirmer = "gone"]
          \/ run' = [run EXCEPT !.error = TRUE, !.failed = TRUE, !.confirmer = "failing"]
      BY <1>3, <2>1 DEF FailOrReturn, Fail
    <3> QED BY <3>1, <1>0, <1>3 DEF FailureKnown, Memory
  <2>2. CASE h = "poller"
    <3>1. \/ run' = [run EXCEPT !.poller = "gone"]
          \/ run' = [run EXCEPT !.error = TRUE, !.failed = TRUE, !.poller = "failing"]
      BY <1>3, <2>2 DEF FailOrReturn, Fail
    <3> QED BY <3>1, <1>0, <1>3 DEF FailureKnown, Memory
  <2> QED BY <2>1, <2>2
<1>4. ASSUME NEW l, SendOk(l) PROVE FailureKnown'
  <2>1. hidden' = hidden
    BY <1>4 DEF SendOk
  <2>2. run' = [run EXCEPT !.at = "enqueue", !.item = Tx(l), !.nonce = run.nonce + 1]
    BY <1>4 DEF SendOk
  <2>3. run'.failed = run.failed /\ run'.error = run.error
    BY <2>2, <1>0 DEF Memory
  <2> QED BY <2>1, <2>3, <1>2
<1>5. CASE MainLoop
  <2>1. CASE SelectStop
    BY <2>1, <1>1 DEF SelectStop, Drain
  <2>2. CASE EnqueueStop
    BY <2>2, <1>1 DEF EnqueueStop, Drain
  <2>3. CASE Enqueue
    BY <2>3, <1>0, <1>2 DEF Enqueue, Memory
  <2>4. CASE Tick
    BY <2>4, <1>0, <1>2 DEF Tick, Memory
  <2>5. CASE Submit
    BY <2>5, <1>1, <1>4 DEF Submit, SendRefused, SendLost, SubmitStopped
  <2>6. CASE Collect
    BY <2>6, <1>0, <1>2 DEF Collect, Memory
  <2>7. CASE Deliver
    <3>1. CASE DeliverStopped
      BY <3>1, <1>0, <1>2 DEF DeliverStopped, Memory
    <3> QED BY <2>7, <3>1, <1>1, <1>4 DEF Deliver, SendRefused, SendLost
  <2> QED BY <1>5, <2>1, <2>2, <2>3, <2>4, <2>5, <2>6, <2>7
          DEF MainLoop, OracleLoop, DirectLoop
<1>6. CASE Helper
  <2>1. CASE TakePending
    <3>1. hidden' = hidden
      BY <2>1 DEF TakePending
    <3>2. run' = [run EXCEPT !.confirming = Head(run.pending), !.pending = Tail(run.pending)]
      BY <2>1 DEF TakePending
    <3>3. run'.failed = run.failed /\ run'.error = run.error
      BY <3>2, <1>0 DEF Memory
    <3> QED BY <3>1, <3>3, <1>2
  <2>2. CASE WaitReceipt
    <3>1. hidden' = hidden
      BY <2>2 DEF WaitReceipt
    <3>2. CASE run' = [run EXCEPT !.confirming = NoTx]
      BY <3>1, <3>2, <1>0, <1>2 DEF Memory
    <3> QED BY <2>2, <3>1, <3>2, <1>3 DEF WaitReceipt
  <2>3. ASSUME NEW h \in {"confirmer", "poller"}, Cancel(h) PROVE FailureKnown'
    <3>1. hidden' = hidden
      BY <2>3 DEF Cancel
    <3>2. \/ run' = [run EXCEPT !.halted = TRUE, !.confirmer = "gone"]
          \/ run' = [run EXCEPT !.halted = TRUE, !.poller = "gone"]
      BY <2>3 DEF Cancel
    <3>3. run'.failed = run.failed /\ run'.error = run.error
      BY <3>2, <1>0 DEF Memory
    <3> QED BY <3>1, <3>3, <1>2
  <2> QED BY <1>6, <2>1, <2>2, <2>3 DEF Helper, confirmDeliveries, confirmSubmissions
<1>7. CASE Environment
  <2>1. CASE MineOk \/ MineReverted \/ Install \/ Redeliver \/ \E a \in Assets : Announce(a)
    BY <2>1, <1>2 DEF MineOk, MineReverted, Install, Redeliver, Announce
  <2>2. CASE LoseTx
    BY <2>2, <1>0, <1>2 DEF LoseTx, Memory
  <2>3. CASE SubscriptionFails \/ Crash
    BY <2>3, <1>1 DEF SubscriptionFails, Crash
  <2>4. CASE pollMainPrices \/ pollOnChainPrices
    BY <2>4, <1>3 DEF pollMainPrices, pollOnChainPrices, PollFails
  <2>5. CASE Begin
    <3>1. run' = [Idle EXCEPT !.nonce = StartNonce] /\ hidden' = hidden
      BY <2>5 DEF Begin
    <3> QED BY <3>1 DEF Idle, FailureKnown
  <2>6. CASE Interrupt
    BY <2>6, <1>0, <1>2 DEF Interrupt, Memory
  <2> QED BY <1>7, <2>1, <2>2, <2>3, <2>4, <2>5, <2>6
          DEF Environment, Relay, feedOracleChain, feedDirect
<1>8. CASE UNCHANGED vars
  BY <1>8, <1>2 DEF vars
<1> QED BY <1>5, <1>6, <1>7, <1>8 DEF Next

\* A run that failed never ends like an ordinary shutdown (relay.go:168, :240).
THEOREM FailuresAreSeen == Spec => []NoSilentFailure
<1>1. Init => FailureKnown
  BY DEF Init, FailureKnown, Idle
<1>2. FeedInv /\ FailureKnown /\ [Next]_vars => FailureKnown'
  BY FailureStep
<1>3. FailureKnown => NoSilentFailure
  BY DEF FailureKnown, NoSilentFailure
<1> QED BY FeedAlways, <1>1, <1>2, <1>3, PTL DEF Spec

-----------------------------------------------------------------------------
(* Behind the latest mined nonce a run finds the mempool as it left it.    *)

\* A step that touches neither the mempool nor what the run counts.
LEMMA GapKept ==
  ASSUME NoGapUnderRun, UNCHANGED <<pool, mined, up>>,
         run'.gap = run.gap, run'.nonce = run.nonce
  PROVE  NoGapUnderRun'
BY DEF NoGapUnderRun, Frontier, Queued

LEMMA GapMined ==
  ASSUME FeedInv, NoGapUnderRun, MineOk \/ MineReverted
  PROVE  NoGapUnderRun'
<1>1. PICK t \in Queued(Frontier) :
        pool' = pool \ {t} /\ \E r : mined' = Append(mined, r)
  BY DEF MineOk, MineReverted
<1>2. t.nonce = Frontier /\ UNCHANGED <<up, run>>
  BY <1>1 DEF Queued, MineOk, MineReverted
<1>3. Len(mined) \in Nat /\ Len(mined') = Len(mined) + 1
  BY <1>1 DEF FeedInv, TypeOK
<1>4. Frontier \in Nat /\ Frontier' = Frontier + 1 /\ run.nonce \in Nat
  BY <1>3 DEF Frontier, FeedInv, TypeOK, Memory
<1>5. ASSUME up, ~run.gap, NEW n \in Frontier' .. run.nonce - 1
      PROVE  {x \in pool' : x.nonce = n} # {}
  <2>1. n \in Frontier .. run.nonce - 1 /\ n # Frontier
    BY <1>4
  <2>2. PICK x \in pool : x.nonce = n
    BY <1>5, <2>1 DEF NoGapUnderRun, Queued
  <2>3. x # t
    BY <1>2, <2>1, <2>2
  <2> QED BY <1>1, <2>2, <2>3
<1> QED BY <1>2, <1>5 DEF NoGapUnderRun, Queued

\* One transaction of the run's nonce takes the place of another.
LEMMA GapReplaced ==
  ASSUME FeedInv, NoGapUnderRun, NEW l, Replace(Tx(l)), mined' = mined
  PROVE  up /\ ~run.gap => \A n \in Frontier .. run.nonce : {x \in pool' : x.nonce = n} # {}
<1>1. /\ pool' = (pool \ Queued(Tx(l).nonce)) \union {Tx(l)}
      /\ Tx(l).nonce = run.nonce
  BY DEF Replace, Tx
<1>2. run.nonce \in Nat /\ Frontier \in Nat
  BY DEF FeedInv, TypeOK, Memory, Frontier
<1>3. ASSUME up, ~run.gap, NEW n \in Frontier .. run.nonce
      PROVE  {x \in pool' : x.nonce = n} # {}
  <2>1. CASE n = run.nonce
    BY <1>1, <2>1
  <2>2. CASE n # run.nonce
    <3>1. n \in Frontier .. run.nonce - 1
      BY <1>2, <2>2
    <3>2. PICK x \in pool : x.nonce = n
      BY <1>3, <3>1 DEF NoGapUnderRun, Queued
    <3>3. x \in pool'
      BY <1>1, <2>2, <3>2 DEF Queued
    <3> QED BY <3>2, <3>3
  <2> QED BY <2>1, <2>2
<1> QED BY <1>3

LEMMA GapSent ==
  ASSUME FeedInv, NoGapUnderRun, NEW l, SendOk(l), mined' = mined
  PROVE  NoGapUnderRun'
<1>1. /\ Replace(Tx(l)) /\ up' = up
      /\ run' = [run EXCEPT !.at = "enqueue", !.item = Tx(l), !.nonce = run.nonce + 1]
  BY DEF SendOk
<1>2. run \in Memory /\ run.nonce \in Nat
  BY DEF FeedInv, TypeOK, Memory
<1>3. run'.gap = run.gap /\ run'.nonce = run.nonce + 1
  BY <1>1, <1>2 DEF Memory
<1>4. Frontier' = Frontier /\ Frontier \in Nat
  BY DEF Frontier, FeedInv, TypeOK
<1>5. up /\ ~run.gap => \A n \in Frontier .. run.nonce : {x \in pool' : x.nonce = n} # {}
  BY <1>1, GapReplaced
<1>6. run'.nonce - 1 = run.nonce
  BY <1>2, <1>3
<1> QED BY <1>1, <1>3, <1>4, <1>5, <1>6 DEF NoGapUnderRun, Queued

LEMMA GapStopped ==
  ASSUME FeedInv, NoGapUnderRun, DeliverStopped, mined' = mined
  PROVE  NoGapUnderRun'
<1>1. up' = up /\ run' = [run EXCEPT !.at = "select"] /\ (pool' = pool \/ Replace(Tx(batch)))
  BY DEF DeliverStopped
<1>2. run'.gap = run.gap /\ run'.nonce = run.nonce /\ run.nonce \in Nat
  BY <1>1 DEF FeedInv, TypeOK, Memory
<1>3. Frontier' = Frontier /\ Frontier \in Nat
  BY DEF Frontier, FeedInv, TypeOK
<1>4. CASE pool' = pool
  BY <1>1, <1>2, <1>4, GapKept
<1>5. CASE Replace(Tx(batch))
  <2>1. up /\ ~run.gap => \A n \in Frontier .. run.nonce : {x \in pool' : x.nonce = n} # {}
    BY <1>5, GapReplaced
  <2>2. \A n \in Frontier .. run.nonce - 1 : n \in Frontier .. run.nonce
    BY <1>2, <1>3
  <2> QED BY <1>1, <1>2, <1>3, <2>1, <2>2 DEF NoGapUnderRun, Queued
<1> QED BY <1>1, <1>4, <1>5

LEMMA GapStep ==
  ASSUME FeedInv, NoGapUnderRun, [Next]_vars
  PROVE  NoGapUnderRun'
<1>0. run \in Memory
  BY DEF FeedInv, TypeOK
<1>1. ASSUME NEW how, End(how) PROVE NoGapUnderRun'
  BY <1>1 DEF End, NoGapUnderRun
<1>2. ASSUME NEW h \in {"confirmer", "poller"}, FailOrReturn(h)
      PROVE  run'.gap = run.gap /\ run'.nonce = run.nonce
  <2>1. \/ run' = [run EXCEPT !.confirmer = "gone"]
        \/ run' = [run EXCEPT !.poller = "gone"]
        \/ run' = [run EXCEPT !.error = TRUE, !.failed = TRUE, !.confirmer = "failing"]
        \/ run' = [run EXCEPT !.error = TRUE, !.failed = TRUE, !.poller = "failing"]
    BY <1>2 DEF FailOrReturn, Fail
  <2> QED BY <2>1, <1>0 DEF Memory
<1>3. CASE MainLoop
  <2>1. CASE SelectStop \/ EnqueueStop
    BY <2>1, <1>1 DEF SelectStop, EnqueueStop, Drain
  <2>2. CASE Enqueue
    BY <2>2, <1>0, GapKept DEF Enqueue, Memory
  <2>3. CASE Tick
    BY <2>3, <1>0, GapKept DEF Tick, Memory
  <2>4. CASE Submit
    BY <2>4, <1>1, GapSent DEF Submit, SendRefused, SendLost, SubmitStopped
  <2>5. CASE Collect
    BY <2>5, <1>0, GapKept DEF Collect, Memory
  <2>6. CASE Deliver
    BY <2>6, <1>1, GapSent, GapStopped DEF Deliver, SendRefused, SendLost
  <2> QED BY <1>3, <2>1, <2>2, <2>3, <2>4, <2>5, <2>6 DEF MainLoop, OracleLoop, DirectLoop
<1>4. CASE Helper
  <2>1. UNCHANGED <<pool, mined, up>>
    BY <1>4 DEF Helper, TakePending, confirmDeliveries, confirmSubmissions,
                WaitReceipt, Cancel
  <2>2. run'.gap = run.gap /\ run'.nonce = run.nonce
    <3>1. CASE TakePending
      <4>1. run' = [run EXCEPT !.confirming = Head(run.pending), !.pending = Tail(run.pending)]
        BY <3>1 DEF TakePending
      <4> QED BY <4>1, <1>0 DEF Memory
    <3>2. CASE WaitReceipt
      <4>1. CASE run' = [run EXCEPT !.confirming = NoTx]
        BY <4>1, <1>0 DEF Memory
      <4> QED BY <3>2, <4>1, <1>2 DEF WaitReceipt
    <3>3. ASSUME NEW h \in {"confirmer", "poller"}, Cancel(h)
          PROVE  run'.gap = run.gap /\ run'.nonce = run.nonce
      <4>1. \/ run' = [run EXCEPT !.halted = TRUE, !.confirmer = "gone"]
            \/ run' = [run EXCEPT !.halted = TRUE, !.poller = "gone"]
        BY <3>3 DEF Cancel
      <4> QED BY <4>1, <1>0 DEF Memory
    <3> QED BY <1>4, <3>1, <3>2, <3>3 DEF Helper, confirmDeliveries, confirmSubmissions
  <2> QED BY <2>1, <2>2, GapKept
<1>5. CASE Environment
  <2>1. CASE MineOk \/ MineReverted
    BY <2>1, GapMined
  <2>2. CASE Install \/ Redeliver \/ \E a \in Assets : Announce(a)
    BY <2>2, GapKept DEF Install, Redeliver, Announce
  <2>3. CASE LoseTx
    <3>1. run' = [run EXCEPT !.gap = up] /\ up' = up
      BY <2>3 DEF LoseTx
    <3>2. run'.gap = up
      BY <3>1, <1>0 DEF Memory
    <3> QED BY <3>1, <3>2 DEF NoGapUnderRun
  <2>4. CASE SubscriptionFails \/ Crash
    BY <2>4, <1>1 DEF SubscriptionFails, Crash
  <2>5. CASE pollMainPrices \/ pollOnChainPrices
    BY <2>5, <1>2, GapKept DEF pollMainPrices, pollOnChainPrices, PollFails
  <2>6. CASE Begin
    <3>1. run' = [Idle EXCEPT !.nonce = Frontier] /\ mined' = mined
      BY <2>6 DEF Begin, StartNonce
    <3>2. run'.nonce = Frontier /\ Frontier' = Frontier /\ Frontier \in Nat
      BY <3>1 DEF Idle, Frontier, FeedInv, TypeOK
    <3>3. Frontier' .. run'.nonce - 1 = {}
      BY <3>2
    <3> QED BY <3>3 DEF NoGapUnderRun
  <2>7. CASE Interrupt
    BY <2>7, <1>0, GapKept DEF Interrupt, Memory
  <2> QED BY <1>5, <2>1, <2>2, <2>3, <2>4, <2>5, <2>6, <2>7
          DEF Environment, Relay, feedOracleChain, feedDirect
<1>6. CASE UNCHANGED vars
  BY <1>6, GapKept DEF vars
<1> QED BY <1>3, <1>4, <1>5, <1>6 DEF Next

\* Between the latest mined nonce and the nonce of the run, the mempool has a
\* transaction for every nonce, unless one was lost meanwhile (relay.go:127,
\* feed.go:304).
THEOREM NoGapIsLeft == Spec => []NoGapUnderRun
<1>1. Init => NoGapUnderRun
  BY DEF Init, NoGapUnderRun
<1>2. FeedInv /\ NoGapUnderRun /\ [Next]_vars => NoGapUnderRun'
  BY GapStep
<1> QED BY FeedAlways, <1>1, <1>2, PTL DEF Spec

-----------------------------------------------------------------------------
(* The contracts implement the register.                                   *)
LEMMA AnnounceIsAnnounce ==
  ASSUME TypeOK, NEW a \in Assets, NEW p \in Prices, SubmitPrice(a, p)
  PROVE  Register!Next
<1>1. Register!Announce(a, p)
  BY DEF SubmitPrice, Register!Announce
<1> QED BY <1>1 DEF Register!Next

LEMMA ReceiveIsAdopt ==
  ASSUME TypeOK, NEW load \in SUBSET Message, \A e \in load : Told(e),
         ReceivePrices(load)
  PROVE  Register!Next
<1>1. /\ announced' = announced
      /\ stored' \in [Assets -> [seq : Nat, price : Prices \union {0}]]
      /\ \A a \in Assets :
           \/ stored'[a] = stored[a]
           \/ \E e \in load : /\ e.asset = a /\ e.seq > stored[a].seq
                              /\ stored'[a] = [seq |-> e.seq, price |-> e.price]
  BY ReceiveMoves
<1>2. ASSUME NEW a \in Assets PROVE Register!Keeps(a) \/ Register!Advances(a)
  <2>1. CASE stored'[a] = stored[a]
    BY <2>1 DEF Register!Keeps
  <2>2. ASSUME NEW e \in load, e.asset = a, e.seq > stored[a].seq,
               stored'[a] = [seq |-> e.seq, price |-> e.price]
        PROVE  Register!Advances(a)
    <3>1. e.seq \in DOMAIN announced[a] /\ e.price = announced[a][e.seq]
      BY <2>2 DEF Told
    <3> QED BY <2>2, <3>1 DEF Register!Advances
  <2> QED BY <1>1, <2>1, <2>2
<1>3. Register!Adopt
  BY <1>1, <1>2 DEF Register!Adopt
<1> QED BY <1>3 DEF Register!Next

LEMMA RegisterStep ==
  ASSUME FeedInv, [Next]_vars
  PROVE  [Register!Next]_<<announced, stored>>
<1>0. TypeOK
  BY DEF FeedInv
<1>1. CASE MineOk
  <2>1. PICK t \in pool :
          \/ Relaying /\ ReceivePrices(t.load)
          \/ ~Relaying /\ SubmitPrice(t.load.asset, t.load.price)
          \/ UNCHANGED <<announced, stored>>
    BY <1>1 DEF MineOk, Queued, SubmitRound, Relaying
  <2>2. CASE Relaying /\ ReceivePrices(t.load)
    <3>1. t.load \in SUBSET Message /\ \A e \in t.load : Told(e)
      BY <2>2, OnTheWay DEF FeedInv, MessagesTold
    <3> QED BY <1>0, <2>2, <3>1, ReceiveIsAdopt
  <2>3. CASE ~Relaying /\ SubmitPrice(t.load.asset, t.load.price)
    <3>1. t.load.asset \in Assets /\ t.load.price \in Prices
      BY <2>3, OnTheWay
    <3> QED BY <1>0, <2>3, <3>1, AnnounceIsAnnounce
  <2> QED BY <2>1, <2>2, <2>3
<1>2. ASSUME NEW a \in Assets, Announce(a) PROVE Register!Next
  <2>1. drawn' \in Prices /\ SubmitPrice(a, drawn')
    BY <1>2, Counters, SettlementAssumption DEF Announce, Prices
  <2>2. PICK p \in Prices : p = drawn'
    BY <2>1
  <2> QED BY <1>0, <2>1, <2>2, AnnounceIsAnnounce
<1>3. CASE MainLoop \/ Helper
  <2>1. UNCHANGED contracts
    BY <1>3 DEF MainLoop, Helper, SelectStop, Enqueue, EnqueueStop, OracleLoop,
                DirectLoop, Tick, Submit, Collect, Deliver, TakePending,
                confirmDeliveries, confirmSubmissions, WaitReceipt, Cancel
  <2> QED BY <2>1 DEF contracts
<1>4. CASE UNCHANGED <<announced, stored>>
  BY <1>4
<1>5. CASE Environment
  BY <1>1, <1>2, <1>4, <1>5
     DEF Environment, MineReverted, LoseTx, Install, Redeliver,
         SubscriptionFails, pollMainPrices, pollOnChainPrices, PollFails,
         Relay, feedOracleChain, feedDirect, Begin, Crash, Interrupt, contracts
<1> QED BY <1>3, <1>4, <1>5 DEF Next, vars

\* What the receiver shows was announced under that number, and it only moves
\* on, whatever order batches are mined in (PriceFeedReceiver.sol:63).
THEOREM SettlementImplementsRegister == Spec => ImplementsRegister
<1>1. Init => Register!Init
  BY DEF Init, Register!Init, Register!NoPrice
<1>2. FeedInv /\ [Next]_vars => [Register!Next]_<<announced, stored>>
  BY RegisterStep
<1> QED BY FeedAlways, <1>1, <1>2, PTL DEF Spec, ImplementsRegister, Register!Spec

=============================================================================
