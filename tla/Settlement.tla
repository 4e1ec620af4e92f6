----------------------------- MODULE Settlement ------------------------------
(***************************************************************************)
(* The settlement feed (apps/settlement-feed/internal/oraclerelay): a feed *)
(* submits prices in transactions of one account; with an oracle L1 they   *)
(* go to an aggregator there, whose Warp broadcasts a relay packs into     *)
(* batches for a receiver on the main L1; without one they go straight to  *)
(* an aggregator on the main L1.                                           *)
(*                                                                         *)
(* All three programs have one shape: a main loop that counts nonces by    *)
(* itself and hands what it sent to a confirmer over a bounded channel; a  *)
(* confirmer that waits for one receipt after the other; a poller; and     *)
(* fail(), by which the two end the main loop.  Any failure ends the       *)
(* program.  It may be killed anywhere; the next run starts at the latest  *)
(* mined nonce, over what the last one left in the mempool.  They meet in  *)
(* the contracts only: to the relay, a feed is announcements at any time.  *)
(***************************************************************************)
EXTENDS Integers, Sequences, FiniteSets, Functions

CONSTANTS
  KnownAssets,  \* the assets of an oracle feed, in the order of a tick
  DirectAssets, \* those of a feed without an oracle L1
  InFlight,     \* maxInFlight, the capacity of the channel to the confirmer
  BatchSize,    \* maxBatchSize
  MaxPrices,    \* bound: prices drawn
  MaxStarts,    \* bound: starts of the program
  MaxFaults     \* bound: lost calls, lost transactions, reverts, repeated logs

Assets == Range(KnownAssets) \union Range(DirectAssets)
Prices == 1 .. MaxPrices

ASSUME SettlementAssumption ==
  /\ KnownAssets \in Seq(Assets) \ {<<>>} /\ DirectAssets \in Seq(Assets) \ {<<>>}
  /\ InFlight \in Nat \ {0} /\ BatchSize \in Nat \ {0}
  /\ MaxPrices \in Nat /\ MaxStarts \in Nat /\ MaxFaults \in Nat

Programs == {"oracle feed", "direct feed", "relay"}

VARIABLES
  program,    \* which of the three
  pool,       \* the feeder's transactions in the mempools
  installed,  \* whether the main L1 has the app's contracts
  mined,      \* those mined, in order, with their status
  announced,  \* the aggregator: asset -> prices by sequence number or round
  stored,     \* the receiver: asset -> sequence number and price
  up,         \* whether the program runs
  run,        \* the memory its goroutines share
  tick,       \* the feed: assets still to submit in this tick
  logs,       \* the relay: the channel of the log subscription
  fresh,      \* the relay: freshnessGate, asset -> sequence number
  batch,      \* the relay: the messages being delivered
  hidden,     \* observes: a run that failed ended like a shutdown
  drawn,      \* prices drawn so far
  starts,     \* starts so far
  faults      \* faults so far

contracts == <<installed, announced, stored>>
work == <<tick, logs, fresh, batch>>
vars == <<program, installed, pool, mined, announced, stored, up, run, tick,
          logs, fresh, batch, hidden, drawn, starts, faults>>

NoTx == [nonce |-> 0, load |-> {}]

\* at: the select of the main loop, the send, or the hand-over to pending.
\* item: sent, not yet handed over.  confirming: what the confirmer awaits.
\* halted: the context is cancelled.  error: confirmErr holds one.
\* stopped: the operator interrupted the run.  failed, gap (observed only): a
\* helper met a failure; a transaction was lost from the mempool meanwhile.
Idle == [at |-> "select", nonce |-> 0, item |-> NoTx, pending |-> <<>>,
         confirming |-> NoTx, halted |-> FALSE, error |-> FALSE,
         confirmer |-> "works", poller |-> "works",
         stopped |-> FALSE, failed |-> FALSE, gap |-> FALSE]

Stale == [a \in Assets |-> 0]

Relaying == program = "relay"
Feeding == IF program = "direct feed" THEN DirectAssets ELSE KnownAssets

At(place) == up /\ run.at = place
Works(helper) == up /\ run[helper] = "works"

Fault == faults < MaxFaults /\ faults' = faults + 1

-----------------------------------------------------------------------------
(* The contracts, and the account that calls them: one transaction per     *)
(* nonce in the pool, mined in order.                                      *)

Frontier == Len(mined) + 1

Queued(n) == {t \in pool : t.nonce = n}

Event(a, n) == [asset |-> a, price |-> announced[a][n], seq |-> n]

\* PriceFeedAggregator: the price gets the asset's next sequence number.
SubmitPrice(a, p) ==
  /\ announced' = [announced EXCEPT ![a] = Append(@, p)]
  /\ UNCHANGED stored

\* PriceAggregator: the price is the next round.
SubmitRound(a, p) == SubmitPrice(a, p)

Newest(load, a) ==
  CHOOSE e \in load : /\ e.asset = a
                      /\ \A f \in load : f.asset = a => f.seq <= e.seq

\* Mutated ReceivePrices: an entry is stored though a later one is there.
ReceiveAnyPrices(load) ==
  /\ stored' = [a \in Assets |->
       IF \E e \in load : e.asset = a
       THEN [seq |-> Newest(load, a).seq, price |-> Newest(load, a).price]
       ELSE stored[a]]
  /\ UNCHANGED announced

\* Entry by entry, a stale one is skipped and the rest of the batch lands.
ReceivePrices(load) ==
  /\ stored' = [a \in Assets |->
       IF \E e \in load : e.asset = a /\ e.seq > stored[a].seq
       THEN [seq |-> Newest(load, a).seq, price |-> Newest(load, a).price]
       ELSE stored[a]]
  /\ UNCHANGED announced

\* A call to an address without code succeeds and does nothing.
MineOk ==
  \E t \in Queued(Frontier) :
    /\ mined' = Append(mined, [tx |-> t, ok |-> TRUE])
    /\ pool' = pool \ {t}
    /\ \/ Relaying /\ installed /\ ReceivePrices(t.load)
       \/ program = "oracle feed" /\ SubmitPrice(t.load.asset, t.load.price)
       \/ program = "direct feed" /\ installed /\ SubmitRound(t.load.asset, t.load.price)
       \/ program # "oracle feed" /\ ~installed /\ UNCHANGED <<announced, stored>>
    /\ UNCHANGED <<program, installed, up, run, work, hidden, drawn, starts, faults>>

\* A batch whose Warp signatures the main L1 does not accept, for one.
MineReverted ==
  \E t \in Queued(Frontier) :
    /\ Fault
    /\ mined' = Append(mined, [tx |-> t, ok |-> FALSE])
    /\ pool' = pool \ {t}
    /\ UNCHANGED <<program, contracts, up, run, work, hidden, drawn, starts>>

\* The app comes with an upgrade, see fleet upgrade.
Install ==
  /\ ~installed
  /\ installed' = TRUE
  /\ UNCHANGED <<program, pool, mined, announced, stored, up, run, work, hidden,
                 drawn, starts, faults>>

\* The node that held it restarts, or evicts it.
LoseTx ==
  \E t \in pool :
    /\ Fault
    /\ pool' = pool \ {t}
    /\ run' = [run EXCEPT !.gap = up]
    /\ UNCHANGED <<program, mined, contracts, up, work, hidden, drawn, starts>>

\* To the relay: the feed submits, and the Warp broadcast reaches the relay
\* that is subscribed.
Announce(a) ==
  /\ Relaying
  /\ drawn < MaxPrices
  /\ drawn' = drawn + 1
  /\ SubmitPrice(a, drawn')
  /\ logs' = IF up THEN Append(logs, [asset |-> a, price |-> drawn',
                                      seq |-> Len(announced'[a])])
                   ELSE logs
  /\ UNCHANGED <<program, installed, pool, mined, up, run, tick, fresh, batch,
                 hidden, starts, faults>>

\* A log is delivered twice.
Redeliver ==
  /\ Relaying /\ up
  /\ Fault
  /\ \E a \in Assets : \E n \in DOMAIN announced[a] :
       logs' = Append(logs, Event(a, n))
  /\ UNCHANGED <<program, pool, mined, contracts, up, run, tick, fresh, batch,
                 hidden, drawn, starts>>

-----------------------------------------------------------------------------
(* A run begins and ends.                                                  *)

\* Mutated StartNonce: behind what is queued.
StartPendingNonce ==
  CHOOSE n \in Frontier .. Frontier + MaxPrices + 1 :
    /\ \A t \in pool : t.nonce < n
    /\ n = Frontier \/ Queued(n - 1) # {}

\* The latest mined nonce, not the pending one.
StartNonce == Frontier

Begin ==
  /\ ~up
  /\ starts < MaxStarts
  /\ starts' = starts + 1
  /\ up' = TRUE
  /\ run' = [Idle EXCEPT !.nonce = StartNonce]
  /\ UNCHANGED <<program, pool, mined, contracts, work, hidden, drawn, faults>>

\* Publishers on the main L1 look for the contract before they submit.
HasCode == installed

\* The relay subscribes to new logs only.
Relay == Relaying /\ HasCode /\ Begin

feedOracleChain == program = "oracle feed" /\ Begin

feedDirect == program = "direct feed" /\ HasCode /\ Begin

\* Whatever a run held in memory is gone.
End(how) ==
  /\ up' = FALSE
  /\ run' = Idle
  /\ tick' = <<>> /\ logs' = <<>> /\ fresh' = Stale /\ batch' = {}
  /\ hidden' = (hidden \/ (how = "clean" /\ run.failed /\ ~run.stopped))

Crash ==
  /\ up
  /\ End("killed")
  /\ UNCHANGED <<program, pool, mined, contracts, drawn, starts, faults>>

\* SIGINT cancels the context.
Interrupt ==
  /\ up /\ ~run.halted
  /\ run' = [run EXCEPT !.halted = TRUE, !.stopped = TRUE]
  /\ UNCHANGED <<program, pool, mined, contracts, up, work, hidden, drawn,
                 starts, faults>>

\* drainConfirmError: an error in the buffer, or an ordinary shutdown.
Drain == End(IF run.error THEN "error" ELSE "clean")

\* The select of the main loop: the context is done, or confirmErr has one.
SelectStop ==
  /\ At("select")
  /\ \/ run.halted /\ Drain
     \/ run.error /\ End("error")
  /\ UNCHANGED <<program, pool, mined, contracts, drawn, starts, faults>>

\* The log subscription breaks.
SubscriptionFails ==
  /\ Relaying /\ At("select")
  /\ Fault
  /\ End("error")
  /\ UNCHANGED <<program, pool, mined, contracts, drawn, starts>>

-----------------------------------------------------------------------------
(* The helpers.                                                            *)

\* Mutated Fail: cancel first, so that the error comes too late to be drained.
FailCancelFirst(helper) ==
  run' = [run EXCEPT !.halted = TRUE, !.failed = TRUE, ![helper] = "failing"]

\* fail: first the error into confirmErr unless one is there, then cancel.
Fail(helper) ==
  run' = [run EXCEPT !.error = TRUE, !.failed = TRUE, ![helper] = "failing"]

\* A failure after the context is done is no failure: the helper returns.
FailOrReturn(helper) ==
  IF run.halted THEN run' = [run EXCEPT ![helper] = "gone"] ELSE Fail(helper)

Cancel(helper) ==
  /\ up /\ run[helper] = "failing"
  /\ run' = [run EXCEPT !.halted = TRUE, ![helper] = "gone"]
  /\ UNCHANGED <<program, pool, mined, contracts, up, work, hidden, drawn,
                 starts, faults>>

TakePending ==
  /\ Works("confirmer")
  /\ run.confirming = NoTx /\ run.pending # <<>>
  /\ run' = [run EXCEPT !.confirming = Head(run.pending), !.pending = Tail(@)]
  /\ UNCHANGED <<program, pool, mined, contracts, up, work, hidden, drawn,
                 starts, faults>>

\* No receipt if another transaction was mined at this nonce.
Receipt(t) == {r \in Range(mined) : r.tx = t}

\* Mutated Succeeded: any receipt will do.
HasReceipt(t) == Receipt(t) # {}

Succeeded(t) == \E r \in Receipt(t) : r.ok

\* A receipt of success; or a reverted one, or none in time.
WaitReceipt ==
  /\ Works("confirmer") /\ run.confirming # NoTx
  /\ \/ /\ Succeeded(run.confirming)
        /\ run' = [run EXCEPT !.confirming = NoTx]
     \/ ~Succeeded(run.confirming) /\ FailOrReturn("confirmer")
  /\ UNCHANGED <<program, pool, mined, contracts, up, work, hidden, drawn,
                 starts, faults>>

confirmDeliveries == Relaying /\ WaitReceipt

confirmSubmissions == ~Relaying /\ WaitReceipt

PollFails ==
  /\ Works("poller")
  /\ Fault
  /\ FailOrReturn("poller")
  /\ UNCHANGED <<program, pool, mined, contracts, up, work, hidden, drawn,
                 starts>>

\* The relay reads the receiver, a direct feed the proxy and the settlement
\* gate; that there is no round yet is no failure.
pollMainPrices == Relaying /\ PollFails

pollOnChainPrices == program = "direct feed" /\ PollFails

-----------------------------------------------------------------------------
(* Sending, the same for all three.                                        *)

\* A nonce that was mined is too low; one that is queued takes a higher price,
\* which the fixed premium gives only if the suggested price has risen.
Accepts(t, risen) == t.nonce >= Frontier /\ (Queued(t.nonce) = {} \/ risen)

Replace(t) == pool' = (pool \ Queued(t.nonce)) \union {t}

Tx(load) == [nonce |-> run.nonce, load |-> load]

\* The nonce moves on only when the node has taken the transaction.
SendOk(load) ==
  /\ \E risen \in BOOLEAN : Accepts(Tx(load), risen)
  /\ Replace(Tx(load))
  /\ run' = [run EXCEPT !.at = "enqueue", !.item = Tx(load), !.nonce = @ + 1]
  /\ UNCHANGED <<up, hidden, faults>>

SendRefused(load) ==
  /\ ~Accepts(Tx(load), FALSE)
  /\ End("error")
  /\ UNCHANGED <<pool, faults>>

\* A call before the send fails (gas price, the signature quorum), the send is
\* lost, or its answer is.
SendLost(load) ==
  /\ Fault
  /\ \/ UNCHANGED pool
     \/ Accepts(Tx(load), FALSE) /\ Replace(Tx(load))
  /\ End("error")

\* Mutated Enqueue: one more than the channel holds.
EnqueueOneMore ==
  /\ At("enqueue")
  /\ Len(run.pending) <= InFlight
  /\ run' = [run EXCEPT !.pending = Append(@, run.item), !.item = NoTx,
                        !.at = IF tick = <<>> THEN "select" ELSE "send"]
  /\ UNCHANGED <<program, pool, mined, contracts, up, work, hidden, drawn,
                 starts, faults>>

Enqueue ==
  /\ At("enqueue")
  /\ Len(run.pending) < InFlight
  /\ run' = [run EXCEPT !.pending = Append(@, run.item), !.item = NoTx,
                        !.at = IF tick = <<>> THEN "select" ELSE "send"]
  /\ UNCHANGED <<program, pool, mined, contracts, up, work, hidden, drawn,
                 starts, faults>>

\* The channel is full and the context is done.
EnqueueStop ==
  /\ At("enqueue")
  /\ run.halted
  /\ Drain
  /\ UNCHANGED <<program, pool, mined, contracts, drawn, starts, faults>>

-----------------------------------------------------------------------------
(* The feed: every asset in every tick.                                    *)

Tick ==
  /\ At("select")
  /\ drawn + Len(Feeding) <= MaxPrices
  /\ tick' = Feeding
  /\ run' = [run EXCEPT !.at = "send"]
  /\ UNCHANGED <<program, pool, mined, contracts, up, logs, fresh, batch,
                 hidden, drawn, starts, faults>>

\* The feed sends under the operator's context.
SubmitStopped ==
  /\ run.stopped
  /\ End("error")
  /\ UNCHANGED <<pool, faults>>

Submit ==
  LET load == [asset |-> Head(tick), price |-> drawn + 1] IN
  /\ At("send")
  /\ drawn' = drawn + 1
  /\ \/ SendOk(load) /\ tick' = Tail(tick) /\ UNCHANGED <<logs, fresh, batch>>
     \/ SendRefused(load)
     \/ SendLost(load)
     \/ SubmitStopped
  /\ UNCHANGED <<program, mined, contracts, starts>>

\* Legacy transactions to the aggregator on the oracle L1; type-2 transactions
\* with a priority fee to the one on the main L1.
OracleLoop == program = "oracle feed" /\ (Tick \/ Submit)

DirectLoop == program = "direct feed" /\ (Tick \/ Submit)

-----------------------------------------------------------------------------
(* The relay: batches of what its log channel holds.                       *)

\* parseAndGate passes the i-th log: later than all of its asset before it.
Fresher(i) ==
  /\ logs[i].seq > fresh[logs[i].asset]
  /\ \A j \in 1 .. i - 1 : logs[j].asset = logs[i].asset
                              => logs[j].seq < logs[i].seq

\* collectBatch stops when it has BatchSize fresh ones, or nothing is left.
Taken == {i \in DOMAIN logs :
            Cardinality({j \in 1 .. i - 1 : Fresher(j)}) < BatchSize}

Passed == {logs[i] : i \in {j \in Taken : Fresher(j)}}

Collect ==
  /\ Relaying /\ At("select")
  /\ logs # <<>>
  /\ logs' = SubSeq(logs, Cardinality(Taken) + 1, Len(logs))
  /\ batch' = Passed
  /\ fresh' = [a \in Assets |->
       IF \E e \in Passed : e.asset = a THEN Newest(Passed, a).seq ELSE fresh[a]]
  /\ run' = [run EXCEPT !.at = IF Passed = {} THEN "select" ELSE "send"]
  /\ UNCHANGED <<program, pool, mined, contracts, up, tick, hidden, drawn,
                 starts, faults>>

\* A delivery after the context is done is given up, reached or not.
DeliverStopped ==
  /\ run.halted
  /\ \/ UNCHANGED pool
     \/ Accepts(Tx(batch), FALSE) /\ Replace(Tx(batch))
  /\ run' = [run EXCEPT !.at = "select"]
  /\ batch' = {}
  /\ UNCHANGED <<up, tick, logs, fresh, hidden, faults>>

Deliver ==
  /\ Relaying /\ At("send")
  /\ \/ /\ ~run.halted
        /\ \/ SendOk(batch) /\ batch' = {} /\ UNCHANGED <<tick, logs, fresh>>
           \/ SendRefused(batch)
           \/ SendLost(batch)
     \/ DeliverStopped
  /\ UNCHANGED <<program, mined, contracts, drawn, starts>>

-----------------------------------------------------------------------------
Init ==
  /\ program \in Programs
  /\ installed \in BOOLEAN
  /\ pool = {} /\ mined = <<>>
  /\ announced = [a \in Assets |-> <<>>]
  /\ stored = [a \in Assets |-> [seq |-> 0, price |-> 0]]
  /\ up = FALSE /\ run = Idle
  /\ tick = <<>> /\ logs = <<>> /\ fresh = Stale /\ batch = {}
  /\ hidden = FALSE /\ drawn = 0 /\ starts = 0 /\ faults = 0

MainLoop ==
  \/ SelectStop \/ Enqueue \/ EnqueueStop
  \/ OracleLoop \/ DirectLoop
  \/ Collect \/ Deliver

Helper ==
  \/ TakePending \/ confirmDeliveries \/ confirmSubmissions
  \/ Cancel("confirmer") \/ Cancel("poller")

\* The chains, the operator and the network.
Environment ==
  \/ MineOk \/ MineReverted \/ LoseTx \/ Install
  \/ \E a \in Assets : Announce(a)
  \/ Redeliver \/ SubscriptionFails \/ pollMainPrices \/ pollOnChainPrices
  \/ Relay \/ feedOracleChain \/ feedDirect \/ Crash \/ Interrupt

Next == MainLoop \/ Helper \/ Environment

Spec == Init /\ [][Next]_vars

\* Goroutines run, and a wait for a receipt has a deadline.
FairSpec == Spec /\ WF_vars(MainLoop) /\ WF_vars(Helper)

-----------------------------------------------------------------------------
Message == [asset : Assets, price : Prices, seq : Nat \ {0}]
Load == IF Relaying THEN SUBSET Message ELSE [asset : Assets, price : Prices]
Transaction == [nonce : Nat \ {0}, load : Load]
HelperState == {"works", "failing", "gone"}

Memory ==
  [at : {"select", "send", "enqueue"}, nonce : Nat,
   item : Transaction \union {NoTx}, pending : Seq(Transaction),
   confirming : Transaction \union {NoTx}, halted : BOOLEAN, error : BOOLEAN,
   confirmer : HelperState, poller : HelperState,
   stopped : BOOLEAN, failed : BOOLEAN, gap : BOOLEAN]

\* The shapes of the state; the channel to the confirmer keeps its capacity
\* (relay.go:166).
TypeOK ==
  /\ program \in Programs
  /\ installed \in BOOLEAN
  /\ pool \subseteq Transaction
  /\ mined \in Seq([tx : Transaction, ok : BOOLEAN])
  /\ announced \in [Assets -> Seq(Prices)]
  /\ stored \in [Assets -> [seq : Nat, price : Prices \union {0}]]
  /\ up \in BOOLEAN
  /\ run \in Memory /\ Len(run.pending) <= InFlight
  /\ tick \in Seq(Assets) /\ logs \in Seq(Message)
  /\ fresh \in [Assets -> Nat] /\ batch \subseteq Message
  /\ hidden \in BOOLEAN
  /\ drawn \in Nat /\ starts \in Nat /\ faults \in Nat

\* A failed delivery, submission or poll is never the end of a run that looks
\* like an ordinary shutdown: fail() stores the error before it cancels, and
\* the main loop drains it, whichever it notices first (relay.go:168, :240).
NoSilentFailure == ~hidden

\* A run never queues behind a hole that an earlier run left: between the
\* latest mined nonce and its own every nonce is in the mempool, unless a
\* transaction was lost under this very run (relay.go:127, feed.go:304).
NoGapUnderRun ==
  up /\ ~run.gap => \A n \in Frontier .. run.nonce - 1 : Queued(n) # {}

\* The contracts implement the register: what the receiver holds was announced
\* under that number, and it never goes back, though batches of several runs
\* are mined out of order (PriceFeedReceiver.sol:63).
Register == INSTANCE PriceRegister WITH announced <- announced, stored <- stored

ImplementsRegister == Register!Spec

\* A message that reached the relay's channel is delivered, or overtaken by a
\* later one, or the relay ends: a mark in the freshness gate before the send
\* never makes a running relay forget it (relay.go:292).
DeliversOrEnds ==
  \A a \in Assets : \A n \in Prices :
    (up /\ \E i \in DOMAIN logs : logs[i].asset = a /\ logs[i].seq = n)
      ~> (stored[a].seq >= n \/ ~up)

=============================================================================
