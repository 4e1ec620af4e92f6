------------------------------ MODULE Bombard -------------------------------
(***************************************************************************)
(* The load generator cmd/bombard: one account, one sequence of nonces.    *)
(* The issuer hands nonces to send workers through a channel and stops at  *)
(* a cap; workers sign, register and broadcast; a loop resends what is in  *)
(* flight; watchers report what was mined and may miss a block; a monitor  *)
(* notices that the chain fell behind (a hard failover) or that nothing    *)
(* mines any more, and asks the issuer to start again at the frontier.     *)
(* All of them share the tracker's counters and its map.                   *)
(***************************************************************************)
EXTENDS Integers, FiniteSets, Sequences

CONSTANTS
  Cap,         \* in-flight cap
  StallTicks,  \* ticks without a mined transaction before a resync
  MaxNonce,    \* bound: the issuer stops at this nonce
  MaxFailovers, \* bound: hard failovers to a site behind the old tip
  MaxFaults    \* bound: failed or lagging reads of the frontier

ASSUME BombardAssumption ==
  /\ Cap \in Nat \ {0} /\ StallTicks \in Nat \ {0}
  /\ MaxNonce \in Nat /\ MaxFailovers \in Nat /\ MaxFaults \in Nat

Nonces == 0 .. MaxNonce - 1

VARIABLES
  frontier,  \* next nonce the chain accepts
  pool,      \* transactions in the mempools
  reports,   \* mined transactions some watcher has yet to report
  next,      \* nextNonce of the issuer
  issuer,    \* where the issuer is in its loop
  sendCh,    \* nonces handed to the workers and not registered yet
  inflight,  \* tracker.inflight (and byHash, its inverse)
  ahead,     \* issued - mined - dropped
  progress,  \* whether mined moved since the monitor last looked
  monitor,   \* the monitor's tick in progress
  stalls,    \* ticks in a row without a mined transaction
  pending,   \* resyncPending
  target,    \* resyncTarget
  failovers, \* failovers so far
  faults     \* faults so far

chain == <<frontier, pool, reports, failovers>>
issuing == <<next, issuer, sendCh>>
tracker == <<inflight, ahead, progress>>
watch == <<monitor, stalls>>
resync == <<pending, target>>
vars == <<frontier, pool, reports, next, issuer, sendCh, inflight, ahead,
          progress, monitor, stalls, pending, target, failovers, faults>>

Waiting == [phase |-> "wait", frozen |-> FALSE, busy |-> FALSE, ok |-> FALSE,
            seen |-> 0]

CanFault == faults < MaxFaults

-----------------------------------------------------------------------------
(* The issuer and the send workers.                                        *)

\* Mutated BelowCap: one nonce over the cap.
BelowCapOrAt == ahead >= 0 /\ ahead <= Cap

\* inFlight() < cap.  The counters are unsigned: below zero is far above.
BelowCap == ahead >= 0 /\ ahead < Cap

\* Hand a nonce to a worker, if the channel has room.
Issue ==
  /\ issuer = "loop"
  /\ BelowCap
  /\ next < MaxNonce
  /\ Len(sendCh) < Cap
  /\ sendCh' = Append(sendCh, next)
  /\ issuer' = "count"
  /\ UNCHANGED <<chain, next, tracker, watch, resync, faults>>

\* Mutated Count: the nonce counts only if the worker has registered it yet.
CountRegistered ==
  /\ issuer = "count"
  /\ ahead' = IF next \in inflight THEN ahead + 1 ELSE ahead
  /\ next' = next + 1
  /\ issuer' = "loop"
  /\ UNCHANGED <<chain, sendCh, inflight, progress, watch, resync,
                 faults>>

\* issued.Add(1) after the send: the worker may have been faster.
Count ==
  /\ issuer = "count"
  /\ ahead' = ahead + 1
  /\ next' = next + 1
  /\ issuer' = "loop"
  /\ UNCHANGED <<chain, sendCh, inflight, progress, watch, resync,
                 faults>>

\* Mutated TakeResync: the set is dropped and the issuer stays where it is.
TakeResyncNoJump ==
  /\ issuer = "loop"
  /\ pending
  /\ ahead' = ahead - Cardinality(inflight)
  /\ inflight' = {}
  /\ issuer' = "clear"
  /\ UNCHANGED <<chain, next, sendCh, progress, watch, resync, faults>>

\* Jump to the target and abandon what is in flight.
TakeResync ==
  /\ issuer = "loop"
  /\ pending
  /\ next' = target
  /\ ahead' = ahead - Cardinality(inflight)
  /\ inflight' = {}
  /\ issuer' = "clear"
  /\ UNCHANGED <<chain, sendCh, progress, watch, resync, faults>>

\* A request that came since the target was read is cleared with it.
ClearResync ==
  /\ issuer = "clear"
  /\ pending' = FALSE
  /\ issuer' = "loop"
  /\ UNCHANGED <<chain, next, sendCh, tracker, watch, target, faults>>

\* Mutated Reaches: a mined nonce is taken into the mempool again.
ReachesAgain(n) == pool' = pool \union {n}

\* A transaction reaches the nodes; "nonce too low" is ignored.
Reaches(n) == pool' = IF n >= frontier THEN pool \union {n} ELSE pool

\* A worker takes a nonce, signs it, registers it and broadcasts it.  Workers
\* run at the same time, so they do not finish in channel order, and the
\* broadcast may be slow or dropped.
Register(i) ==
  /\ i \in 1 .. Len(sendCh)
  /\ inflight' = inflight \union {sendCh[i]}
  /\ sendCh' = SubSeq(sendCh, 1, i - 1) \o SubSeq(sendCh, i + 1, Len(sendCh))
  /\ Reaches(sendCh[i]) \/ UNCHANGED pool
  /\ UNCHANGED <<frontier, reports, failovers, next, issuer, ahead, progress,
                 watch, resync, faults>>

\* A transaction sent earlier, by this run or by one before it, arrives late.
\* Signing is deterministic: it is the one this run would send.
Late(n) ==
  /\ n \notin pool
  /\ n >= frontier
  /\ Reaches(n)
  /\ UNCHANGED <<frontier, reports, failovers, issuing, tracker, watch, resync,
                 faults>>

\* resubmitLoop: send again what is still in flight.
Resubmit(n) ==
  /\ n \in inflight
  /\ Reaches(n)
  /\ UNCHANGED <<frontier, reports, failovers, issuing, tracker, watch, resync,
                 faults>>

-----------------------------------------------------------------------------
(* The chain and the watchers.                                             *)

Mine ==
  /\ frontier \in pool
  /\ frontier' = frontier + 1
  /\ pool' = pool \ {frontier}
  /\ reports' = reports \union {frontier}
  /\ UNCHANGED <<failovers, issuing, tracker, watch, resync, faults>>

\* A hard failover to a site that was behind, with or without its mempool
\* (bound: before the last nonce).
FailOver(f) ==
  /\ failovers < MaxFailovers
  /\ f < frontier /\ frontier < MaxNonce
  /\ frontier' = f
  /\ pool' \in {pool, {}}
  /\ failovers' = failovers + 1
  /\ UNCHANGED <<reports, issuing, tracker, watch, resync, faults>>

\* onMined by one watcher; another one may report the same block later.  The
\* counter follows the map a moment later, which only overstates the count.
Report(n) ==
  /\ n \in reports
  /\ reports' \in {reports, reports \ {n}}
  /\ inflight' = inflight \ {n}
  /\ ahead' = IF n \in inflight THEN ahead - 1 ELSE ahead
  /\ progress' = (progress \/ n \in inflight)
  /\ UNCHANGED <<frontier, pool, failovers, issuing, watch, resync, faults>>

\* A block that could not be fetched is skipped, and so is a block of the new
\* site that is not above the last one the watcher saw.
Miss(n) ==
  /\ n \in reports
  /\ reports' = reports \ {n}
  /\ UNCHANGED <<frontier, pool, failovers, issuing, tracker, watch, resync,
                 faults>>

-----------------------------------------------------------------------------
(* monitorNonce.                                                           *)

ReadCounters ==
  /\ monitor.phase = "wait"
  /\ monitor' = [monitor EXCEPT !.phase = "frontier", !.frozen = ~progress,
                                !.busy = ahead # 0]
  /\ progress' = FALSE
  /\ UNCHANGED <<chain, issuing, inflight, ahead, stalls, resync, faults>>

\* maxAcceptedNonce of the healthy nodes.  They may all lag, none may answer,
\* and after a failover one may still know the old chain.
ReadFrontier ==
  /\ monitor.phase = "frontier"
  /\ \/ /\ monitor' = [monitor EXCEPT !.phase = "decide", !.ok = TRUE,
                                      !.seen = frontier]
        /\ UNCHANGED faults
     \/ /\ CanFault
        /\ \/ monitor' = [monitor EXCEPT !.phase = "decide", !.ok = FALSE]
           \/ \E f \in Nonces :
                /\ f < frontier \/ failovers > 0
                /\ monitor' = [monitor EXCEPT !.phase = "decide", !.ok = TRUE,
                                              !.seen = f]
        /\ faults' = faults + 1
  /\ UNCHANGED <<chain, issuing, tracker, stalls, resync>>

\* Everything in flight lies above the frontier: it can never mine.
Gap ==
  /\ monitor.ok /\ monitor.busy
  /\ inflight # {}
  /\ \A n \in inflight : monitor.seen < n

\* stalls++; above the threshold its value makes no difference.
Stalled == IF monitor.frozen /\ monitor.busy
           THEN IF stalls < StallTicks THEN stalls + 1 ELSE stalls
           ELSE 0

RequestResync ==
  /\ target' = monitor.seen
  /\ pending' = TRUE
  /\ stalls' = 0

\* Mutated Decide: no second resync to the frontier of the last one.
DecideOnce ==
  /\ monitor.phase = "decide"
  /\ IF (Gap \/ (monitor.ok /\ Stalled >= StallTicks)) /\ monitor.seen # target
     THEN RequestResync
     ELSE stalls' = Stalled /\ UNCHANGED resync
  /\ monitor' = Waiting
  /\ UNCHANGED <<chain, issuing, tracker, faults>>

Decide ==
  /\ monitor.phase = "decide"
  /\ IF Gap \/ (monitor.ok /\ Stalled >= StallTicks)
     THEN RequestResync
     ELSE stalls' = Stalled /\ UNCHANGED resync
  /\ monitor' = Waiting
  /\ UNCHANGED <<chain, issuing, tracker, faults>>

-----------------------------------------------------------------------------
\* The issuer starts at the accepted nonce of the chain.
Init ==
  /\ frontier = 0
  /\ pool = {}
  /\ reports = {}
  /\ next = 0
  /\ issuer = "loop"
  /\ sendCh = <<>>
  /\ inflight = {}
  /\ ahead = 0
  /\ progress = FALSE
  /\ monitor = Waiting
  /\ stalls = 0
  /\ pending = FALSE
  /\ target = 0
  /\ failovers = 0 /\ faults = 0

Issuer == Issue \/ Count \/ TakeResync \/ ClearResync
Worker == \E i \in 1 .. Len(sendCh) : Register(i)
Monitor == ReadCounters \/ ReadFrontier \/ Decide

Next ==
  \/ Issuer \/ Worker \/ Monitor \/ Mine
  \/ \E n \in Nonces :
       Resubmit(n) \/ Late(n) \/ FailOver(n) \/ Report(n) \/ Miss(n)

Spec == Init /\ [][Next]_vars

\* Tickers fire, goroutines are scheduled, and a chain that has the next
\* transaction in its mempools mines it.  Strong fairness where the code's
\* periods give it: the issuer and the workers run every millisecond and the
\* resend every second, a resync needs ticks of five seconds, so a resync in
\* every round does not keep them from their turn for ever.
Fairness ==
  /\ WF_vars(Issuer) /\ SF_vars(Issue) /\ SF_vars(Worker)
  /\ WF_vars(Monitor) /\ WF_vars(Mine)
  /\ \A n \in Nonces :
       SF_vars(Resubmit(n)) /\ WF_vars(Report(n) \/ Miss(n))

FairSpec == Spec /\ Fairness

-----------------------------------------------------------------------------
(* What bombard promises.                                                  *)

\* The shared variables have the types the goroutines expect of them.
TypeOK ==
  /\ frontier \in 0 .. MaxNonce
  /\ pool \subseteq frontier .. MaxNonce - 1 /\ reports \subseteq Nonces
  /\ next \in 0 .. MaxNonce
  /\ issuer \in {"loop", "count", "clear"}
  /\ sendCh \in Seq(Nonces) /\ Len(sendCh) <= Cap
  /\ inflight \subseteq Nonces
  /\ ahead \in Int
  /\ progress \in BOOLEAN
  /\ monitor \in [phase : {"wait", "frontier", "decide"}, frozen : BOOLEAN,
                  busy : BOOLEAN, ok : BOOLEAN, seen : 0 .. MaxNonce]
  /\ stalls \in 0 .. StallTicks
  /\ pending \in BOOLEAN
  /\ target \in 0 .. MaxNonce
  /\ failovers \in Nat /\ faults \in Nat

\* "We never let ourselves get more than `inflight` nonces ahead": what the
\* workers and the tracker hold together never exceeds the cap, although
\* mines, drops and the issuer change the counters without a common lock
\* (main.go issuer, inFlight, register).
CapHolds == Len(sendCh) + Cardinality(inflight) <= Cap

\* Whenever the issuer compares the in-flight count with the cap the unsigned
\* subtraction has not wrapped around (main.go inFlight).
CountNeverWraps == issuer = "loop" => ahead >= 0

\* "issued is bumped by the issuer (so the cap is accurate even while a tx
\* waits in the send queue)" (main.go register): what the cap is compared with
\* is the number of nonces the workers and the tracker hold.  It is not, once a
\* nonce that waited in the queue during a resync is issued a second time.
CountIsExact ==
  issuer = "loop" => ahead = Len(sendCh) + Cardinality(inflight)

\* As long as the chain did not go back, a resync, however late it is applied,
\* loses no nonce: each one between the frontier and the issuer is in flight or
\* in the hands of a worker ("resyncing during a benign pause is harmless",
\* main.go monitorNonce and issuer).
NoNonceLost ==
  \A n \in Nonces :
    failovers = 0 /\ frontier <= n /\ n < next =>
      n \in inflight \/ \E i \in 1 .. Len(sendCh) : sendCh[i] = n

\* Once failovers stop the chain moves on: bombard rides "through a hard
\* failover without a restart" (main.go monitorNonce).  Not of the last nonce:
\* the issuer's bound leaves nothing above it that could show a gap.
RidesThroughFailover == <>[](frontier >= MaxNonce - 1)

=============================================================================
