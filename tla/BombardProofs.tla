--------------------------- MODULE BombardProofs ---------------------------
(***************************************************************************)
(* The load generator never holds more nonces than its cap, and its        *)
(* unsigned in-flight count never wraps where the issuer reads it; for     *)
(* every cap, every stall threshold and any number of failovers.  The      *)
(* count may overstate what is held (a nonce issued twice across a         *)
(* resync), and that it never understates it is what the cap rests on.     *)
(* Each nonce that is neither mined nor ahead of the issuer is held        *)
(* somewhere, or a resync is about to go back to it.                       *)
(***************************************************************************)
EXTENDS Bombard, FiniteSetTheorems, SequenceTheorems, TLAPS

Held == Len(sendCh) + Cardinality(inflight)

\* A nonce is handed over before it is counted, so the count may be one short
\* of what is held, only between the two.
CountCovers == Held <= IF issuer = "count" THEN ahead + 1 ELSE ahead

\* What the issuer compared with the cap has only gone down since.
CountCapped ==
  /\ ahead <= Cap
  /\ issuer = "count" => ahead < Cap /\ next < MaxNonce

CapInv == TypeOK /\ CountCovers /\ CountCapped

-----------------------------------------------------------------------------
LEMMA NoncesFinite ==
  ASSUME NEW S \in SUBSET Nonces
  PROVE  IsFiniteSet(S) /\ Cardinality(S) \in Nat
<1>1. 0 \in Int /\ MaxNonce - 1 \in Int
  BY BombardAssumption
<1>2. IsFiniteSet(Nonces)
  BY <1>1, FS_Interval DEF Nonces
<1>3. IsFiniteSet(S)
  BY <1>2, FS_Subset
<1> QED BY <1>3, FS_CardinalityType

\* A worker takes one nonce out of the channel, whichever it is.
LEMMA TakeOne ==
  ASSUME NEW S, NEW s \in Seq(S), NEW i \in 1 .. Len(s)
  PROVE  /\ SubSeq(s, 1, i - 1) \o SubSeq(s, i + 1, Len(s)) \in Seq(S)
         /\ Len(SubSeq(s, 1, i - 1) \o SubSeq(s, i + 1, Len(s))) = Len(s) - 1
<1> DEFINE a == SubSeq(s, 1, i - 1)
           b == SubSeq(s, i + 1, Len(s))
<1>1. Len(s) \in Nat /\ \A j \in 1 .. Len(s) : s[j] \in S
  BY LenProperties, ElementOfSeq
<1>2. a \in Seq(S) /\ Len(a) = i - 1
  <2>1. \A j \in 1 .. i - 1 : s[j] \in S
    BY <1>1
  <2> QED BY <2>1, <1>1, SubSeqProperties
<1>3. b \in Seq(S) /\ Len(b) = Len(s) - i
  <2>1. \A j \in i + 1 .. Len(s) : s[j] \in S
    BY <1>1
  <2> QED BY <2>1, <1>1, SubSeqProperties
<1>4. a \o b \in Seq(S) /\ Len(a \o b) = Len(a) + Len(b)
  BY <1>2, <1>3, ConcatProperties
<1> HIDE DEF a, b
<1>5. Len(a \o b) = Len(s) - 1
  BY <1>1, <1>2, <1>3, <1>4
<1> QED BY <1>4, <1>5 DEF a, b

\* The record the monitor keeps of its tick.
Tick == [phase : {"wait", "frontier", "decide"}, frozen : BOOLEAN,
         busy : BOOLEAN, ok : BOOLEAN, seen : 0 .. MaxNonce]

\* What reaches the mempools is not below the frontier.
LEMMA ReachesType ==
  ASSUME NEW n \in Nonces, frontier \in 0 .. MaxNonce,
         pool \subseteq frontier .. MaxNonce - 1, Reaches(n)
  PROVE  pool' \subseteq frontier .. MaxNonce - 1
<1>1. n \in Int /\ n <= MaxNonce - 1 /\ MaxNonce \in Int
  BY BombardAssumption DEF Nonces
<1>2. CASE n >= frontier
  <2>1. n \in frontier .. MaxNonce - 1
    BY <1>1, <1>2
  <2> QED BY <2>1, <1>2 DEF Reaches
<1>3. CASE ~(n >= frontier)
  BY <1>3 DEF Reaches
<1> QED BY <1>2, <1>3

LEMMA CapInit == Init => CapInv
<1> SUFFICES ASSUME Init PROVE CapInv
  OBVIOUS
<1>1. Cardinality(inflight) = 0 /\ sendCh \in Seq(Nonces) /\ Len(sendCh) = 0
  BY FS_EmptySet, EmptySeq DEF Init
<1>2. Waiting \in Tick
  BY BombardAssumption DEF Waiting, Tick
<1>3. Len(sendCh) <= Cap /\ 0 \in 0 .. MaxNonce /\ 0 \in 0 .. StallTicks
  BY <1>1, BombardAssumption
<1>4. TypeOK
  <2>1. ahead \in Int /\ failovers \in Nat /\ faults \in Nat
    BY DEF Init
  <2>2. next \in 0 .. MaxNonce /\ frontier \in 0 .. MaxNonce /\ target \in 0 .. MaxNonce
    BY <1>3 DEF Init
  <2>3. stalls \in 0 .. StallTicks /\ monitor \in Tick
    BY <1>2, <1>3 DEF Init
  <2> QED BY <1>1, <1>3, <2>1, <2>2, <2>3 DEF Init, TypeOK, Tick
<1>5. CountCovers /\ CountCapped
  BY <1>1, BombardAssumption DEF Init, CountCovers, CountCapped, Held
<1> QED BY <1>4, <1>5 DEF CapInv

-----------------------------------------------------------------------------
\* The issuer.

LEMMA IssueStep == CapInv /\ Issue => CapInv'
<1> SUFFICES ASSUME CapInv, Issue PROVE CapInv'
  OBVIOUS
<1>1. next \in Nonces /\ sendCh \in Seq(Nonces)
  BY BombardAssumption DEF CapInv, TypeOK, Issue, Nonces
<1>2. sendCh' \in Seq(Nonces) /\ Len(sendCh') = Len(sendCh) + 1 /\ Len(sendCh) \in Nat
  BY <1>1, AppendProperties, LenProperties DEF Issue
<1>3. Cardinality(inflight) \in Nat
  BY NoncesFinite DEF CapInv, TypeOK
<1>4. TypeOK'
  BY <1>2, BombardAssumption
  DEF CapInv, TypeOK, Issue, chain, tracker, watch, resync, Nonces
<1>5. CountCovers' /\ CountCapped'
  BY <1>2, <1>3, BombardAssumption
  DEF CapInv, TypeOK, CountCovers, CountCapped, Held, Issue, BelowCap, tracker
<1> QED BY <1>4, <1>5 DEF CapInv

LEMMA CountStep == CapInv /\ Count => CapInv'
<1> SUFFICES ASSUME CapInv, Count PROVE CapInv'
  OBVIOUS
<1>1. Cardinality(inflight) \in Nat /\ Len(sendCh) \in Nat
  BY NoncesFinite, LenProperties DEF CapInv, TypeOK
<1>2. TypeOK'
  BY BombardAssumption
  DEF CapInv, TypeOK, CountCapped, Count, chain, watch, resync, Nonces
<1>3. CountCovers' /\ CountCapped'
  BY <1>1, BombardAssumption
  DEF CapInv, TypeOK, CountCovers, CountCapped, Held, Count
<1> QED BY <1>2, <1>3 DEF CapInv

LEMMA TakeResyncStep == CapInv /\ TakeResync => CapInv'
<1> SUFFICES ASSUME CapInv, TakeResync PROVE CapInv'
  OBVIOUS
<1>1. Cardinality(inflight) \in Nat /\ Cardinality(inflight') = 0 /\ Len(sendCh) \in Nat
  BY NoncesFinite, FS_EmptySet, LenProperties DEF CapInv, TypeOK, TakeResync
<1>2. TypeOK'
  BY <1>1, BombardAssumption
  DEF CapInv, TypeOK, TakeResync, chain, watch, resync, Nonces
<1>3. CountCovers' /\ CountCapped'
  BY <1>1, BombardAssumption
  DEF CapInv, TypeOK, CountCovers, CountCapped, Held, TakeResync
<1> QED BY <1>2, <1>3 DEF CapInv

LEMMA ClearResyncStep == CapInv /\ ClearResync => CapInv'
BY DEF CapInv, TypeOK, CountCovers, CountCapped, Held, ClearResync, chain,
       tracker, watch

-----------------------------------------------------------------------------
\* The workers and the watchers.

LEMMA RegisterStep ==
  ASSUME NEW i \in 1 .. Len(sendCh)
  PROVE  CapInv /\ Register(i) => CapInv'
<1> SUFFICES ASSUME CapInv, Register(i) PROVE CapInv'
  OBVIOUS
<1>1. sendCh \in Seq(Nonces) /\ sendCh[i] \in Nonces /\ Len(sendCh) \in Nat
  BY ElementOfSeq, LenProperties DEF CapInv, TypeOK
<1>2. sendCh' \in Seq(Nonces) /\ Len(sendCh') = Len(sendCh) - 1
  BY <1>1, TakeOne DEF Register
<1>3. inflight \subseteq Nonces /\ inflight' \subseteq Nonces
  BY <1>1 DEF CapInv, TypeOK, Register
<1>4. /\ IsFiniteSet(inflight)
      /\ Cardinality(inflight) \in Nat
      /\ Cardinality(inflight') \in Nat
  BY <1>3, NoncesFinite
<1>5. Cardinality(inflight') <= Cardinality(inflight) + 1
  <2>1. inflight' = inflight \cup {sendCh[i]}
    BY DEF Register
  <2>2. Cardinality(inflight \cup {sendCh[i]}) =
          IF sendCh[i] \in inflight THEN Cardinality(inflight)
                                    ELSE Cardinality(inflight) + 1
    BY <1>4, FS_AddElement
  <2> QED BY <2>1, <2>2, <1>4
<1>6. pool' \subseteq frontier .. MaxNonce - 1
  <2>1. frontier \in 0 .. MaxNonce /\ pool \subseteq frontier .. MaxNonce - 1
    BY DEF CapInv, TypeOK
  <2>2. Reaches(sendCh[i]) \/ pool' = pool
    BY DEF Register
  <2> QED BY <2>1, <2>2, <1>1, ReachesType
<1>7. Len(sendCh') <= Cap
  BY <1>1, <1>2, BombardAssumption DEF CapInv, TypeOK
<1>8. TypeOK'
  BY <1>2, <1>3, <1>6, <1>7 DEF CapInv, TypeOK, Register, watch, resync
<1>9. CountCovers' /\ CountCapped'
  <2>1. ahead \in Int /\ ahead' = ahead /\ issuer' = issuer /\ next' = next
    BY DEF CapInv, TypeOK, Register
  <2> QED BY <2>1, <1>1, <1>2, <1>4, <1>5
          DEF CapInv, CountCovers, CountCapped, Held
<1> QED BY <1>8, <1>9 DEF CapInv

LEMMA SendStep ==
  ASSUME NEW n \in Nonces
  PROVE  CapInv /\ (Resubmit(n) \/ Late(n)) => CapInv'
<1> SUFFICES ASSUME CapInv, Resubmit(n) \/ Late(n) PROVE CapInv'
  OBVIOUS
<1>1. pool' \subseteq frontier .. MaxNonce - 1
  <2>1. frontier \in 0 .. MaxNonce /\ pool \subseteq frontier .. MaxNonce - 1
    BY DEF CapInv, TypeOK
  <2> QED BY <2>1, ReachesType DEF Resubmit, Late
<1> QED BY <1>1 DEF CapInv, TypeOK, CountCovers, CountCapped, Held, Resubmit,
               Late, issuing, tracker, watch, resync

LEMMA ReportStep ==
  ASSUME NEW n \in Nonces
  PROVE  CapInv /\ Report(n) => CapInv'
<1> SUFFICES ASSUME CapInv, Report(n) PROVE CapInv'
  OBVIOUS
<1>1. /\ Cardinality(inflight) \in Nat
      /\ Cardinality(inflight') = IF n \in inflight THEN Cardinality(inflight) - 1
                                  ELSE Cardinality(inflight)
      /\ Len(sendCh) \in Nat
  BY NoncesFinite, FS_RemoveElement, LenProperties DEF CapInv, TypeOK, Report
<1>2. TypeOK'
  BY DEF CapInv, TypeOK, Report, issuing, watch, resync
<1>3. CountCovers' /\ CountCapped'
  BY <1>1, BombardAssumption
  DEF CapInv, TypeOK, CountCovers, CountCapped, Held, Report, issuing
<1> QED BY <1>2, <1>3 DEF CapInv

LEMMA ChainStep ==
  CapInv /\ (Mine \/ \E n \in Nonces : FailOver(n) \/ Miss(n)) => CapInv'
<1>1. CapInv /\ Mine => CapInv'
  BY BombardAssumption
  DEF CapInv, TypeOK, CountCovers, CountCapped, Held, Mine, issuing, tracker,
      watch, resync, Nonces
<1>2. ASSUME NEW n \in Nonces PROVE CapInv /\ FailOver(n) => CapInv'
  BY BombardAssumption
  DEF CapInv, TypeOK, CountCovers, CountCapped, Held, FailOver, issuing,
      tracker, watch, resync, Nonces
<1>3. ASSUME NEW n \in Nonces PROVE CapInv /\ Miss(n) => CapInv'
  BY DEF CapInv, TypeOK, CountCovers, CountCapped, Held, Miss, issuing, tracker,
         watch, resync
<1> QED BY <1>1, <1>2, <1>3

-----------------------------------------------------------------------------
\* The monitor.

LEMMA MonitorStep == CapInv /\ Monitor => CapInv'
<1>1. CapInv /\ ReadCounters => CapInv'
  <2> SUFFICES ASSUME CapInv, ReadCounters PROVE CapInv'
    OBVIOUS
  <2>1. monitor \in Tick /\ progress \in BOOLEAN
    BY DEF CapInv, TypeOK, Tick
  <2>2. monitor' \in Tick
    <3>1. (ahead # 0) \in BOOLEAN /\ (~progress) \in BOOLEAN
      OBVIOUS
    <3> QED BY <2>1, <3>1 DEF ReadCounters, Tick
  <2>3. progress' \in BOOLEAN
    BY DEF ReadCounters
  <2>4. UNCHANGED <<chain, issuing, inflight, ahead, stalls, resync, faults>>
    BY DEF ReadCounters
  <2>5. TypeOK'
    BY <2>2, <2>3, <2>4 DEF CapInv, TypeOK, Tick, chain, issuing, resync
  <2> QED BY <2>4, <2>5 DEF CapInv, CountCovers, CountCapped, Held, issuing
<1>2. CapInv /\ ReadFrontier => CapInv'
  <2> SUFFICES ASSUME CapInv, ReadFrontier PROVE CapInv'
    OBVIOUS
  <2>1. monitor \in Tick /\ frontier \in 0 .. MaxNonce /\ faults \in Nat
    BY DEF CapInv, TypeOK, Tick
  <2>2. Nonces \subseteq 0 .. MaxNonce
    BY BombardAssumption DEF Nonces
  <2>3. monitor' \in Tick
    BY <2>1, <2>2 DEF ReadFrontier, Tick
  <2>4. faults' \in Nat
    <3>1. faults' = faults \/ faults' = faults + 1
      BY Zenon DEF ReadFrontier
    <3> QED BY <3>1, <2>1
  <2> QED BY <2>3, <2>4 DEF CapInv, TypeOK, CountCovers, CountCapped, Held,
             Tick, ReadFrontier, chain, issuing, tracker, resync
<1>3. CapInv /\ Decide => CapInv'
  <2> SUFFICES ASSUME CapInv, Decide PROVE CapInv'
    OBVIOUS
  <2>1. /\ stalls \in 0 .. StallTicks /\ StallTicks \in Nat
        /\ monitor.seen \in 0 .. MaxNonce
        /\ pending \in BOOLEAN /\ target \in 0 .. MaxNonce
    BY BombardAssumption DEF CapInv, TypeOK
  <2>2. Stalled \in 0 .. StallTicks /\ 0 \in 0 .. StallTicks
    BY <2>1 DEF Stalled
  <2>3. stalls' \in 0 .. StallTicks /\ pending' \in BOOLEAN /\ target' \in 0 .. MaxNonce
    BY <2>1, <2>2 DEF Decide, RequestResync, resync
  <2>4. monitor' \in Tick
    BY BombardAssumption DEF Decide, Waiting, Tick
  <2> QED BY <2>3, <2>4 DEF CapInv, TypeOK, CountCovers, CountCapped, Held,
             Tick, Decide, chain, issuing, tracker
<1> QED BY <1>1, <1>2, <1>3 DEF Monitor

-----------------------------------------------------------------------------
LEMMA CapStep == CapInv /\ [Next]_vars => CapInv'
<1> SUFFICES ASSUME CapInv, [Next]_vars PROVE CapInv'
  OBVIOUS
<1>1. CASE Issuer
  BY <1>1, IssueStep, CountStep, TakeResyncStep, ClearResyncStep DEF Issuer
<1>2. CASE Worker
  BY <1>2, RegisterStep DEF Worker
<1>3. CASE Monitor
  BY <1>3, MonitorStep
<1>4. CASE Mine
  BY <1>4, ChainStep
<1>5. CASE \E n \in Nonces :
             Resubmit(n) \/ Late(n) \/ FailOver(n) \/ Report(n) \/ Miss(n)
  BY <1>5, SendStep, ReportStep, ChainStep
<1>6. CASE UNCHANGED vars
  BY <1>6 DEF CapInv, TypeOK, CountCovers, CountCapped, Held, vars
<1> QED BY <1>1, <1>2, <1>3, <1>4, <1>5, <1>6 DEF Next

LEMMA CapAlways == Spec => []CapInv
BY CapInit, CapStep, PTL DEF Spec

\* The goroutines find the shared counters, map and channel in the shape they
\* expect, whatever their interleaving (cmd/bombard/main.go tracker, issuer).
THEOREM BombardTypeCorrect == Spec => []TypeOK
<1>1. CapInv => TypeOK
  BY DEF CapInv
<1> QED BY <1>1, CapAlways, PTL

\* The workers and the tracker never hold more nonces than the cap, although
\* the counters it is compared with change without a common lock (main.go
\* issuer, inFlight, register, dropInflight).
THEOREM CapIsKept == Spec => []CapHolds
<1>1. CapInv => CapHolds
  BY NoncesFinite, LenProperties, BombardAssumption
  DEF CapInv, TypeOK, CountCovers, CountCapped, Held, CapHolds
<1> QED BY <1>1, CapAlways, PTL

\* Where the issuer compares the unsigned in-flight count with the cap, the
\* subtraction has not wrapped around (main.go inFlight).
THEOREM CountIsSafe == Spec => []CountNeverWraps
<1>1. CapInv => CountNeverWraps
  <2> SUFFICES ASSUME CapInv PROVE CountNeverWraps
    OBVIOUS
  <2>1. Cardinality(inflight) \in Nat /\ Len(sendCh) \in Nat /\ ahead \in Int
    BY NoncesFinite, LenProperties DEF CapInv, TypeOK
  <2> QED BY <2>1 DEF CapInv, CountCovers, Held, CountNeverWraps
<1> QED BY <1>1, CapAlways, PTL

-----------------------------------------------------------------------------
(* A resync loses no nonce.                                                *)

\* A worker or the tracker has the nonce.
Handled(n) == n \in inflight \/ \E i \in 1 .. Len(sendCh) : sendCh[i] = n

\* The nonces handed over so far: the last of them may not be counted yet.
HandedOver == IF issuer = "count" THEN next + 1 ELSE next

\* While the chain has not gone back, whatever was reported is below the
\* frontier, and so is whatever the monitor has read or asked the issuer to
\* start again at: a resync never jumps over a nonce the chain still waits for.
BehindFrontier ==
  failovers = 0 =>
    /\ \A n \in reports : n < frontier
    /\ monitor.seen <= frontier
    /\ target <= frontier
    /\ \A n \in Nonces : frontier <= n /\ n < HandedOver => Handled(n)

NonceInv == CapInv /\ BehindFrontier

\* Only the nonce that was taken leaves the channel.
LEMMA TakeKeeps ==
  ASSUME sendCh \in Seq(Nonces), NEW i \in 1 .. Len(sendCh),
         NEW j \in 1 .. Len(sendCh), j # i,
         sendCh' = SubSeq(sendCh, 1, i - 1) \o SubSeq(sendCh, i + 1, Len(sendCh))
  PROVE  \E k \in 1 .. Len(sendCh') : sendCh'[k] = sendCh[j]
<1> DEFINE a == SubSeq(sendCh, 1, i - 1)
           b == SubSeq(sendCh, i + 1, Len(sendCh))
<1>1. Len(sendCh) \in Nat /\ \A k \in 1 .. Len(sendCh) : sendCh[k] \in Nonces
  BY LenProperties, ElementOfSeq
<1>0. i \in Int /\ j \in Int /\ 1 <= i /\ 1 <= j /\ i <= Len(sendCh) /\ j <= Len(sendCh)
  BY <1>1
<1>2. a \in Seq(Nonces) /\ Len(a) = i - 1 /\ \A k \in 1 .. i - 1 : a[k] = sendCh[k]
  <2>1. \A k \in 1 .. i - 1 : sendCh[k] \in Nonces
    BY <1>1
  <2>2. /\ a \in Seq(Nonces) /\ Len(a) = IF 1 <= i - 1 THEN i - 1 - 1 + 1 ELSE 0
        /\ \A k \in 1 .. i - 1 - 1 + 1 : a[k] = sendCh[1 + k - 1]
    BY <2>1, <1>1, SubSeqProperties
  <2> QED BY <2>2, <1>1
<1>3. /\ b \in Seq(Nonces) /\ Len(b) = Len(sendCh) - i
      /\ \A k \in 1 .. Len(sendCh) - i : b[k] = sendCh[i + k]
  <2>1. \A k \in i + 1 .. Len(sendCh) : sendCh[k] \in Nonces
    BY <1>1
  <2>2. /\ b \in Seq(Nonces)
        /\ Len(b) = IF i + 1 <= Len(sendCh) THEN Len(sendCh) - (i + 1) + 1 ELSE 0
        /\ \A k \in 1 .. Len(sendCh) - (i + 1) + 1 : b[k] = sendCh[i + 1 + k - 1]
    BY <2>1, <1>1, SubSeqProperties
  <2> QED BY <2>2, <1>1
<1>4. /\ Len(sendCh') = Len(a) + Len(b)
      /\ \A k \in 1 .. Len(a) + Len(b) :
           sendCh'[k] = IF k <= Len(a) THEN a[k] ELSE b[k - Len(a)]
  BY <1>2, <1>3, ConcatProperties
<1> HIDE DEF a, b
<1>5. CASE j < i
  <2>1. j \in 1 .. Len(a) + Len(b) /\ j <= Len(a) /\ a[j] = sendCh[j]
    BY <1>1, <1>2, <1>3, <1>5
  <2> QED BY <2>1, <1>4
<1>6. CASE j > i
  <2>1. j - i \in 1 .. Len(sendCh) - i /\ i + (j - i) = j
    BY <1>0, <1>1, <1>6
  <2>2. b[j - i] = sendCh[j]
    BY <1>3, <2>1
  <2>3. /\ j - 1 \in 1 .. Len(a) + Len(b) /\ ~(j - 1 <= Len(a))
        /\ (j - 1) - Len(a) = j - i
    BY <1>0, <1>1, <1>2, <1>3, <1>6
  <2> QED BY <2>2, <2>3, <1>4
<1>7. j < i \/ j > i
  BY <1>0
<1> QED BY <1>5, <1>6, <1>7

LEMMA BombardShape ==
  CapInv => /\ frontier \in Nat /\ next \in Nat /\ target \in Int /\ monitor \in Tick
            /\ monitor.seen \in Int /\ failovers \in Nat
            /\ sendCh \in Seq(Nonces) /\ Len(sendCh) \in Nat /\ Nonces \subseteq Int
            /\ reports \subseteq Nonces
            /\ issuer \in {"loop", "count", "clear"}
BY LenProperties, BombardAssumption DEF CapInv, TypeOK, Tick, Nonces

LEMMA FrontierShape == ASSUME TypeOK' PROVE frontier' \in Int
BY BombardAssumption DEF TypeOK

\* A step that leaves the issuer, the channel and the map alone, does not take
\* the frontier back and believes nothing of what lies above it.
LEMMA BehindKept ==
  ASSUME NonceInv, CapInv', UNCHANGED <<issuing, inflight>>,
         failovers' = 0 => /\ failovers = 0 /\ frontier <= frontier'
                           /\ monitor'.seen <= frontier' /\ target' <= frontier'
                           /\ \A n \in reports' : n < frontier'
  PROVE  BehindFrontier'
<1> SUFFICES ASSUME failovers' = 0 PROVE BehindFrontier'
  BY DEF BehindFrontier
<1>0. CapInv /\ TypeOK'
  BY DEF NonceInv, CapInv
<1>1. ASSUME NEW n \in Nonces, frontier' <= n, n < HandedOver PROVE Handled(n)
  <2>1. frontier \in Int /\ n \in Int
    BY <1>0, BombardShape
  <2>2. frontier' \in Int
    BY <1>0, FrontierShape
  <2>3. frontier <= frontier'
    OBVIOUS
  <2>4. frontier <= n
    BY <1>1, <2>1, <2>2, <2>3
  <2> QED BY <1>1, <2>4 DEF NonceInv, BehindFrontier
<1> QED BY <1>1 DEF issuing, BehindFrontier, HandedOver, Handled

LEMMA IssuerLoses ==
  ASSUME NonceInv, CapInv', Issuer PROVE BehindFrontier'
<1> SUFFICES ASSUME failovers' = 0 PROVE BehindFrontier'
  BY DEF BehindFrontier
<1>1. /\ failovers = 0 /\ frontier' = frontier /\ reports' = reports
      /\ monitor' = monitor /\ target' = target
  BY DEF Issuer, Issue, Count, TakeResync, ClearResync, chain, watch, resync
<1>2. BehindFrontier /\ CapInv
  BY DEF NonceInv
<1>3. ASSUME NEW n \in Nonces, frontier <= n, n < HandedOver' PROVE Handled(n)'
  <2>1. n \in Int /\ frontier \in Nat /\ next \in Nat /\ target \in Int
    BY <1>2, BombardShape
  <2>2. CASE Issue
    <3>1. sendCh \in Seq(Nonces) /\ next \in Nonces /\ Len(sendCh) \in Nat
      BY <1>2, <2>2, BombardShape, BombardAssumption DEF Issue, Nonces
    <3>2. /\ Len(sendCh') = Len(sendCh) + 1 /\ sendCh'[Len(sendCh) + 1] = next
          /\ \A i \in 1 .. Len(sendCh) : sendCh'[i] = sendCh[i]
      BY <3>1, <2>2, AppendProperties DEF Issue
    <3>3. inflight' = inflight /\ next' = next /\ issuer = "loop" /\ issuer' = "count"
      BY <2>2 DEF Issue, tracker
    <3>4. CASE n = next
      <4>1. Len(sendCh) + 1 \in 1 .. Len(sendCh')
        BY <3>1, <3>2
      <4> QED BY <3>2, <3>4, <4>1 DEF Handled
    <3>5. CASE n < next
      <4>1. Handled(n)
        BY <1>1, <1>2, <1>3, <3>3, <3>5 DEF BehindFrontier, HandedOver
      <4>2. \A i \in 1 .. Len(sendCh) : i \in 1 .. Len(sendCh')
        BY <3>1, <3>2
      <4> QED BY <3>2, <3>3, <4>1, <4>2 DEF Handled
    <3> QED BY <1>3, <2>1, <3>3, <3>4, <3>5 DEF HandedOver
  <2>3. CASE Count
    BY <1>1, <1>2, <1>3, <2>3 DEF BehindFrontier, HandedOver, Handled, Count
  <2>4. CASE TakeResync
    <3>1. n < target /\ target <= frontier
      BY <1>1, <1>2, <1>3, <2>4 DEF BehindFrontier, HandedOver, TakeResync
    <3> QED BY <1>3, <2>1, <3>1
  <2>5. CASE ClearResync
    BY <1>1, <1>2, <1>3, <2>5
       DEF BehindFrontier, HandedOver, Handled, ClearResync, tracker
  <2> QED BY <2>2, <2>3, <2>4, <2>5 DEF Issuer
<1> QED BY <1>1, <1>2, <1>3 DEF BehindFrontier

LEMMA WorkerLoses ==
  ASSUME NonceInv, CapInv', NEW i \in 1 .. Len(sendCh), Register(i)
  PROVE  BehindFrontier'
<1> SUFFICES ASSUME failovers' = 0 PROVE BehindFrontier'
  BY DEF BehindFrontier
<1>1. /\ failovers = 0 /\ frontier' = frontier /\ reports' = reports
      /\ monitor' = monitor /\ target' = target /\ next' = next /\ issuer' = issuer
      /\ inflight' = inflight \union {sendCh[i]}
      /\ sendCh' = SubSeq(sendCh, 1, i - 1) \o SubSeq(sendCh, i + 1, Len(sendCh))
  BY DEF Register, watch, resync
<1>2. BehindFrontier /\ CapInv /\ sendCh \in Seq(Nonces)
  BY BombardShape DEF NonceInv
<1>3. ASSUME NEW n \in Nonces, Handled(n) PROVE Handled(n)'
  <2>1. CASE n \in inflight
    BY <1>1, <2>1 DEF Handled
  <2>2. ASSUME NEW j \in 1 .. Len(sendCh), sendCh[j] = n PROVE Handled(n)'
    <3>1. CASE j = i
      BY <1>1, <2>2, <3>1 DEF Handled
    <3>2. CASE j # i
      <4>1. sendCh' = SubSeq(sendCh, 1, i - 1) \o SubSeq(sendCh, i + 1, Len(sendCh))
        BY <1>1
      <4>2. \E k \in 1 .. Len(sendCh') : sendCh'[k] = sendCh[j]
        BY <1>2, <3>2, <4>1, TakeKeeps
      <4> QED BY <2>2, <4>2 DEF Handled
    <3> QED BY <3>1, <3>2
  <2> QED BY <1>3, <2>1, <2>2 DEF Handled
<1> QED BY <1>1, <1>2, <1>3 DEF BehindFrontier, HandedOver

\* A watcher takes out of the map only what is below the frontier.
LEMMA WatcherLoses ==
  ASSUME NonceInv, CapInv', NEW m \in Nonces, Report(m)
  PROVE  BehindFrontier'
<1> SUFFICES ASSUME failovers' = 0 PROVE BehindFrontier'
  BY DEF BehindFrontier
<1>1. /\ failovers = 0 /\ frontier' = frontier /\ reports' \subseteq reports
      /\ monitor' = monitor /\ target' = target /\ next' = next /\ issuer' = issuer
      /\ inflight' = inflight \ {m} /\ sendCh' = sendCh /\ m \in reports
  BY DEF Report, issuing, watch, resync
<1>2. BehindFrontier /\ m < frontier /\ m \in Int /\ frontier \in Nat
  BY <1>1, BombardShape DEF NonceInv, BehindFrontier
<1>3. ASSUME NEW n \in Nonces, frontier <= n, Handled(n) PROVE Handled(n)'
  <2>1. n # m
    BY <1>2, <1>3
  <2> QED BY <1>1, <1>3, <2>1 DEF Handled
<1> QED BY <1>1, <1>2, <1>3 DEF BehindFrontier, HandedOver

LEMMA NonceStep == NonceInv /\ [Next]_vars => NonceInv'
<1> SUFFICES ASSUME NonceInv, [Next]_vars PROVE BehindFrontier' /\ CapInv'
  BY DEF NonceInv
<1>0. CapInv /\ CapInv'
  BY CapStep DEF NonceInv
<1>s. /\ frontier \in Nat /\ monitor.seen \in Int /\ target \in Int
      /\ monitor \in Tick /\ failovers \in Nat /\ reports \subseteq Int
  BY <1>0, BombardShape
<1>b. failovers = 0 => /\ monitor.seen <= frontier /\ target <= frontier
                       /\ \A n \in reports : n < frontier
  BY DEF NonceInv, BehindFrontier
<1>1. CASE Issuer
  BY <1>0, <1>1, IssuerLoses
<1>2. CASE Worker
  BY <1>0, <1>2, WorkerLoses DEF Worker
<1>3. CASE Monitor
  <2>1. UNCHANGED <<issuing, inflight, failovers, frontier, reports>>
    BY <1>3 DEF Monitor, ReadCounters, ReadFrontier, Decide, chain, tracker
  <2>2. failovers = 0 => monitor'.seen <= frontier /\ target' <= frontier
    <3>1. CASE ReadCounters
      BY <1>b, <1>s, <3>1 DEF ReadCounters, resync, Tick
    <3>2. CASE ReadFrontier
      <4>1. target' = target
        BY <3>2 DEF ReadFrontier, resync
      <4>2. \/ monitor'.seen = frontier
            \/ monitor'.seen = monitor.seen
            \/ \E f \in Nonces : (f < frontier \/ failovers > 0) /\ monitor'.seen = f
        BY <1>s, <3>2 DEF ReadFrontier, Tick
      <4>3. Nonces \subseteq Int
        BY <1>0, BombardShape
      <4> QED BY <1>b, <1>s, <4>1, <4>2, <4>3
    <3>3. CASE Decide
      BY <1>b, <1>s, <3>3 DEF Decide, RequestResync, Waiting, resync
    <3> QED BY <1>3, <3>1, <3>2, <3>3 DEF Monitor
  <2> QED BY <1>0, <1>b, <1>s, <2>1, <2>2, BehindKept
<1>4. CASE Mine
  <2>1. /\ UNCHANGED <<issuing, inflight, failovers, monitor, target>>
        /\ frontier' = frontier + 1 /\ reports' = reports \union {frontier}
    BY <1>4 DEF Mine, tracker, watch, resync
  <2> QED BY <1>0, <1>b, <1>s, <2>1, BehindKept
<1>5. ASSUME NEW n \in Nonces, Resubmit(n) \/ Late(n) \/ Miss(n)
      PROVE  BehindFrontier'
  <2>1. /\ UNCHANGED <<issuing, inflight, failovers, monitor, target, frontier>>
        /\ reports' \subseteq reports
    BY <1>5 DEF Resubmit, Late, Miss, tracker, watch, resync
  <2> QED BY <1>0, <1>b, <1>s, <2>1, BehindKept
<1>6. ASSUME NEW n \in Nonces, FailOver(n) PROVE BehindFrontier'
  BY <1>6, <1>s DEF FailOver, BehindFrontier
<1>7. ASSUME NEW n \in Nonces, Report(n) PROVE BehindFrontier'
  BY <1>0, <1>7, WatcherLoses
<1>8. CASE UNCHANGED vars
  <2>1. /\ UNCHANGED <<issuing, inflight, failovers, monitor, target, frontier>>
        /\ reports' = reports
    BY <1>8 DEF vars, issuing
  <2> QED BY <1>0, <1>b, <1>s, <2>1, BehindKept
<1> QED BY <1>0, <1>1, <1>2, <1>3, <1>4, <1>5, <1>6, <1>7, <1>8 DEF Next

\* As long as the chain has not gone back, every nonce the issuer passed and
\* the chain has not mined is with a worker or in the tracker's map, so that it
\* is sent, or sent again; a resync, however late it is applied, skips none
\* (main.go:511, :609).
THEOREM ResyncLosesNothing == Spec => []NoNonceLost
<1>1. Init => NonceInv
  BY CapInit DEF Init, NonceInv, BehindFrontier, HandedOver, Nonces, Waiting
<1>2. NonceInv => NoNonceLost
  <2> SUFFICES ASSUME NonceInv, failovers = 0, NEW n \in Nonces, frontier <= n, n < next
               PROVE  Handled(n)
    BY DEF NoNonceLost, Handled
  <2>1. n < HandedOver
    BY BombardShape DEF NonceInv, HandedOver
  <2> QED BY <2>1 DEF NonceInv, BehindFrontier
<1> QED BY <1>1, <1>2, NonceStep, PTL DEF Spec

=============================================================================
