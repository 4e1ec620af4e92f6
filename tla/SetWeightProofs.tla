--------------------------- MODULE SetWeightProofs ---------------------------
(***************************************************************************)
(* No weight is changed by a run that did not read the weight it replaces, *)
(* and no change is issued before the P-chain's epoch covers the           *)
(* conversion of the management subnet; for any number of operators, any   *)
(* lag of the replicas, and any crash or late acceptance.  The search for  *)
(* the block of the conversion finds it on every chain.                    *)
(***************************************************************************)
EXTENDS SetWeight, SequenceTheorems, WellFoundedInduction, TLAPS

\* There is one conversion, and the epoch's height is one of the chain.
ChainOK ==
  /\ \E h \in 0 .. Tip : Block(h).converts
  /\ \A h, k \in 0 .. Tip : Block(h).converts /\ Block(k).converts => h = k
  /\ \A h \in 0 .. Tip, i \in Identities : Validator(h, i).weight \in Weights

\* What was read of a validator, at any height: each change raises the nonce,
\* so with the nonce of now it is the weight of now.
Current(v, i) ==
  /\ v.nonce <= Validator(Tip, i).nonce
  /\ v.nonce = Validator(Tip, i).nonce => v.weight = Validator(Tip, i).weight

HistoryOK == \A h \in 0 .. Tip, i \in Identities : Current(Validator(h, i), i)

\* A change on its way carries what its run read.
ChangesCurrent ==
  \A c \in mempool : Current([weight |-> c.from, nonce |-> c.nonce], c.identity)

\* A run has its target, and after that what it read of it.
RunOK(o) ==
  /\ op[o].phase # "idle" => /\ op[o].id > 0 /\ op[o].identity \in Identities
                             /\ op[o].weight \in Weights
  /\ op[o].phase \notin {"idle", "height", "target"} =>
       op[o].seen.weight \in Weights /\ Current(op[o].seen, op[o].identity)
  /\ op[o].tip \in 0 .. Tip

Covers(o) == Pinned >= op[o].conversion

\* An epoch pins a height below its blocks, and later ones pin higher.
EpochsOK ==
  \A h \in 0 .. Tip : Block(h).pinned <= h /\ Block(h).pinned <= Pinned

\* From the gate on a run holds the conversion; since it first looked, a new
\* epoch covers that, or the old one is still to be sealed, or it has been told
\* of an epoch that was over.
GateOK(o) ==
  /\ op[o].phase \in {"gate", "wait", "nudge", "look"} =>
       op[o].conversion \in 0 .. Tip /\ Block(op[o].conversion).converts
  /\ op[o].phase \notin {"nudge", "look", "invisible"} => op[o].nudges = 0
  /\ op[o].phase = "wait" => op[o].pin = Pinned \/ Covers(o) \/ op[o].stale
  /\ op[o].phase = "nudge" =>
       /\ op[o].nudges < 2
       /\ Covers(o) \/ op[o].stale \/ (due /\ (op[o].nudges > 0 => past))
  /\ op[o].phase = "look" =>
       /\ op[o].nudges > 0
       /\ Covers(o) \/ op[o].stale \/ (op[o].nudges = 1 /\ due /\ past)
  /\ op[o].phase = "issue" => Pinned >= Conversion
  /\ op[o].phase = "invisible" => op[o].stale

WeightInv ==
  /\ TypeOK /\ ChainOK /\ EpochsOK /\ HistoryOK /\ ChangesCurrent
  /\ \A o \in Operators : RunOK(o) /\ GateOK(o)

-----------------------------------------------------------------------------
(* Blocks, heights and validators.                                         *)
BlockRecord == [time : Nat, pinned : Nat, converts : BOOLEAN,
                change : Changes \union {NoChange}, validators : [Identities -> Record]]

RunRecord ==
  [phase : Phases, id : Nat, identity : Identities \union {NotFound},
   weight : Weights \union {0}, tip : Nat, seen : Record,
   conversion : Nat \union {NotFound}, pin : Nat, nudges : 0 .. Nudges,
   stale : BOOLEAN]

LEMMA BlockTypes ==
  ASSUME TypeOK
  PROVE  /\ Tip \in Nat /\ Len(blocks) = Tip + 1 /\ DOMAIN blocks = 1 .. Tip + 1
         /\ \A h \in 0 .. Tip : Block(h) \in BlockRecord
         /\ \A h \in 0 .. Tip, i \in Identities :
              /\ Validator(h, i) \in Record
              /\ Validator(h, i).nonce \in Nat
         /\ Served \subseteq 0 .. Tip
         /\ Served \subseteq Nat
         /\ Pinned \in Nat /\ \A h \in 0 .. Tip : Block(h).pinned \in Nat
<1>1. blocks \in Seq(BlockRecord) /\ blocks # <<>>
  BY DEF TypeOK, BlockRecord
<1>2. Len(blocks) \in Nat \ {0} /\ DOMAIN blocks = 1 .. Len(blocks)
  BY <1>1, EmptySeq
<1>3. Tip \in Nat /\ Len(blocks) = Tip + 1
  BY <1>2 DEF Tip
<1>4. ASSUME NEW h \in 0 .. Tip PROVE Block(h) \in BlockRecord
  <2>1. h + 1 \in 1 .. Len(blocks)
    BY <1>3
  <2> QED BY <1>1, <2>1, ElementOfSeq DEF Block
<1>5. ASSUME NEW h \in 0 .. Tip, NEW i \in Identities
      PROVE  Validator(h, i) \in Record /\ Validator(h, i).nonce \in Nat
  <2>1. Block(h).validators \in [Identities -> Record]
    BY <1>4 DEF BlockRecord
  <2>2. Validator(h, i) \in Record
    BY <2>1 DEF Validator
  <2> QED BY <2>2 DEF Record
<1>6. Served \subseteq 0 .. Tip
  BY <1>3, SetWeightAssumption DEF Served
<1>7. \A h \in 0 .. Tip : Block(h).pinned \in Nat
  BY <1>4 DEF BlockRecord
<1>8. Pinned \in Nat
  BY <1>3, <1>7 DEF Pinned
<1> QED BY <1>2, <1>3, <1>4, <1>5, <1>6, <1>7, <1>8

LEMMA ConversionIs ==
  ASSUME TypeOK, ChainOK
  PROVE  /\ Conversion \in 0 .. Tip
         /\ Block(Conversion).converts
         /\ \A h \in 0 .. Tip : Block(h).converts => h = Conversion
BY DEF ChainOK, Conversion

LEMMA RunTypes ==
  ASSUME TypeOK, NEW o \in Operators
  PROVE  /\ op[o] \in RunRecord /\ op \in [Operators -> RunRecord]
         /\ op[o].seen \in Record /\ op[o].seen.nonce \in Nat
         /\ op[o].tip \in Nat /\ op[o].pin \in Nat /\ op[o].nudges \in 0 .. 2
         /\ op[o].id \in Nat
BY DEF TypeOK, RunRecord, Record, Nudges

LEMMA IdleRun ==
  /\ Idle \in RunRecord /\ Idle.phase = "idle" /\ Idle.tip = 0 /\ Idle.nudges = 0
BY DEF Idle, RunRecord, Phases, Record, NotFound, Nudges

\* The chain grows by a block that leaves a validator alone or raises its
\* nonce, and the epoch moves as Extend has it.
Added(i) == blocks'[Tip + 2].validators[i]

Grown ==
  /\ blocks' \in Seq(BlockRecord) /\ blocks' # <<>>
  /\ Tip' = Tip + 1
  /\ \A h \in 0 .. Tip : blocks'[h + 1] = blocks[h + 1]
  /\ ~blocks'[Tip + 2].converts
  /\ blocks'[Tip + 2].time >= Block(Tip).time
  /\ \A i \in Identities :
       /\ Added(i).weight \in Weights
       /\ Added(i) = Validator(Tip, i) \/ Added(i).nonce > Validator(Tip, i).nonce

EpochMoves ==
  /\ Pinned' \in Nat /\ due' \in BOOLEAN /\ past' \in BOOLEAN
  /\ blocks'[Tip + 2].pinned = Pinned'
  /\ \/ Pinned' = Tip
     \/ Pinned' = Pinned /\ due' = due /\ ~past /\ past' = due

LEMMA ExtendGrows ==
  ASSUME TypeOK, NEW change \in Changes \union {NoChange},
         NEW vals \in [Identities -> Record], Extend(change, vals),
         \A i \in Identities :
           /\ vals[i].weight \in Weights
           /\ vals[i] = Validator(Tip, i) \/ vals[i].nonce > Validator(Tip, i).nonce
  PROVE  /\ Grown /\ EpochMoves
         /\ blocks'[Len(blocks')].change = change
         /\ \A i \in Identities : Added(i) = vals[i]
<1>1. PICK t \in {Block(Tip).time, Block(Tip).time + 1} :
        blocks' = Append(blocks, [time |-> t, pinned |-> IF past THEN Tip ELSE Pinned,
                                  converts |-> FALSE, change |-> change,
                                  validators |-> vals])
  BY DEF Extend
<1>2. Tip \in Nat /\ Len(blocks) = Tip + 1 /\ Block(Tip).time \in Nat /\ Pinned \in Nat
  BY BlockTypes DEF BlockRecord
<1>p. PICK pin \in Nat : pin = IF past THEN Tip ELSE Pinned
  BY <1>2
<1> DEFINE b == [time |-> t, pinned |-> pin, converts |-> FALSE, change |-> change,
                 validators |-> vals]
<1>3. /\ b \in BlockRecord /\ b.converts = FALSE /\ b.change = change
      /\ b.validators = vals /\ b.time >= Block(Tip).time /\ b.pinned = pin
  BY <1>1, <1>2 DEF BlockRecord
<1>4. blocks \in Seq(BlockRecord) /\ blocks' = Append(blocks, b)
  BY <1>1, <1>p DEF TypeOK, BlockRecord
<1> HIDE DEF b
<1>5. /\ blocks' \in Seq(BlockRecord) /\ blocks' # <<>>
      /\ Len(blocks') = Tip + 2
      /\ \A k \in 1 .. Tip + 1 : blocks'[k] = blocks[k]
      /\ blocks'[Tip + 2] = b
  <2>1. Len(blocks) + 1 = Tip + 2
    BY <1>2
  <2> QED BY <1>2, <1>3, <1>4, <2>1, AppendProperties
<1>6. Tip' = Tip + 1
  BY <1>2, <1>5 DEF Tip
<1>7. \A h \in 0 .. Tip : blocks'[h + 1] = blocks[h + 1]
  BY <1>2, <1>5
<1>8. \A i \in Identities : Added(i) = vals[i]
  BY <1>3, <1>5 DEF Added
<1>9. Grown
  BY <1>3, <1>5, <1>6, <1>7, <1>8 DEF Grown
<1>10. EpochMoves
  <2>1. Pinned' = pin /\ blocks'[Tip + 2].pinned = pin
    <3>1. (Tip + 1) + 1 = Tip + 2
      BY <1>2
    <3>2. Pinned' = blocks'[Tip' + 1].pinned
      BY DEF Pinned, Block
    <3> QED BY <1>3, <1>5, <1>6, <3>1, <3>2
  <2>2. /\ due' \in BOOLEAN /\ past' \in BOOLEAN
        /\ past \/ (due' = due /\ past' = due)
    BY DEF Extend, TypeOK
  <2>3. past \in BOOLEAN
    BY DEF TypeOK
  <2> QED BY <1>2, <1>p, <2>1, <2>2, <2>3 DEF EpochMoves
<1> QED BY <1>3, <1>5, <1>8, <1>9, <1>10

LEMMA GrownKeeps ==
  ASSUME TypeOK, ChainOK, HistoryOK, Grown
  PROVE  /\ ChainOK' /\ HistoryOK'
         /\ Conversion' = Conversion
         /\ \A v, i : i \in Identities /\ v.nonce \in Nat /\ Current(v, i)
                        => Current(v, i)'
<1>0. PICK top \in Nat : top = Tip + 1
  BY BlockTypes
<1>1. Tip \in Nat /\ Tip' = top /\ Tip = top - 1
  BY <1>0, BlockTypes DEF Grown
<1>2. \A h \in 0 .. Tip' : h \in 0 .. Tip \/ h = top
  BY <1>0, <1>1
<1>3. ASSUME NEW h \in 0 .. Tip
      PROVE  Block(h)' = Block(h) /\ \A i \in Identities : Validator(h, i)' = Validator(h, i)
  BY <1>3 DEF Grown, Block, Validator
<1>4. /\ ~Block(top)'.converts
      /\ \A i \in Identities : Validator(Tip, i)' = Added(i) /\ Validator(top, i)' = Added(i)
  <2>1. top + 1 = Tip + 2
    BY <1>0, <1>1
  <2> QED BY <1>1, <2>1 DEF Block, Validator, Added, Grown
<1>5. ASSUME NEW v, NEW i \in Identities, v.nonce \in Nat, Current(v, i)
      PROVE  Current(v, i)'
  <2>1. Validator(Tip, i).nonce \in Nat
    BY <1>1, BlockTypes
  <2>2. CASE Added(i) = Validator(Tip, i)
    BY <1>4, <1>5, <2>2 DEF Current
  <2>3. CASE Added(i).nonce > Validator(Tip, i).nonce
    <3>1. blocks'[Tip + 2] \in BlockRecord
      <4>1. Len(blocks') = Tip' + 1 /\ Len(blocks') \in Nat
        BY DEF Grown, Tip
      <4>2. Tip + 2 \in 1 .. Len(blocks')
        BY <1>0, <1>1, <4>1
      <4> QED BY <4>2, ElementOfSeq DEF Grown
    <3>2. Added(i).nonce \in Nat
      BY <3>1 DEF Added, BlockRecord, Record
    <3>3. v.nonce < Added(i).nonce
      BY <1>5, <2>1, <2>3, <3>2 DEF Current
    <3> QED BY <1>4, <1>5, <3>2, <3>3 DEF Current
  <2> QED BY <2>2, <2>3 DEF Grown
<1>6. ChainOK'
  <2>1. \E h \in 0 .. Tip' : Block(h)'.converts
    <3>1. PICK h \in 0 .. Tip : Block(h).converts
      BY DEF ChainOK
    <3> QED BY <1>0, <1>1, <1>3, <3>1
  <2>2. ASSUME NEW h \in 0 .. Tip', NEW k \in 0 .. Tip',
               Block(h)'.converts, Block(k)'.converts
        PROVE  h = k
    BY <1>2, <1>3, <1>4, <2>2 DEF ChainOK
  <2>3. ASSUME NEW h \in 0 .. Tip', NEW i \in Identities
        PROVE  Validator(h, i)'.weight \in Weights
    BY <1>2, <1>3, <1>4 DEF ChainOK, Grown
  <2> QED BY <2>1, <2>2, <2>3 DEF ChainOK
<1>7. HistoryOK'
  <2>1. ASSUME NEW h \in 0 .. Tip', NEW i \in Identities
        PROVE  Current(Validator(h, i), i)'
    <3>1. CASE h = top
      <4>1. Added(i).nonce \in Nat
        <5>1. Len(blocks') = Tip' + 1 /\ Len(blocks') \in Nat
          BY DEF Grown, Tip
        <5>2. Tip + 2 \in 1 .. Len(blocks')
          BY <1>0, <1>1, <5>1
        <5>3. blocks'[Tip + 2] \in BlockRecord
          BY <5>2, ElementOfSeq DEF Grown
        <5> QED BY <5>3 DEF Added, BlockRecord, Record
      <4>2. Validator(h, i)' = Validator(Tip, i)' /\ Validator(h, i)'.nonce \in Nat
        BY <3>1, <4>1, <1>4
      <4> QED BY <4>2 DEF Current
    <3>2. CASE h \in 0 .. Tip
      <4>1. PICK v : v = Validator(h, i)
        OBVIOUS
      <4>2. v.nonce \in Nat /\ Current(v, i)
        BY <3>2, <4>1, BlockTypes DEF HistoryOK
      <4>3. Current(v, i)' /\ v = Validator(h, i)'
        BY <1>3, <1>5, <3>2, <4>1, <4>2
      <4> QED BY <4>3 DEF Current
    <3> QED BY <1>2, <3>1, <3>2
  <2> QED BY <2>1 DEF HistoryOK
<1>8. Conversion' = Conversion
  <2>1. Conversion \in 0 .. Tip /\ Block(Conversion).converts
    BY ConversionIs
  <2>2. PICK c \in 0 .. Tip : c = Conversion
    BY <2>1
  <2>3. c \in 0 .. Tip' /\ Block(c)'.converts
    BY <1>0, <1>1, <1>3, <2>1, <2>2
  <2>4. \A h \in 0 .. Tip' : Block(h)'.converts => h = c
    BY <1>6, <2>3 DEF ChainOK
  <2>5. Conversion' = c
    BY <2>3, <2>4 DEF Conversion
  <2> QED BY <2>2, <2>5
<1> QED BY <1>5, <1>6, <1>7, <1>8

LEMMA EpochsKept ==
  ASSUME TypeOK, EpochsOK, Grown, EpochMoves
  PROVE  EpochsOK'
<1>1. PICK top \in Nat : top = Tip + 1 /\ top + 1 = Tip + 2
  BY BlockTypes
<1>2. /\ Tip' = top /\ Tip = top - 1 /\ Tip \in Nat /\ Pinned \in Nat /\ Pinned' \in Nat
      /\ Pinned <= Tip /\ Pinned' \in {Tip, Pinned}
  <2>1. Pinned <= Tip
    <3>1. Tip \in 0 .. Tip
      BY BlockTypes
    <3> QED BY <3>1 DEF EpochsOK, Pinned
  <2>2. Tip \in Nat /\ Pinned \in Nat
    BY BlockTypes
  <2>3. Tip' = Tip + 1
    BY DEF Grown
  <2>4. Pinned' \in Nat /\ Pinned' \in {Tip, Pinned}
    BY DEF EpochMoves
  <2> QED BY <1>1, <2>1, <2>2, <2>3, <2>4
<1>3. Block(top)'.pinned = Pinned'
  BY <1>1 DEF EpochMoves, Block
<1>4. ASSUME NEW h \in 0 .. Tip' PROVE Block(h)'.pinned <= h /\ Block(h)'.pinned <= Pinned'
  <2>1. CASE h = top
    BY <1>2, <1>3, <2>1
  <2>2. CASE h # top
    <3>0. h \in 0 .. Tip
      BY <1>2, <2>2
    <3>1. h \in 0 .. Tip /\ Block(h)' = Block(h)
      BY <3>0 DEF Grown, Block
    <3>2. PICK q \in Nat : q = Block(h).pinned
      BY <3>1, BlockTypes
    <3>3. q <= h /\ q <= Pinned /\ q <= Tip
      BY <1>2, <3>1, <3>2 DEF EpochsOK
    <3> QED BY <1>2, <3>1, <3>2, <3>3
  <2> QED BY <2>1, <2>2
<1> QED BY <1>4 DEF EpochsOK

-----------------------------------------------------------------------------
(* Runs.                                                                   *)

\* What was read stays current, and the gate keeps its promise, for a run that
\* rests while the chain grows.
LEMMA GateMoves ==
  ASSUME WeightInv, Grown, EpochMoves, NEW o \in Operators, op'[o] = op[o]
  PROVE  RunOK(o)' /\ GateOK(o)'
<1>0. TypeOK /\ ChainOK /\ HistoryOK /\ RunOK(o) /\ GateOK(o)
  BY DEF WeightInv
<1>1. /\ Tip \in Nat /\ Tip' = Tip + 1 /\ Pinned \in Nat /\ op[o].nudges \in 0 .. 2
      /\ op[o].seen.nonce \in Nat
  BY <1>0, BlockTypes, RunTypes DEF Grown, TypeOK
<1>2. /\ Conversion' = Conversion /\ Conversion \in 0 .. Tip
      /\ \A v, i : i \in Identities /\ v.nonce \in Nat /\ Current(v, i) => Current(v, i)'
  BY <1>0, GrownKeeps, ConversionIs
<1>3. RunOK(o)'
  <2>1. ASSUME op[o].phase \notin {"idle", "height", "target"}
        PROVE  Current(op[o].seen, op[o].identity)'
    <3>1. PICK v : v = op[o].seen
      OBVIOUS
    <3>2. PICK i : i = op[o].identity
      OBVIOUS
    <3>3. i \in Identities /\ v.nonce \in Nat /\ Current(v, i)
      BY <1>0, <1>1, <2>1, <3>1, <3>2 DEF RunOK
    <3>4. Current(v, i)' /\ v = op'[o].seen /\ i = op'[o].identity
      BY <1>2, <3>1, <3>2, <3>3
    <3> QED BY <3>4 DEF Current
  <2> QED BY <1>0, <1>1, <2>1 DEF RunOK
<1>4. ASSUME op[o].phase \in {"gate", "wait", "nudge", "look"}
      PROVE  /\ op[o].conversion \in 0 .. Tip' /\ Block(op[o].conversion)'.converts
             /\ Pinned' = Tip => Pinned' >= op[o].conversion
  <2>1. PICK c \in 0 .. Tip : c = op[o].conversion
    BY <1>0, <1>4 DEF GateOK
  <2>2. Block(c).converts /\ blocks'[c + 1] = blocks[c + 1]
    BY <1>0, <1>4, <2>1 DEF GateOK, Grown
  <2> QED BY <1>1, <2>1, <2>2 DEF Block
<1>5. Pinned' = Tip => Pinned' >= Conversion
  BY <1>1, <1>2
<1>6. ASSUME Pinned' = Tip PROVE GateOK(o)'
  BY <1>0, <1>2, <1>4, <1>5, <1>6 DEF GateOK, Covers
<1>7. ASSUME Pinned' = Pinned, due' = due, ~past, past' = due PROVE GateOK(o)'
  BY <1>0, <1>1, <1>2, <1>4, <1>7 DEF GateOK, Covers
<1> QED BY <1>3, <1>6, <1>7 DEF EpochMoves

\* A run takes a step, the chain rests.
LEMMA RunStep ==
  ASSUME WeightInv, NEW o \in Operators, NEW r \in RunRecord,
         op' = [op EXCEPT ![o] = r],
         UNCHANGED network, mempool' = mempool,
         commands' = commands \/ commands' \in Nat,
         RunOK(o)', GateOK(o)'
  PROVE  WeightInv'
<1>1. TypeOK'
  BY DEF WeightInv, TypeOK, RunRecord, network
<1>2. ChainOK' /\ EpochsOK' /\ HistoryOK' /\ ChangesCurrent'
  BY DEF WeightInv, ChainOK, EpochsOK, Pinned, HistoryOK, ChangesCurrent, Current, Tip,
         Block, Validator, network
<1>3. ASSUME NEW p \in Operators, p # o PROVE RunOK(p)' /\ GateOK(p)'
  <2>1. op'[p] = op[p]
    BY <1>3 DEF WeightInv, TypeOK
  <2>2. RunOK(p) /\ GateOK(p)
    BY DEF WeightInv
  <2>3. Tip' = Tip /\ Conversion' = Conversion /\ Pinned' = Pinned
    BY DEF Tip, Conversion, Block, Pinned, network
  <2>4. RunOK(p)'
    BY <2>1, <2>2, <2>3 DEF RunOK, Current, Validator, Block, network
  <2>5. GateOK(p)'
    BY <2>1, <2>2, <2>3 DEF GateOK, Covers, Block, network
  <2> QED BY <2>4, <2>5
<1> QED BY <1>1, <1>2, <1>3 DEF WeightInv

LEMMA EndRun ==
  ASSUME WeightInv, NEW o \in Operators, End(o), UNCHANGED <<network, mempool, commands>>
  PROVE  WeightInv'
<1>1. op'[o] = Idle /\ op' = [op EXCEPT ![o] = Idle]
  BY DEF End, WeightInv, TypeOK
<1>2. 0 \in 0 .. Tip'
  BY BlockTypes DEF WeightInv, Tip, network
<1>3. RunOK(o)' /\ GateOK(o)'
  BY <1>1, <1>2, IdleRun DEF RunOK, GateOK
<1> QED BY <1>1, <1>3, IdleRun, RunStep DEF WeightInv, TypeOK

\* The record of a run that takes a step, and what it may rely on.
LEMMA Resting ==
  ASSUME WeightInv, NEW o \in Operators, UNCHANGED network
  PROVE  /\ op[o] \in RunRecord /\ op \in [Operators -> RunRecord]
         /\ RunOK(o) /\ GateOK(o) /\ commands \in Nat
         /\ Tip' = Tip /\ Tip \in Nat /\ Conversion' = Conversion
         /\ UNCHANGED <<blocks, due, past>> /\ Pinned' = Pinned
         /\ \A v, i : Current(v, i)' <=> Current(v, i)
         /\ \A h : Block(h)' = Block(h)
<1>1. UNCHANGED <<blocks, due, past>> /\ Pinned' = Pinned
  BY DEF network, Pinned, Block, Tip
<1>2. Tip' = Tip /\ Conversion' = Conversion
  BY <1>1 DEF Tip, Conversion, Block
<1>3. \A v, i : Current(v, i)' <=> Current(v, i)
  BY <1>1, <1>2 DEF Current, Validator, Block
<1>4. op[o] \in RunRecord /\ op \in [Operators -> RunRecord] /\ Tip \in Nat /\ commands \in Nat
  BY RunTypes, BlockTypes DEF WeightInv, TypeOK
<1> QED BY <1>1, <1>2, <1>3, <1>4 DEF WeightInv, Block

LEMMA BeginsRun ==
  ASSUME WeightInv, NEW o \in Operators, NEW i \in Identities, NEW w \in Weights,
         Run(o, i, w)
  PROVE  WeightInv'
<1>1. UNCHANGED network /\ mempool' = mempool /\ commands' = commands + 1
  BY DEF Run
<1>2. PICK n \in Nat : n = commands' /\ n > 0
  BY <1>1, Resting
<1> DEFINE r == [Idle EXCEPT !.phase = "height", !.id = n, !.identity = i, !.weight = w]
<1>3. op' = [op EXCEPT ![o] = r]
  BY <1>2 DEF Run
<1>4. /\ r \in RunRecord /\ r.phase = "height" /\ r.id = n /\ r.identity = i
      /\ r.weight = w /\ r.tip = 0 /\ r.nudges = 0
  BY IdleRun DEF RunRecord, Phases
<1> HIDE DEF r
<1>5. op'[o] = r /\ 0 \in 0 .. Tip'
  BY <1>1, <1>3, Resting
<1>6. RunOK(o)' /\ GateOK(o)'
  BY <1>2, <1>4, <1>5 DEF RunOK, GateOK
<1> QED BY <1>1, <1>2, <1>3, <1>4, <1>6, RunStep

LEMMA ReadsHeight ==
  ASSUME WeightInv, NEW o \in Operators, ReadHeight(o)
  PROVE  WeightInv'
<1>1. UNCHANGED network /\ mempool' = mempool /\ commands' = commands
  BY DEF ReadHeight
<1>2. PICK h \in Served : op' = [op EXCEPT ![o].phase = "target", ![o].tip = h]
  BY DEF ReadHeight
<1>3. h \in 0 .. Tip /\ h \in Nat
  BY BlockTypes DEF WeightInv
<1> DEFINE r == [op[o] EXCEPT !.phase = "target", !.tip = h]
<1>4. op' = [op EXCEPT ![o] = r]
  BY <1>1, <1>2, Resting
<1>5. /\ r \in RunRecord /\ r.phase = "target" /\ r.tip = h
      /\ r.id = op[o].id /\ r.identity = op[o].identity /\ r.weight = op[o].weight
      /\ r.nudges = op[o].nudges
  <2>1. op[o] \in RunRecord
    BY <1>1, Resting
  <2> QED BY <1>3, <2>1 DEF RunRecord, Phases
<1> HIDE DEF r
<1>6. op'[o] = r /\ op[o].phase = "height"
  BY <1>1, <1>4, Resting DEF ReadHeight
<1>7. RunOK(o)' /\ GateOK(o)'
  BY <1>1, <1>3, <1>5, <1>6, Resting DEF RunOK, GateOK
<1> QED BY <1>1, <1>4, <1>5, <1>7, RunStep

LEMMA ReadsTarget ==
  ASSUME WeightInv, NEW o \in Operators, ReadTarget(o)
  PROVE  WeightInv'
<1>1. UNCHANGED network /\ mempool' = mempool /\ commands' = commands
  BY DEF ReadTarget
<1>2. PICK h \in getL1ValidatorAt(o) :
        \/ End(o)
        \/ op' = [op EXCEPT ![o].phase = "managers",
                            ![o].seen = Validator(h, op[o].identity)]
  BY DEF ReadTarget
<1>3. CASE End(o)
  BY <1>1, <1>3, EndRun
<1>4. CASE op' = [op EXCEPT ![o].phase = "managers",
                            ![o].seen = Validator(h, op[o].identity)]
  <2>1. h \in 0 .. Tip /\ op[o].phase = "target" /\ op[o].identity \in Identities
    BY <1>1, <1>2, BlockTypes, Resting DEF getL1ValidatorAt, WeightInv, ReadTarget, RunOK
  <2>2. PICK v : v = Validator(h, op[o].identity)
    OBVIOUS
  <2>3. v \in Record /\ v.weight \in Weights /\ Current(v, op[o].identity)
    BY <2>1, <2>2, BlockTypes DEF WeightInv, ChainOK, HistoryOK
  <2> DEFINE r == [op[o] EXCEPT !.phase = "managers", !.seen = v]
  <2>4. op' = [op EXCEPT ![o] = r]
    BY <1>1, <1>4, <2>2, Resting
  <2>5. /\ r \in RunRecord /\ r.phase = "managers" /\ r.seen = v /\ r.tip = op[o].tip
        /\ r.id = op[o].id /\ r.identity = op[o].identity /\ r.weight = op[o].weight
        /\ r.nudges = op[o].nudges
    <3>1. op[o] \in RunRecord
      BY <1>1, Resting
    <3>2. "managers" \in Phases
      BY DEF Phases
    <3> QED BY <2>3, <3>1, <3>2 DEF RunRecord
  <2> HIDE DEF r
  <2>6. op'[o] = r
    BY <1>1, <2>4, Resting
  <2>7. RunOK(o)'
    <3>1. Current(v, op[o].identity)'
      <4>1. PICK i : i = op[o].identity
        OBVIOUS
      <4>2. Current(v, i)'
        BY <1>1, <2>3, <4>1, Resting
      <4> QED BY <4>1, <4>2, <2>5, <2>6 DEF Current
    <3>2. Current(op[o].seen, op[o].identity)'
      BY <2>5, <2>6, <3>1 DEF Current
    <3> QED BY <1>1, <2>1, <2>3, <2>5, <2>6, <3>2, Resting DEF RunOK
  <2>8. GateOK(o)'
    BY <1>1, <2>1, <2>5, <2>6, Resting DEF GateOK
  <2> QED BY <1>1, <2>4, <2>5, <2>7, <2>8, RunStep
<1> QED BY <1>2, <1>3, <1>4

\* A run moves on with what it read of its target.
Knowing == Phases \ {"idle", "height", "target"}

KeepsTarget(o, r) ==
  /\ op[o].phase \in Knowing /\ r.phase \in Knowing
  /\ r.id = op[o].id /\ r.identity = op[o].identity /\ r.weight = op[o].weight
  /\ r.seen = op[o].seen /\ r.tip \in {op[o].tip, 0}

LEMMA TargetKept ==
  ASSUME WeightInv, UNCHANGED network, NEW o \in Operators, NEW r \in RunRecord,
         op' = [op EXCEPT ![o] = r], KeepsTarget(o, r)
  PROVE  RunOK(o)' /\ op'[o] = r
<1>1. op'[o] = r
  BY Resting
<1>2. Current(op[o].seen, op[o].identity)'
  <2>1. PICK v, i : v = op[o].seen /\ i = op[o].identity
    OBVIOUS
  <2>2. Current(v, i)'
    BY <2>1, Resting DEF RunOK, KeepsTarget, Knowing
  <2>3. op'[o].seen = v /\ op'[o].identity = i
    BY <1>1, <2>1 DEF KeepsTarget
  <2> QED BY <2>2, <2>3 DEF Current
<1>3. op'[o].tip \in 0 .. Tip'
  BY <1>1, Resting DEF RunOK, KeepsTarget
<1>4. op[o].phase # "idle" /\ op[o].phase \notin {"idle", "height", "target"}
  BY DEF KeepsTarget, Knowing
<1> QED BY <1>1, <1>2, <1>3, <1>4, Resting DEF RunOK, KeepsTarget

LEMMA FindsConversion ==
  ASSUME NEW tip, NEW time, findConversionHeight(tip, time) # NotFound
  PROVE  /\ findConversionHeight(tip, time) \in 0 .. tip
         /\ Block(findConversionHeight(tip, time)).converts
<1> DEFINE first == FirstAt(tip, time)
           found == {h \in 0 .. tip :
                       /\ h >= first /\ Block(h).converts
                       /\ \A k \in first .. h : Block(k).time = time}
<1>1. findConversionHeight(tip, time) = IF found = {} THEN NotFound ELSE CHOOSE h \in found : TRUE
  BY DEF findConversionHeight
<1>2. \A h \in found : h \in 0 .. tip /\ Block(h).converts
  OBVIOUS
<1> HIDE DEF found
<1>3. found # {} /\ findConversionHeight(tip, time) \in found
  BY <1>1
<1> QED BY <1>2, <1>3

LEMMA Locates ==
  ASSUME WeightInv, NEW o \in Operators, Locate(o)
  PROVE  WeightInv'
<1>1. UNCHANGED network /\ mempool' = mempool /\ commands' = commands
  BY DEF Locate
<1>2. PICK c : c = findConversionHeight(op[o].tip, ConversionTime)
  OBVIOUS
<1>3. \/ End(o)
      \/ c # NotFound /\ op' = [op EXCEPT ![o].phase = "gate", ![o].conversion = c,
                                         ![o].tip = 0]
  BY <1>2 DEF Locate
<1>4. CASE End(o)
  BY <1>1, <1>4, EndRun
<1>5. CASE c # NotFound /\ op' = [op EXCEPT ![o].phase = "gate", ![o].conversion = c,
                                           ![o].tip = 0]
  <2>1. c \in 0 .. Tip /\ c \in Nat /\ Block(c).converts
    <3>1. c \in 0 .. op[o].tip /\ Block(c).converts
      BY <1>2, <1>5, FindsConversion
    <3> QED BY <1>1, <3>1, Resting DEF RunOK
  <2> DEFINE r == [op[o] EXCEPT !.phase = "gate", !.conversion = c, !.tip = 0]
  <2>2. op' = [op EXCEPT ![o] = r]
    BY <1>1, <1>5, Resting
  <2>3. /\ r \in RunRecord /\ r.phase = "gate" /\ r.conversion = c
        /\ r.nudges = op[o].nudges
    <3>1. op[o] \in RunRecord
      BY <1>1, Resting
    <3>2. "gate" \in Phases
      BY DEF Phases
    <3> QED BY <2>1, <3>1, <3>2 DEF RunRecord
  <2>4. KeepsTarget(o, r) /\ op[o].phase = "managers"
    BY <1>1, Resting DEF RunRecord, KeepsTarget, Knowing, Phases, Locate
  <2> HIDE DEF r
  <2>5. RunOK(o)' /\ op'[o] = r
    BY <1>1, <2>2, <2>3, <2>4, TargetKept
  <2>6. GateOK(o)'
    BY <1>1, <2>1, <2>3, <2>4, <2>5, Resting DEF GateOK
  <2> QED BY <1>1, <2>2, <2>3, <2>5, <2>6, RunStep
<1> QED BY <1>3, <1>4, <1>5

\* The epoch that a replica tells of is not ahead of the chain's.
LEMMA ToldBehind ==
  ASSUME WeightInv, NEW h \in Served
  PROVE  EpochAt(h) \in Nat /\ EpochAt(h) <= Pinned
<1>1. h \in 0 .. Tip
  BY BlockTypes DEF WeightInv
<1> QED BY <1>1, BlockTypes DEF WeightInv, EpochsOK, EpochAt

\* Through the gate, with an epoch whose height is at or above the conversion.
LEMMA GoesThrough ==
  ASSUME WeightInv, NEW o \in Operators, op[o].phase \in {"gate", "look"},
         NEW h \in Served, Visible(o, EpochAt(h)), op' = Through(o),
         UNCHANGED <<network, mempool, commands>>
  PROVE  WeightInv'
<1>1. UNCHANGED network /\ mempool' = mempool /\ commands' = commands
  OBVIOUS
<1> DEFINE r == [op[o] EXCEPT !.phase = "issue", !.conversion = NotFound,
                              !.pin = 0, !.nudges = 0, !.stale = FALSE]
<1>2. op' = [op EXCEPT ![o] = r]
  BY <1>1, Resting DEF Through
<1>3. r \in RunRecord /\ r.phase = "issue" /\ r.nudges = 0
  <2>1. 0 \in 0 .. Nudges /\ 0 \in Nat /\ "issue" \in Phases
    BY DEF Nudges, Phases
  <2>2. op[o] \in RunRecord
    BY <1>1, Resting
  <2> QED BY <2>1, <2>2 DEF RunRecord
<1>4. KeepsTarget(o, r)
  BY <1>1, Resting DEF RunRecord, KeepsTarget, Knowing, Phases
<1> HIDE DEF r
<1>5. RunOK(o)' /\ op'[o] = r
  BY <1>1, <1>2, <1>3, <1>4, TargetKept
<1>6. Pinned' >= Conversion'
  <2>1. op[o].conversion = Conversion /\ Conversion \in 0 .. Tip
    BY <1>1, Resting, ConversionIs DEF GateOK, WeightInv
  <2>2. EpochAt(h) >= Conversion
    BY <2>1 DEF Visible
  <2>3. EpochAt(h) \in Nat /\ EpochAt(h) <= Pinned /\ Pinned \in Nat /\ Conversion \in Nat
    BY <2>1, ToldBehind, BlockTypes DEF WeightInv
  <2>4. Pinned >= Conversion
    BY <2>2, <2>3
  <2> QED BY <1>1, <2>4, Resting
<1>7. GateOK(o)'
  BY <1>3, <1>5, <1>6 DEF GateOK
<1> QED BY <1>1, <1>2, <1>3, <1>5, <1>7, RunStep

LEMMA Gates ==
  ASSUME WeightInv, NEW o \in Operators, Gate(o)
  PROVE  WeightInv'
<1>1. UNCHANGED network /\ mempool' = mempool /\ commands' = commands
      /\ op[o].phase = "gate"
  BY DEF Gate
<1>2. PICK h \in Served :
        op' = IF Visible(o, EpochAt(h)) THEN Through(o)
              ELSE [op EXCEPT ![o].phase = "wait", ![o].pin = EpochAt(h),
                              ![o].stale = Stale(EpochAt(h))]
  BY DEF Gate
<1>3. CASE Visible(o, EpochAt(h))
  BY <1>1, <1>2, <1>3, GoesThrough
<1>4. CASE ~Visible(o, EpochAt(h))
  <2>1. PICK told \in Nat : told = EpochAt(h)
    BY ToldBehind
  <2>2. PICK old \in BOOLEAN : old = (told # Pinned)
    OBVIOUS
  <2> DEFINE r == [op[o] EXCEPT !.phase = "wait", !.pin = told, !.stale = old]
  <2>3. op' = [op EXCEPT ![o] = r]
    BY <1>1, <1>2, <1>4, <2>1, <2>2, Resting DEF Stale
  <2>4. /\ r \in RunRecord /\ r.phase = "wait" /\ r.pin = told /\ r.stale = old
        /\ r.conversion = op[o].conversion /\ r.nudges = op[o].nudges
    <3>1. op[o] \in RunRecord
      BY <1>1, Resting
    <3>2. "wait" \in Phases
      BY DEF Phases
    <3> QED BY <3>1, <3>2 DEF RunRecord
  <2>5. KeepsTarget(o, r)
    BY <1>1, Resting DEF RunRecord, KeepsTarget, Knowing, Phases
  <2> HIDE DEF r
  <2>6. RunOK(o)' /\ op'[o] = r
    BY <1>1, <2>3, <2>4, <2>5, TargetKept
  <2>7. GateOK(o)'
    BY <1>1, <2>2, <2>4, <2>6, Resting DEF GateOK
  <2> QED BY <1>1, <2>3, <2>4, <2>6, <2>7, RunStep
<1> QED BY <1>3, <1>4

LEMMA Waits ==
  ASSUME WeightInv, NEW o \in Operators, Wait(o)
  PROVE  WeightInv'
<1>1. UNCHANGED network /\ mempool' = mempool /\ commands' = commands
  BY DEF Wait
<1> DEFINE r == [op[o] EXCEPT !.phase = "nudge"]
<1>2. op' = [op EXCEPT ![o] = r] /\ op[o].phase = "wait" /\ (due \/ Pinned # op[o].pin)
  BY <1>1, Resting DEF Wait, Step
<1>3. /\ r \in RunRecord /\ r.phase = "nudge"
      /\ r.conversion = op[o].conversion /\ r.nudges = op[o].nudges
      /\ r.stale = op[o].stale
  BY <1>1, Resting DEF RunRecord, Phases
<1>4. KeepsTarget(o, r)
  BY <1>1, <1>2, Resting DEF RunRecord, KeepsTarget, Knowing, Phases
<1> HIDE DEF r
<1>5. RunOK(o)' /\ op'[o] = r
  BY <1>1, <1>2, <1>3, <1>4, TargetKept
<1>6. GateOK(o)'
  BY <1>1, <1>2, <1>3, <1>5, Resting DEF GateOK, Covers
<1> QED BY <1>1, <1>2, <1>3, <1>5, <1>6, RunStep

\* The transaction was accepted.
LEMMA IsAccepted ==
  ASSUME WeightInv, NEW o \in Operators, Accepted(o)
  PROVE  WeightInv'
<1>1. UNCHANGED network /\ mempool' = mempool /\ commands' = commands
      /\ op[o].phase = "await"
  BY DEF Accepted, Step
<1> DEFINE r == [op[o] EXCEPT !.phase = "verify"]
<1>2. op' = [op EXCEPT ![o] = r]
  BY <1>1, Resting DEF Accepted, Step
<1>3. r \in RunRecord /\ r.phase = "verify" /\ r.nudges = op[o].nudges
  BY <1>1, Resting DEF RunRecord, Phases
<1>4. KeepsTarget(o, r)
  BY <1>1, <1>2, Resting DEF RunRecord, KeepsTarget, Knowing, Phases
<1> HIDE DEF r
<1>5. RunOK(o)' /\ op'[o] = r
  BY <1>1, <1>2, <1>3, <1>4, TargetKept
<1>6. GateOK(o)'
  BY <1>1, <1>3, <1>5, Resting DEF GateOK
<1> QED BY <1>1, <1>2, <1>3, <1>5, <1>6, RunStep

\* A look that does not see the conversion: an epoch that covers it was not the
\* one the replica told of, and without one a second nudge is left.
LEMMA Looks ==
  ASSUME WeightInv, NEW o \in Operators, Look(o)
  PROVE  WeightInv'
<1>1. UNCHANGED network /\ mempool' = mempool /\ commands' = commands
      /\ op[o].phase = "look"
  BY DEF Look
<1>2. PICK h \in Served :
        op' = IF Visible(o, EpochAt(h)) THEN Through(o)
              ELSE [op EXCEPT ![o].phase =
                      IF op[o].nudges < Nudges THEN "nudge" ELSE "invisible",
                              ![o].stale = @ \/ Stale(EpochAt(h))]
  BY DEF Look
<1>3. CASE Visible(o, EpochAt(h))
  BY <1>1, <1>2, <1>3, GoesThrough
<1>4. CASE ~Visible(o, EpochAt(h))
  <2>1. PICK to \in {"nudge", "invisible"} :
          to = IF op[o].nudges < Nudges THEN "nudge" ELSE "invisible"
    OBVIOUS
  <2>2. PICK old \in BOOLEAN : old = (op[o].stale \/ Stale(EpochAt(h)))
    OBVIOUS
  <2>3. /\ op[o].nudges \in 0 .. 2 /\ op[o].stale \in BOOLEAN
        /\ to = IF op[o].nudges < 2 THEN "nudge" ELSE "invisible"
    BY <1>1, <2>1, Resting DEF RunRecord, Nudges
  <2> DEFINE r == [op[o] EXCEPT !.phase = to, !.stale = old]
  <2>4. op' = [op EXCEPT ![o] = r]
    BY <1>1, <1>2, <1>4, <2>1, <2>2, Resting
  <2>5. /\ r \in RunRecord /\ r.phase = to /\ r.stale = old
        /\ r.conversion = op[o].conversion /\ r.nudges = op[o].nudges
    <3>1. op[o] \in RunRecord
      BY <1>1, Resting
    <3>2. to \in Phases
      BY DEF Phases
    <3> QED BY <3>1, <3>2 DEF RunRecord
  <2>6. KeepsTarget(o, r)
    BY <1>1, Resting DEF RunRecord, KeepsTarget, Knowing, Phases
  <2> HIDE DEF r
  <2>7. RunOK(o)' /\ op'[o] = r
    BY <1>1, <2>4, <2>5, <2>6, TargetKept
  <2>8. Covers(o) => old
    <3> SUFFICES ASSUME Covers(o) PROVE Stale(EpochAt(h))
      BY <2>2
    <3>1. op[o].conversion \in 0 .. Tip
      BY <1>1, Resting DEF GateOK
    <3>2. EpochAt(h) \in Nat /\ Pinned \in Nat
      BY ToldBehind, BlockTypes DEF WeightInv
    <3>3. EpochAt(h) # Pinned
      BY <1>4, <3>1, <3>2 DEF Covers, Visible
    <3> QED BY <3>3 DEF Stale
  <2>9. GateOK(o)'
    <3>1. /\ op[o].nudges > 0
          /\ old \/ (op[o].nudges = 1 /\ due /\ past)
          /\ op[o].conversion \in 0 .. Tip /\ Block(op[o].conversion).converts
      BY <1>1, <2>2, <2>8, Resting DEF GateOK
    <3>2. UNCHANGED <<due, past>> /\ Tip' = Tip /\ \A k : Block(k)' = Block(k)
      BY <1>1, Resting
    <3>3. CASE to = "nudge"
      BY <2>3, <2>5, <2>7, <3>1, <3>2, <3>3 DEF GateOK
    <3>4. CASE to = "invisible"
      BY <2>3, <2>5, <2>7, <3>1, <3>4 DEF GateOK
    <3> QED BY <3>3, <3>4
  <2> QED BY <1>1, <2>4, <2>5, <2>7, <2>9, RunStep
<1> QED BY <1>3, <1>4

\* The chain grows; the runs rest, but perhaps one that nudges.
LEMMA GrowStep ==
  ASSUME WeightInv, Grown, EpochMoves,
         op' \in [Operators -> RunRecord], commands' = commands,
         mempool' \subseteq mempool,
         \A o \in Operators : op'[o] = op[o] \/ (RunOK(o)' /\ GateOK(o)')
  PROVE  WeightInv'
<1>1. TypeOK'
  BY DEF WeightInv, TypeOK, Grown, EpochMoves, BlockRecord, RunRecord
<1>2. ChainOK' /\ EpochsOK' /\ HistoryOK'
  BY GrownKeeps, EpochsKept DEF WeightInv
<1>3. ChangesCurrent'
  <2>1. ASSUME NEW c \in mempool
        PROVE  Current([weight |-> c.from, nonce |-> c.nonce], c.identity)'
    <3>1. c \in Changes
      BY DEF WeightInv, TypeOK
    <3>2. PICK v : v = [weight |-> c.from, nonce |-> c.nonce]
      OBVIOUS
    <3>3. v.nonce \in Nat /\ c.identity \in Identities /\ Current(v, c.identity)
      BY <3>1, <3>2 DEF WeightInv, ChangesCurrent, Changes
    <3>4. Current(v, c.identity)'
      BY <3>3, GrownKeeps DEF WeightInv
    <3> QED BY <3>2, <3>4
  <2> QED BY <2>1 DEF ChangesCurrent
<1>4. \A o \in Operators : RunOK(o)' /\ GateOK(o)'
  BY GateMoves
<1> QED BY <1>1, <1>2, <1>3, <1>4 DEF WeightInv

LEMMA OtherGrows ==
  ASSUME WeightInv, OtherBlock
  PROVE  Grown /\ EpochMoves
<1>1. TypeOK /\ Tip \in 0 .. Tip /\ Block(Tip).validators \in [Identities -> Record]
  BY BlockTypes DEF WeightInv, BlockRecord
<1>2. \A i \in Identities :
        /\ Block(Tip).validators[i].weight \in Weights
        /\ Block(Tip).validators[i] = Validator(Tip, i)
  BY <1>1 DEF WeightInv, ChainOK, Validator
<1> QED BY <1>1, <1>2, ExtendGrows DEF OtherBlock

LEMMA NudgeSteps ==
  ASSUME WeightInv, NEW o \in Operators, Nudge(o)
  PROVE  WeightInv'
<1>0. TypeOK /\ ChainOK /\ HistoryOK /\ RunOK(o) /\ GateOK(o)
  BY DEF WeightInv
<1>1. /\ Grown /\ EpochMoves
      /\ op[o].phase = "nudge" /\ mempool' = mempool /\ commands' = commands
  BY OtherGrows DEF Nudge
<1>2. /\ op[o] \in RunRecord /\ op \in [Operators -> RunRecord]
      /\ op[o].nudges \in {0, 1} /\ op[o].seen.nonce \in Nat
      /\ Tip \in Nat /\ Tip' = Tip + 1 /\ Pinned \in Nat
  <2>1. /\ op[o] \in RunRecord /\ op \in [Operators -> RunRecord]
        /\ op[o].seen.nonce \in Nat /\ op[o].nudges \in 0 .. 2
    BY <1>0, RunTypes
  <2>2. op[o].nudges < 2
    BY <1>0, <1>1 DEF GateOK
  <2>3. Tip \in Nat /\ Tip' = Tip + 1 /\ Pinned \in Nat
    BY <1>0, <1>1, BlockTypes DEF Grown, TypeOK
  <2> QED BY <2>1, <2>2, <2>3
<1>3. PICK n \in {1, 2} : n = op[o].nudges + 1
  BY <1>2
<1> DEFINE r == [op[o] EXCEPT !.phase = "look", !.nudges = n]
<1>4. op' = [op EXCEPT ![o] = r]
  BY <1>2, <1>3 DEF Nudge
<1>5. /\ r \in RunRecord /\ r.phase = "look" /\ r.nudges = n
      /\ r.id = op[o].id /\ r.identity = op[o].identity /\ r.weight = op[o].weight
      /\ r.seen = op[o].seen /\ r.tip = op[o].tip /\ r.conversion = op[o].conversion
      /\ r.stale = op[o].stale
  <2>1. "look" \in Phases /\ n \in 0 .. Nudges
    BY DEF Phases, Nudges
  <2> QED BY <1>2, <2>1 DEF RunRecord
<1> HIDE DEF r
<1>6. op' \in [Operators -> RunRecord] /\ op'[o] = r
  BY <1>2, <1>4, <1>5
<1>7. RunOK(o)'
  <2>1. PICK v, i : v = op[o].seen /\ i = op[o].identity
    OBVIOUS
  <2>2. Current(v, i)'
    BY <1>0, <1>1, <1>2, <2>1, GrownKeeps DEF RunOK
  <2>3. Current(op[o].seen, op[o].identity)'
    BY <1>5, <1>6, <2>1, <2>2 DEF Current
  <2>4. op'[o].tip \in 0 .. Tip'
    BY <1>0, <1>2, <1>5, <1>6 DEF RunOK
  <2> QED BY <1>0, <1>1, <1>5, <1>6, <2>3, <2>4 DEF RunOK
<1>8. GateOK(o)'
  <2>1. PICK c \in 0 .. Tip : c = op[o].conversion
    BY <1>0, <1>1 DEF GateOK
  <2>2. c \in 0 .. Tip' /\ Block(c)'.converts
    BY <1>0, <1>1, <1>2, <2>1 DEF GateOK, Grown, Block
  <2>3. Block(op[o].conversion)'.converts
    BY <1>5, <1>6, <2>1, <2>2 DEF Block
  <2>4. Pinned' >= c \/ op[o].stale \/ (n = 1 /\ due' /\ past')
    <3>1. Pinned >= c \/ op[o].stale \/ (due /\ (op[o].nudges > 0 => past))
      BY <1>0, <1>1, <2>1 DEF GateOK, Covers
    <3>2. CASE Pinned' = Tip
      BY <1>2, <3>2
    <3>3. CASE Pinned' = Pinned /\ due' = due /\ ~past /\ past' = due
      BY <1>2, <1>3, <3>1, <3>3
    <3> QED BY <1>1, <3>2, <3>3 DEF EpochMoves
  <2>5. Covers(o)' <=> Pinned' >= c
    BY <1>5, <1>6, <2>1 DEF Covers
  <2> QED BY <1>3, <1>5, <1>6, <2>1, <2>2, <2>3, <2>4, <2>5 DEF GateOK
<1>9. \A p \in Operators : p # o => op'[p] = op[p]
  BY <1>2, <1>4
<1> QED BY <1>1, <1>6, <1>7, <1>8, <1>9, GrowStep

\* What a run issues was current when it was read, and is.
LEMMA Issues ==
  ASSUME WeightInv, NEW o \in Operators, Issue(o)
  PROVE  WeightInv'
<1>1. UNCHANGED network /\ commands' = commands /\ op[o].phase = "issue"
  BY DEF Issue
<1>2. CASE End(o) /\ mempool' = mempool
  BY <1>1, <1>2, EndRun
<1>3. CASE mempool' = mempool \union {Change(o)} /\ op' = [op EXCEPT ![o].phase = "await"]
  <2> DEFINE r == [op[o] EXCEPT !.phase = "await"]
  <2>1. op' = [op EXCEPT ![o] = r]
    BY <1>1, <1>3, Resting
  <2>2. r \in RunRecord /\ r.phase = "await" /\ r.nudges = op[o].nudges
    BY <1>1, Resting DEF RunRecord, Phases
  <2>3. KeepsTarget(o, r)
    BY <1>1, Resting DEF RunRecord, KeepsTarget, Knowing, Phases
  <2> HIDE DEF r
  <2>4. RunOK(o)' /\ op'[o] = r
    BY <1>1, <2>1, <2>2, <2>3, TargetKept
  <2>5. GateOK(o)'
    BY <1>1, <2>2, <2>4, Resting DEF GateOK
  <2>6. /\ op[o].id \in Nat \ {0} /\ op[o].identity \in Identities
        /\ op[o].weight \in Weights /\ op[o].seen.nonce \in Nat
        /\ op[o].seen.weight \in Weights /\ Current(op[o].seen, op[o].identity)
    BY <1>1, Resting, RunTypes DEF RunOK, WeightInv
  <2>7. PICK c : c = Change(o)
    OBVIOUS
  <2>8. /\ c \in Changes /\ c.from = op[o].seen.weight /\ c.nonce = op[o].seen.nonce
        /\ c.identity = op[o].identity
    BY <2>6, <2>7 DEF Change, Changes
  <2>9. Current([weight |-> c.from, nonce |-> c.nonce], c.identity)
    BY <2>6, <2>8 DEF Current
  <2>10. TypeOK'
    BY <1>1, <1>3, <2>1, <2>2, <2>7, <2>8 DEF WeightInv, TypeOK, RunRecord, network
  <2>11. ChainOK' /\ EpochsOK' /\ HistoryOK'
    BY <1>1 DEF WeightInv, ChainOK, EpochsOK, Pinned, HistoryOK, Current, Tip, Block,
                Validator, network
  <2>12. ChangesCurrent'
    <3>1. \A d \in mempool' : Current([weight |-> d.from, nonce |-> d.nonce], d.identity)
      BY <1>3, <2>7, <2>9 DEF WeightInv, ChangesCurrent
    <3> QED BY <1>1, <3>1, Resting DEF ChangesCurrent
  <2>13. ASSUME NEW p \in Operators, p # o PROVE RunOK(p)' /\ GateOK(p)'
    <3>1. op'[p] = op[p] /\ RunOK(p) /\ GateOK(p)
      BY <2>1, <2>13 DEF WeightInv, TypeOK
    <3>2. Tip' = Tip /\ Conversion' = Conversion /\ Pinned' = Pinned
      BY <1>1, Resting
    <3>3. RunOK(p)'
      BY <1>1, <3>1, <3>2 DEF RunOK, Current, Validator, Block, network
    <3>4. GateOK(p)'
      BY <1>1, <3>1, <3>2 DEF GateOK, Covers, Block, network
    <3> QED BY <3>3, <3>4
  <2> QED BY <2>4, <2>5, <2>10, <2>11, <2>12, <2>13 DEF WeightInv
<1> QED BY <1>2, <1>3 DEF Issue

LEMMA ControlStep ==
  ASSUME WeightInv, NEW o \in Operators, Control(o)
  PROVE  WeightInv'
<1>1. CASE Verified(o) \/ Fail(o)
  BY <1>1, EndRun DEF Verified, Fail
<1> QED BY <1>1, IsAccepted, BeginsRun, ReadsHeight, ReadsTarget, Locates, Gates, Waits,
           NudgeSteps, Looks, Issues DEF Control

-----------------------------------------------------------------------------
(* The P-chain.                                                            *)

\* The nonce decides: what is accepted replaces the weight its run read.
LEMMA AcceptReplacesRead ==
  ASSUME WeightInv, NEW c \in mempool, Accept(c)
  PROVE  /\ Grown /\ EpochMoves
         /\ blocks'[Len(blocks')].change = c
         /\ Validator(Tip, c.identity).weight = c.from
<1>1. c \in Changes /\ TypeOK
  BY DEF WeightInv, TypeOK
<1>2. /\ c.identity \in Identities /\ c.weight \in Weights /\ c.nonce \in Nat
      /\ c.nonce + 1 \in Nat
  BY <1>1 DEF Changes
<1>3. Tip \in 0 .. Tip /\ Validator(Tip, c.identity).nonce \in Nat
      /\ Block(Tip).validators \in [Identities -> Record]
  BY <1>1, <1>2, BlockTypes DEF BlockRecord
<1>4. /\ c.nonce = Validator(Tip, c.identity).nonce
      /\ c.from = Validator(Tip, c.identity).weight
  BY <1>2, <1>3 DEF WeightInv, ChangesCurrent, Current, Accept, Admits
<1> DEFINE w == [weight |-> c.weight, nonce |-> c.nonce + 1]
           vals == [Block(Tip).validators EXCEPT ![c.identity] = w]
<1>5. w \in Record /\ w.weight = c.weight /\ w.nonce = c.nonce + 1
  BY <1>2 DEF Record
<1>6. Extend(c, vals)
  BY DEF Accept
<1> HIDE DEF w
<1>7. vals \in [Identities -> Record]
  BY <1>3, <1>5
<1>8. \A i \in Identities :
        /\ vals[i].weight \in Weights
        /\ vals[i] = Validator(Tip, i) \/ vals[i].nonce > Validator(Tip, i).nonce
  <2>1. ASSUME NEW i \in Identities, i # c.identity
        PROVE  vals[i] = Validator(Tip, i) /\ vals[i].weight \in Weights
    BY <1>3, <2>1 DEF Validator, WeightInv, ChainOK
  <2>2. vals[c.identity] = w
    BY <1>2, <1>3
  <2>3. w.nonce > Validator(Tip, c.identity).nonce
    BY <1>2, <1>4, <1>5
  <2> QED BY <1>2, <1>5, <2>1, <2>2, <2>3
<1> HIDE DEF vals
<1> QED BY <1>1, <1>4, <1>6, <1>7, <1>8, ExtendGrows

LEMMA ChainStep ==
  ASSUME WeightInv, PlatformChain
  PROVE  WeightInv'
<1>0. op \in [Operators -> RunRecord]
  BY DEF WeightInv, TypeOK, RunRecord
<1>1. CASE Quiet
  BY <1>0, <1>1, OtherGrows, GrowStep DEF Quiet
<1>2. ASSUME NEW c \in mempool, Accept(c) PROVE WeightInv'
  BY <1>0, <1>2, AcceptReplacesRead, GrowStep DEF Accept
<1>3. ASSUME NEW c \in mempool, Drop(c) PROVE WeightInv'
  <2>1. UNCHANGED network /\ op' = op /\ commands' = commands /\ mempool' \subseteq mempool
    BY <1>3 DEF Drop
  <2>2. TypeOK'
    BY <2>1 DEF WeightInv, TypeOK, network
  <2>3. ChainOK' /\ EpochsOK' /\ HistoryOK' /\ ChangesCurrent'
    BY <2>1 DEF WeightInv, ChainOK, EpochsOK, Pinned, HistoryOK, ChangesCurrent, Current,
                Tip, Block, Validator, network
  <2>4. \A o \in Operators : RunOK(o)' /\ GateOK(o)'
    <3>1. Tip' = Tip /\ Conversion' = Conversion /\ Pinned' = Pinned
      BY <2>1 DEF Tip, Conversion, Pinned, Block, network
    <3>2. \A v, i : Current(v, i)' <=> Current(v, i)
      BY <2>1, <3>1 DEF Current, Validator, Block, network
    <3>3. \A h : Block(h)' = Block(h)
      BY <2>1 DEF Block, network
    <3>4. \A o \in Operators : RunOK(o)'
      BY <2>1, <3>1, <3>2 DEF WeightInv, RunOK
    <3>5. \A o \in Operators : GateOK(o)'
      BY <2>1, <3>1, <3>3 DEF WeightInv, GateOK, Covers, network
    <3> QED BY <3>4, <3>5
  <2> QED BY <2>2, <2>3, <2>4 DEF WeightInv
<1>4. CASE EpochElapses
  <2>1. UNCHANGED <<blocks, past, mempool, op, commands>> /\ due' = TRUE /\ ~due
    BY <1>4 DEF EpochElapses
  <2>2. TypeOK'
    BY <2>1 DEF WeightInv, TypeOK
  <2>3. ChainOK' /\ EpochsOK' /\ HistoryOK' /\ ChangesCurrent'
    BY <2>1 DEF WeightInv, ChainOK, EpochsOK, Pinned, HistoryOK, ChangesCurrent, Current,
                Tip, Block, Validator
  <2>4. \A o \in Operators : RunOK(o)' /\ GateOK(o)'
    <3>1. Tip' = Tip /\ Conversion' = Conversion /\ Pinned' = Pinned
      BY <2>1 DEF Tip, Conversion, Pinned, Block
    <3>2. \A o \in Operators : RunOK(o)'
      BY <2>1, <3>1 DEF WeightInv, RunOK, Current, Validator, Block
    <3>3. \A o \in Operators : GateOK(o)'
      BY <2>1, <3>1 DEF WeightInv, GateOK, Covers, Block
    <3> QED BY <3>2, <3>3
  <2> QED BY <2>2, <2>3, <2>4 DEF WeightInv
<1> QED BY <1>1, <1>2, <1>3, <1>4 DEF PlatformChain

-----------------------------------------------------------------------------
LEMMA WeightInit == Init => WeightInv
<1> SUFFICES ASSUME Init PROVE WeightInv
  OBVIOUS
<1>1. PICK n \in 1 .. MaxOldBlocks : \E c \in 1 .. n,
           times \in [1 .. n + 1 -> 0 .. MaxTime - 1],
           weights \in [Identities -> Weights], pin \in {0, n - 1} :
       /\ \A k \in 1 .. n : times[k] <= times[k + 1]
       /\ times[c + 1] > 0
       /\ blocks = [k \in 1 .. n + 1 |->
            [time |-> times[k], pinned |-> IF k = n + 1 THEN pin ELSE 0,
             converts |-> k = c + 1, change |-> NoChange,
             validators |-> [i \in Identities |->
                               [weight |-> weights[i], nonce |-> 0]]]]
  BY Zenon DEF Init
<1>2. PICK c \in 1 .. n, times \in [1 .. n + 1 -> 0 .. MaxTime - 1],
           weights \in [Identities -> Weights], pin \in {0, n - 1} :
       /\ \A k \in 1 .. n : times[k] <= times[k + 1]
       /\ times[c + 1] > 0
       /\ blocks = [k \in 1 .. n + 1 |->
            [time |-> times[k], pinned |-> IF k = n + 1 THEN pin ELSE 0,
             converts |-> k = c + 1, change |-> NoChange,
             validators |-> [i \in Identities |->
                               [weight |-> weights[i], nonce |-> 0]]]]
  BY <1>1
<1>3. n \in Nat \ {0} /\ c \in 1 .. n
  BY SetWeightAssumption
<1> DEFINE known == [i \in Identities |-> [weight |-> weights[i], nonce |-> 0]]
<1> DEFINE pins(k) == IF k = n + 1 THEN pin ELSE 0
<1>4. /\ known \in [Identities -> Record]
      /\ \A i \in Identities : known[i].weight \in Weights /\ known[i].nonce = 0
  BY DEF Record
<1>5. /\ \A k \in 1 .. n + 1 : /\ blocks[k] \in BlockRecord
                               /\ blocks[k].converts <=> k = c + 1
                               /\ blocks[k].validators = known
                               /\ blocks[k].pinned = pins(k)
      /\ blocks \in Seq(BlockRecord) /\ Len(blocks) = n + 1
  <2> HIDE DEF known
  <2>1. blocks = [k \in 1 .. n + 1 |->
                   [time |-> times[k], pinned |-> pins(k), converts |-> k = c + 1,
                    change |-> NoChange, validators |-> known]]
    BY <1>2 DEF known
  <2>2. ASSUME NEW k \in 1 .. n + 1
        PROVE  /\ blocks[k] \in BlockRecord
               /\ blocks[k].converts <=> k = c + 1
               /\ blocks[k].validators = known
               /\ blocks[k].pinned = pins(k)
    <3>1. times[k] \in Nat
      BY SetWeightAssumption
    <3> DEFINE q == pins(k)
    <3>7. q \in Nat
      BY <1>3
    <3> HIDE DEF q
    <3>2. blocks[k] = [time |-> times[k], pinned |-> q, converts |-> k = c + 1,
                       change |-> NoChange, validators |-> known]
      BY <2>1 DEF q
    <3>3. PICK y \in BOOLEAN : y = (k = c + 1)
      OBVIOUS
    <3>4. blocks[k] = [time |-> times[k], pinned |-> q, converts |-> y,
                       change |-> NoChange, validators |-> known]
      BY <3>2, <3>3
    <3>5. blocks[k] \in BlockRecord
      BY <1>4, <3>1, <3>4, <3>7 DEF BlockRecord
    <3>6. blocks[k].converts = y /\ blocks[k].validators = known /\ blocks[k].pinned = q
      BY <3>4
    <3> QED BY <3>3, <3>5, <3>6 DEF q
  <2>3. blocks \in [1 .. n + 1 -> BlockRecord] /\ n + 1 \in Nat
    BY <1>3, <2>1, <2>2
  <2> QED BY <2>2, <2>3
<1> HIDE DEF known
<1>6. Tip = n /\ blocks # <<>>
  BY <1>3, <1>5, EmptySeq DEF Tip
<1>7. \A h \in 0 .. Tip : /\ h + 1 \in 1 .. n + 1
                          /\ Block(h).converts <=> h = c
                          /\ \A i \in Identities : Validator(h, i) = known[i]
                          /\ Block(h).pinned = IF h = n THEN pin ELSE 0
  BY <1>3, <1>5, <1>6 DEF Block, Validator
<1>8. TypeOK
  <2>1. op \in [Operators -> RunRecord]
    BY IdleRun DEF Init
  <2> QED BY <1>5, <1>6, <2>1 DEF Init, TypeOK, BlockRecord, RunRecord
<1>9. ChainOK
  <2>1. c \in 0 .. Tip
    BY <1>3, <1>6
  <2> QED BY <1>4, <1>7, <2>1 DEF ChainOK
<1>10. HistoryOK
  <2>1. Tip \in 0 .. Tip
    BY <1>3, <1>6
  <2> QED BY <1>4, <1>7, <2>1 DEF HistoryOK, Current
<1>11. ChangesCurrent
  BY DEF Init, ChangesCurrent
<1>12. ASSUME NEW o \in Operators PROVE RunOK(o) /\ GateOK(o)
  <2>1. op[o] = Idle /\ 0 \in 0 .. Tip
    BY <1>3, <1>6 DEF Init
  <2> QED BY <2>1, IdleRun DEF RunOK, GateOK
<1>13. EpochsOK
  <2>1. pin \in Nat /\ pin <= n
    BY <1>3
  <2>2. Pinned = pin
    BY <1>3, <1>6, <1>7 DEF Pinned
  <2> QED BY <1>3, <1>6, <1>7, <2>1, <2>2 DEF EpochsOK
<1> QED BY <1>8, <1>9, <1>10, <1>11, <1>12, <1>13 DEF WeightInv

LEMMA WeightStep == WeightInv /\ [Next]_vars => WeightInv'
<1> SUFFICES ASSUME WeightInv, [Next]_vars PROVE WeightInv'
  OBVIOUS
<1>1. CASE UNCHANGED vars
  <2>1. UNCHANGED <<blocks, due, past, mempool, op, commands>>
    BY <1>1 DEF vars
  <2>2. Tip' = Tip /\ Conversion' = Conversion
    BY <2>1 DEF Tip, Conversion, Block
  <2>3. TypeOK'
    BY <2>1 DEF WeightInv, TypeOK
  <2>4. ChainOK' /\ EpochsOK' /\ HistoryOK' /\ ChangesCurrent'
    BY <2>1, <2>2 DEF WeightInv, ChainOK, EpochsOK, Pinned, HistoryOK, ChangesCurrent,
                      Current, Block, Validator
  <2>5. ASSUME NEW o \in Operators PROVE RunOK(o)' /\ GateOK(o)'
    <3>1. UNCHANGED network
      BY <2>1 DEF network
    <3>2. RunOK(o)'
      BY <2>1, <3>1, Resting DEF RunOK
    <3>3. GateOK(o)'
      BY <2>1, <3>1, Resting DEF GateOK, Covers
    <3> QED BY <3>2, <3>3
  <2> QED BY <2>3, <2>4, <2>5 DEF WeightInv
<1> QED BY <1>1, ChainStep, ControlStep DEF Next

LEMMA WeightAlways == Spec => []WeightInv
BY WeightInit, WeightStep, PTL DEF Spec

\* The shapes of the state of set-weight and of the P-chain it changes.
THEOREM SetWeightTypeCorrect == Spec => []TypeOK
<1>1. WeightInv => TypeOK
  BY DEF WeightInv
<1> QED BY WeightAlways, <1>1, PTL

\* No change is issued before the epoch covers the conversion, although the
\* replica that tells of the epoch may lag: epochs only pin higher heights
\* (setweight.go:353).
THEOREM GateIsNeverEarly == Spec => []GateNotEarly
<1>1. WeightInv => GateNotEarly
  BY DEF WeightInv, GateOK, GateNotEarly
<1> QED BY WeightAlways, <1>1, PTL

\* Two nudges after the wait bring the epoch that covers the conversion; a run
\* that gives up was told of an epoch that was over (setweight.go:372, :391).
THEOREM GivesUpOnlyWhenMisled == Spec => []GivesUpOnlyOnStaleEpoch
<1>1. WeightInv => GivesUpOnlyOnStaleEpoch
  BY DEF WeightInv, GateOK, GivesUpOnlyOnStaleEpoch
<1> QED BY WeightAlways, <1>1, PTL

\* A weight is only changed by a run that read the weight it replaces, because
\* the nonce was read with it (setweight.go:199).
THEOREM NoUpdateIsLost == Spec => NoLostUpdate
<1> DEFINE Justified ==
      Len(blocks') > Len(blocks) =>
        LET c == blocks'[Len(blocks')].change IN
        c # NoChange => Validator(Tip, c.identity).weight = c.from
<1>1. ASSUME WeightInv, [Next]_vars PROVE Justified \/ UNCHANGED vars
  <2>1. CASE UNCHANGED blocks
    <3>1. Len(blocks) \in Nat
      BY <1>1, BlockTypes DEF WeightInv
    <3> QED BY <2>1, <3>1
  <2>2. ASSUME OtherBlock PROVE Justified
    <3>1. TypeOK /\ Tip \in 0 .. Tip /\ Block(Tip).validators \in [Identities -> Record]
      BY <1>1, BlockTypes DEF WeightInv, BlockRecord
    <3>2. \A i \in Identities :
            /\ Block(Tip).validators[i].weight \in Weights
            /\ Block(Tip).validators[i] = Validator(Tip, i)
      BY <1>1, <3>1 DEF WeightInv, ChainOK, Validator
    <3>3. blocks'[Len(blocks')].change = NoChange
      BY <2>2, <3>1, <3>2, ExtendGrows DEF OtherBlock
    <3> QED BY <3>3
  <2>3. ASSUME NEW c \in mempool, Accept(c) PROVE Justified
    BY <1>1, <2>3, AcceptReplacesRead
  <2>4. CASE PlatformChain
    BY <2>1, <2>2, <2>3, <2>4 DEF PlatformChain, EpochElapses, Quiet, Drop, network
  <2>5. ASSUME NEW o \in Operators, Control(o) PROVE Justified
    <3>1. OtherBlock \/ UNCHANGED blocks
      BY <2>5 DEF Control, Run, ReadHeight, ReadTarget, Locate, Gate, Wait,
         Nudge, Look, Issue, Accepted, Verified, Fail, network
    <3> QED BY <2>1, <2>2, <3>1
  <2> QED BY <1>1, <2>1, <2>4, <2>5 DEF Next, vars
<1>2. WeightInv /\ [Next]_vars => [Justified]_vars
  BY <1>1
<1> QED BY WeightAlways, <1>2, PTL DEF Spec, NoLostUpdate

-----------------------------------------------------------------------------
(* The search for the conversion block.                                    *)

\* Least counterexamples take the place of induction over lengths.
LEMMA LeastNatural ==
  ASSUME NEW T \in SUBSET Nat, T # {}
  PROVE  \E m \in T : \A k \in T : m <= k
<1> DEFINE R == {pair \in Nat \X Nat : pair[1] < pair[2]}
<1>1. IsWellFoundedOn(R, Nat)
  BY NatLessThanWellFounded DEF OpToRel
<1> HIDE DEF R
<1>2. PICK m \in T : \A k \in T : ~(<<k, m>> \in R)
  BY <1>1, WFMin
<1>3. \A k \in T : <<k, m>> \in R <=> k < m
  BY DEF R
<1>4. ASSUME NEW k \in T PROVE m <= k
  <2>1. k \in Nat /\ m \in Nat /\ ~(k < m)
    BY <1>2, <1>3
  <2> QED BY <2>1
<1> QED BY <1>4

\* One step of the recursion of FirstAt, for any function g in its place.
Halve(time, g, low, high) ==
  LET mid == low + (high - low) \div 2
  IN IF low >= high THEN low
     ELSE IF Block(mid).time = 0 \/ Block(mid).time < time
          THEN g[<<mid + 1, high>>] ELSE g[<<low, mid>>]

Ranges(tip) == (0 .. tip) \X (0 .. tip)

Halving(tip, time, g) ==
  [range \in Ranges(tip) |-> Halve(time, g, range[1], range[2])]

LEMMA FirstAtIs ==
  ASSUME NEW tip, NEW time
  PROVE  FirstAt(tip, time) = (CHOOSE g : g = Halving(tip, time, g))[<<0, tip>>]
BY DEF FirstAt, Halving, Halve, Ranges

LEMMA HalvingIs ==
  ASSUME NEW tip \in Nat, NEW time, NEW g, NEW low \in 0 .. tip, NEW high \in 0 .. tip
  PROVE  Halving(tip, time, g)[<<low, high>>] = Halve(time, g, low, high)
BY DEF Halving, Ranges

LEMMA HalvingExt ==
  ASSUME NEW tip \in Nat, NEW time, NEW g, NEW k,
         \A low, high \in 0 .. tip : Halve(time, g, low, high) = Halve(time, k, low, high)
  PROVE  Halving(tip, time, g) = Halving(tip, time, k)
BY DEF Halving, Ranges

LEMMA Middle ==
  ASSUME NEW low \in Nat, NEW high \in Nat, low < high
  PROVE  \E mid \in Nat : /\ mid = low + (high - low) \div 2
                          /\ low <= mid /\ mid < high
OBVIOUS

\* What the recursion needs of g: shorter ranges only.
LEMMA HalveNeeds ==
  ASSUME NEW tip \in Nat, NEW time, NEW g, NEW k,
         NEW low \in 0 .. tip, NEW high \in 0 .. tip,
         \A l, h \in 0 .. tip : h - l < high - low => g[<<l, h>>] = k[<<l, h>>]
  PROVE  Halve(time, g, low, high) = Halve(time, k, low, high)
<1>1. CASE low >= high
  BY <1>1 DEF Halve
<1>2. CASE low < high
  <2>1. PICK mid \in Nat : mid = low + (high - low) \div 2 /\ low <= mid /\ mid < high
    BY <1>2, Middle
  <2>2. /\ mid + 1 \in 0 .. tip /\ mid \in 0 .. tip
        /\ high - (mid + 1) < high - low /\ mid - low < high - low
    BY <2>1
  <2>3. g[<<mid + 1, high>>] = k[<<mid + 1, high>>] /\ g[<<low, mid>>] = k[<<low, mid>>]
    BY <2>2
  <2> QED BY <2>1, <2>3 DEF Halve
<1> QED BY <1>1, <1>2

\* g solves the recursion on all ranges shorter than n.
Solves(tip, time, g, n) ==
  \A low, high \in 0 .. tip :
    high - low < n => g[<<low, high>>] = Halve(time, g, low, high)

\* The recursion has a solution: one for longer ranges is had from one for
\* shorter ranges by another step.
LEMMA HalvingSolved ==
  ASSUME NEW tip \in Nat, NEW time
  PROVE  \E g : g = Halving(tip, time, g)
<1> DEFINE T == {n \in Nat : ~ \E g : Solves(tip, time, g, n)}
<1>1. T = {}
  <2> SUFFICES ASSUME T # {} PROVE FALSE
    OBVIOUS
  <2>1. PICK m \in T : \A k \in T : m <= k
    BY LeastNatural
  <2>2. m # 0
    <3>1. PICK g : g = [range \in Ranges(tip) |-> range[1]]
      OBVIOUS
    <3>2. ASSUME NEW low \in 0 .. tip, NEW high \in 0 .. tip, high - low < 0
          PROVE  g[<<low, high>>] = Halve(time, g, low, high)
      BY <3>1, <3>2 DEF Ranges, Halve
    <3>3. Solves(tip, time, g, 0)
      BY <3>2 DEF Solves
    <3> QED BY <2>1, <3>3
  <2>3. m \in Nat /\ m - 1 \in Nat /\ m - 1 \notin T
    BY <2>1, <2>2
  <2>4. PICK g : Solves(tip, time, g, m - 1)
    BY <2>3
  <2>5. ASSUME NEW low \in 0 .. tip, NEW high \in 0 .. tip, high - low < m
        PROVE  Halving(tip, time, g)[<<low, high>>] =
                 Halve(time, Halving(tip, time, g), low, high)
    <3>1. ASSUME NEW l \in 0 .. tip, NEW h \in 0 .. tip, h - l < high - low
          PROVE  g[<<l, h>>] = Halving(tip, time, g)[<<l, h>>]
      <4>1. h - l < m - 1
        BY <2>3, <2>5, <3>1
      <4>2. g[<<l, h>>] = Halve(time, g, l, h)
        BY <2>4, <4>1 DEF Solves
      <4> QED BY <4>2, HalvingIs
    <3>2. Halve(time, g, low, high) = Halve(time, Halving(tip, time, g), low, high)
      BY <3>1, HalveNeeds
    <3> QED BY <3>2, HalvingIs
  <2>6. Solves(tip, time, Halving(tip, time, g), m)
    BY <2>5 DEF Solves
  <2> QED BY <2>1, <2>6
<1>2. PICK g : Solves(tip, time, g, tip + 1)
  BY <1>1
<1>3. ASSUME NEW low \in 0 .. tip, NEW high \in 0 .. tip
      PROVE  g[<<low, high>>] = Halving(tip, time, g)[<<low, high>>]
  BY <1>2, HalvingIs DEF Solves
<1>4. Halving(tip, time, g) = Halving(tip, time, Halving(tip, time, g))
  BY <1>3, HalveNeeds, HalvingExt
<1> QED BY <1>4

\* A block before that second.
Early(time, h) == Block(h).time = 0 \/ Block(h).time < time

\* The place in a range where the blocks stop being early.
Splits(time, r, low, high) ==
  /\ r \in low .. high
  /\ r > low => Early(time, r - 1)
  /\ r < high => ~Early(time, r)

\* The binary search ends between an early block and one that is not, whether
\* or not the times are in order.
LEMMA SearchSplits ==
  ASSUME NEW tip \in Nat, NEW time, NEW g, g = Halving(tip, time, g)
  PROVE  Splits(time, g[<<0, tip>>], 0, tip)
<1> DEFINE Wrong(n) == \E low, high \in 0 .. tip :
                         /\ high - low = n
                         /\ ~Splits(time, g[<<low, high>>], low, high)
           T == {n \in Nat : Wrong(n)}
<1>1. T = {}
  <2> SUFFICES ASSUME T # {} PROVE FALSE
    OBVIOUS
  <2>1. PICK m \in T : \A k \in T : m <= k
    BY LeastNatural
  <2>2. PICK low \in 0 .. tip, high \in 0 .. tip :
          high - low = m /\ ~Splits(time, g[<<low, high>>], low, high)
    BY <2>1
  <2>3. ASSUME NEW l \in 0 .. tip, NEW h \in 0 .. tip, l <= h, h - l < m
        PROVE  Splits(time, g[<<l, h>>], l, h)
    <3>1. h - l \in Nat /\ m \in Nat
      BY <2>1, <2>3
    <3> HIDE DEF T
    <3>2. h - l \notin T
      <4> SUFFICES ASSUME h - l \in T PROVE FALSE
        OBVIOUS
      <4>1. m <= h - l
        BY <2>1
      <4> QED BY <2>3, <3>1, <4>1
    <3> QED BY <3>1, <3>2 DEF T
  <2>4. m \in Nat /\ g[<<low, high>>] = Halve(time, g, low, high)
    BY <2>1, HalvingIs
  <2>5. CASE low = high
    <3>1. g[<<low, high>>] = low
      BY <2>4, <2>5 DEF Halve
    <3> QED BY <2>2, <2>5, <3>1 DEF Splits
  <2>6. CASE low < high
    <3>1. PICK mid \in Nat : mid = low + (high - low) \div 2 /\ low <= mid /\ mid < high
      BY <2>6, Middle
    <3>2. mid \in 0 .. tip /\ mid + 1 \in 0 .. tip
      BY <3>1
    <3>3. CASE Early(time, mid)
      <4>1. g[<<low, high>>] = g[<<mid + 1, high>>]
        BY <2>4, <2>6, <3>1, <3>3 DEF Halve, Early
      <4>2. Splits(time, g[<<mid + 1, high>>], mid + 1, high)
        BY <2>2, <2>3, <3>1, <3>2
      <4>3. g[<<mid + 1, high>>] = mid + 1 => g[<<mid + 1, high>>] - 1 = mid
        BY <3>1
      <4> QED BY <2>2, <3>1, <3>3, <4>1, <4>2, <4>3 DEF Splits
    <3>4. CASE ~Early(time, mid)
      <4>1. g[<<low, high>>] = g[<<low, mid>>]
        BY <2>4, <2>6, <3>1, <3>4 DEF Halve, Early
      <4>2. Splits(time, g[<<low, mid>>], low, mid)
        BY <2>2, <2>3, <3>1, <3>2
      <4> QED BY <2>2, <3>1, <3>4, <4>1, <4>2 DEF Splits
    <3> QED BY <3>3, <3>4
  <2> QED BY <2>2, <2>4, <2>5, <2>6
<1>2. tip \notin T
  BY <1>1
<1> QED BY <1>2

LEMMA FirstAtSplits ==
  ASSUME NEW tip \in Nat, NEW time
  PROVE  Splits(time, FirstAt(tip, time), 0, tip)
<1>1. PICK g : g = (CHOOSE f : f = Halving(tip, time, f)) /\ g = Halving(tip, time, g)
  BY HalvingSolved
<1>2. FirstAt(tip, time) = g[<<0, tip>>]
  BY <1>1, FirstAtIs
<1> QED BY <1>1, <1>2, SearchSplits

\* The times of the blocks never fall, and the conversion has one.
TimesOK ==
  /\ \A h, k \in 0 .. Tip : h <= k => Block(h).time <= Block(k).time
  /\ \A h \in 0 .. Tip : Block(h).converts => Block(h).time > 0

LEMMA Searched ==
  ASSUME TypeOK, ChainOK, TimesOK, NEW tip \in 0 .. Tip
  PROVE  findConversionHeight(tip, ConversionTime) =
           IF Conversion <= tip THEN Conversion ELSE NotFound
<1> DEFINE time  == ConversionTime
           first == FirstAt(tip, time)
           found == {h \in 0 .. tip :
                       /\ h >= first /\ Block(h).converts
                       /\ \A k \in first .. h : Block(k).time = time}
<1>1. /\ Tip \in Nat /\ tip \in Nat /\ Conversion \in 0 .. Tip
      /\ Block(Conversion).converts /\ time = Block(Conversion).time
      /\ \A h \in 0 .. Tip : Block(h).converts => h = Conversion
      /\ \A h \in 0 .. Tip : Block(h).time \in Nat
      /\ time > 0 /\ time \in Nat
  BY BlockTypes, ConversionIs DEF BlockRecord, ConversionTime, TimesOK
<1>2. findConversionHeight(tip, time) =
        IF found = {} THEN NotFound ELSE CHOOSE h \in found : TRUE
  BY DEF findConversionHeight
<1>3. \A h \in found : h \in 0 .. Tip /\ h <= tip /\ h = Conversion
  BY <1>1
<1>4. ASSUME Conversion <= tip PROVE Conversion \in found
  <2>1. Splits(time, first, 0, tip)
    BY <1>1, FirstAtSplits
  <2>2. first \in 0 .. tip
    BY <2>1 DEF Splits
  <2> HIDE DEF first, time
  <2>3. first <= Conversion
    <3> SUFFICES ASSUME first > Conversion PROVE FALSE
      BY <1>1, <2>2
    <3>1. first - 1 \in 0 .. Tip /\ Conversion <= first - 1 /\ first > 0
      BY <1>1, <2>2
    <3>2. Block(first - 1).time < time
      BY <1>1, <2>1, <3>1 DEF Splits, Early
    <3>3. Block(Conversion).time <= Block(first - 1).time
      BY <1>1, <3>1 DEF TimesOK
    <3> QED BY <1>1, <3>1, <3>2, <3>3
  <2>4. ASSUME NEW k \in first .. Conversion PROVE Block(k).time = time
    <3>1. k \in 0 .. Tip /\ first \in 0 .. Tip /\ first <= k /\ k <= Conversion
      BY <1>1, <2>2, <2>4
    <3>2. Block(first).time <= Block(k).time /\ Block(k).time <= time
      BY <1>1, <3>1 DEF TimesOK
    <3>3. Block(first).time >= time
      <4>1. CASE first < tip
        BY <1>1, <2>1, <3>1, <4>1 DEF Splits, Early
      <4>2. CASE first = tip
        BY <1>1, <1>4, <2>3, <4>2
      <4> QED BY <2>2, <4>1, <4>2
    <3> QED BY <1>1, <3>1, <3>2, <3>3
  <2> QED BY <1>1, <1>4, <2>3, <2>4 DEF first, time
<1> HIDE DEF found
<1>5. CASE Conversion <= tip
  BY <1>2, <1>3, <1>4, <1>5
<1>6. CASE ~(Conversion <= tip)
  BY <1>1, <1>2, <1>3, <1>6
<1> QED BY <1>5, <1>6

LEMMA TimesInit == Init => TimesOK
<1> SUFFICES ASSUME Init PROVE TimesOK
  OBVIOUS
<1>0. PICK n \in 1 .. MaxOldBlocks : \E c \in 1 .. n,
           times \in [1 .. n + 1 -> 0 .. MaxTime - 1],
           weights \in [Identities -> Weights], pin \in {0, n - 1} :
       /\ \A k \in 1 .. n : times[k] <= times[k + 1]
       /\ times[c + 1] > 0
       /\ blocks = [k \in 1 .. n + 1 |->
            [time |-> times[k], pinned |-> IF k = n + 1 THEN pin ELSE 0,
             converts |-> k = c + 1, change |-> NoChange,
             validators |-> [i \in Identities |->
                               [weight |-> weights[i], nonce |-> 0]]]]
  BY DEF Init
<1>1. PICK c \in 1 .. n, times \in [1 .. n + 1 -> 0 .. MaxTime - 1],
           weights \in [Identities -> Weights], pin \in {0, n - 1} :
       /\ \A k \in 1 .. n : times[k] <= times[k + 1]
       /\ times[c + 1] > 0
       /\ blocks = [k \in 1 .. n + 1 |->
            [time |-> times[k], pinned |-> IF k = n + 1 THEN pin ELSE 0,
             converts |-> k = c + 1, change |-> NoChange,
             validators |-> [i \in Identities |->
                               [weight |-> weights[i], nonce |-> 0]]]]
  BY <1>0
<1>2. /\ n \in Nat \ {0} /\ n + 1 \in Nat
      /\ \A k \in 1 .. n + 1 : times[k] \in Nat
  BY SetWeightAssumption
<1>3. Tip = n
  BY <1>1, <1>2 DEF Tip
<1>4. \A h \in 0 .. Tip : /\ h + 1 \in 1 .. n + 1
                          /\ Block(h).time = times[h + 1]
                          /\ Block(h).converts => h + 1 = c + 1
  <2> SUFFICES ASSUME NEW h \in 0 .. Tip
               PROVE  /\ h + 1 \in 1 .. n + 1
                      /\ Block(h).time = times[h + 1]
                      /\ Block(h).converts => h + 1 = c + 1
    OBVIOUS
  <2>1. h + 1 \in 1 .. n + 1
    BY <1>2, <1>3
  <2> DEFINE known == [i \in Identities |-> [weight |-> weights[i], nonce |-> 0]]
  <2> DEFINE pins(k) == IF k = n + 1 THEN pin ELSE 0
  <2>2. blocks = [k \in 1 .. n + 1 |->
                   [time |-> times[k], pinned |-> pins(k), converts |-> k = c + 1,
                    change |-> NoChange, validators |-> known]]
    BY <1>1
  <2> HIDE DEF known, pins
  <2>3. Block(h) = [time |-> times[h + 1], pinned |-> pins(h + 1),
                    converts |-> h + 1 = c + 1, change |-> NoChange,
                    validators |-> known]
    BY <2>1, <2>2 DEF Block
  <2>4. PICK y \in BOOLEAN : y = (h + 1 = c + 1)
    OBVIOUS
  <2>5. Block(h) = [time |-> times[h + 1], pinned |-> pins(h + 1), converts |-> y,
                    change |-> NoChange, validators |-> known]
    BY <2>3, <2>4
  <2>6. Block(h).time = times[h + 1] /\ Block(h).converts = y
    BY <2>5
  <2> QED BY <2>1, <2>4, <2>6
<1>5. ASSUME NEW h \in 0 .. Tip, NEW k \in 0 .. Tip, h <= k
      PROVE  Block(h).time <= Block(k).time
  <2> DEFINE T == {j \in Nat : h <= j /\ j <= Tip /\ Block(j).time < Block(h).time}
  <2>1. T = {}
    <3> SUFFICES ASSUME T # {} PROVE FALSE
      OBVIOUS
    <3>1. PICK m \in T : \A j \in T : m <= j
      BY LeastNatural
    <3>2. /\ m \in Nat /\ h <= m /\ m <= n /\ times[m + 1] < times[h + 1]
          /\ h \in Nat /\ m \in 0 .. Tip
      BY <1>2, <1>3, <1>4, <3>1
    <3>3. m # h /\ times[m + 1] \in Nat /\ times[h + 1] \in Nat
      <4>1. h + 1 \in 1 .. n + 1 /\ m + 1 \in 1 .. n + 1
        BY <1>4, <3>2
      <4>2. times[m + 1] \in Nat /\ times[h + 1] \in Nat
        BY <1>2, <4>1
      <4> QED BY <3>2, <4>2
    <3>4. m - 1 \in Nat /\ h <= m - 1 /\ m - 1 \in 0 .. Tip /\ m \in 1 .. n
      BY <1>2, <1>3, <3>2, <3>3
    <3>5. m - 1 \notin T
      <4> HIDE DEF T
      <4> SUFFICES ASSUME m - 1 \in T PROVE FALSE
        OBVIOUS
      <4>1. m <= m - 1
        BY <3>1
      <4> QED BY <3>2, <4>1
    <3>6. Block(m - 1).time = times[m] /\ times[m] <= times[m + 1] /\ times[m] \in Nat
      <4>1. m - 1 + 1 = m
        BY <3>2
      <4> QED BY <1>1, <1>2, <1>4, <3>4, <4>1
    <3>7. ~(Block(m - 1).time < Block(h).time)
      BY <1>3, <3>4, <3>5
    <3>8. Block(h).time = times[h + 1] /\ times[h + 1] \in Nat
      BY <1>4, <3>2, <3>3
    <3>9. times[h + 1] <= times[m] /\ times[m + 1] \in Nat
      <4>1. ~(times[m] < times[h + 1])
        BY <3>6, <3>7, <3>8
      <4>2. times[m] \in Nat /\ times[h + 1] \in Nat
        BY <3>6, <3>8
      <4> QED BY <3>3, <4>1, <4>2
    <3> DEFINE early == times[m]
               late == times[m + 1]
               here == times[h + 1]
    <3>10. /\ early \in Nat /\ late \in Nat /\ here \in Nat
           /\ late < here /\ here <= early /\ early <= late
      BY <3>2, <3>6, <3>8, <3>9
    <3> HIDE DEF early, late, here
    <3> QED BY <3>10
  <2>2. k \in Nat /\ k <= Tip /\ k \notin T
    BY <1>2, <1>3, <2>1
  <2>3. ~(Block(k).time < Block(h).time)
    BY <1>5, <2>2
  <2> QED BY <1>2, <1>4, <2>3
<1>6. ASSUME NEW h \in 0 .. Tip, Block(h).converts PROVE Block(h).time > 0
  BY <1>1, <1>4, <1>6
<1> QED BY <1>5, <1>6 DEF TimesOK

LEMMA TimesStep ==
  ASSUME WeightInv, TimesOK, [Next]_vars PROVE TimesOK'
<1>1. CASE UNCHANGED blocks
  BY <1>1 DEF TimesOK, Tip, Block
<1>2. CASE Grown
  <2>1. Tip \in Nat /\ Tip' = Tip + 1 /\ \A h \in 0 .. Tip : Block(h)' = Block(h)
    BY <1>2, BlockTypes DEF WeightInv, Grown, Block
  <2>2. \A h \in 0 .. Tip : Block(h).time \in Nat
    BY BlockTypes DEF WeightInv, BlockRecord
  <2>t. PICK top \in Nat : top = Tip + 1 /\ top + 1 = Tip + 2
    BY <2>1
  <2>3. Block(top)' = blocks'[Tip + 2] /\ blocks'[Tip + 2] \in BlockRecord
    <3>1. Len(blocks') = Tip' + 1 /\ blocks' \in Seq(BlockRecord)
      BY <1>2, <2>1, LenProperties DEF Grown, Tip
    <3>2. Tip + 2 \in 1 .. Len(blocks')
      BY <2>1, <3>1
    <3> QED BY <2>t, <3>1, <3>2, ElementOfSeq DEF Block
  <2>4. /\ Block(top)'.time \in Nat /\ Block(top)'.time >= Block(Tip).time
        /\ ~Block(top)'.converts
    BY <1>2, <2>3 DEF Grown, BlockRecord
  <2>5. ASSUME NEW h \in 0 .. Tip', NEW k \in 0 .. Tip', h <= k
        PROVE  Block(h)'.time <= Block(k)'.time
    <3>1. CASE k <= Tip
      <4>1. h \in 0 .. Tip /\ k \in 0 .. Tip
        BY <2>1, <2>5, <3>1
      <4> QED BY <2>1, <2>5, <4>1 DEF TimesOK
    <3>2. CASE k = top /\ h <= Tip
      <4>1. h \in 0 .. Tip /\ Tip \in 0 .. Tip
        BY <2>1, <3>2
      <4>2. Block(h).time <= Block(Tip).time
        BY <4>1 DEF TimesOK
      <4> QED BY <2>t, <2>1, <2>2, <2>4, <3>2, <4>1, <4>2
    <3>3. CASE k = top /\ h = top
      BY <2>4, <3>3
    <3> QED BY <2>t, <2>1, <2>5, <3>1, <3>2, <3>3
  <2>6. ASSUME NEW h \in 0 .. Tip', Block(h)'.converts PROVE Block(h)'.time > 0
    <3>1. h \in 0 .. Tip
      <4>1. h # top
        BY <2>4, <2>6
      <4> QED BY <2>t, <2>1, <4>1
    <3> QED BY <2>1, <2>6, <3>1 DEF TimesOK
  <2> QED BY <2>5, <2>6 DEF TimesOK
<1>3. UNCHANGED blocks \/ Grown
  <2>1. OtherBlock => Grown
    BY OtherGrows
  <2>2. ASSUME NEW c \in mempool, Accept(c) PROVE Grown
    BY <2>2, AcceptReplacesRead
  <2>3. CASE PlatformChain
    BY <2>1, <2>2, <2>3 DEF PlatformChain, EpochElapses, Quiet, Drop, network
  <2>4. ASSUME NEW o \in Operators, Control(o) PROVE UNCHANGED blocks \/ Grown
    BY <2>1, <2>4 DEF Control, Run, ReadHeight, ReadTarget, Locate, Gate, Wait,
       Nudge, Look, Issue, Accepted, Verified, Fail, network
  <2> QED BY <2>3, <2>4 DEF Next, vars
<1> QED BY <1>1, <1>2, <1>3

\* The search by time, with the scan after it, finds the conversion on every
\* chain, however many of its blocks share a second or carry none; and it finds
\* nothing where the conversion is above the height that was read first
\* (setweight.go:276).
THEOREM ConversionIsFound == Spec => []ConversionFound
<1>1. Init => TimesOK
  BY TimesInit
<1>2. WeightInv /\ TimesOK /\ [Next]_vars => TimesOK'
  BY TimesStep
<1>3. WeightInv /\ TimesOK => ConversionFound
  BY Searched DEF WeightInv, ConversionFound
<1> QED BY <1>1, <1>2, <1>3, WeightAlways, PTL DEF Spec

=============================================================================
