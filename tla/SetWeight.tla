------------------------------ MODULE SetWeight ------------------------------
(***************************************************************************)
(* l1 set-weight (internal/setweight, setWeight in cmd/l1): read the       *)
(* validator and its nonce from a P-chain API whose replicas lag, find the *)
(* block that converted the management subnet, wait until the Warp epoch   *)
(* of the P-chain covers that block, sign the change with the management   *)
(* keys, issue it, and read until the weight shows.  Several operators run *)
(* it at the same time; each run may be killed anywhere, and an issued     *)
(* change may be accepted long after the run that issued it has ended.     *)
(***************************************************************************)
EXTENDS Integers, Sequences

CONSTANTS
  Operators,   \* control machines
  Identities,  \* validators of the managed chains
  Weights,     \* DeadWeight, SpareWeight, ActiveWeight
  MaxOldBlocks, \* bound: P-chain blocks there are at the start, but genesis
  MaxBlocks,   \* bound: P-chain blocks in all, but genesis
  MaxTime,     \* bound: block timestamps
  Lag,         \* bound: blocks by which a replica is behind
  MaxCommands  \* bound: runs of set-weight

ASSUME SetWeightAssumption ==
  /\ 0 \notin Weights
  /\ MaxOldBlocks \in Nat /\ MaxBlocks \in Nat /\ MaxTime \in Nat
  /\ Lag \in Nat /\ MaxCommands \in Nat

NotFound == -1
Nudges == 2

VARIABLES
  blocks,   \* blocks[h + 1]: time, the height its Warp epoch pins, whether
            \* it holds the conversion, the change it holds, and the
            \* validators after it
  due,      \* the duration of this epoch has passed
  past,     \* the last block was built after that
  mempool,  \* issued changes that are not in a block
  op,       \* operator -> the run in progress
  commands  \* runs so far

network == <<blocks, due, past>>
vars == <<blocks, due, past, mempool, op, commands>>

NoChange == [id |-> 0]

Idle == [phase |-> "idle", id |-> 0, identity |-> NotFound, weight |-> 0,
         tip |-> 0, seen |-> [weight |-> 0, nonce |-> 0],
         conversion |-> NotFound, pin |-> 0, nudges |-> 0, stale |-> FALSE]

Tip == Len(blocks) - 1
Block(h) == blocks[h + 1]
Validator(h, i) == Block(h).validators[i]

\* The P-chain height that Warp admission uses in the epoch of now.
Pinned == Block(Tip).pinned

\* What replicas answer: a recent height, not necessarily the last.
Served == (IF Tip > Lag THEN Tip - Lag ELSE 0) .. Tip

Conversion == CHOOSE h \in 0 .. Tip : Block(h).converts
ConversionTime == Block(Conversion).time

-----------------------------------------------------------------------------
(* The P-chain (external).                                                 *)

\* ACP-181: the child of a block past the boundary begins an epoch, pinned at
\* its parent; the first block past the boundary only becomes such a parent.
Extend(change, validators) ==
  /\ Tip < MaxBlocks
  /\ \E t \in {Block(Tip).time, Block(Tip).time + 1} :
       /\ t <= MaxTime
       /\ blocks' = Append(blocks, [time |-> t, pinned |-> IF past THEN Tip ELSE Pinned,
                                    converts |-> FALSE, change |-> change,
                                    validators |-> validators])
  /\ IF past THEN due' = FALSE /\ past' = FALSE
             ELSE past' = due /\ UNCHANGED due

\* Anyone's transaction, a nudge among them.
OtherBlock == Extend(NoChange, Block(Tip).validators)

EpochElapses ==
  /\ ~due
  /\ due' = TRUE
  /\ UNCHANGED <<blocks, past, mempool, op, commands>>

\* At a height, a change needs the management set where the epoch pins it, and
\* a nonce that has not been used.
Admits(h, c) ==
  /\ Block(h).pinned >= Conversion
  /\ c.nonce >= Validator(h, c.identity).nonce

Accept(c) ==
  /\ Admits(Tip, c)
  /\ Extend(c, [Block(Tip).validators EXCEPT
                  ![c.identity] = [weight |-> c.weight, nonce |-> c.nonce + 1]])
  /\ mempool' = mempool \ {c}
  /\ UNCHANGED <<op, commands>>

Drop(c) ==
  /\ mempool' = mempool \ {c}
  /\ UNCHANGED <<network, op, commands>>

Quiet == OtherBlock /\ UNCHANGED <<mempool, op, commands>>

-----------------------------------------------------------------------------
(* The conversion block: a binary search by time, then a scan.             *)

\* Mutated FirstAt: the search passes the first block of that second.
FirstAfter(tip, time) ==
  LET f[range \in (0 .. tip) \X (0 .. tip)] ==
        LET low == range[1]
            high == range[2]
            mid == low + (high - low) \div 2
        IN IF low >= high THEN low
           ELSE IF Block(mid).time <= time THEN f[<<mid + 1, high>>]
           ELSE f[<<low, mid>>]
  IN f[<<0, tip>>]

\* The first block stamped with that time or later; 0 is no time at all.
FirstAt(tip, time) ==
  LET f[range \in (0 .. tip) \X (0 .. tip)] ==
        LET low == range[1]
            high == range[2]
            mid == low + (high - low) \div 2
        IN IF low >= high THEN low
           ELSE IF Block(mid).time = 0 \/ Block(mid).time < time
                THEN f[<<mid + 1, high>>] ELSE f[<<low, mid>>]
  IN f[<<0, tip>>]

\* From there on, the blocks of that second, up to the height read first.
findConversionHeight(tip, time) ==
  LET first == FirstAt(tip, time)
      found == {h \in 0 .. tip :
                  /\ h >= first /\ Block(h).converts
                  /\ \A k \in first .. h : Block(k).time = time}
  IN IF found = {} THEN NotFound ELSE CHOOSE h \in found : TRUE

-----------------------------------------------------------------------------
(* One run.                                                                *)

Step(o, from, to) ==
  /\ op[o].phase = from
  /\ op' = [op EXCEPT ![o].phase = to]

\* The run ends, whatever it says.
End(o) == op' = [op EXCEPT ![o] = Idle]

Run(o, i, w) ==
  /\ op[o] = Idle
  /\ commands < MaxCommands
  /\ commands' = commands + 1
  /\ op' = [op EXCEPT ![o] = [Idle EXCEPT !.phase = "height", !.id = commands',
                                          !.identity = i, !.weight = w]]
  /\ UNCHANGED <<network, mempool>>

ReadHeight(o) ==
  /\ op[o].phase = "height"
  /\ \E h \in Served :
       op' = [op EXCEPT ![o].phase = "target", ![o].tip = h]
  /\ UNCHANGED <<network, mempool, commands>>

\* A replica below the first height is asked again; one at or above it gives
\* weight and nonce of one block.
getL1ValidatorAt(o) == {h \in Served : h >= op[o].tip}

\* Mutated ReadTarget: the validator is taken to be as it was created.
ReadNothing(o) ==
  /\ Step(o, "target", "managers")
  /\ UNCHANGED <<network, mempool, commands>>

ReadTarget(o) ==
  /\ op[o].phase = "target"
  /\ \E h \in getL1ValidatorAt(o) :
       LET v == Validator(h, op[o].identity) IN
       IF v.weight = op[o].weight
       THEN End(o)
       ELSE op' = [op EXCEPT ![o].phase = "managers", ![o].seen = v]
  /\ UNCHANGED <<network, mempool, commands>>

\* The management set must be there, with one validator for each local key, in
\* an answer of any age, and the block that converted it at or below the height
\* read first.
Locate(o) ==
  /\ op[o].phase = "managers"
  /\ \E h \in Served :
       LET found == findConversionHeight(op[o].tip, ConversionTime) IN
       IF h >= Conversion /\ found # NotFound
       THEN op' = [op EXCEPT ![o].phase = "gate", ![o].conversion = found, ![o].tip = 0]
       ELSE End(o)
  /\ UNCHANGED <<network, mempool, commands>>

\* Mutated EpochAt: the chain is long enough, whatever its epoch pins.
EpochIsHeight(h) == h

\* GetCurrentEpoch, answered by a replica at height h.
EpochAt(h) == Block(h).pinned

\* The exact inclusion height against the pinned height, nothing indirect.
Visible(o, epoch) == epoch >= op[o].conversion

\* Nothing of the gate is used after it.
Through(o) == [op EXCEPT ![o].phase = "issue", ![o].conversion = NotFound,
                         ![o].pin = 0, ![o].nudges = 0, ![o].stale = FALSE]

\* An answer from before the epoch of now (observed only: the run cannot tell).
Stale(epoch) == epoch # Pinned

\* gateManagementConversion: the first look at the epoch,
Gate(o) ==
  /\ op[o].phase = "gate"
  /\ \E h \in Served :
       op' = IF Visible(o, EpochAt(h)) THEN Through(o)
             ELSE [op EXCEPT ![o].phase = "wait", ![o].pin = EpochAt(h),
                             ![o].stale = Stale(EpochAt(h))]
  /\ UNCHANGED <<network, mempool, commands>>

\* the sleep until that epoch may be sealed, none if it has been,
Wait(o) ==
  /\ due \/ Pinned # op[o].pin
  /\ Step(o, "wait", "nudge")
  /\ UNCHANGED <<network, mempool, commands>>

\* and at most two transactions, with a look at the epoch after each.
Nudge(o) ==
  /\ op[o].phase = "nudge"
  /\ OtherBlock
  /\ op' = [op EXCEPT ![o].phase = "look", ![o].nudges = @ + 1]
  /\ UNCHANGED <<mempool, commands>>

\* Mutated Look: one nudge is thought to be enough.
LookOnce(o) ==
  /\ op[o].phase = "look"
  /\ \E h \in Served :
       op' = IF Visible(o, EpochAt(h)) THEN Through(o)
             ELSE [op EXCEPT ![o].phase = "invisible",
                             ![o].stale = @ \/ Stale(EpochAt(h))]
  /\ UNCHANGED <<network, mempool, commands>>

Look(o) ==
  /\ op[o].phase = "look"
  /\ \E h \in Served :
       op' = IF Visible(o, EpochAt(h)) THEN Through(o)
             ELSE [op EXCEPT ![o].phase =
                     IF op[o].nudges < Nudges THEN "nudge" ELSE "invisible",
                             ![o].stale = @ \/ Stale(EpochAt(h))]
  /\ UNCHANGED <<network, mempool, commands>>

\* Mutated Change: the nonce is read just before the change is signed.
ChangeLatestNonce(o) ==
  [id |-> op[o].id, identity |-> op[o].identity, weight |-> op[o].weight,
   nonce |-> Validator(Tip, op[o].identity).nonce, from |-> op[o].seen.weight]

\* The signed message: validation ID, the nonce read at the start, the weight.
\* from (observed only) is the weight that was read with it.
Change(o) ==
  [id |-> op[o].id, identity |-> op[o].identity, weight |-> op[o].weight,
   nonce |-> op[o].seen.nonce, from |-> op[o].seen.weight]

\* The node that is asked admits the transaction or refuses it, by its state.
Issue(o) ==
  /\ op[o].phase = "issue"
  /\ \E h \in Served :
       IF Admits(h, Change(o))
       THEN /\ mempool' = mempool \union {Change(o)}
            /\ op' = [op EXCEPT ![o].phase = "await"]
       ELSE End(o) /\ UNCHANGED mempool
  /\ UNCHANGED <<network, commands>>

\* The wallet polls until the transaction is accepted.
Accepted(o) ==
  /\ Step(o, "await", "verify")
  /\ \E h \in 0 .. Tip : Block(h).change.id = op[o].id
  /\ UNCHANGED <<network, mempool, commands>>

\* Any replica will do, this time.
Verified(o) ==
  /\ op[o].phase = "verify"
  /\ \E h \in Served : Validator(h, op[o].identity).weight = op[o].weight
  /\ End(o)
  /\ UNCHANGED <<network, mempool, commands>>

\* A failed read, a lost answer, a deadline, a gate that gave up, a kill.
Fail(o) ==
  /\ op[o] # Idle
  /\ End(o)
  /\ UNCHANGED <<network, mempool, commands>>

-----------------------------------------------------------------------------
\* Blocks from genesis on, whose times never fall; the conversion is in one
\* that has a time, and the last may have begun an epoch.
Init ==
  /\ \E n \in 1 .. MaxOldBlocks :
     \E c \in 1 .. n, times \in [1 .. n + 1 -> 0 .. MaxTime - 1],
        weights \in [Identities -> Weights], pin \in {0, n - 1} :
       /\ \A k \in 1 .. n : times[k] <= times[k + 1]
       /\ times[c + 1] > 0
       /\ blocks = [k \in 1 .. n + 1 |->
            [time |-> times[k], pinned |-> IF k = n + 1 THEN pin ELSE 0,
             converts |-> k = c + 1, change |-> NoChange,
             validators |-> [i \in Identities |->
                               [weight |-> weights[i], nonce |-> 0]]]]
  /\ due = FALSE /\ past = FALSE
  /\ mempool = {}
  /\ op = [o \in Operators |-> Idle]
  /\ commands = 0

Control(o) ==
  \/ \E i \in Identities, w \in Weights : Run(o, i, w)
  \/ ReadHeight(o) \/ ReadTarget(o) \/ Locate(o)
  \/ Gate(o) \/ Wait(o) \/ Nudge(o) \/ Look(o)
  \/ Issue(o) \/ Accepted(o) \/ Verified(o)
  \/ Fail(o)

PlatformChain ==
  \/ EpochElapses \/ Quiet
  \/ \E c \in mempool : Accept(c) \/ Drop(c)

Next == PlatformChain \/ \E o \in Operators : Control(o)

Spec == Init /\ [][Next]_vars

-----------------------------------------------------------------------------
Phases == {"idle", "height", "target", "managers", "gate", "wait",
           "nudge", "look", "invisible", "issue", "await", "verify"}

Record == [weight : Weights \union {0}, nonce : Nat]
Changes == [id : Nat \ {0}, identity : Identities, weight : Weights,
            nonce : Nat, from : Weights]

\* The shapes of the state; an issued change is one of a run.
TypeOK ==
  /\ blocks \in Seq([time : Nat, pinned : Nat, converts : BOOLEAN,
                     change : Changes \union {NoChange},
                     validators : [Identities -> Record]])
  /\ blocks # <<>>
  /\ due \in BOOLEAN /\ past \in BOOLEAN
  /\ mempool \subseteq Changes
  /\ op \in [Operators ->
       [phase : Phases, id : Nat, identity : Identities \union {NotFound},
        weight : Weights \union {0}, tip : Nat, seen : Record,
        conversion : Nat \union {NotFound}, pin : Nat, nudges : 0 .. Nudges,
        stale : BOOLEAN]]
  /\ commands \in Nat

\* The search finds the conversion exactly when it is not above the height
\* that was read first, however many blocks share its second and however many
\* carry no time (setweight.go:276).
ConversionFound ==
  \A h \in 0 .. Tip :
    findConversionHeight(h, ConversionTime) =
      IF Conversion <= h THEN Conversion ELSE NotFound

\* No change is issued before the P-chain's epoch covers the conversion,
\* whichever replica told of the epoch: the validators that a run reads may
\* include the conversion while Warp does not see it yet (setweight.go:353).
GateNotEarly == \A o \in Operators : op[o].phase = "issue" => Pinned >= Conversion

\* After the wait two nudges bring the epoch that covers the conversion, and a
\* run gives up on it only if a replica answered from before the epoch of the
\* chain, at the first look or after a nudge (setweight.go:372, :391).
GivesUpOnlyOnStaleEpoch ==
  \A o \in Operators : op[o].phase = "invisible" => op[o].stale

\* A weight is only ever changed by a run that read the weight it replaces:
\* of two operators, or of a run and the late transaction of a killed one, the
\* second is refused and not applied on top (setweight.go:199).
NoLostUpdate ==
  [][Len(blocks') > Len(blocks) =>
       LET c == blocks'[Len(blocks')].change IN
       c # NoChange => Validator(Tip, c.identity).weight = c.from]_vars

=============================================================================
