------------------------------ MODULE Creation -------------------------------
(***************************************************************************)
(* The life of a deployment (cmd/l1; internal/keygen, creation, weights,   *)
(* topup, destroy): l1 keygen writes the identities to ./deployment;       *)
(* l1 create makes a subnet, a chain and a conversion for the management   *)
(* L1 and then for every managed one, and saves each transaction's ID in   *)
(* network.env once it is accepted; l1 topup pays for more days; and       *)
(* l1 destroy disables every validator it finds, which returns the         *)
(* deposits, and removes ./deployment.                                     *)
(*                                                                         *)
(* One command runs at a time.  It may be killed anywhere; a wait for a    *)
(* transaction may fail although the transaction is accepted, then or      *)
(* later; and P-chain reads are answered by replicas that lag.  Every L1   *)
(* has one validator here: its deposit stands for all of the L1's.         *)
(***************************************************************************)
EXTENDS Integers, Sequences, FiniteSets, Functions

CONSTANTS
  Order,        \* the L1s as create takes them, management first
  Deposit,      \* initialBalance
  Buffer,       \* settlementBuffer, in ticks of the validator fee
  MaxWord,      \* the largest balance a word holds
  Attempts,     \* issueAttempts
  Days,         \* bound: days to top up to, in ticks of the validator fee
  MaxCommands,  \* bound: commands run
  MaxCreated,   \* bound: subnets, chains and conversions
  MaxFaults,    \* bound: waits and builds that fail
  MaxTicks,     \* bound: ticks
  Lag           \* bound: transactions that a replica may not have yet

L1s == {Order[i] : i \in DOMAIN Order}

ASSUME CreationAssumption ==
  /\ Order \in Seq(STRING) /\ Order # <<>> /\ Order[1] = "management"
  /\ "main" \in L1s
  /\ \A i, j \in DOMAIN Order : Order[i] = Order[j] => i = j
  /\ Deposit \in Nat \ {0} /\ Buffer \in Nat /\ MaxWord \in Nat
  /\ Attempts \in Nat \ {0} /\ Days \subseteq Nat \ {0}
  /\ MaxCommands \in Nat /\ MaxCreated \in Nat /\ MaxFaults \in Nat /\ MaxTicks \in Nat
  /\ Lag \in Nat

VARIABLES
  files,     \* of keygen, in ./deployment
  genesis,   \* L1s whose genesis file is there
  env,       \* the command that wrote network.env, 0 when it is not there
  record,    \* what network.env says: L1 and step -> transaction, 0 for none
  platform,  \* the accepted transactions; the place of one is its ID
  balance,   \* what is left on the validator of each conversion
  mempool,   \* issued, not accepted
  proc,      \* the command in progress
  commands,  \* run so far
  faults,    \* so far
  ticks      \* so far

local == <<files, genesis, env, record>>
chain == <<platform, balance, mempool>>
vars == <<files, genesis, env, record, platform, balance, mempool,
          proc, commands, faults, ticks>>

Steps == {"subnet", "chain", "convert"}
Todo == [k \in 1 .. 3 * Len(Order) |->
           [l1 |-> Order[(k - 1) \div 3 + 1],
            step |-> CASE k % 3 = 1 -> "subnet" [] k % 3 = 2 -> "chain"
                       [] k % 3 = 0 -> "convert"]]

Nothing == [l \in L1s |-> [s \in Steps |-> 0]]
Idle == [cmd |-> "none", phase |-> "idle", at |-> 0, tries |-> 0, tx |-> 0,
         list |-> <<>>, target |-> 0, since |-> 0, began |-> 0]

Directory == files # {} \/ genesis # {} \/ env # 0
Conversions == {c \in DOMAIN platform : platform[c].step = "convert"}
Recorded == {record[l]["convert"] : l \in L1s} \ {0}

-----------------------------------------------------------------------------
(* The P-chain (external).                                                 *)

\* A subnet that has been converted takes no chain and no second conversion; a
\* validator without balance may be disabled again or topped up again.  What is
\* never accepted stays in the mempool.
Valid(tx) ==
  tx.step \in {"chain", "convert"} =>
    \A c \in Conversions : platform[c].on # tx.on

Accept(tx) ==
  /\ Valid(tx)
  /\ mempool' = mempool \ {tx}
  /\ platform' = Append(platform, tx)
  /\ balance' = CASE tx.step = "convert" -> Append(balance, Deposit)
                  [] tx.step = "disable" -> Append([balance EXCEPT ![tx.on] = 0], 0)
                  [] tx.step = "increase" ->
                       Append([balance EXCEPT ![tx.on] = @ + tx.amount], 0)
                  [] OTHER -> Append(balance, 0)
  /\ UNCHANGED <<local, proc, commands, faults, ticks>>

\* Time passes: every active validator pays.  A bound: the minutes before the
\* main L1 is there are not counted.
Tick ==
  /\ ticks < MaxTicks
  /\ env # 0 /\ record["main"]["convert"] # 0
  /\ \E c \in DOMAIN balance : balance[c] > 0
  /\ ticks' = ticks + 1
  /\ balance' = [c \in DOMAIN balance |-> IF balance[c] > 0 THEN balance[c] - 1 ELSE 0]
  /\ UNCHANGED <<local, platform, mempool, proc, commands, faults>>

-----------------------------------------------------------------------------
(* Commands and transactions.                                              *)

Start(cmd, phase) ==
  /\ proc = Idle
  /\ commands < MaxCommands
  /\ commands' = commands + 1
  /\ proc' = [Idle EXCEPT !.cmd = cmd, !.phase = phase]
  /\ UNCHANGED <<local, chain, faults, ticks>>

Goto(phase) == proc' = [proc EXCEPT !.phase = phase]

\* A command returns an error or is killed: what it held is gone.
Stop ==
  /\ proc # Idle
  /\ proc' = Idle
  /\ UNCHANGED <<local, chain, commands, faults, ticks>>

\* One transaction: by its ticket it differs from every other.
Issue(step, l1, on, amount) ==
  /\ mempool' = mempool \union
       {[ticket |-> <<commands, proc.at, proc.tries>>, step |-> step, l1 |-> l1,
         on |-> on, manager |-> record["management"]["chain"], amount |-> amount]}
  /\ Goto("wait")
  /\ UNCHANGED <<local, platform, balance, commands, faults, ticks>>

\* The wallet sees its transaction accepted.
Awaited(id) == platform[id].ticket = <<commands, proc.at, proc.tries>>

-----------------------------------------------------------------------------
(* l1 keygen.                                                              *)

Keygen == ~Directory /\ Start("keygen", "keys")

WriteKeys ==
  /\ proc.phase = "keys"
  /\ files' = {"keys"}
  /\ Goto("public")
  /\ UNCHANGED <<genesis, env, record, chain, commands, faults, ticks>>

\* Of create, keygen is the first part.  placement.json is written last; nothing
\* here reads it.
WritePublic ==
  /\ proc.phase = "public"
  /\ files' = files \union {"public"}
  /\ IF proc.cmd = "create" THEN Goto("check") ELSE proc' = Idle
  /\ UNCHANGED <<genesis, env, record, chain, commands, faults, ticks>>

-----------------------------------------------------------------------------
(* l1 create.                                                              *)

Create == env = 0 /\ Start("create", IF Directory THEN "check" ELSE "keys")

\* The outputs must be missing and the inputs there; the funds, the templates
\* and the public file may fail a check of their own (Stop).
Check ==
  /\ proc.phase = "check"
  /\ IF env = 0 /\ "public" \in files /\ genesis = {}
     THEN Goto("genesis") ELSE proc' = Idle
  /\ UNCHANGED <<local, chain, commands, faults, ticks>>

\* One file after the other, the oracle L1's when its turn comes; then the first
\* Save.
WriteGenesis ==
  /\ proc.phase = "genesis"
  /\ LET left == {i \in DOMAIN Order :
                    Order[i] \notin {"management", "oracle"} \union genesis}
     IN \/ \E i \in left :
             /\ \A j \in left : i <= j
             /\ genesis' = genesis \union {Order[i]}
             /\ UNCHANGED <<env, record, proc>>
        \/ /\ left = {}
           /\ env' = commands /\ record' = Nothing
           /\ proc' = [proc EXCEPT !.phase = "issue", !.at = 1, !.tries = 1]
           /\ UNCHANGED genesis
  /\ UNCHANGED <<files, chain, commands, faults, ticks>>

Now == Todo[proc.at]

WriteOracleGenesis ==
  /\ proc.phase = "issue"
  /\ Now.l1 = "oracle" /\ "oracle" \notin genesis
  /\ genesis' = genesis \union {"oracle"}
  /\ UNCHANGED <<files, env, record, chain, proc, commands, faults, ticks>>

IssueNext ==
  /\ proc.phase = "issue"
  /\ Now.l1 = "oracle" => "oracle" \in genesis
  /\ Cardinality({i \in DOMAIN platform : platform[i].step \in Steps}) < MaxCreated
  /\ Issue(Now.step, Now.l1, IF Now.step = "subnet" THEN 0 ELSE record[Now.l1]["subnet"], 0)

\* The transaction is built anew, by a wallet built anew, a few times.
Again(at) ==
  IF proc.tries < Attempts
  THEN proc' = [proc EXCEPT !.phase = "issue", !.at = at, !.tries = @ + 1]
  ELSE proc' = Idle

\* Mutated Retry: it starts again with the subnet.
RetryFromSubnet ==
  /\ proc.cmd = "create" /\ proc.phase \in {"issue", "wait"}
  /\ faults < MaxFaults
  /\ faults' = faults + 1
  /\ Again(proc.at - ((proc.at - 1) % 3))
  /\ UNCHANGED <<local, chain, commands, ticks>>

\* The wallet cannot be built, the transaction is refused, or the wait for it
\* fails.
Retry ==
  /\ proc.cmd = "create" /\ proc.phase \in {"issue", "wait"}
  /\ faults < MaxFaults
  /\ faults' = faults + 1
  /\ Again(proc.at)
  /\ UNCHANGED <<local, chain, commands, ticks>>

Accepted ==
  /\ proc.cmd = "create" /\ proc.phase = "wait"
  /\ \E id \in DOMAIN platform :
       /\ Awaited(id)
       /\ proc' = [proc EXCEPT !.phase = "save", !.tx = id]
  /\ UNCHANGED <<local, chain, commands, faults, ticks>>

\* One rename publishes the whole of network.env.
Save ==
  /\ proc.phase = "save"
  /\ record' = [record EXCEPT ![Now.l1][Now.step] = proc.tx]
  /\ proc' = IF proc.at = Len(Todo) THEN Idle
             ELSE [proc EXCEPT !.phase = "issue", !.at = @ + 1, !.tries = 1, !.tx = 0]
  /\ UNCHANGED <<files, genesis, env, chain, commands, faults, ticks>>

-----------------------------------------------------------------------------
(* The validators of the recorded conversions (weights.fetch).             *)

\* Membership is read from any replica, and the balance from one at least as
\* far as a height that any replica gave: the last few transactions may show or
\* not.
Settled == IF Len(platform) > Lag THEN Len(platform) - Lag ELSE 0
Recent(step, c) ==
  \E i \in Settled + 1 .. Len(platform) : platform[i].step = step /\ platform[i].on = c

Reports ==
  LET possible == {c \in Recorded : balance[c] > 0 \/ Recent("disable", c)}
      sure == {c \in Recorded : balance[c] > 0 /\ c <= Settled /\ ~Recent("increase", c)}
  IN {S \in SUBSET possible : sure \subseteq S}

\* Management comes first in a report, then main.
Rank(c) ==
  CASE platform[c].l1 = "management" -> 0
    [] platform[c].l1 = "main" -> 1
    [] OTHER -> c + 1

\* One transaction for each validator of S, in the order of a rank.
Listed(S, rank, amount) ==
  {[k \in DOMAIN order |-> [on |-> order[k], amount |-> amount[order[k]]]] :
     order \in {order \in Bijection(1 .. Cardinality(S), S) :
                  \A j, k \in DOMAIN order : j < k => rank[order[j]] <= rank[order[k]]}}

-----------------------------------------------------------------------------
(* l1 topup.                                                               *)

Overflow == -1

\* Mutated Target: no time for the transactions themselves.
TargetExact(days) == IF days > MaxWord THEN Overflow ELSE days

\* Mutated Target: the sum is not checked.
TargetWraps(days) == (days + Buffer) % (MaxWord + 1)

\* targetBalance, and add: up to the days asked for, and the buffer.
Target(days) == IF days > MaxWord - Buffer THEN Overflow ELSE days + Buffer

TopUp(days) ==
  /\ env # 0 /\ record["main"]["convert"] # 0 /\ Target(days) # Overflow
  /\ proc = Idle /\ commands < MaxCommands
  /\ commands' = commands + 1
  /\ \E report \in Reports :
       LET short == {c \in report : balance[c] < days}
       IN /\ report # {}
          /\ \/ short = {} /\ proc' = Idle
             \/ /\ short # {}
                /\ \E list \in Listed(short, [c \in short |-> Rank(c)],
                                     [c \in short |-> Target(days) - balance[c]]) :
                     proc' = [Idle EXCEPT !.cmd = "topup", !.phase = "increase",
                                !.at = 1, !.list = list, !.target = days,
                                !.since = Settled, !.began = ticks]
  /\ UNCHANGED <<local, chain, faults, ticks>>

Increase ==
  /\ proc.phase = "increase"
  /\ LET v == proc.list[proc.at] IN
     Issue("increase", platform[v.on].l1, v.on, v.amount)

Increased ==
  /\ proc.cmd = "topup" /\ proc.phase = "wait"
  /\ \E id \in DOMAIN platform : Awaited(id)
  /\ proc' = IF proc.at = Len(proc.list) THEN Idle
             ELSE [proc EXCEPT !.phase = "increase", !.at = @ + 1]
  /\ UNCHANGED <<local, chain, commands, faults, ticks>>

-----------------------------------------------------------------------------
(* l1 destroy.                                                             *)

\* Management comes last.
Reclaimable(S) ==
  Listed(S, [c \in S |-> IF platform[c].l1 = "management"
                         THEN Len(platform) + 2 ELSE Rank(c)],
         [c \in S |-> 0])

Destroy == env # 0 /\ Start("destroy", "survey")

\* Mutated Unconverted: only the main L1 is asked for.
MainUnconverted == record["main"]["convert"] = 0

Unconverted ==
  record["main"]["convert"] = 0 /\ record["management"]["convert"] = 0

Survey ==
  /\ proc.phase = "survey"
  /\ IF Unconverted
     THEN proc' = [proc EXCEPT !.phase = "remove", !.since = Len(platform)]
     ELSE \E report \in Reports : \E list \in Reclaimable(report) :
            proc' = [proc EXCEPT !.phase = IF report = {} THEN "remove" ELSE "disable",
                                 !.at = 1, !.list = list, !.since = Settled]
  /\ UNCHANGED <<local, chain, commands, faults, ticks>>

Disable ==
  /\ proc.phase = "disable"
  /\ LET v == proc.list[proc.at] IN
     Issue("disable", platform[v.on].l1, v.on, v.amount)

DisableAccepted ==
  /\ proc.cmd = "destroy" /\ proc.phase = "wait"
  /\ \E id \in DOMAIN platform : Awaited(id)
  /\ proc' = IF proc.at = Len(proc.list) THEN [proc EXCEPT !.phase = "remove"]
             ELSE [proc EXCEPT !.phase = "disable", !.at = @ + 1]
  /\ UNCHANGED <<local, chain, commands, faults, ticks>>

\* os.RemoveAll, which a kill may stop half way.
Remove ==
  /\ proc.phase = "remove"
  /\ \/ \E f \in files : files' = files \ {f} /\ UNCHANGED <<genesis, env, record, proc>>
     \/ \E l \in genesis : genesis' = genesis \ {l} /\ UNCHANGED <<files, env, record, proc>>
     \/ env # 0 /\ env' = 0 /\ record' = Nothing /\ UNCHANGED <<files, genesis, proc>>
     \/ ~Directory /\ proc' = Idle /\ UNCHANGED <<files, genesis, env, record>>
  /\ UNCHANGED <<chain, commands, faults, ticks>>

-----------------------------------------------------------------------------
Init ==
  /\ files = {} /\ genesis = {} /\ env = 0 /\ record = Nothing
  /\ platform = <<>> /\ balance = <<>> /\ mempool = {}
  /\ proc = Idle
  /\ commands = 0 /\ faults = 0 /\ ticks = 0

PlatformChain ==
  \/ \E tx \in mempool : Accept(tx)
  \/ Tick

Command ==
  \/ Keygen \/ WriteKeys \/ WritePublic
  \/ Create \/ Check \/ WriteGenesis \/ WriteOracleGenesis
  \/ IssueNext \/ Retry \/ Accepted \/ Save
  \/ \E d \in Days : TopUp(d)
  \/ Increase \/ Increased
  \/ Destroy \/ Survey \/ Disable \/ DisableAccepted \/ Remove
  \/ Stop

Next == PlatformChain \/ Command

Spec == Init /\ [][Next]_vars

-----------------------------------------------------------------------------
Transactions ==
  [ticket : Nat \X Nat \X Nat, step : Steps \union {"disable", "increase"}, l1 : L1s,
   on : Nat, manager : Nat, amount : Nat]

Phases == {"idle", "keys", "public", "check", "genesis", "issue",
           "wait", "save", "survey", "disable", "remove", "increase"}

\* The shapes of the state; no transaction is issued more often than
\* issueAttempts.
TypeOK ==
  /\ files \subseteq {"keys", "public"} /\ genesis \subseteq L1s
  /\ env \in Nat /\ record \in [L1s -> [Steps -> Nat]]
  /\ platform \in Seq(Transactions)
  /\ balance \in Seq(Nat) /\ Len(balance) = Len(platform)
  /\ mempool \subseteq Transactions
  /\ proc \in [cmd : {"none", "keygen", "create", "topup", "destroy"},
               phase : Phases, at : Nat, tries : 0 .. Attempts, tx : Nat,
               list : Seq([on : Nat, amount : Nat]),
               target : Nat, since : Nat,
               began : Nat]
  /\ commands \in Nat /\ faults \in Nat /\ ticks \in Nat

\* What network.env leads to: every conversion of the deployment is of the
\* subnet the file names and under the management chain it names, and at most
\* one conversion, the last, is not in the file itself (create.go:630).
DepositCanBeFound ==
  env # 0 =>
    LET own == {c \in Conversions : platform[c].ticket[1] = env} IN
    /\ \A c \in own :
         /\ record[platform[c].l1]["subnet"] = platform[c].on
         /\ record["management"]["chain"] = platform[c].manager
    /\ Cardinality(own \ Recorded) <= 1

\* network.env goes only when no deposit is left, but for a conversion that
\* was never recorded, and for a conversion or a top-up that was not yet on
\* every replica when destroy asked for the validators (main.go:405).
TeardownReturnsDeposits ==
  [][env # 0 /\ env' = 0 =>
       \A c \in Recorded :
         balance[c] > 0 =>
           \E i \in proc.since + 1 .. Len(platform) :
             i = c \/ (platform[i].step = "increase" /\ platform[i].on = c)]_vars

\* A top-up that ends well has left every validator it paid for the days that
\* were asked for, whatever time its transactions took up to the buffer, unless
\* a late transaction of a killed destroy disabled it (topup.go:51).
TopUpCovers ==
  [][Increased /\ proc' = Idle /\ ticks <= proc.began + Buffer =>
       \A k \in DOMAIN proc.list :
         \/ balance[proc.list[k].on] >= proc.target
         \/ \E i \in proc.since + 1 .. Len(platform) :
              platform[i].step = "disable" /\ platform[i].on = proc.list[k].on]_vars

=============================================================================
