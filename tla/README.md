# Verification project for avalanche-benchmark

TLA+ models of the Go program in `src/`, the TLC configurations that check them on small instances, and
TLAPS proofs of the theorems that hold for every instance.

1. [The system](#1-the-system): components, state, operations, what is hard, what must hold
2. [The modules](#2-the-modules): how state and actions correspond to the code
3. [The runs](#3-the-runs): what each checks, its bounds, what it shows
4. [The proofs](#4-the-proofs)
5. [Findings](#5-findings)
6. [What is not modelled](#6-what-is-not-modelled)
7. [Plan](#7-plan)

Check a model with `tlc -config X.cfg MCmodule`, a proof with `tlapm M.tla`.

## 1. The system

The program creates Avalanche L1s on a public P-chain, runs their nodes on isolated machines, and drills
data-center failovers on them.  One **control machine** holds the operator's files and runs short-lived
commands; the **node machines** run avalanchego from a run script (a *user install*, the default, whose
root `REMOTE_DIR` may set) or, with `SYSTEM_INSTALL=true`, under systemd; control reaches them over ssh and
nothing else.  Control keeps no daemon and no lock: whatever a command needs to know it reads from its own
files or asks the machines.

| Component | State | Operations | Talks to |
|---|---|---|---|
| fleet control plane (`internal/fleet`: place, lifecycle, deploy, upgrade) | `deployment/placement.json`, `upgrades*.json`; on each machine: unit and boot flag, staking directory, `node.json`, `upgrade.json`, chain data, the process | place, start, stop, destroy, deploy, rolling deploy, upgrade | ssh commands, one after another or in parallel; the node's API for readiness |
| placement file (`internal/placement`) | machine → identity | Default, Load, Save, Validate | read and written by place, read by every verb |
| P-chain machine (`freeze.go`, `pchainview.go`, parts of `deploy.go`, `lifecycle.go`) | the P-chain database and its archives, node mode, P.log | pchain follow, freeze, archive, start, stop; the P-chain half of deploy | public P-chain API, the node's log, health and metrics |
| upgrade history (`upgrade.go`) | history per chain | merge, validate, write | control's files |
| status and targets | none | report | probes |
| chain creation (`cmd/l1`, `internal/keygen`, `creation`) | `./deployment`: keys, `public.json`, genesis files, `network.env` with the ID of every accepted transaction | keygen, create: a subnet, a chain and a conversion per L1 | public P-chain |
| set-weight (`internal/setweight`) | none of its own | read validator and nonce, find the conversion, wait for the Warp epoch, sign with the management keys, issue, verify | public P-chain; no validator-manager contract is called |
| weight report, top-up, teardown (`internal/weights`, `topup`, `destroy`) | none; teardown removes `./deployment` | topup, destroy: one transaction per validator | public P-chain, through replicas that lag |
| funding, configuration, identities | files read at the start | parse, derive | every command |
| bombard (`cmd/bombard`) | in-flight nonces, four counters, resync request | issuer, send workers, resend loop, block watchers, nonce monitor, ingress monitor | RPC endpoints |
| settlement feed (`apps/settlement-feed/internal/oraclerelay`) | in memory: next nonce, unconfirmed transactions, freshness gate | feed to the oracle L1, feed to the main L1, relay between the two; each with a confirmer and a poller | nodes of both L1s, validators (ACP-118) |
| settlement-feed contracts | rounds, prices by sequence number, aggregator behind the proxy | submit, receive, propose, confirm | called by feed and relay, and by consumers |

Components meet in files, on machines and on chains, never in memory: fleet reads what keygen and create
wrote; create, set-weight, topup and destroy share the P-chain and the funding account; the feed and the
relay share the aggregator; bombard and the feed share the main L1's mempool.

### What is hard

* **Nothing is atomic across machines.**  A verb is a program of phases, a phase one ssh command per
  machine.  Any of them can be lost before it runs, after it ran, or in the middle; the verb then stops
  where it is and nothing is rolled back.  What a *rerun* does with the rest is the recovery story, and
  the state it must understand is the product of every place a verb can stop.
* **The machines move by themselves.**  systemd restarts a crashed node and starts enabled units after a
  reboot, with whatever key and address book are on disk at that moment.
* **Intent has no record of its own.**  Whether a machine is meant to be up is inferred from the unit's
  boot flag and the process.  A deliberate stop and an interrupted run differ in one bit, and a user
  install does not have that bit.
* **Heights are inferred.**  A follow-only P-chain node answers no height query.  Control adds a startup
  line of the log to a counter of the running process, read at different moments, and compares the sum
  with a public height read before both.
* **Copies of a database in use.**  `pchain archive` stops the node, copies, and must start it again
  whatever fails.
* **Four goroutines, three counters, no common lock.**  bombard's cap is an unsigned subtraction of
  counters that the issuer, the watchers and the resync change; a failover can take the chain back below
  nonces that were mined.
* **Retries of what was already done.**  create issues a transaction again when a wait for acceptance
  failed; a killed command leaves transactions that are accepted under the next one.
* **Replicas that lag.**  The public P-chain API answers each read from another replica.  set-weight, topup
  and destroy read membership, balance, nonce, height and epoch one after the other.
* **Nonces counted alone.**  A feed and the relay take their first nonce from the chain and count on; a lost
  transaction is a gap, a killed run leaves a mempool that the next one writes over.
* **Three goroutines and one way to end.**  A feed's confirmer and poller end the main loop, which may be in
  a select, in a send, or blocked on a full channel, and must not look as if it had been shut down.

### What makes it correct

| Component | Promise | Where it is |
|---|---|---|
| fleet | placement.json is always a complete bijection that moves only validators of one chain, one exchange at a time | `KeepsPlacementFile` |
| fleet | what was taken down on purpose stays down | `StoppedStaysDown` |
| fleet | a crash cannot change who a node is; two moves are never bundled | `CrashKeepsIdentity`, `IsolatedMove` |
| fleet | no identity is served by two machines | `PlaceKeepsIdentitiesDistinct` (every place), `IdentityServedOnce` (any verb, before the first fault and upgrade; section 5 has what happens after) |
| fleet | an interrupted place converges when it is run again | `RerunConverges` (systemd; refuted for a user install) |
| fleet | a start that succeeds leaves boot intent | `StartRestoresIntent` (while nothing fails; not after a stop that was cut off, section 5) |
| fleet | address books follow intent | `BookFollowsIntent` |
| fleet | no data is deleted under a running fleet; no restart on half an upgrade history; no verb hangs | `KillBeforeWipe`, `HistoryBeforeRestart`, `VerbsEnd` |
| P-chain | the inferred height never overstates; freeze stops only a node that had caught up | `ObservedNeverOverstates`, `FreezeGateSound` |
| P-chain | archives are whole, the node comes back, the database never goes back | `CopiesWhole`, `ArchiveRestartsNode`, `DatabaseNeverRegresses` |
| P-chain | the mode that was announced is the mode that runs | `AnnouncedModeRuns` |
| creation | network.env leads to every deposit, and goes only when the deposits are back | `DepositCanBeFound`, `TeardownReturnsDeposits` |
| top-up | what was paid for lasts as long as was asked, whatever time the transactions take | `TopUpCovers` |
| set-weight | the conversion block is found exactly; the gate never opens before the epoch covers it, and gives up on it only when a replica told of an epoch that was over | `ConversionFound`, `GateNotEarly`, `GivesUpOnlyOnStaleEpoch` |
| set-weight | no change is applied on top of one its run has not read | `NoLostUpdate` |
| settlement feed | the receiver shows announced prices only, each under its number, and never goes back | `ImplementsRegister` |
| settlement feed | what the relay has read it delivers, or it ends, and not silently; no run waits behind a gap | `DeliversOrEnds`, `NoSilentFailure`, `NoGapUnderRun` |
| bombard | the cap holds, the count never wraps, a resync loses no nonce, a failover is ridden through | `CapHolds`, `CountNeverWraps`, `NoNonceLost`, `RidesThroughFailover` |

`PROJECT.json` lists every hazard with its line, and for each the properties that cover it or the reason
why none does yet.

## 2. The modules

```
PlacementFile        abstract: a file that changes by exchanges
   ^ refined by (INSTANCE, KeepsPlacementFile)
Fleet        <- MCFleet        <- FleetProofs <- FleetDownProofs <- FleetMoveProofs
PChain       <- MCPChain       <- PChainProofs
Bombard      <- MCBombard      <- BombardProofs
Creation     <- MCCreation     <- CreationProofs
SetWeight    <- MCSetWeight    <- SetWeightProofs

PriceRegister        abstract: what a consumer of the relayed feed may rely on
   ^ refined by (INSTANCE WITH, ImplementsRegister)
Settlement   <- MCSettlement   <- SettlementProofs
```

(A proof module EXTENDS the model, or MC module, left of its arrow; so does the MC module.)  A module is a
group of programs that act on the same state at the same time.  Components that only hand each other a
finished file are joined by assumptions instead: `Fleet` and `PChain` begin where `Creation` has ended, and
`SetWeight` works on a chain that `Creation` has converted.

### Fleet

*State.*  `placement` and `history` are control's files.  Per L1 machine: `unit` (missing, disabled,
enabled, or installed for a user install, which has no boot flag), `disk` (whose complete key the staking
directory holds; `NoId` for none or a torn one), `running` (the identity the process serves), `book` (the
state-sync peers in `node.json`), `data` (whether the chain's data exists), `file` (how much of the
history is in its `upgrade.json`).  `cmd` is the one command in progress: verb, phase, machines still to
visit (`todo`), machines the verb selected (`sel`), machines that wait for their turn in a rolling verb
(`rest`), machines named on the command line (`req`), what it believes to be up (`up`).  `want` and `last`
only observe: what the last finished verb asked of a machine, and how the last verb ended.

*Actions.*  `Place`, `Start`, `Stop`, `Destroy`, `Deploy`, `Roll`, `UpgradeChain` begin a verb.  `Order`
is the table of phase programs (`l1DeployPhases`, `destroyPhases`, the sequences in `place.go`,
`lifecycle.go` and `upgrade.go`).  `Remote(m)` is what one ssh command does on a machine in each phase;
`Step` runs it on the lowest-numbered machine of `todo`, as `phase()` does.  `StepRefused` is a command
that fails without effect, `StepLost` one that is lost before, after or in the middle of its effect
(`Torn` lists the compound commands that can stop half way), `Interrupt` the end of control itself.
`ProbePlacement`/`PlanApply` and `ProbeStart`/`PlanStart` are the two reads-then-plans of the code, with
the machines free to change in between.  `PushBook` and `PushHistory` are the parallel phases, any order,
each with success, failure without effect or failure after the effect.  `NextMachine` moves a rolling verb
on.  `SavePlacement` is the write between the two legs of `place`.  `Crash` and `Reboot` belong to the
machines.

*Abstractions.*
- One operator runs one command at a time.
- The model begins after `l1 create`; `prepare` and preflight refusals are an `Interrupt` before the first
  effect.
- Readiness means a live process.  The 75%-of-stake gate between machines of a rolling verb, and its
  timeout, are an `Interrupt` or a `StepRefused`.
- A process without a key exits; systemd's restart attempts of it are left out because they change nothing.
- Every upgrade fragment is assumed to be strictly later than the history, so a history is a count.
- The P-chain half of `deploy` is in `PChain`.

### PlacementFile

The promise of placement.json to its readers: it starts as keygen wrote it and changes only by an
exchange of two validators of one chain.  `Fleet` implements it with the identity mapping on `placement`;
every other step of the fleet is a stutter.

### PChain

*State.*  `upstream` and `registered` are the public P-chain: its height, and the height of each chain's
`ConvertSubnetToL1Tx`.  On the machine: `unit`, `conf` (mode in node.json), `key`, `proc` (mode of the
process), `db` (a height, and whether the copy it came from was made while nothing wrote), `base` (the
height when this process started, so that `db.height - base` is its accepted counter), `logged` and `log`
(the startup line), `export` and `archive` (the two copies).  `cmd` is the verb with the gate's sample in
it: `up`, `startup`, `healthy`, `accepted`, `visible`.

*Actions.*  The gate is modelled read by read, in the code's order: public height, log, health, metrics,
validator sets, then `Check`; blocks, conversions, log rotation and crashes happen between any two.  After
a passed gate come stop, package, unit, identity, seed, start, and the readiness wait for deploy.
`archive` is: check active, stop, tar, restart (in the deferred order of the code), download.  Boot
creates a database where there is none and resets the counter; `Accept` happens only after the process has
logged its startup line.

*Abstractions.*
- An archive of the operator's own may be there at the start (height 1).
- node.json is written by one rename; a tar is whole exactly if the node was down when it ran.
- HTTP errors of the gate: freeze ends, deploy tries again until its deadline.
- Ctrl-C has no handler in this program, so `Interrupt` kills control at once; `last.unsure` marks the
  ends after which the code has said that it does not know what is running.
- follow, freeze and deploy need `network.env` complete as far as the code's `prepare` needs it
  (`Prepared`).

### Bombard

*State.*  The chain: `frontier` (next nonce it accepts), `pool` (mempools), `reports` (mined, and not yet
reported by every watcher).  The issuer: `next`, and `issuer` for its place in the loop.  `sendCh` is the
channel together with the nonces in the hands of workers that have not registered them.  The tracker:
`inflight` (the map and its inverse) and `ahead` = issued − mined − dropped as an integer, so that a wrap
of the unsigned value shows as a negative one.  The monitor: the tick in progress and `stalls`.  The
resync request: `pending`, `target`.

*Actions.*  `Issue` sends to the channel and `Count` bumps `issued` afterwards, two steps, as in the code.
`TakeResync` drops and jumps, `ClearResync` clears the flag, two steps, so that a request between them is
lost as it would be.  `Register(i)` takes any element because the workers run in parallel.  `Resubmit` and
`Late` bring transactions to the mempools at any later time.  `Report` may happen again for the same block
(several watchers), `Miss` covers blocks that could not be fetched and blocks of the new site below the
height a watcher already saw.  `FailOver` takes the frontier back, with or without the mempools.
`ReadCounters`, `ReadFrontier`, `Decide` are the monitor's tick; the frontier read may fail, may lag, and
after a failover may come from a node that knows the old chain.

*Abstractions.*  No rate, only the cap.  The endpoints of the broadcaster are one mempool that a
transaction may or may not reach.  `onMined` changes the map and the counter in one step (in the code the
counter follows, which only overstates what is in flight).  `stalls` stops at its threshold.  Signing
never fails.

### Creation

*State.*  `./deployment` is `files` (keygen's), `genesis` (the L1s whose genesis file is there), `env` (0 or
the command that wrote `network.env`) and `record` (its contents: L1 and step to transaction ID, 0 for
none).  The P-chain is `platform` (the accepted transactions, in order; a position is an ID), `balance`
(what is left on each conversion's validator) and `mempool`.  `proc` is the one command in progress.

*Actions.*  `Keygen`, `WriteKeys`, `WritePublic`; `Create`, `Check`, `WriteGenesis` (which ends in the first
save of an empty `network.env`), then for each entry of `Todo` in order `IssueNext`, `Accepted`, `Save`,
with `WriteOracleGenesis` when the oracle's turn comes and `Retry` when building, issuing or waiting fails;
`TopUp(days)`, `Increase`, `Increased`; `Destroy`, `Survey`, `Disable`, `DisableAccepted`, and `Remove`, one
file at a time.  `Stop` is an error return or a kill anywhere.  A transaction once issued may be accepted at
any later time (`Accept`), also under another command.  `Tick` is the validator fee.  `Reports` is the set
of answers that `weights.fetch` may put together from replicas that lag by `Lag` transactions.

*Abstractions.*
- One validator per L1: its deposit stands for the L1's.  The fee price does not change.
- The funding preflight, the checks of `public.json`, templates and chain IDs, and the ownership check of
  destroy may end a command, which `Stop` covers.
- One command at a time.  Conflicts between UTXOs of the funding account are a failed build (`Retry`).
- placement.json is written with `public.json`.  Fee ticks before the main L1 exists are not counted.

### SetWeight

*State.*  `blocks` is the P-chain: per block a time (0 for the old block formats, which have none), the
height that its ACP-181 epoch pins, whether it holds the conversion of the management subnet, the weight
change in it, and the validators (weight and nonce) after it.  `due` and `past` are the epoch of now: whether
its duration is over, whether the last block was built after that.  `mempool` are issued changes, `op` the run
of each operator; `stale` in it only observes that a replica told the run of an epoch that was over.

*Actions.*  One per read, in the code's order: `ReadHeight`, `ReadTarget` (which ends the run if there is
nothing to do), `Locate` (management set, conversion time, the search), the gate as `Gate`, `Wait`, `Nudge`,
`Look`, then `Issue` with the nonce read at the start, `Accepted`, `Verified`; `Fail` anywhere.
`findConversionHeight` is the code's binary search, followed by its scan.  Every read, the epoch of the gate
(`EpochAt`) included, is answered by a replica at some height in `Served`, and so is the transaction, which a
node admits by its own state (`Issue`).  The P-chain side is external: `Extend` builds a block and, past the
boundary, the next epoch; `Admits` is the check of the nonce and of the pinned management set.

*Abstractions.*
- Signatures: a run has all local management keys and they are a quorum, or it stops (`Fail`).
- Inactive validators, the funding wallet and its UTXOs are left out.
- Control's clock and the chain agree on when an epoch may end: the code sleeps by its own clock until the
  start time and the duration of the epoch have passed, the model until `due`, or not at all if the epoch it
  was told of is over.
- `oraclerelay/epoch.go` holds a copy of the search and of the gate without the nudges; what is shown of
  `findConversionHeight` is shown of it.

### Settlement

*State.*  `program` is which of the three programs is under the operator's account: the feed with an oracle
L1, the direct feed, or the relay.  On chain: `announced` (the aggregator: per asset the prices by sequence
number or round), `stored` (the receiver), `mined`, `pool` (one transaction per nonce), `installed`.  In
memory: `run` (nonce, place in the loop, the channel `pending`, what the confirmer waits for, whether the
context is cancelled and whether `confirmErr` holds an error, the state of confirmer and poller), `tick`,
`logs`, `fresh`, `batch`.  `run.failed`, `run.gap` and `hidden` only observe.

*Actions.*  `Relay`, `feedOracleChain`, `feedDirect` start a run; `End` throws its memory away.  The main
loop is `SelectStop`, `Tick`/`Submit` or `Collect`/`Deliver`, `Enqueue`, `EnqueueStop`.  The helpers are
`TakePending`, `confirmDeliveries`, `confirmSubmissions`, `pollMainPrices`, `pollOnChainPrices`, and
`Cancel`: fail() stores the error and cancels, two steps between which the main loop may move.
`SendOk`, `SendRefused`, `SendLost` are one call of `SendRawTransaction`; `Accepts` says when a mempool
takes a transaction in the place of another.  `ReceivePrices`, `SubmitPrice`, `SubmitRound` are the
contracts.  The environment mines, reverts, loses transactions, repeats logs, kills and interrupts.

*Abstractions.*
- The feed and the relay are checked one at a time: they share nothing but the aggregator, and to the relay
  a feed is announcements at any time.
- A signature quorum is one step that succeeds or fails (`SendLost`).  Assets, prices and rounds are small
  numbers; a price is drawn once, so that two messages are never equal by accident.
- Timeouts are untimed: a wait for a receipt may fail whenever there is none of success.
- The proxy, the Settlement example and the metrics are left out.

### PriceRegister

The consumer's view: an aggregator that numbers the prices of an asset 1, 2, 3, ..., and a receiver that per
asset holds one of them and only moves to a later one.  `Settlement` implements it with the identity mapping
on `announced` and `stored`; every other step is a stutter.

## 3. The runs

| Run | Instance and bounds | Question | Properties |
|---|---|---|---|
| FleetSystem | systemd; three validators of one chain, deployed; two verbs of place, start, stop, destroy, deploy; two faults; any number of crashes and reboots | Do down machines stay down, are moves isolated, do books follow intent, does a rerun of place converge, does a start restore intent? | StoppedStaysDown, BookFollowsIntent, CrashKeepsIdentity, RerunConverges, StartRestoresIntent, IsolatedMove, KillBeforeWipe |
| FleetUser | user install; the same fleet; two verbs of place, start, stop, roll, upgrade; one fault; crashes and reboots; fairness | Does any verb hang, is one identity ever served twice? | IdentityServedOnce, PlaceKeepsIdentitiesDistinct, VerbsEnd |
| FleetMixed | systemd, not yet deployed; two validators and an RPC node of one chain, a validator of another, the P-chain machine; three verbs of place, deploy, upgrade; one fault; crashes and reboots | Are illegal moves refused, does placement.json refine its abstract file, is a history complete before the first restart? | TypeOK, HistoryBeforeRestart, KeepsPlacementFile |
| PChainSystem | systemd; management and one chain; public height up to 3; two of all six verbs; one fault; crashes | Is the gate sound under crashes between its reads, are copies whole, does the node come back? | TypeOK, ObservedNeverOverstates, FreezeGateSound, CopiesWhole, ArchiveRestartsNode, AnnouncedModeRuns, DatabaseNeverRegresses |
| PChainUser | user install; one chain; public height up to 2; three of all six verbs; one fault; reboots | Does the announced mode still run without systemd, after reboots and a longer series of verbs? | AnnouncedModeRuns |
| BombardSystem | cap 2, two nonces, stall threshold 1, one failover, one failed, lagging or stale frontier read; fairness | Does the cap hold, is a nonce lost, does the chain move again after a failover? | TypeOK, CapHolds, CountNeverWraps, NoNonceLost, RidesThroughFailover |
| CreationLife | management, an oracle L1 and main; deposit 2, fee buffer 1, top-ups to 3 or 5 in words of 5; three commands; two attempts per transaction; one fault; two ticks; reads lag by one | Can every deposit be found, are they back before the keys go, does a top-up last? | TypeOK, DepositCanBeFound, TeardownReturnsDeposits, TopUpCovers |
| SetWeightRace | two operators, one validator, two weights; up to three old blocks with every order of times 0 and 1, at least two new blocks; reads lag by one; two runs | Is the conversion found, does the gate open early, when does it give up, is an update lost? | TypeOK, ConversionFound, GateNotEarly, GivesUpOnlyOnStaleEpoch, NoLostUpdate |
| SettlementRelay | all three programs; two assets; one transaction in the channel, two messages per batch; three prices; two starts; one fault; kills and interrupts at will; fairness | Do failures show, does a run wait behind a gap, does the receiver implement the register, is what was read delivered? | TypeOK, NoSilentFailure, NoGapUnderRun, ImplementsRegister, DeliversOrEnds |
| FleetUserRerun | user install, no crashes, two verbs, one fault | (violation) does a rerun of place converge? | RerunConverges |
| PChainFreezeSets | two sets, no fault | (violation) does a frozen database hold every declared validator set? | FrozenHoldsValidatorSets |
| BombardCount | cap 2, three nonces, one failover | (violation) is the in-flight count accurate? | CountIsExact |

**Why the bounds are enough.**  Three validators are the smallest fleet in which a swap has a bystander;
the mixed fleet has each kind of machine and two chains, so each refusal of `planPlace` occurs.  Two verbs
are the shortest series in which one meets what another left behind, and a verb has up to nine phases over
three machines, each of which can be the one where it stops; crashes and reboots are not bounded at all.
For the P-chain, height 3 lets the public chain pass the node twice during one gate; two sets are needed
for one to be visible and the other not.  bombard needs two nonces for one to be stranded above the other
and a cap of two for one to wait in the channel while another is in flight.  A deployment of three
L1s has management, main and one that is neither; three commands are create, topup, destroy, or destroy
between two creates; two attempts are one retry.  Four old blocks and two times give every pattern of
equal, missing and later timestamps around the conversion, at the tip and below it; two new blocks are what
the gate needs on a quiet chain.  Three prices for two assets make a batch, a duplicate and an overtaken
message; two starts make a run over what another left; a channel of one fills.  Where a bound cuts off
behaviour that matters the proofs take over: the type invariants and every other safety property of the
runs are proved for all values of the bounds, some of them for one layout (section 4).

**Bounds and their names.**  `MaxCommands` and `MaxFaults` (guards of `Begin`/`Issue` and of every fault),
`MaxHeight`, `MaxNonce`, `MaxFailovers`,
`MaxOldBlocks`, `MaxBlocks`, `MaxTime`, `Lag`, `MaxCreated`, `MaxTicks`, `Days`, `MaxPrices`, `MaxStarts`.
`FailOver` also asks that the last nonce has not been mined, and
`RidesThroughFailover` speaks of all nonces but the last: a real issuer always has a higher nonce in
flight, which is what shows the monitor a gap; in the model the bound leaves nothing above the last one.

**Deadlock.**  TLC checks it in FleetSystem, FleetUser, FleetMixed and Bombard.  It is off for
PChain, Creation, SetWeight, Settlement and the refuted fleet properties, where verbs, starts or blocks run out
at their bounds while nothing else moves; the operator owes nobody another verb.

**Fairness.**
- `Fleet`: weak fairness of `Control`, the control program alone: a Go program between two ssh calls does
  run on, and ssh gives up on a silent peer (`ConnectTimeout`, `ServerAliveInterval` in `sshOptions`).
  Crashes, reboots, faults and new verbs are
  never owed.
- `Bombard`: weak fairness of the issuer, the monitor, the chain and the watchers (a block is reported or
  missed).  Strong fairness of `Issue`, of the workers and of `Resubmit(n)`: their periods are a
  millisecond and a second, and a resync needs at least one five-second tick, so there is always a turn
  for them between two resyncs.  With weak fairness only, TLC shows a run in which the monitor resyncs
  for ever before anything was sent, which the tickers exclude.
- `Settlement`: weak fairness of the main loop and of the helpers, the goroutines of a running program: none
  of their waits is without a deadline or a cancelled context.  Neither a start nor a block is owed: a
  delivery that is never mined ends the run by the confirmer's deadline, which is what `DeliversOrEnds`
  asks for.
- `PChain`, `Creation` and `SetWeight` have no liveness property: a command of theirs may stop anywhere, and
  nothing brings the operator back.

**Crashes and reboots of the P-chain machine.**  Under systemd, PChain is checked with crashes and without
reboots.  With them two properties fail, both listed as hazards: a reboot between stop and package brings
the old mode back and `systemctl start` then does nothing (`AnnouncedModeRuns`); a reboot between stop and
tar starts the node under the copy (`CopiesWhole`), although the same reboot also ends the ssh session
and the window between two ssh calls is milliseconds.  In a user install nothing starts by itself and both
hold with reboots: PChainUser checks `AnnouncedModeRuns`, and both are theorems (`AnnouncedModeIsRunning`,
`ArchivesAreWhole`).

**Every property has a mutant**: `PROJECT.json` names, for each property of each passing run, a definition
of the model and a changed form of it (in the modules, marked *Mutated*) under which TLC refutes the
property.  So each property depends on the code it is about.

## 4. The proofs

All are proved with TLAPS from the named assumptions on the constants (`FleetAssumption`,
`PChainAssumption`, `BombardAssumption`, `CreationAssumption`, `SetWeightAssumption`,
`SettlementAssumption`), which say that inventories are finite, roles and homes are total and injective,
lists of L1s and assets have something in them, and bounds are natural numbers; TLC evaluates them on every
run.

**FleetProofs.**
- `TypeCorrect`: `Spec => []TypeOK`.  `TypeOK` is inductive by itself.
- `FleetImplementsPlacementFile`: `Spec => File!Spec`, by `PlacementInv`.  That the file is valid is not
  enough: the write takes `cmd.move`, so the invariant says that a place carries a legal identity and machine
  (`MoveNamed`), and that placement is onto, from which `PlanPlace` is an exchange (`SaveExchanges`); every
  other action leaves `placement` alone.

**FleetDownProofs.**
- `TakenDownStaysDown`: `Spec => []StoppedStaysDown`.  Not inductive: a machine that is down but enabled
  comes back at the next reboot, and a verb in progress may still be about to start it.  `DownInv` adds
  that a machine wanted down is not enabled (`Rests`), that a verb starts only machines it has claimed
  (`ClaimOK`: those named on the command line, whose `want` is open, or those place has probed and found
  running or interrupted), and that a stop or destroy leaves what it has visited at rest (`StoppingOK`).

**FleetMoveProofs.**  What a verb may rely on when it comes to its irreversible step, from `MoveInv`, which
adds to `DownInv`:
- `MoveOK`, for `MovesAreIsolated`: a machine that place has probed and left out is `Fit`, that is, it rests,
  or it serves its assigned identity or nothing and its key says the same, so that no crash or reboot makes
  it unfit again; the others become fit by key, then stop, then start.  At the write all are fit.
- `CrashesKeepIdentity` needs that same fact at the write, the only step that changes what "assigned" means;
  everything else only installs the assigned key or none.
- `HistoryOK` and `WipeOK`, for `HistoryComesFirst` and `DestroyKillsFirst`: who is behind is still to be
  pushed to, or the verb has failed; a wipe is of a destroy, whose machines are at rest (`StoppingOK`).
- `PlaceNeverDoubles`, in both layouts: where the processes that were restarted by place begin, all machines
  are fit, and placement is one to one (`PlacementInv`, lemma `PlaceDistinct`).  In a user install the
  property is about every step taken during a place; under systemd only about the steps of control (those
  that change `cmd`), since a node that crashes between the key phase and the stop phase comes back with its
  new identity while the other machine of the swap still serves it.
- `IdentitiesServedOnce`, for any verb, if crashed processes stay down (`StaysDown`: a user install, or no
  crashes): as long as nothing failed and nothing was upgraded, no identity is served twice.
  `DistinctIdentities` is not inductive: a start is safe only if the others serve what they are assigned.
  `OnceOK` adds that every running node does (`Orderly`), except between the write of place and its first
  start (`Moving`), where only stops happen; `MovingStep` shows that this stretch can end, without a fault,
  only where all machines are fit.  `KeyedOK` says that every verb but an upgrade has installed the assigned
  key by the time it starts a process; it holds through faults too.
- `DistinctThroughFaults`, for an operator who uses place, stop, destroy and the deploy of the whole fleet
  (`StopsFirst`): then it holds through any faults.  After a place was cut off machines may serve what they
  were assigned before; these verbs stop all such machines before they start one (`DeployOK`, `PlaceDistinct`).
  With a start of one machine, a rolling deploy or an upgrade it is false (section 5).
- `PlacesConverge`, systemd, from `RerunInv`.  `Fit` is not enough: a machine that rests, or serves nothing,
  is fit too.  `Served` says in addition that it serves its identity if it is enabled and has a key, which
  crashes and reboots keep.  What place leaves alone is served (`LeftAloneIsServed`: here the proof needs
  that `planApply` restarts the enabled machines that are down), and what it starts becomes served; after the
  last step it stays so until the next verb (`ConvergedOK`).  The property speaks of enabled machines: with
  three verbs TLC shows one that a start left disabled (the first of those without a run, section 5), which no place brings back.
- `BooksFollowIntent`, systemd, for the verbs that refresh the books, from `BookInv`, which is `RerunInv`
  and, as long as there was no fault, `BookOK`.  The property relates books to what the operator asked for; a
  verb only ever reads the unit files.  `IntentOK` makes the two agree on every machine the verb in progress
  does not name: wanted up is enabled, open is not installed yet; and what runs is enabled.  The part for
  place is the hard one: between the write and the next config phase the books are stale, and if nothing
  were found to restart they would stay so.  `PlaceBooks` says that either no machine that is up has moved,
  and the books stand, or one that has (`Moved`) is still to be probed and neither serves nor holds its new
  identity, or is already on the restart list.  That it will be found is what `Fit` gives at the write
  (`SaveFindsAllFit`).  `StartBooks`, `StopBooks` and `DeployBooks` follow the phases of their verbs; a start
  that is refused finds no machine installed at all, as a deploy that nothing fails installs every machine.
- `StartsRestoreIntent`: the same invariant gives that such a start takes a fault.

**PChainProofs.**
- `PChainTypeCorrect`, `ObservationIsSafe`, `FreezeGateIsSound`, `DatabaseOnlyGrows`, from `HeightInv`.
  The observed height is `startup + accepted`; a crash between the reads gives terms of two processes.
  What makes the sum safe is `SampleOK`: every startup line, sampled or in the log, is at most the height
  at which the *running* process began (`base`), because databases only grow, so
  `startup + (height - base) <= height`.  `GateOK` says what a sample may hold in which phase, and that
  after the gate only the phases that stop and reinstall the node follow, in which the database is not
  replaced.
- `AnnouncedModeIsRunning`, `ArchivesAreWhole`, `ArchiveBringsBack`, from `RunInv`.  It says for each phase
  of each verb what is true of the machine then: from the stop to the start there is no process
  (`DownOK`); a process has the mode of the unit or script it was started from (`RunsConf`); what was
  rendered is what will be announced (`RenderedOK`).  The hypotheses are those of the runs: under systemd a
  reboot in the middle of a verb starts the enabled unit, which the runs leave out and the hazards list; in a
  user install nothing starts by itself.  `ArchiveBringsBack` also needs that the node, once restarted, is
  there when the archive ends: no reboots, and in a user install no crashes.  `BackUp` is its invariant: the
  paths of the archive that end well pass the restart.

**BombardProofs.**
- `BombardTypeCorrect`, `CapIsKept`, `CountIsSafe`, from `CapInv`.  Neither the cap nor the count is
  inductive: a nonce is handed over before it is counted.  `CountCovers` says that the count is at least
  what the workers and the tracker hold, and one short of it only between the two steps of the issuer;
  `CountCapped` that what was compared with the cap has only gone down since.  Together they give both
  theorems.  That the count may *exceed* what is held is the finding of BombardCount; it costs
  throughput and never the cap.
- `ResyncLosesNothing`, from `NonceInv`.  A resync drops the in-flight set up to the frontier it read, which
  may be old, and moves the issuer there.  `BehindFrontier` says that, while there was no failover, whatever
  was reported is below the frontier of the chain, what the monitor has seen or asked for is not beyond it,
  and every nonce from the frontier up to where the issuer is (`HandedOver`: `next`, or one more between the
  hand-over and its count) is in flight or in the send queue.  What a resync or a late report drops is
  therefore behind the frontier, which only grows.

**CreationProofs.**
- `CreationTypeCorrect` and `DepositsAreFound`, from `LifeInv`.  That network.env leads to every conversion
  speaks of the conversions only; what carries it is which transactions can be on their way at all.
  `FillOK` says that a running create has saved exactly what comes before its entry in `Todo`; `OwnOK` that
  every transaction of the create that wrote network.env, accepted or not, was issued when everything before
  it was saved, and a conversion with the subnet and the management chain that are in the file; a ticket
  names the command (`TicketsOK`), and a subnet is converted once (`OneConversion`).  Two conversions that
  are not in the file would then both be of the one entry create works on, hence of one subnet.
- `TeardownIsSafe`, from `LifeInv` with `DisabledOK` (a disabled validator has no balance, but for a later
  payment) and `ReturnedOK` (each recorded validator is without balance, or was not yet visible at the
  survey, or is still on the list).  Only the removal clears network.env, and it begins when the list is
  done.
- `TopUpsLast`, from `LifeInv` with `PaidOK`.  A validator of the list has, or will have with its payment,
  the target and the buffer less the time since the balance was read, unless a late disable took it; the
  payment is counted once because its ticket says whether it was accepted.

**SetWeightProofs.**
- `SetWeightTypeCorrect`, `GateIsNeverEarly`, `GivesUpOnlyWhenMisled`, `NoUpdateIsLost`, from `WeightInv`.
  Along the chain the nonce of a validator only grows, and grows with every change, so a record with the nonce
  of now has the weight of now (`HistoryOK`).  A run and a change in the mempool carry a weight and a nonce
  that were read at one height (`RunOK`, `ChangesCurrent`); the chain admits a change only with the nonce of
  now, hence over the weight that was read.  An epoch only pins a higher height than the one before
  (`EpochsOK`), so that a replica can tell of too low a height and never of too high a one: the gate does not
  open early.  For its end, `GateOK` says what a run knows in each phase: from the wait on, an epoch that
  covers the conversion has begun, or the one that it waited out is still to be sealed, so that one block past
  the boundary and one more bring the next, or it was told of an epoch that was over.

- `ConversionIsFound`: the binary search of `findConversionHeight` (`setweight.go:276`) with its step back
  over blocks of the same second.  The search is a recursive function of the range, and there is no
  induction over data here, so the proof goes by the least counterexample instead: if the function were wrong
  on some range there would be a shortest such range (`LeastNatural`, from the well-foundedness of the
  naturals), and half of it would be a shorter one (`SearchSplits`, `FirstAtSplits`).  That the function
  exists at all is proved the same way (`HalvingSolved`).  What it takes of the chain is `TimesOK`: block
  times never fall along the chain, and the converting block has a time above zero.  The block found may
  then be an earlier one of the same second; the walk over the blocks of that time reaches the conversion
  because no block between the two has another time.

**SettlementProofs.**
- `SettlementTypeCorrect` and `SettlementImplementsRegister`, from `FeedInv`.  A receiver step is a register
  step only if the message repeats what was announced, so `MessagesTold` says so of every message on its
  way: in the log channel, in the batch, and in the load of a delivery in the mempool.
- `FailuresAreSeen`, from an invariant on the order of fail(): whoever cancels has stored the error before.
- `NoGapIsLeft`: `FeedInv` makes it inductive; a run takes the nonces from the latest mined one, and fills
  each before it counts on.

**Only model-checked.**  Liveness (`VerbsEnd`, `RidesThroughFailover`, `DeliversOrEnds`): the prover has no
means for fairness and ENABLED.  Every invariant and action property of the passing runs is proved; some
under the hypotheses above, which TLC shows to be needed (`RerunConverges` and `IdentityServedOnce`
for the other layout, `AnnouncedModeRuns` and `CopiesWhole` with reboots under systemd).  What the provers
had no part in is the models themselves: TLC's mutants show that each property depends on the code it is
about.

## 5. Findings

1. **A place interrupted in a user install is not repaired by a rerun** (FleetUserRerun).  `planApply`
   restarts a stopped machine only if its unit is enabled; a user install never reports that, so a
   validator that the interrupted place stopped counts as stopped on purpose.  The rerun succeeds and
   leaves it down.
2. **Freeze can miss a validator set** (PChainFreezeSets).  The sets are read after the heights were
   compared, so a conversion in between is visible and is not in the frozen database.
3. **The in-flight count can leak** (BombardCount).  A nonce that waits in the send queue while a resync
   drops the in-flight set is issued and counted twice, and leaves twice from one entry only.

Met while modelling, without a run:

- *A start can succeed without boot intent.*  A stop that is cut off between `disable` and `stop` leaves the
  node running under a disabled unit.  `planStart` (`lifecycle.go:207`) looks at the process only and leaves
  it alone, although `lifecycle.go:348` says that start restores the intent.  After the next reboot the
  machine is down and every place takes it for deliberately down.  `StartRestoresIntent` therefore speaks of
  a fleet where nothing failed.
- *A stopped machine returns to the address books in a user install.*  `enabledProbe` answers "installed" as
  long as the run script is there, so `intendedUp` counts a machine that `fleet stop` took down as up in the
  next verb (`deploy.go:900`), against `README.md:487`.  `BookFollowsIntent` is therefore checked for the
  systemd layout.
- *An identity on two machines.*  Three series of commands, each of which TLC finds as soon as the hypothesis
  that excludes it is dropped.  A place is cut off between its write and its stops, then `fleet start` (or a
  rolling deploy) of one machine of the swap: it probes and restarts that machine only (`lifecycle.go:135`),
  which takes the key that the other still serves.  A machine is down while place gives its identity away,
  then an upgrade of the chain starts it with the key it still has (`upgrade.go:251`).  Under systemd, a
  machine of a whole deploy that was moved while down reboots between the unit and the identity phase: it
  comes up with its old key, `systemctl start` leaves it running, and the deploy succeeds.  The next place
  finds a machine on an identity that is not its own and restarts it.
- *A failed frozen deploy cannot always be repeated.*  `pchain start` between the two creates a fresh
  database, which the rerun preserves (`deploy.go:1403`).
- `monitorNonce`'s comment asks for two consecutive checks before a resync for a gap, the code acts on the
  first (`main.go:586`, `main.go:619`).
- *Deposits that teardown forgets.*  `main.go:405` says that local state is removed only after all balances
  return.  `TeardownReturnsDeposits` names the exceptions: a conversion that was accepted and never recorded
  (create killed before its save, or its waits failed); a conversion that the replica asked for members did
  not have yet; a top-up of a killed run accepted after the disable.  In each `./deployment`, with the IDs,
  is gone; the funding key that owns the deposit is not in it.
- *A retry pays twice.*  After a failed wait for a transaction that is accepted later, create makes a second
  subnet or chain (`create.go:680`); `DepositCanBeFound` shows that no second *conversion* follows, since
  a subnet is converted once.  A create that stopped leaves its genesis files, and the next one asks for
  their removal.
- *A validator without balance cannot be topped up*: `weights.fetch` leaves it out, so topup passes it over
  and reports a deployment of such validators as destroyed.
- *The gate of set-weight trusts one answer.*  The validator is asked for again until the replica has the
  height that was read first (`setweight.go:471`); the epoch is taken as it comes (`setweight.go:342`,
  `:391`).  Told of an epoch that is over, a run does not sleep, spends both nudges before the boundary, and
  ends with "still not visible" although nothing is wrong; or its last look misses the epoch that its nudges
  brought.  A rerun finds the conversion visible once an epoch covers it, and no change is ever signed early.
  `GivesUpOnlyOnStaleEpoch` says that there is no other way to give up.
- *The premium does not replace its own kind.*  `relay.go:129` and `feed.go:304`, `:350` say that the price
  premium lets a restart's resends replace stale queue entries.  Those entries were sent with the same
  premium, so a resend is refused, which is fatal, unless the suggested price has risen (`Accepts`); the
  restart succeeds once they are mined.
- *An older price may become the latest round.*  After a restart over a dirty mempool the direct feed's
  aggregator, which numbers rounds by arrival, may take a price of the killed run after one of the new run.
  The receiver is safe from it by its sequence numbers.

## 6. What is not modelled

| Part | Why |
|---|---|
| upgrade file contents | pure functions over JSON; `Fleet` has which machine holds how much of a history |
| signature collection (`p2psign.go`) | one call with a deadline, whose state ends with it; `Settlement` has its two outcomes |
| the price feed's proxy and the Settlement example | no program of the repository proposes or confirms an aggregator; the example is read-only to the feed |
| two operators at once (fleet, create, destroy) | no lock and no promise; listed as hazards.  set-weight, whose nonce is such a promise, is modelled with two |
| status, targets, printed reports, metrics, terminal display | read-only or presentation (`probePChainMode` is in PChain, the reads of the weight report in Creation) |
| funding, configuration | parsing and derivation; their results are the assumptions on the constants, a failed preflight is a command that stops |
| bombard's token bucket, ingress monitor, active-rpcs file, discovery, shutdown | rate and choice of endpoint do not change what the properties tell apart; shutdown is a listed hazard (`close(sendCh)` while the issuer may send) |
| monitoring, playbooks, chain data | no program state |
| avalanchego, systemd, the public chains | external; modelled only as the code uses them |

## 7. Plan

1. Proofs to add: `BooksFollowIntent` after faults (which books may then be stale, and that the next refresh
   repairs them), and lemmas on the remaining operators of `Creation` and `Settlement`.
2. **UpgradeHistory**: merge and validation of fragments over bounded timestamps, two operators.
   `upgrade.go:211` promises that a rerun converges; the strict timestamp rule refuses the same fragment.
3. **ConcurrentPlace** and **Readiness**: two operators over one placement.json; the stake gate of rolling
   verbs (75% of stake up while one machine is down).
4. **P2PSign**: late, repeated and foreign replies against the quorum's weight.

Modules that will have theorems use no RECURSIVE operator; the binary search is a recursive function.
