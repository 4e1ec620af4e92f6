------------------------------- MODULE PChain -------------------------------
(***************************************************************************)
(* The P-chain machine: fleet pchain follow|freeze|archive|start|stop and  *)
(* the P-chain half of fleet deploy (internal/fleet: freeze.go,            *)
(* pchainview.go, deploy.go, lifecycle.go).  A follow-only node answers no *)
(* height query, so control infers its height from the startup line in     *)
(* P.log plus the accepted counter of the running process, read one after  *)
(* the other, and compares it with a height of the public API read before. *)
(* Meanwhile the public chain grows, `l1 create` converts further subnets, *)
(* and the node crashes and is restarted by systemd.                       *)
(***************************************************************************)
EXTENDS Integers

CONSTANTS
  Sets,         \* the validator sets: management and every declared chain
  LastSet,      \* the chain `l1 create` creates last
  UserInstall,  \* TRUE: no systemd
  Crashes,      \* whether the node process crashes
  Reboots,      \* whether the machine reboots
  Verbs,        \* the verbs the operator uses
  MaxHeight,    \* bound: height of the public P-chain
  MaxCommands,  \* bound: verbs issued
  MaxFaults     \* bound: lost, torn or interrupted remote commands

AllVerbs == {"follow", "freeze", "deploy", "archive", "start", "stop"}

ASSUME PChainAssumption ==
  /\ LastSet \in Sets
  /\ Verbs \subseteq AllVerbs
  /\ UserInstall \in BOOLEAN /\ Crashes \in BOOLEAN /\ Reboots \in BOOLEAN
  /\ MaxHeight \in Nat /\ MaxCommands \in Nat /\ MaxFaults \in Nat

None == -1
Modes == {"follow", "frozen"}

\* A copy of the P-chain database; whole: no process wrote while it was made.
Empty == [height |-> None, whole |-> TRUE]
Image == [height : Nat, whole : BOOLEAN] \union {Empty}

VARIABLES
  upstream,     \* height of the public P-chain
  registered,   \* validator set -> height of its ConvertSubnetToL1Tx
  unit,         \* systemd unit, or run script
  conf,         \* mode of the rendered node.json
  key,          \* whether the staking directory is complete
  proc,         \* mode of the running process
  db,           \* P-chain database on the machine
  base,         \* database height when the process started
  logged,       \* whether this process has logged its startup line
  log,          \* height in the newest startup line of P.log
  export,       \* .pchain-export.tar.gz on the machine
  archive,      \* pchain.tar.gz of the operator
  cmd,          \* the verb in progress
  last,         \* the last verb that ended
  issued,       \* verbs issued so far
  faults        \* faults so far

public == <<upstream, registered>>
process == <<proc, db, base, logged>>
files == <<unit, conf, key>>
copies == <<export, archive>>
session == <<cmd, last, issued, faults>>
vars == <<upstream, registered, unit, conf, key, proc, db, base, logged, log,
          export, archive, cmd, last, issued, faults>>

-----------------------------------------------------------------------------
(* The node process.                                                       *)

\* Mutated Boot: the height is taken before a missing database is created.
BootStaleBase ==
  IF key /\ conf # "none"
  THEN /\ proc' = conf
       /\ db' = IF db = Empty THEN [height |-> 0, whole |-> TRUE] ELSE db
       /\ base' = db.height
       /\ logged' = FALSE
  ELSE proc' = "down" /\ UNCHANGED <<db, base, logged>>

\* A process takes its mode from node.json, needs its key, and creates a
\* database where there is none; its accepted counter starts again at zero.
Boot ==
  IF key /\ conf # "none"
  THEN /\ proc' = conf
       /\ db' = IF db = Empty THEN [height |-> 0, whole |-> TRUE] ELSE db
       /\ base' = db'.height
       /\ logged' = FALSE
  ELSE proc' = "down" /\ UNCHANGED <<db, base, logged>>

Launch == IF proc = "down" THEN Boot ELSE UNCHANGED process

Halt == proc' = "down" /\ UNCHANGED <<db, base, logged>>

\* "starting bootstrapper", before the process accepts its first block.
LogStartup ==
  /\ proc # "down" /\ ~logged
  /\ logged' = TRUE
  /\ log' = base
  /\ UNCHANGED <<public, files, copies, session, proc, db, base>>

RotateLog ==
  /\ log # None
  /\ log' = None
  /\ UNCHANGED <<public, files, copies, session, process>>

Accept ==
  /\ proc = "follow" /\ logged
  /\ db.height < upstream
  /\ db' = [height |-> db.height + 1, whole |-> db.whole]
  /\ UNCHANGED <<public, files, copies, session, proc, base, logged, log>>

\* bs_accepted of the running process.
Accepted == db.height - base

Crash ==
  /\ Crashes
  /\ proc # "down"
  /\ IF UserInstall THEN Halt ELSE Boot
  /\ UNCHANGED <<public, files, copies, session, log>>

Reboot ==
  /\ Reboots
  /\ IF unit = "enabled" THEN Boot ELSE Halt
  /\ UNCHANGED <<public, files, copies, session, log>>

-----------------------------------------------------------------------------
(* The public P-chain.                                                     *)

NewBlock ==
  /\ upstream < MaxHeight
  /\ upstream' = upstream + 1
  /\ UNCHANGED <<registered, files, process, log, copies, session>>

\* `l1 create` converts one subnet after the other.
Convert(s) ==
  /\ registered[s] = None
  /\ s = LastSet => \A t \in Sets \ {s} : registered[t] # None
  /\ upstream < MaxHeight
  /\ upstream' = upstream + 1
  /\ registered' = [registered EXCEPT ![s] = upstream']
  /\ UNCHANGED <<files, process, log, copies, session>>

-----------------------------------------------------------------------------
(* Control.                                                                *)

Idle == [verb |-> "none", mode |-> "follow", phase |-> "idle", up |-> None,
         startup |-> None, healthy |-> FALSE, accepted |-> None, todo |-> {},
         visible |-> {}, gated |-> FALSE, halted |-> FALSE, failed |-> FALSE]

Phases == {"idle", "mode", "upstream", "logs", "health", "metrics", "sets",
           "check", "ready", "stop", "package", "unit", "identity",
           "seedcheck", "seed", "start", "enable", "alive", "disable",
           "active", "halt", "tar", "restart", "download", "done"}

\* The phases of reconcilePChain and the verbs around it.
After(c) ==
  CASE c.phase = "stop" -> "package"
    [] c.phase = "package" -> "unit"
    [] c.phase = "unit" -> "identity"
    [] c.phase = "identity" ->
         IF c.verb = "deploy" /\ c.mode = "frozen" THEN "seedcheck" ELSE "start"
    [] c.phase = "seed" -> "start"
    [] c.phase = "start" -> IF c.verb = "deploy" THEN "ready" ELSE "done"
    [] c.phase = "enable" -> "alive"
    [] c.phase \in {"alive", "disable"} -> "done"

CanFault == faults < MaxFaults

To(phase) == cmd' = [cmd EXCEPT !.phase = phase]

\* The verb ends; unsure: it was killed, or reported that its restart failed.
End(ok, unsure) ==
  /\ cmd' = Idle
  /\ last' = [verb |-> cmd.verb, mode |-> cmd.mode, ok |-> ok,
              halted |-> cmd.halted, unsure |-> unsure]
  /\ UNCHANGED issued

Abort == End(FALSE, FALSE)

Issue(verb, mode, phase) ==
  /\ cmd = Idle
  /\ verb \in Verbs
  /\ issued < MaxCommands
  /\ issued' = issued + 1
  /\ cmd' = [Idle EXCEPT !.verb = verb, !.mode = mode, !.phase = phase]
  /\ UNCHANGED <<public, files, process, log, copies, last, faults>>

\* prepare needs the IDs of every chain in network.env.  `l1 create` records
\* them before it issues the last conversion.
Prepared == \A s \in Sets \ {LastSet} : registered[s] # None

\* Mutated FollowPChain: the running process is not stopped first.
FollowPChainNoStop ==
  Prepared /\ Issue("follow", "follow", "package")

FollowPChain ==
  Prepared /\ Issue("follow", "follow", "stop")

FreezePChain == Prepared /\ Issue("freeze", "frozen", "mode")

\* A frozen deploy needs a pchain.tar.gz before it touches anything.
Deploy(mode) ==
  /\ Prepared
  /\ mode = "frozen" => archive # Empty
  /\ Issue("deploy", mode, "stop")

\* archive refuses to overwrite.
ArchivePChain ==
  /\ archive = Empty
  /\ Issue("archive", "follow", "active")

StartPChain == Issue("start", "follow", "enable")
StopPChain  == Issue("stop", "follow", "disable")

\* "rm pchain.tar.gz" of the runbook.
RemoveArchive ==
  /\ cmd = Idle
  /\ archive # Empty
  /\ archive' = Empty
  /\ UNCHANGED <<public, files, process, log, export, session>>

-----------------------------------------------------------------------------
(* The freeze gate, and the readiness gate of deploy.                      *)

FrozenDeploy == cmd.verb = "deploy" /\ cmd.mode = "frozen"

GateStart == IF FrozenDeploy THEN "logs" ELSE "upstream"

\* Mutated NextSample: the accepted counter is read before the startup line.
NextSampleCounterFirst(phase) ==
  CASE phase = "upstream" -> "health"
    [] phase = "health" -> "metrics"
    [] phase = "metrics" -> "logs"
    [] phase = "logs" -> IF FrozenDeploy THEN "check" ELSE "sets"

\* The order of the reads in freezeGateState and observePChain.
NextSample(phase) ==
  CASE phase = "upstream" -> "logs"
    [] phase = "logs" -> "health"
    [] phase = "health" -> "metrics"
    [] phase = "metrics" -> IF FrozenDeploy THEN "check" ELSE "sets"

\* probePChainMode: a frozen node does not follow, so its gate is skipped.
ProbeMode ==
  /\ cmd.phase = "mode"
  /\ conf # "none"
  /\ cmd' = [cmd EXCEPT !.phase = IF conf = "frozen" THEN "stop" ELSE GateStart,
                        !.todo = Sets]
  /\ UNCHANGED <<public, files, process, log, copies, last, issued, faults>>

ReadUpstream ==
  /\ cmd.phase = "upstream"
  /\ cmd' = [cmd EXCEPT !.up = upstream, !.phase = NextSample("upstream")]
  /\ UNCHANGED <<public, files, process, log, copies, last, issued, faults>>

ReadLogs ==
  /\ cmd.phase = "logs"
  /\ cmd' = [cmd EXCEPT !.startup = log, !.phase = NextSample("logs")]
  /\ UNCHANGED <<public, files, process, log, copies, last, issued, faults>>

ReadHealth ==
  /\ cmd.phase = "health"
  /\ proc # "down"
  /\ cmd' = [cmd EXCEPT !.healthy = logged,
                        !.phase = NextSample("health")]
  /\ UNCHANGED <<public, files, process, log, copies, last, issued, faults>>

ReadMetrics ==
  /\ cmd.phase = "metrics"
  /\ proc # "down"
  /\ cmd' = [cmd EXCEPT !.accepted = Accepted, !.phase = NextSample("metrics")]
  /\ UNCHANGED <<public, files, process, log, copies, last, issued, faults>>

ReadValidators(s) ==
  /\ cmd.phase = "sets" /\ s \in cmd.todo
  /\ cmd' = [cmd EXCEPT
       !.todo = @ \ {s},
       !.visible = IF registered[s] # None THEN @ \union {s} ELSE @,
       !.phase = IF cmd.todo \ {s} = {} THEN "check" ELSE "sets"]
  /\ UNCHANGED <<public, files, process, log, copies, last, issued, faults>>

\* The observed height, if there is one.
Local == IF cmd.startup = None \/ cmd.accepted = None THEN None
         ELSE cmd.startup + cmd.accepted

\* Mutated GatePasses: the visible sets are compared, the heights are not.
GatePassesVisible ==
  IF FrozenDeploy
  THEN cmd.healthy /\ Local > 0
  ELSE Local # None /\ cmd.visible = Sets

\* freezeGate.check, or the relaxed gate of a frozen deploy.
GatePasses ==
  IF FrozenDeploy
  THEN cmd.healthy /\ Local > 0
  ELSE Local # None /\ Local >= cmd.up /\ cmd.visible = Sets

Check ==
  /\ cmd.phase = "check"
  /\ GatePasses
  /\ cmd' = [cmd EXCEPT !.gated = TRUE,
                        !.phase = IF cmd.verb = "freeze" THEN "stop" ELSE "done"]
  /\ UNCHANGED <<public, files, process, log, copies, last, issued, faults>>

Gating == cmd.phase \in {"upstream", "logs", "health", "metrics", "sets", "check"}

\* What makes a sample fail by itself: a dead API, or a gate that is not met.
GateBlocked ==
  \/ cmd.phase \in {"health", "metrics"} /\ proc = "down"
  \/ cmd.phase = "check" /\ ~GatePasses

\* freeze refuses; it has touched nothing yet.
RefuseFreeze ==
  /\ cmd.verb = "freeze"
  /\ GateBlocked \/ (cmd.phase = "mode" /\ conf = "none")
  /\ Abort
  /\ UNCHANGED <<public, files, process, log, copies, faults>>

\* waitPChainReady: deploy samples again from the start, until its deadline.
WaitReady ==
  /\ cmd.phase = "ready"
  /\ cmd' = [cmd EXCEPT !.phase = GateStart, !.up = None, !.startup = None,
                        !.healthy = FALSE, !.accepted = None, !.todo = Sets,
                        !.visible = {}]
  /\ UNCHANGED <<public, files, process, log, copies, last, issued, faults>>

NotReadyYet ==
  /\ cmd.verb = "deploy"
  /\ GateBlocked
  /\ To("ready")
  /\ UNCHANGED <<public, files, process, log, copies, last, issued, faults>>

DeadlinePassed ==
  /\ cmd.verb = "deploy" /\ cmd.phase = "ready"
  /\ Abort
  /\ UNCHANGED <<public, files, process, log, copies, faults>>

-----------------------------------------------------------------------------
(* Remote phases.                                                          *)

Disabled == IF ~UserInstall /\ unit = "enabled" THEN "disabled" ELSE unit

StopNode == Halt /\ UNCHANGED <<files>>

InstallPackage ==
  /\ conf' = cmd.mode
  /\ UNCHANGED <<unit, key, process>>

InstallUnit ==
  /\ unit' = IF UserInstall THEN "installed" ELSE "enabled"
  /\ UNCHANGED <<conf, key, process>>

InstallIdentity == key' = TRUE /\ UNCHANGED <<unit, conf, process>>

\* The archive moves into place only if the directory is still empty.
SeedPChain ==
  /\ db = Empty
  /\ db' = archive
  /\ UNCHANGED <<files, proc, base, logged>>

StartNode == unit # "missing" /\ Launch /\ UNCHANGED files

EnableAndStart ==
  /\ unit # "missing"
  /\ unit' = IF UserInstall THEN unit ELSE "enabled"
  /\ Launch
  /\ UNCHANGED <<conf, key>>

DisableAndStop == unit' = Disabled /\ Halt /\ UNCHANGED <<conf, key>>

Remote ==
  \/ cmd.phase = "stop"     /\ StopNode
  \/ cmd.phase = "package"  /\ InstallPackage
  \/ cmd.phase = "unit"     /\ InstallUnit
  \/ cmd.phase = "identity" /\ InstallIdentity
  \/ cmd.phase = "seed"     /\ SeedPChain
  \/ cmd.phase = "start"    /\ StartNode
  \/ cmd.phase = "enable"   /\ EnableAndStart
  \/ cmd.phase = "disable"  /\ DisableAndStop
  \/ cmd.phase = "alive"    /\ proc # "down" /\ UNCHANGED <<files, process>>

\* A start that leaves no process behind is an error (startCommand verifies;
\* under systemd enableAndStart does not).
StayedUp ==
  cmd.phase = "start" \/ (cmd.phase = "enable" /\ UserInstall) =>
    proc' # "down"

Step ==
  /\ Remote
  /\ IF StayedUp THEN To(After(cmd)) /\ UNCHANGED <<last, issued>> ELSE Abort
  /\ UNCHANGED <<public, log, copies, faults>>

\* Mutated SeedCheck: every frozen deploy restores the archive.
SeedCheckForce ==
  /\ cmd.phase = "seedcheck"
  /\ db' = archive
  /\ To("start")
  /\ UNCHANGED <<public, files, proc, base, logged, log, copies, last, issued,
                 faults>>

\* An existing database is authoritative.
SeedCheck ==
  /\ cmd.phase = "seedcheck"
  /\ To(IF db = Empty THEN "seed" ELSE "start")
  /\ UNCHANGED <<public, files, process, log, copies, last, issued, faults>>

StepRefused ==
  /\ \/ cmd.phase = "seed" /\ db # Empty
     \/ cmd.phase \in {"start", "enable"} /\ unit = "missing"
     \/ cmd.phase = "alive" /\ proc = "down"
  /\ Abort
  /\ UNCHANGED <<public, files, process, log, copies, faults>>

Torn ==
  \/ cmd.phase = "identity" /\ key' = FALSE /\ UNCHANGED <<unit, conf, process>>
  \/ /\ cmd.phase = "disable"
     /\ unit' = Disabled
     /\ UNCHANGED <<conf, key, process>>
  \/ /\ cmd.phase = "enable" /\ ~UserInstall /\ unit # "missing"
     /\ unit' = "enabled"
     /\ UNCHANGED <<conf, key, process>>
  \/ /\ cmd.phase = "unit" /\ ~UserInstall /\ unit = "missing"
     /\ unit' = "disabled"
     /\ UNCHANGED <<conf, key, process>>

StepLost ==
  /\ CanFault
  /\ Remote \/ Torn
  /\ Abort
  /\ faults' = faults + 1
  /\ UNCHANGED <<public, log, copies>>

\* The operator kills control, or a connection fails before any effect.
Interrupt ==
  /\ CanFault
  /\ cmd # Idle
  /\ End(FALSE, TRUE)
  /\ faults' = faults + 1
  /\ UNCHANGED <<public, files, process, log, copies>>

-----------------------------------------------------------------------------
(* pchain archive.                                                         *)

CheckActive ==
  /\ cmd.phase = "active"
  /\ IF proc = "down" THEN Abort ELSE To("halt") /\ UNCHANGED <<last, issued>>
  /\ UNCHANGED <<public, files, process, log, copies, faults>>

\* Mutated HaltForArchive: an uncertain stop is taken for a stop.
HaltForArchiveUnsure ==
  /\ cmd.phase = "halt"
  /\ \/ Halt /\ UNCHANGED faults
     \/ CanFault /\ (Halt \/ UNCHANGED process) /\ faults' = faults + 1
  /\ To("tar")
  /\ UNCHANGED <<public, files, log, copies, last, issued>>

\* An uncertain stop is repaired by a start, and nothing is archived.
HaltForArchive ==
  /\ cmd.phase = "halt"
  /\ \/ /\ Halt
        /\ cmd' = [cmd EXCEPT !.phase = "tar", !.halted = TRUE]
        /\ UNCHANGED faults
     \/ /\ CanFault
        /\ Halt \/ UNCHANGED process
        /\ cmd' = [cmd EXCEPT !.phase = "restart", !.halted = TRUE,
                              !.failed = TRUE]
        /\ faults' = faults + 1
  /\ UNCHANGED <<public, files, log, copies, last, issued>>

Snapshot == [height |-> db.height, whole |-> db.whole /\ proc = "down"]

\* Mutated Tar: a failed tar ends the verb at once.
TarGiveUp ==
  /\ cmd.phase = "tar"
  /\ \/ /\ db # Empty
        /\ export' = Snapshot
        /\ To("restart")
        /\ UNCHANGED <<last, issued, faults>>
     \/ /\ CanFault
        /\ Abort
        /\ faults' = faults + 1
        /\ UNCHANGED export
  /\ UNCHANGED <<public, files, process, log, archive>>

\* Whatever becomes of tar, the node is started again.
Tar ==
  /\ cmd.phase = "tar"
  /\ \/ /\ db # Empty
        /\ export' = Snapshot
        /\ To("restart")
        /\ UNCHANGED faults
     \/ /\ CanFault
        /\ cmd' = [cmd EXCEPT !.phase = "restart", !.failed = TRUE]
        /\ export' \in {export, Empty}
        /\ faults' = faults + 1
  /\ UNCHANGED <<public, files, process, log, archive, last, issued>>

RestartAfterArchive ==
  /\ cmd.phase = "restart"
  /\ unit # "missing"
  /\ Launch
  /\ IF proc' = "down" THEN End(FALSE, TRUE)
     ELSE IF cmd.failed THEN Abort
     ELSE To("download") /\ UNCHANGED <<last, issued>>
  /\ UNCHANGED <<public, files, log, copies, faults>>

\* A lost restart is reported with the other errors.
RestartLost ==
  /\ CanFault
  /\ cmd.phase = "restart"
  /\ Launch \/ UNCHANGED process
  /\ End(FALSE, TRUE)
  /\ faults' = faults + 1
  /\ UNCHANGED <<public, files, log, copies>>

\* Download to a partial file, validate, remove the export, publish.
Download ==
  /\ cmd.phase = "download"
  /\ export # Empty
  /\ archive' = export
  /\ export' = Empty
  /\ End(TRUE, FALSE)
  /\ UNCHANGED <<public, files, process, log, faults>>

DownloadFails ==
  /\ CanFault
  /\ cmd.phase = "download"
  /\ export' = Empty
  /\ Abort
  /\ faults' = faults + 1
  /\ UNCHANGED <<public, files, process, log, archive>>

Finish ==
  /\ cmd.phase = "done"
  /\ End(TRUE, FALSE)
  /\ UNCHANGED <<public, files, process, log, copies, faults>>

-----------------------------------------------------------------------------
\* The operator may bring a pchain.tar.gz of an earlier deployment.
Init ==
  /\ upstream = 1
  /\ registered = [s \in Sets |-> None]
  /\ unit = "missing"
  /\ conf = "none"
  /\ key = FALSE
  /\ proc = "down"
  /\ db = Empty
  /\ base = 0
  /\ logged = FALSE
  /\ log = None
  /\ export = Empty
  /\ archive \in {Empty, [height |-> 1, whole |-> TRUE]}
  /\ cmd = Idle
  /\ last = [verb |-> "none", mode |-> "follow", ok |-> TRUE, halted |-> FALSE,
             unsure |-> FALSE]
  /\ issued = 0
  /\ faults = 0

Operator ==
  \/ FollowPChain \/ FreezePChain \/ ArchivePChain \/ StartPChain \/ StopPChain
  \/ \E mode \in Modes : Deploy(mode)
  \/ RemoveArchive

Gate ==
  \/ ProbeMode \/ ReadUpstream \/ ReadLogs \/ ReadHealth \/ ReadMetrics
  \/ \E s \in Sets : ReadValidators(s)
  \/ Check \/ RefuseFreeze \/ WaitReady \/ NotReadyYet \/ DeadlinePassed

Reconcile == Step \/ SeedCheck \/ StepRefused \/ StepLost \/ Interrupt \/ Finish

Archive ==
  \/ CheckActive \/ HaltForArchive \/ Tar \/ RestartAfterArchive
  \/ RestartLost \/ Download \/ DownloadFails

Environment ==
  \/ LogStartup \/ RotateLog \/ Accept \/ Crash \/ Reboot \/ NewBlock
  \/ \E s \in Sets : Convert(s)

Next == Operator \/ Gate \/ Reconcile \/ Archive \/ Environment

Spec == Init /\ [][Next]_vars

-----------------------------------------------------------------------------
(* What the P-chain verbs promise.                                         *)

Height == Nat \union {None}

Command ==
  [verb : AllVerbs \union {"none"}, mode : Modes, phase : Phases, up : Height,
   startup : Height, healthy : BOOLEAN, accepted : Height,
   todo : SUBSET Sets, visible : SUBSET Sets,
   gated : BOOLEAN, halted : BOOLEAN, failed : BOOLEAN]

Ended ==
  [verb : AllVerbs \union {"none"}, mode : Modes, ok : BOOLEAN,
   halted : BOOLEAN, unsure : BOOLEAN]

\* The state has the shape of the files, process and session it stands for.
TypeOK ==
  /\ upstream \in Nat
  /\ registered \in [Sets -> Height]
  /\ unit \in {"missing", "disabled", "enabled", "installed"}
  /\ conf \in Modes \union {"none"}
  /\ key \in BOOLEAN
  /\ proc \in Modes \union {"down"}
  /\ db \in Image /\ export \in Image /\ archive \in Image
  /\ base \in Nat
  /\ logged \in BOOLEAN
  /\ log \in Height
  /\ cmd \in Command
  /\ last \in Ended
  /\ issued \in Nat /\ faults \in Nat

\* The height control derives for the node never exceeds what the node's
\* database holds, even if the process crashes and is restarted between the
\* read of the log and the read of the counter (pchainview.go observePChain).
ObservedNeverOverstates == Local <= db.height

\* Past its gate, freeze stops a node whose database holds everything the
\* public chain held when the gate began (freeze.go check, freezeGateState).
FreezeGateSound == cmd.gated /\ cmd.up # None => cmd.up <= db.height

\* No verb ever takes the P-chain database back: an existing database is
\* authoritative over any archive (deploy.go seedPChain).
DatabaseNeverRegresses == [][db'.height >= db.height]_vars

\* An archive is only ever taken of a database no process was writing, and
\* therefore every database seeded from one is whole (deploy.go
\* ArchivePChain).
CopiesWhole == export.whole /\ archive.whole /\ db.whole

\* An archive that stops the node starts it again whatever fails in between,
\* or says that the restart failed (deploy.go ArchivePChain recovery).
ArchiveRestartsNode ==
  cmd = Idle /\ last.verb = "archive" /\ last.halted /\ ~last.unsure =>
    proc # "down"

\* A verb that ends with "P-chain node is running in <mode> mode" leaves no
\* process of the other mode (freeze.go, deploy.go FollowPChain).
AnnouncedModeRuns ==
  cmd = Idle /\ last.ok /\ last.verb \in {"follow", "freeze"} =>
    proc \in {"down", last.mode}

\* "Freezing waits for EVERY declared chain's validator set: the archive must
\* hold each of them" (freeze.go freezeGateState).
FrozenHoldsValidatorSets ==
  last.verb = "freeze" /\ last.ok /\ cmd = Idle /\ proc = "frozen" =>
    \A s \in Sets : registered[s] # None /\ registered[s] <= db.height

=============================================================================
