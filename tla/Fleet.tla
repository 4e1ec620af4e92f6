------------------------------- MODULE Fleet -------------------------------
(***************************************************************************)
(* The control plane of cmd/fleet: one operator runs verbs (place, start,  *)
(* stop, destroy, deploy, rolling deploy, upgrade) against a set of        *)
(* machines over ssh.  A verb is a program of phases (internal/fleet:      *)
(* place.go, lifecycle.go, deploy.go, upgrade.go); a phase runs one remote *)
(* command on each selected machine.  Any remote command can be lost, torn *)
(* half way or interrupted, and a lost one ends the verb where it stands.  *)
(* Between any two remote commands a node process may crash or a machine   *)
(* may reboot.                                                             *)
(*                                                                         *)
(* The model starts after `l1 create` (network.env is complete).  The      *)
(* P-chain machine is in the placement but is never selected here.         *)
(***************************************************************************)
EXTENDS Integers, FiniteSets

CONSTANTS
  Machines,     \* node numbers of nodes.ini
  Identities,   \* identity letters of deployment/public.json
  NoId,         \* no process, no key
  Role,         \* machine -> role (nodes.ini)
  ChainOf,      \* machine -> chain it serves
  Home,         \* identity -> machine keygen generated it for (public.json)
  UserInstall,  \* TRUE: the default layout, no systemd; FALSE: SYSTEM_INSTALL=true
  Deployed,     \* TRUE: a first `fleet deploy` has already completed
  Verbs,        \* the verbs the operator uses
  Crashes,      \* whether processes crash and machines reboot
  MaxCommands,  \* bound: verbs issued
  MaxFaults     \* bound: lost, torn or interrupted remote commands

Roles == {"validator", "rpc", "archive", "pchain"}
AllVerbs == {"place", "start", "stop", "destroy", "deploy", "roll", "upgrade"}
L1 == {m \in Machines : Role[m] # "pchain"}
Chains == {ChainOf[m] : m \in L1}

ASSUME FleetAssumption ==
  /\ Machines \subseteq Nat
  /\ IsFiniteSet(Machines)
  /\ Role \in [Machines -> Roles]
  /\ Home \in [Identities -> Machines]
  /\ \A m \in Machines : \E i \in Identities : Home[i] = m
  /\ \A i, j \in Identities : Home[i] = Home[j] => i = j
  /\ NoId \notin Identities
  /\ UserInstall \in BOOLEAN
  /\ Deployed \in BOOLEAN
  /\ Crashes \in BOOLEAN
  /\ Verbs \subseteq AllVerbs
  /\ MaxCommands \in Nat
  /\ MaxFaults \in Nat

VARIABLES
  placement,    \* deployment/placement.json: machine -> identity
  history,      \* chain -> entries recorded in deployment/upgrades*.json
  unit,         \* systemd unit, or run script, of each L1 machine
  disk,         \* identity whose key is in the machine's staking directory
  running,      \* identity the node process serves
  book,         \* state-sync peers in the machine's node.json
  data,         \* whether chainData/<chain-id> exists
  file,         \* entries in the machine's upgrade.json
  cmd,          \* the verb in progress
  want,         \* what the last finished verb on the machine asked for
  last,         \* the last verb that ended, and whether it succeeded
  issued,       \* verbs issued so far
  faults        \* faults so far

machine == <<unit, disk, running, book, data, file>>
control == <<placement, history>>
vars == <<placement, history, unit, disk, running, book, data, file,
          cmd, want, last, issued, faults>>

-----------------------------------------------------------------------------
(* Placement.                                                              *)

\* placement.Validate: a complete bijection that keeps roles and chains, and
\* under which only validator identities have left home.
Validate(p) ==
  /\ \A m \in Machines :
       /\ p[m] \in Identities
       /\ Role[Home[p[m]]] = Role[m]
       /\ ChainOf[Home[p[m]]] = ChainOf[m]
       /\ Role[m] # "validator" => Home[p[m]] = m
  /\ \A m, n \in Machines : p[m] = p[n] => m = n

\* planPlace refuses everything but a validator identity onto a validator
\* machine of its own chain.
Movable(i, m) ==
  /\ Role[Home[i]] = "validator"
  /\ Role[m] = "validator"
  /\ ChainOf[Home[i]] = ChainOf[m]

\* planPlace: the identity goes to m, what m held goes where it came from.
PlanPlace(i, m) ==
  [n \in Machines |-> IF n = m THEN i
                      ELSE IF placement[n] = i THEN placement[m]
                      ELSE placement[n]]

-----------------------------------------------------------------------------
(* What a machine reports, and what control concludes.                     *)

\* Mutated NeedsApply: a node that is down is restarted, enabled or not.
NeedsApplyDown(m) == running[m] # placement[m]
\* Mutated NeedsApply: an interrupted run is taken for a deliberate stop.
NeedsApplyActive(m) == running[m] \notin {NoId, placement[m]}
\* Mutated NeedsApply: only the machine named on the command line restarts.
NeedsApplyNamed(m) == NeedsApplyActive(m) /\ m = cmd.move[2]

\* A stopped unit that reports "enabled" is an interrupted run.  A user
\* install never reports "enabled" (activeEnabledProbe).
\* planApply: restart what runs the wrong identity and what was interrupted.
NeedsApply(m) ==
  \/ running[m] \notin {NoId, placement[m]}
  \/ running[m] = NoId /\ unit[m] = "enabled"

\* planStart: leave alone only what already serves its assigned identity.
NeedsStart(m) == running[m] # placement[m]

\* enabledProbe: the machines that count as meant to be up.
Enabled == {m \in L1 : unit[m] \in {"enabled", "installed"}}

\* Mutated StateSyncPeers: pairs a peer with what it runs at the moment.
StateSyncPeersRuntime(m, up) ==
  {<<p, running[p]>> : p \in {q \in up : q # m /\ ChainOf[q] = ChainOf[m]}}

\* stateSyncPeers: the up machines of m's chain with their assigned identity.
StateSyncPeers(m, up) ==
  {<<p, placement[p]>> : p \in {q \in up : q # m /\ ChainOf[q] = ChainOf[m]}}

-----------------------------------------------------------------------------
(* The command in progress.                                                *)

Idle == [verb |-> "none", leg |-> "before", phase |-> "idle", todo |-> {},
         sel |-> {}, rest |-> {}, req |-> {}, up |-> {}, move |-> <<>>,
         failed |-> FALSE]

Phases == {"idle", "probe", "config", "identity", "stop", "start", "settled",
           "enable", "disable", "kill", "wipe", "book", "package", "unit",
           "ready", "push", "next", "done"}

\* The phase programs: which phase follows which in each verb.
Order ==
  { <<"place", "config", "identity">>, <<"place", "identity", "stop">>,
    <<"place", "stop", "start">>,      <<"place", "start", "settled">>,
    <<"start", "stop", "identity">>,   <<"start", "identity", "config">>,
    <<"start", "config", "enable">>,   <<"start", "enable", "book">>,
    <<"start", "book", "done">>,
    <<"stop", "disable", "book">>,     <<"stop", "book", "done">>,
    <<"destroy", "kill", "wipe">>,     <<"destroy", "wipe", "book">>,
    <<"destroy", "book", "done">>,
    <<"deploy", "stop", "package">>,   <<"deploy", "package", "unit">>,
    <<"deploy", "unit", "identity">>,  <<"deploy", "identity", "start">>,
    <<"deploy", "start", "ready">>,    <<"deploy", "ready", "done">>,
    <<"roll", "stop", "package">>,     <<"roll", "package", "unit">>,
    <<"roll", "unit", "identity">>,    <<"roll", "identity", "start">>,
    <<"roll", "start", "ready">>,      <<"roll", "ready", "next">>,
    <<"upgrade", "push", "next">>,     <<"upgrade", "stop", "enable">>,
    <<"upgrade", "enable", "ready">>,  <<"upgrade", "ready", "next">> }

CanFault == faults < MaxFaults

\* The verb ends with an error.  Nothing is rolled back.
Abort ==
  /\ cmd' = Idle
  /\ last' = [verb |-> cmd.verb, ok |-> FALSE]
  /\ UNCHANGED <<control, want, issued>>

\* Control starts a verb on the machines S.  What the operator wants of them
\* is open until the verb ends.
Begin(c) ==
  /\ cmd = Idle
  /\ c.verb \in Verbs
  /\ issued < MaxCommands
  /\ issued' = issued + 1
  /\ cmd' = c
  /\ want' = [m \in L1 |-> IF m \in c.req THEN "open" ELSE want[m]]
  /\ UNCHANGED <<machine, placement, last, faults>>

Place(i, m) ==
  /\ Begin([Idle EXCEPT !.verb = "place", !.phase = "probe", !.todo = L1,
                        !.move = <<i, m>>])
  /\ UNCHANGED history

Start(S) ==
  /\ Begin([Idle EXCEPT !.verb = "start", !.phase = "probe", !.todo = S,
                        !.req = S])
  /\ UNCHANGED history

Stop(S) ==
  /\ Begin([Idle EXCEPT !.verb = "stop", !.phase = "disable", !.todo = S,
                        !.sel = S, !.req = S])
  /\ UNCHANGED history

Destroy(S) ==
  /\ Begin([Idle EXCEPT !.verb = "destroy", !.phase = "kill", !.todo = S,
                        !.sel = S, !.req = S])
  /\ UNCHANGED history

\* Deploy without selectors: the L1 part, phase by phase over every machine.
Deploy ==
  /\ Begin([Idle EXCEPT !.verb = "deploy", !.phase = "stop", !.todo = L1,
                        !.sel = L1, !.req = L1])
  /\ UNCHANGED history

\* Deploy with selectors: one machine through every phase, then the next.
Roll(S) ==
  /\ Begin([Idle EXCEPT !.verb = "roll", !.phase = "next", !.rest = S,
                        !.req = S])
  /\ UNCHANGED history

\* UpgradeChain records the merged history before any remote work.
UpgradeChain(c) ==
  LET S == {m \in L1 : ChainOf[m] = c}
  IN /\ Begin([Idle EXCEPT !.verb = "upgrade", !.phase = "push", !.todo = S,
                           !.rest = S, !.req = S])
     /\ history' = [history EXCEPT ![c] = @ + 1]

-----------------------------------------------------------------------------
(* Remote commands: one shell command on one machine.                      *)

\* A process that is launched serves the key it finds on disk, or exits.
Launch(m) ==
  /\ running' = [running EXCEPT ![m] = IF running[m] = NoId THEN disk[m] ELSE @]
  /\ data' = [data EXCEPT ![m] = @ \/ running[m] # NoId \/ disk[m] # NoId]

StopCommand(m) ==
  /\ running' = [running EXCEPT ![m] = NoId]
  /\ UNCHANGED <<unit, disk, book, data, file>>

\* Only systemd has boot intent to record.
Disabled(m) ==
  IF ~UserInstall /\ unit[m] = "enabled" THEN "disabled" ELSE unit[m]

DisableAndStop(m) ==
  /\ unit' = [unit EXCEPT ![m] = Disabled(m)]
  /\ running' = [running EXCEPT ![m] = NoId]
  /\ UNCHANGED <<disk, book, data, file>>

\* Mutated KillService: the unit stays enabled.
KillServiceOnly(m) ==
  /\ running' = [running EXCEPT ![m] = NoId]
  /\ UNCHANGED <<unit, disk, book, data, file>>

KillService(m) ==
  /\ unit' = [unit EXCEPT ![m] = Disabled(m)]
  /\ running' = [running EXCEPT ![m] = NoId]
  /\ UNCHANGED <<disk, book, data, file>>

RemoveChainData(m) ==
  /\ data' = [data EXCEPT ![m] = FALSE]
  /\ UNCHANGED <<unit, disk, running, book, file>>

\* Mutated InstallIdentity: start trusts the key that the machine has.
InstallIdentityOnMove(m) ==
  /\ disk' = IF cmd.verb = "start" THEN disk ELSE [disk EXCEPT ![m] = placement[m]]
  /\ UNCHANGED <<unit, running, book, data, file>>

InstallIdentity(m) ==
  /\ disk' = [disk EXCEPT ![m] = placement[m]]
  /\ UNCHANGED <<unit, running, book, data, file>>

InstallConfig(m) ==
  /\ book' = [book EXCEPT ![m] = StateSyncPeers(m, cmd.up)]
  /\ UNCHANGED <<unit, disk, running, data, file>>

\* deploy renders the whole inventory as up, and carries the history along.
InstallPackage(m) ==
  /\ book' = [book EXCEPT ![m] = StateSyncPeers(m, L1)]
  /\ file' = [file EXCEPT ![m] = history[ChainOf[m]]]
  /\ UNCHANGED <<unit, disk, running, data>>

InstallUnit(m) ==
  /\ unit' = [unit EXCEPT ![m] = IF UserInstall THEN "installed" ELSE "enabled"]
  /\ UNCHANGED <<disk, running, book, data, file>>

StartOnly(m) ==
  /\ Launch(m)
  /\ UNCHANGED <<unit, disk, book, file>>

EnableAndStart(m) ==
  /\ unit' = [unit EXCEPT ![m] = IF UserInstall THEN @ ELSE "enabled"]
  /\ Launch(m)
  /\ UNCHANGED <<disk, book, file>>

PushUpgrade(m) ==
  /\ file' = [file EXCEPT ![m] = history[ChainOf[m]]]
  /\ UNCHANGED <<unit, disk, running, book, data>>

\* waitL1Ready polls the node until it serves, and gives up at a deadline.
WaitL1Ready(m) == running[m] # NoId /\ UNCHANGED machine

\* Mutated Refuses: readiness is awaited without a deadline.
RefusesNoDeadline(m) ==
  /\ cmd.phase \in {"start", "enable"}
  /\ \/ unit[m] = "missing"
     \/ UserInstall /\ running[m] = NoId /\ disk[m] = NoId

\* A start needs a unit, and a user install also proves the process lives;
\* readiness times out on a node that is not there.
Refuses(m) ==
  \/ /\ cmd.phase \in {"start", "enable"}
     /\ \/ unit[m] = "missing"
        \/ UserInstall /\ running[m] = NoId /\ disk[m] = NoId
  \/ cmd.phase = "ready" /\ running[m] = NoId

Remote(m) ==
  \/ cmd.phase = "stop"     /\ StopCommand(m)
  \/ cmd.phase = "identity" /\ InstallIdentity(m)
  \/ cmd.phase = "config"   /\ InstallConfig(m)
  \/ cmd.phase = "start"    /\ StartOnly(m)
  \/ cmd.phase = "enable"   /\ EnableAndStart(m)
  \/ cmd.phase = "disable"  /\ DisableAndStop(m)
  \/ cmd.phase = "kill"     /\ KillService(m)
  \/ cmd.phase = "wipe"     /\ RemoveChainData(m)
  \/ cmd.phase = "package"  /\ InstallPackage(m)
  \/ cmd.phase = "unit"     /\ InstallUnit(m)
  \/ cmd.phase = "ready"    /\ WaitL1Ready(m)

\* A compound remote command cut off half way.
Torn(m) ==
  \/ /\ cmd.phase = "identity"
     /\ disk' = [disk EXCEPT ![m] = NoId]
     /\ UNCHANGED <<unit, running, book, data, file>>
  \/ /\ cmd.phase \in {"disable", "kill"}
     /\ unit' = [unit EXCEPT ![m] = Disabled(m)]
     /\ UNCHANGED <<disk, running, book, data, file>>
  \/ /\ cmd.phase = "enable" /\ ~UserInstall /\ unit[m] # "missing"
     /\ unit' = [unit EXCEPT ![m] = "enabled"]
     /\ UNCHANGED <<disk, running, book, data, file>>
  \/ /\ cmd.phase = "unit" /\ ~UserInstall /\ unit[m] = "missing"
     /\ unit' = [unit EXCEPT ![m] = "disabled"]
     /\ UNCHANGED <<disk, running, book, data, file>>
  \/ /\ cmd.phase = "package"
     /\ book' = [book EXCEPT ![m] = StateSyncPeers(m, L1)]
     /\ UNCHANGED <<unit, disk, running, data, file>>

-----------------------------------------------------------------------------
(* Running a phase.                                                        *)

\* phase() visits the machines in ascending order of node number.
Turn(m) == m \in cmd.todo /\ \A n \in cmd.todo : m <= n

Step(m) ==
  /\ Turn(m)
  /\ ~Refuses(m)
  /\ Remote(m)
  /\ cmd' = [cmd EXCEPT !.todo = @ \ {m}]
  /\ UNCHANGED <<control, want, last, issued, faults>>

StepRefused(m) ==
  /\ Turn(m)
  /\ Refuses(m)
  /\ Abort
  /\ UNCHANGED <<machine, faults>>

\* The connection drops after the remote command did all or part of its work.
StepLost(m) ==
  /\ CanFault
  /\ Turn(m)
  /\ ~Refuses(m)
  /\ Remote(m) \/ Torn(m)
  /\ Abort
  /\ faults' = faults + 1

\* The operator interrupts control, or a connection fails before any effect.
Interrupt ==
  /\ CanFault
  /\ cmd # Idle
  /\ cmd.phase # "done"
  /\ Abort
  /\ faults' = faults + 1
  /\ UNCHANGED machine

\* place probes every L1 machine before it plans.
ProbePlacement(m) ==
  /\ cmd.verb = "place" /\ cmd.phase = "probe"
  /\ Turn(m)
  /\ cmd' = [cmd EXCEPT !.todo = @ \ {m},
                        !.sel = IF NeedsApply(m) THEN @ \union {m} ELSE @]
  /\ UNCHANGED <<control, machine, want, last, issued, faults>>

\* start probes the selected machines.
ProbeStart(m) ==
  /\ cmd.verb = "start" /\ cmd.phase = "probe"
  /\ Turn(m)
  /\ cmd' = [cmd EXCEPT !.todo = @ \ {m},
                        !.sel = IF NeedsStart(m) THEN @ \union {m} ELSE @]
  /\ UNCHANGED <<control, machine, want, last, issued, faults>>

\* A running node whose API is silent is restarted, whatever it serves.
ProbeStartSilent(m) ==
  /\ CanFault
  /\ cmd.verb = "start" /\ cmd.phase = "probe"
  /\ Turn(m)
  /\ running[m] # NoId
  /\ cmd' = [cmd EXCEPT !.todo = @ \ {m}, !.sel = @ \union {m}]
  /\ faults' = faults + 1
  /\ UNCHANGED <<control, machine, want, last, issued>>

\* intendedUp: the enabled machines that answer, with this verb's own effect.
IntendedUp(silent, bringingUp, takingDown) ==
  ((Enabled \ silent) \ takingDown) \union bringingUp

\* Machines that do not answer count as down; that is a fault of the network.
Silent(U) ==
  \/ U = {} /\ UNCHANGED faults
  \/ U # {} /\ CanFault /\ faults' = faults + 1

\* Mutated PlanApply: the before leg is skipped.
PlanApplyAfterOnly ==
  /\ cmd.verb = "place" /\ cmd.phase = "probe" /\ cmd.todo = {}
  /\ IF cmd.sel = {} \/ cmd.leg = "before"
     THEN cmd' = [cmd EXCEPT !.phase = "settled"]
     ELSE cmd' = [cmd EXCEPT !.phase = "config", !.todo = L1,
                             !.up = IntendedUp({}, {}, {})]
  /\ UNCHANGED <<control, machine, want, last, issued, faults>>

\* Mutated PlanApply: config goes only to the machines that restart.
PlanApplyConfigRestarted ==
  /\ cmd.verb = "place" /\ cmd.phase = "probe" /\ cmd.todo = {}
  /\ IF cmd.sel = {}
     THEN cmd' = [cmd EXCEPT !.phase = "settled"]
     ELSE cmd' = [cmd EXCEPT !.phase = "config", !.todo = cmd.sel,
                             !.up = IntendedUp({}, {}, {})]
  /\ UNCHANGED <<control, machine, want, last, issued, faults>>

\* reconcilePlacement after the probes: nothing to do, or config everywhere.
PlanApply ==
  /\ cmd.verb = "place" /\ cmd.phase = "probe" /\ cmd.todo = {}
  /\ \/ /\ cmd.sel = {}
        /\ cmd' = [cmd EXCEPT !.phase = "settled"]
        /\ UNCHANGED faults
     \/ /\ cmd.sel # {}
        /\ \E U \in SUBSET L1 :
             /\ Silent(U)
             /\ cmd' = [cmd EXCEPT !.phase = "config", !.todo = L1,
                                   !.up = IntendedUp(U, {}, {})]
  /\ UNCHANGED <<control, machine, want, last, issued>>

\* Start after the probes: nothing to do, or converge the selected machines.
PlanStart ==
  /\ cmd.verb = "start" /\ cmd.phase = "probe" /\ cmd.todo = {}
  /\ \/ /\ cmd.sel = {}
        /\ cmd' = [cmd EXCEPT !.phase = "done"]
        /\ UNCHANGED faults
     \/ /\ cmd.sel # {}
        /\ \E U \in SUBSET L1 :
             /\ Silent(U)
             /\ cmd' = [cmd EXCEPT !.phase = "stop", !.todo = cmd.sel,
                                   !.up = IntendedUp(U, cmd.sel, {})]
  /\ UNCHANGED <<control, machine, want, last, issued>>

\* The phase is over on every machine and the verb has another one.
Advance ==
  /\ cmd.todo = {}
  /\ ~cmd.failed
  /\ \E q \in Phases \ {"book"} :
       /\ <<cmd.verb, cmd.phase, q>> \in Order
       /\ cmd' = [cmd EXCEPT !.phase = q,
                             !.todo = IF q \in {"next", "settled", "done"}
                                      THEN {} ELSE cmd.sel]
  /\ UNCHANGED <<control, machine, want, last, issued, faults>>

\* refreshAddressBook: re-read who is up and push node.json to every machine.
RefreshAddressBook ==
  /\ cmd.todo = {}
  /\ <<cmd.verb, cmd.phase, "book">> \in Order
  /\ \E U \in SUBSET L1 :
       /\ Silent(U)
       /\ cmd' = [cmd EXCEPT !.phase = "book", !.todo = L1,
                    !.up = IF cmd.verb = "start"
                           THEN IntendedUp(U, cmd.sel, {})
                           ELSE IntendedUp(U, {}, cmd.sel)]
  /\ UNCHANGED <<control, machine, want, last, issued>>

\* The refresh is parallel and best effort: a failed push is only printed.
PushBook(m) ==
  /\ cmd.phase = "book" /\ m \in cmd.todo
  /\ cmd' = [cmd EXCEPT !.todo = @ \ {m}]
  /\ \/ InstallConfig(m) /\ UNCHANGED faults
     \/ /\ CanFault
        /\ faults' = faults + 1
        /\ UNCHANGED machine \/ InstallConfig(m)
  /\ UNCHANGED <<control, want, last, issued>>

\* Mutated PushHistory: a failed push is only printed.
PushHistoryBestEffort(m) ==
  /\ cmd.phase = "push" /\ m \in cmd.todo
  /\ cmd' = [cmd EXCEPT !.todo = @ \ {m}]
  /\ \/ PushUpgrade(m) /\ UNCHANGED faults
     \/ CanFault /\ faults' = faults + 1 /\ UNCHANGED machine
  /\ UNCHANGED <<control, want, last, issued>>

\* The upgrade push is parallel too, but one failure fails the verb.
PushHistory(m) ==
  /\ cmd.phase = "push" /\ m \in cmd.todo
  /\ \/ /\ PushUpgrade(m)
        /\ cmd' = [cmd EXCEPT !.todo = @ \ {m}]
        /\ UNCHANGED faults
     \/ /\ CanFault
        /\ cmd' = [cmd EXCEPT !.todo = @ \ {m}, !.failed = TRUE]
        /\ faults' = faults + 1
        /\ UNCHANGED machine \/ PushUpgrade(m)
  /\ UNCHANGED <<control, want, last, issued>>

PushFailed ==
  /\ cmd.phase = "push" /\ cmd.todo = {} /\ cmd.failed
  /\ Abort
  /\ UNCHANGED <<machine, faults>>

\* Rolling verbs take the next machine only when the previous one is back.
NextMachine ==
  /\ cmd.phase = "next"
  /\ \/ /\ cmd.rest = {}
        /\ cmd' = [cmd EXCEPT !.phase = "done"]
     \/ \E m \in cmd.rest :
          /\ \A n \in cmd.rest : m <= n
          /\ cmd' = [cmd EXCEPT !.phase = "stop", !.todo = {m}, !.sel = {m},
                                !.rest = @ \ {m}]
  /\ UNCHANGED <<control, machine, want, last, issued, faults>>

\* Mutated SavePlacement: written without planPlace's refusals or Validate.
SavePlacementUnchecked ==
  /\ cmd.phase = "settled" /\ cmd.leg = "before"
  /\ placement' = PlanPlace(cmd.move[1], cmd.move[2])
  /\ cmd' = [cmd EXCEPT !.leg = "after", !.phase = "probe", !.todo = L1,
                        !.sel = {}, !.up = {}]
  /\ UNCHANGED <<history, machine, want, last, issued, faults>>

\* Place between its two reconciles: plan, validate, write placement.json.
SavePlacement ==
  /\ cmd.phase = "settled" /\ cmd.leg = "before"
  /\ LET i == cmd.move[1]
         m == cmd.move[2]
         next == PlanPlace(i, m)
     IN /\ Movable(i, m)
        /\ Validate(next)
        /\ placement' = next
        /\ cmd' = IF next = placement
                  THEN [cmd EXCEPT !.phase = "done"]
                  ELSE [cmd EXCEPT !.leg = "after", !.phase = "probe",
                                   !.todo = L1, !.sel = {}, !.up = {}]
  /\ UNCHANGED <<history, machine, want, last, issued, faults>>

RefusePlace ==
  /\ cmd.phase = "settled" /\ cmd.leg = "before"
  /\ ~(Movable(cmd.move[1], cmd.move[2])
       /\ Validate(PlanPlace(cmd.move[1], cmd.move[2])))
  /\ Abort
  /\ UNCHANGED <<machine, faults>>

\* The after leg has nothing left to do.
PlaceApplied ==
  /\ cmd.phase = "settled" /\ cmd.leg = "after"
  /\ cmd' = [cmd EXCEPT !.phase = "done"]
  /\ UNCHANGED <<control, machine, want, last, issued, faults>>

Complete ==
  /\ cmd.phase = "done"
  /\ cmd' = Idle
  /\ last' = [verb |-> cmd.verb, ok |-> TRUE]
  /\ want' = [m \in L1 |->
                IF m \notin cmd.req THEN want[m]
                ELSE IF cmd.verb \in {"stop", "destroy"} THEN "down" ELSE "up"]
  /\ UNCHANGED <<control, machine, issued, faults>>

-----------------------------------------------------------------------------
(* The machines on their own.                                              *)

\* systemd restarts a crashed node (Restart=on-failure); the new process
\* reads the key that is on disk now.  A user install stays down.
Crash(m) ==
  /\ Crashes
  /\ running[m] # NoId
  /\ running' = [running EXCEPT ![m] = IF UserInstall THEN NoId ELSE disk[m]]
  /\ UNCHANGED <<control, unit, disk, book, data, file, cmd, want, last,
                 issued, faults>>

\* A reboot starts the enabled units.
Reboot(m) ==
  /\ Crashes
  /\ running' = [running EXCEPT ![m] =
                   IF unit[m] = "enabled" THEN disk[m] ELSE NoId]
  /\ data' = [data EXCEPT ![m] =
                @ \/ (unit[m] = "enabled" /\ disk[m] # NoId)]
  /\ UNCHANGED <<control, unit, disk, book, file, cmd, want, last,
                 issued, faults>>

-----------------------------------------------------------------------------
HomePlacement == [m \in Machines |-> CHOOSE i \in Identities : Home[i] = m]

Init ==
  /\ placement = HomePlacement
  /\ history = [c \in Chains |-> 0]
  /\ unit = [m \in L1 |-> IF ~Deployed THEN "missing"
                          ELSE IF UserInstall THEN "installed" ELSE "enabled"]
  /\ disk = [m \in L1 |-> IF Deployed THEN placement[m] ELSE NoId]
  /\ running = [m \in L1 |-> IF Deployed THEN placement[m] ELSE NoId]
  /\ book = [m \in L1 |-> IF Deployed THEN StateSyncPeers(m, L1) ELSE {}]
  /\ data = [m \in L1 |-> Deployed]
  /\ file = [m \in L1 |-> 0]
  /\ cmd = Idle
  /\ want = [m \in L1 |-> IF Deployed THEN "up" ELSE "open"]
  /\ last = [verb |-> "none", ok |-> TRUE]
  /\ issued = 0
  /\ faults = 0

Operator ==
  \/ \E i \in Identities, m \in Machines : Place(i, m)
  \/ \E S \in SUBSET L1 \ {{}} : Start(S) \/ Stop(S) \/ Destroy(S) \/ Roll(S)
  \/ Deploy
  \/ \E m \in L1 : UpgradeChain(ChainOf[m])

Control ==
  \/ \E m \in L1 : \/ Step(m) \/ StepRefused(m)
                   \/ ProbePlacement(m) \/ ProbeStart(m)
                   \/ PushBook(m) \/ PushHistory(m)
  \/ PlanApply \/ PlanStart \/ Advance \/ RefreshAddressBook \/ PushFailed
  \/ NextMachine \/ SavePlacement \/ RefusePlace \/ PlaceApplied \/ Complete

Environment ==
  \/ \E m \in L1 : StepLost(m) \/ ProbeStartSilent(m) \/ Crash(m) \/ Reboot(m)
  \/ Interrupt

Next == Operator \/ Control \/ Environment

Spec == Init /\ [][Next]_vars

\* The control program keeps running until its verb ends.  Nobody owes the
\* fleet a new verb, and faults and crashes are never owed.
FairSpec == Spec /\ WF_vars(Control)

-----------------------------------------------------------------------------
(* What the control plane promises.                                        *)

Command ==
  [verb : AllVerbs \union {"none"}, leg : {"before", "after"}, phase : Phases,
   todo : SUBSET L1, sel : SUBSET L1, rest : SUBSET L1, req : SUBSET L1,
   up : SUBSET L1, move : (Identities \X Machines) \union {<<>>},
   failed : BOOLEAN]

\* The state has the shape of the files, processes and session it stands for.
TypeOK ==
  /\ placement \in [Machines -> Identities]
  /\ history \in [Chains -> Nat]
  /\ unit \in [L1 -> {"missing", "disabled", "enabled", "installed"}]
  /\ disk \in [L1 -> Identities \union {NoId}]
  /\ running \in [L1 -> Identities \union {NoId}]
  /\ book \in [L1 -> SUBSET (L1 \X Identities)]
  /\ data \in [L1 -> BOOLEAN]
  /\ file \in [L1 -> Nat]
  /\ cmd \in Command
  /\ want \in [L1 -> {"up", "down", "open"}]
  /\ last \in [verb : AllVerbs \union {"none"}, ok : BOOLEAN]
  /\ issued \in Nat
  /\ faults \in Nat

\* A machine taken down by a finished stop or destroy stays down until a
\* start, deploy or upgrade names it: through places, crashes, reboots and
\* interrupted commands on other machines (place.go planApply).
StoppedStaysDown == \A m \in L1 : want[m] = "down" => running[m] = NoId

\* A node that serves its assigned identity never has another identity's key
\* on disk, so systemd's restart after a crash cannot change who it is
\* (place.go reconcilePlacement, lifecycle.go Start).
CrashKeepsIdentity ==
  \A m \in L1 : running[m] = placement[m] => disk[m] \in {placement[m], NoId}

\* place writes a new placement only onto a fleet where every running node
\* already serves the old one, so two moves are never bundled in one restart
\* (place.go Place, the before leg).
IsolatedMove ==
  [][placement' # placement =>
       \A m \in L1 : running[m] \in {NoId, placement[m]}]_vars

\* destroy deletes chain data only while every selected node is down, even if
\* processes crash and machines reboot meanwhile (lifecycle.go destroyPhases).
KillBeforeWipe ==
  [][\A m \in L1 : data[m] /\ ~data'[m] =>
       \A n \in cmd.sel : running[n] = NoId]_vars

DistinctIdentities ==
  \A m, n \in L1 : running[m] = running[n] /\ running[m] # NoId => m = n

\* A step of a place never makes two machines serve one identity, if none did
\* before: all stops come before all starts (place.go reconcilePlacement).
\* Where crashed processes stay down this is so of every step taken during a
\* place; under systemd it is so of the steps of control, and a crash between
\* the two phases may give a node the key that is about to become its own.
PlaceKeepsIdentitiesDistinct ==
  [][/\ cmd.verb = "place"
     /\ UserInstall \/ cmd' # cmd
     /\ DistinctIdentities
     => DistinctIdentities']_vars

\* While nothing has failed and no chain was upgraded, no identity is ever
\* served by two machines, through moves, stops, starts and deploys of any
\* machines in any order (place.go reconcilePlacement, lifecycle.go Start,
\* deploy.go Deploy).  An upgrade can break it: it restarts a machine that was
\* down while its identity moved away with the key that it still has.
IdentityServedOnce ==
  faults = 0 /\ (\A c \in Chains : history[c] = 0) => DistinctIdentities

\* No machine of the chain goes down for an upgrade before every machine of
\* the chain holds the full history (upgrade.go UpgradeChain, push phase).
HistoryBeforeRestart ==
  cmd.verb = "upgrade" /\ cmd.phase # "push" =>
    \A m \in cmd.req : file[m] = history[ChainOf[m]]

\* After a place that succeeded, every machine that is meant to be up, may be
\* started and has its key serves its assigned identity, whatever was
\* interrupted before it (place.go reconcilePlacement: a rerun converges).
\* A machine that reports disabled is left as it is (planApply).
RerunConverges ==
  cmd = Idle /\ last = [verb |-> "place", ok |-> TRUE] =>
    \A m \in Enabled : want[m] = "up" /\ disk[m] # NoId =>
                         running[m] = placement[m]

\* If nothing failed, a start that succeeded leaves boot intent on every
\* machine it was asked for, which is all that brings one back after a reboot
\* (lifecycle.go enableAndStart: start restores the intent that a stop or
\* destroy removed).  After a stop that was torn between its two systemctl
\* calls it does not: planStart leaves a node alone that still serves.
StartRestoresIntent ==
  cmd = Idle /\ faults = 0 /\ last = [verb |-> "start", ok |-> TRUE] =>
    \A m \in L1 : want[m] = "up" => m \in Enabled

\* Between commands, if nothing failed, every machine's address book lists
\* exactly the machines of its chain that are meant to be up, each with the
\* identity placement assigns to it now (lifecycle.go refreshAddressBook,
\* place.go reconcilePlacement, deploy.go intendedUp).
BookFollowsIntent ==
  cmd = Idle /\ faults = 0 =>
    \A m \in L1 : want[m] # "open" =>
      book[m] = StateSyncPeers(m, {p \in L1 : want[p] = "up"})

\* Every verb ends, with success or an error, whatever crashes while it runs:
\* no phase waits forever on a node that is gone (deploy.go waitL1Ready).
VerbsEnd == cmd # Idle ~> cmd = Idle

\* The fleet treats placement.json as the abstract file it promises to be.
File == INSTANCE PlacementFile WITH placement <- placement

\* Every step of every verb, fault and crash changes placement.json by one
\* exchange of two validators of a chain, or not at all (place.go planPlace).
KeepsPlacementFile == File!Spec

=============================================================================
