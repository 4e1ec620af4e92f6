-------------------------- MODULE FleetMoveProofs --------------------------
(***************************************************************************)
(* What a verb may rely on when it comes to its irreversible step, for     *)
(* every fleet: place writes placement.json onto a fleet that serves the   *)
(* old one, destroy deletes data under no running process, upgrade takes   *)
(* nothing down before the history is everywhere; and no crash changes who *)
(* a machine is.                                                           *)
(***************************************************************************)
EXTENDS FleetDownProofs

\* Up or down, the machine serves its assigned identity or none, and so it
\* does after any crash and reboot.
Fit(m) ==
  \/ Rests(m)
  \/ running[m] \in {NoId, placement[m]} /\ disk[m] \in {NoId, placement[m]}

\* Place leaves out only machines that are fit, and makes the others fit: first
\* the key, then the stop.
MoveOK ==
  cmd.verb = "place" =>
    /\ cmd.phase \in {"probe", "config", "identity", "stop", "start", "settled", "done"}
    /\ cmd.phase # "done" =>
         \A m \in L1 \ cmd.sel : Fit(m) \/ (cmd.phase = "probe" /\ m \in cmd.todo)
    /\ \A m \in cmd.sel :
         /\ cmd.phase = "identity" => m \in cmd.todo \/ disk[m] = placement[m]
         /\ cmd.phase \in {"stop", "start"} => disk[m] = placement[m]
         /\ cmd.phase = "stop" => m \in cmd.todo \/ Fit(m)
         /\ cmd.phase \in {"start", "settled"} => Fit(m)

\* A machine of the upgrade that does not have the history is still to be
\* pushed to, or its push failed, and so does the verb.
HistoryOK ==
  cmd.verb = "upgrade" =>
    \A m \in cmd.req :
      \/ file[m] = history[ChainOf[m]]
      \/ cmd.phase = "push" /\ (m \in cmd.todo \/ cmd.failed)

WipeOK == cmd.phase = "wipe" => cmd.verb = "destroy"

MoveInv == DownInv /\ CrashKeepsIdentity /\ MoveOK /\ HistoryOK /\ WipeOK

-----------------------------------------------------------------------------
(* The machines.                                                           *)

LEMMA MachineShape ==
  TypeOK => /\ cmd \in Command /\ cmd.todo \subseteq L1 /\ cmd.sel \subseteq L1
            /\ cmd.req \subseteq L1
            /\ running \in [L1 -> Identities \union {NoId}]
            /\ disk \in [L1 -> Identities \union {NoId}]
            /\ \A m \in L1 : placement[m] \in Identities /\ placement[m] # NoId
BY FleetAssumption DEF TypeOK, Command, L1

\* What one remote command, whole or torn, does to keys, processes, data and
\* histories.
LEMMA RemoteEffect ==
  ASSUME TypeOK, NEW m \in L1, Remote(m) \/ Torn(m)
  PROVE  /\ \A n \in L1 \ {m} : /\ disk'[n] = disk[n] /\ running'[n] = running[n]
                                /\ data'[n] = data[n] /\ file'[n] = file[n]
                                /\ unit'[n] = unit[n]
         /\ disk'[m] \in {disk[m], NoId, placement[m]}
         /\ \/ running'[m] \in {running[m], NoId}
            \/ running[m] = NoId /\ running'[m] = disk[m] /\ disk'[m] = disk[m]
         /\ data[m] /\ ~data'[m] => cmd.phase = "wipe"
         /\ file'[m] \in {file[m], history[ChainOf[m]]}
<1>1. /\ unit \in [L1 -> {"missing", "disabled", "enabled", "installed"}]
      /\ disk \in [L1 -> Identities \union {NoId}]
      /\ running \in [L1 -> Identities \union {NoId}]
      /\ data \in [L1 -> BOOLEAN] /\ file \in [L1 -> Nat]
  BY DEF TypeOK
<1>2. CASE Torn(m)
  BY <1>1, <1>2 DEF Torn
<1>3. CASE cmd.phase \in {"stop", "disable", "kill"} /\
             (StopCommand(m) \/ DisableAndStop(m) \/ KillService(m))
  BY <1>1, <1>3 DEF StopCommand, DisableAndStop, KillService
<1>4. CASE InstallIdentity(m) \/ InstallConfig(m) \/ InstallPackage(m) \/ InstallUnit(m)
  BY <1>1, <1>4 DEF InstallIdentity, InstallConfig, InstallPackage, InstallUnit
<1>5. CASE StartOnly(m) \/ EnableAndStart(m)
  BY <1>1, <1>5 DEF StartOnly, EnableAndStart, Launch
<1>6. CASE cmd.phase = "wipe" /\ RemoveChainData(m)
  BY <1>1, <1>6 DEF RemoveChainData
<1>7. CASE WaitL1Ready(m)
  BY <1>1, <1>7 DEF WaitL1Ready, machine
<1> QED BY <1>2, <1>3, <1>4, <1>5, <1>6, <1>7 DEF Remote

\* A verb begins without a remote command.
LEMMA OperatorBegins == Operator => \E c : Begin(c)
<1>1. \A i \in Identities, m \in Machines : Place(i, m) => \E c : Begin(c)
  BY DEF Place
<1>2. \A S \in SUBSET L1 : Start(S) \/ Stop(S) => \E c : Begin(c)
  BY DEF Start, Stop
<1>3. \A S \in SUBSET L1 : Destroy(S) \/ Roll(S) => \E c : Begin(c)
  BY DEF Destroy, Roll
<1>4. Deploy => \E c : Begin(c)
  BY DEF Deploy
<1>5. \A m \in L1 : UpgradeChain(ChainOf[m]) => \E c : Begin(c)
  BY DEF UpgradeChain
<1> QED BY <1>1, <1>2, <1>3, <1>4, <1>5 DEF Operator

\* The steps of Next by what they do to machines and placement.json.
LEMMA FleetKinds ==
  ASSUME DownInv, [Next]_vars
  PROVE  \/ \E m \in L1 : Step(m) \/ StepLost(m)
         \/ \E m \in L1 : Crash(m) \/ Reboot(m)
         \/ \E m \in L1 : PushHistory(m) /\ UNCHANGED <<unit, disk, running, data>>
         \/ SavePlacement
         \/ UNCHANGED <<placement, unit, disk, running, data, file>>
<1> DEFINE Quiet == UNCHANGED <<placement, unit, disk, running, data, file>>
<1>1. CASE Operator
  <2>1. PICK c : Begin(c)
    BY <1>1, OperatorBegins
  <2> QED BY <2>1 DEF Begin, machine
<1>2. CASE Control
  <2>1. ASSUME NEW m \in L1, PushHistory(m) PROVE UNCHANGED <<unit, disk, running, data>>
    BY <2>1 DEF PushHistory, PushUpgrade, machine
  <2>2. ASSUME NEW m \in L1, PushBook(m) PROVE Quiet
    BY <2>2 DEF PushBook, InstallConfig, machine, control
  <2>3. ASSUME NEW m \in L1, StepRefused(m) \/ ProbePlacement(m) \/ ProbeStart(m)
        PROVE  Quiet
    BY <2>3 DEF StepRefused, ProbePlacement, ProbeStart, Abort, machine, control
  <2>4. CASE PlanApply \/ PlanStart \/ Advance \/ RefreshAddressBook \/ PushFailed
    BY <2>4 DEF PlanApply, PlanStart, Advance, RefreshAddressBook, PushFailed, Abort,
                machine, control
  <2>5. CASE NextMachine \/ RefusePlace \/ PlaceApplied \/ Complete
    BY <2>5 DEF NextMachine, RefusePlace, PlaceApplied, Complete, Abort, machine, control
  <2> QED BY <1>2, <2>1, <2>2, <2>3, <2>4, <2>5 DEF Control
<1>3. CASE Environment
  BY <1>3 DEF Environment, ProbeStartSilent, Interrupt, Abort, machine, control
<1>4. CASE UNCHANGED vars
  BY <1>4 DEF vars
<1> QED BY <1>1, <1>2, <1>3, <1>4 DEF Next

\* Fit machines stay fit when nothing happens to them but crashes and reboots.
LEMMA FitCrash ==
  ASSUME TypeOK, NEW m \in L1, Crash(m) \/ Reboot(m), NEW n \in L1, Fit(n)
  PROVE  Fit(n)'
BY MachineShape DEF Crash, Reboot, Fit, Rests, control

LEMMA FitKept ==
  ASSUME NEW n \in L1, Fit(n), placement' = placement, disk'[n] = disk[n],
         running'[n] = running[n], unit'[n] = unit[n]
  PROVE  Fit(n)'
BY DEF Fit, Rests

-----------------------------------------------------------------------------
(* Keys.                                                                   *)

LEMMA SaveFindsAllFit ==
  ASSUME DownInv, MoveOK, SavePlacement, NEW m \in L1
  PROVE  Fit(m)
<1>1. cmd.verb = "place" /\ cmd.phase = "settled"
  BY DEF SavePlacement, DownInv, ClaimOK
<1> QED BY <1>1 DEF MoveOK

LEMMA KeysStep ==
  ASSUME DownInv, MoveOK, CrashKeepsIdentity, [Next]_vars
  PROVE  CrashKeepsIdentity'
<1>1. TypeOK
  BY DEF DownInv
<1>2. ASSUME NEW m \in L1, Step(m) \/ StepLost(m) PROVE CrashKeepsIdentity'
  <2>1. Remote(m) \/ Torn(m)
    BY <1>2 DEF Step, StepLost
  <2>2. placement' = placement
    BY <1>2 DEF Step, StepLost, Abort, control
  <2> QED BY <1>1, <2>1, <2>2, RemoteEffect, MachineShape DEF CrashKeepsIdentity
<1>3. ASSUME NEW m \in L1, Crash(m) \/ Reboot(m) PROVE CrashKeepsIdentity'
  BY <1>1, <1>3, MachineShape DEF Crash, Reboot, CrashKeepsIdentity, control
<1>4. CASE SavePlacement
  <2> SUFFICES ASSUME NEW m \in L1, running'[m] = placement'[m]
               PROVE  disk'[m] \in {placement'[m], NoId}
    BY DEF CrashKeepsIdentity
  <2>1. Fit(m) /\ UNCHANGED <<running, disk>>
    BY <1>4, SaveFindsAllFit DEF SavePlacement, machine
  <2>2. placement'[m] # NoId
    <3>1. placement'[m] \in Identities
      BY <1>4 DEF SavePlacement, Validate, L1
    <3> QED BY <3>1, FleetAssumption
  <2> QED BY <2>1, <2>2 DEF Fit, Rests
<1>5. CASE UNCHANGED <<placement, disk, running>>
  BY <1>5 DEF CrashKeepsIdentity
<1>6. ASSUME NEW m \in L1, PushHistory(m), UNCHANGED <<disk, running>>
      PROVE  CrashKeepsIdentity'
  BY <1>5, <1>6 DEF PushHistory, control
<1> QED BY <1>2, <1>3, <1>4, <1>5, <1>6, FleetKinds

-----------------------------------------------------------------------------
(* Place.                                                                  *)

\* A step that goes on with a place.
LEMMA PlaceSteps ==
  ASSUME DownInv, MoveOK, [Next]_vars, cmd'.verb = "place"
  PROVE  \/ \E m \in L1 : Step(m) \/ ProbePlacement(m)
         \/ \E m \in L1 : Crash(m) \/ Reboot(m)
         \/ PlanApply \/ Advance \/ NextMachine \/ SavePlacement \/ PlaceApplied
         \/ \E i \in Identities, m \in Machines : Place(i, m)
         \/ UNCHANGED vars
<1>1. cmd \in Command
  BY MachineShape DEF DownInv
<1>2. CASE Operator
  <2>1. \A S \in SUBSET L1 : Start(S) \/ Stop(S) => cmd'.verb # "place"
    BY DEF Start, Stop, Begin, Idle
  <2>2. \A S \in SUBSET L1 : Destroy(S) \/ Roll(S) => cmd'.verb # "place"
    BY DEF Destroy, Roll, Begin, Idle
  <2>3. Deploy => cmd'.verb # "place"
    BY DEF Deploy, Begin, Idle
  <2>4. \A m \in L1 : UpgradeChain(ChainOf[m]) => cmd'.verb # "place"
    BY DEF UpgradeChain, Begin, Idle
  <2> QED BY <1>2, <2>1, <2>2, <2>3, <2>4 DEF Operator
<1>3. CASE Control
  <2>1. ASSUME NEW m \in L1, PushBook(m) \/ PushHistory(m) PROVE FALSE
    <3>1. cmd'.verb = cmd.verb /\ cmd.phase \in {"book", "push"}
      BY <1>1, <2>1 DEF PushBook, PushHistory, Command
    <3> QED BY <3>1 DEF MoveOK
  <2>2. ASSUME NEW m \in L1, ProbeStart(m) PROVE FALSE
    BY <1>1, <2>2 DEF ProbeStart, Command
  <2>3. CASE PlanStart
    BY <1>1, <2>3 DEF PlanStart, Command
  <2>4. CASE RefreshAddressBook
    <3>1. cmd'.verb = cmd.verb /\ <<cmd.verb, cmd.phase, "book">> \in Order
      BY <1>1, <2>4 DEF RefreshAddressBook, Command
    <3> QED BY <3>1 DEF Order
  <2>5. CASE PushFailed \/ RefusePlace \/ Complete \/ \E m \in L1 : StepRefused(m)
    BY <2>5 DEF PushFailed, RefusePlace, Complete, StepRefused, Abort, Idle
  <2> QED BY <1>3, <2>1, <2>2, <2>3, <2>4, <2>5 DEF Control
<1>4. CASE Environment
  <2>1. ASSUME NEW m \in L1, ProbeStartSilent(m) PROVE FALSE
    BY <1>1, <2>1 DEF ProbeStartSilent, Command
  <2>2. ASSUME NEW m \in L1, StepLost(m) PROVE FALSE
    BY <2>2 DEF StepLost, Abort, Idle
  <2>3. CASE Interrupt
    BY <2>3 DEF Interrupt, Abort, Idle
  <2> QED BY <1>4, <2>1, <2>2, <2>3 DEF Environment
<1> QED BY <1>2, <1>3, <1>4 DEF Next, Operator

\* One remote command of a place.
LEMMA PlaceRemote ==
  ASSUME DownInv, MoveOK, cmd.verb = "place", NEW m \in L1, Step(m)
  PROVE  MoveOK'
<1>1. /\ TypeOK /\ cmd \in Command /\ cmd.sel \subseteq L1 /\ m \in cmd.todo
      /\ Remote(m) /\ ~Refuses(m)
  BY MachineShape DEF DownInv, Step, Turn
<1>2. /\ cmd'.verb = cmd.verb /\ cmd'.phase = cmd.phase /\ cmd'.sel = cmd.sel
      /\ cmd'.todo = cmd.todo \ {m} /\ placement' = placement
  BY <1>1 DEF Step, Command, control
<1>3. \A n \in L1 \ {m} : /\ disk'[n] = disk[n] /\ running'[n] = running[n]
                          /\ unit'[n] = unit[n]
  BY <1>1, RemoteEffect
<1>4. \A n \in L1 \ {m} : Fit(n) => Fit(n)'
  BY <1>2, <1>3, FitKept
<1>5. cmd.phase \in {"config", "identity", "stop", "start"}
  BY <1>1 DEF MoveOK, Remote
<1>6. CASE cmd.phase = "config"
  <2>1. UNCHANGED <<disk, running, unit>>
    BY <1>1, <1>6 DEF Remote, InstallConfig
  <2>2. Fit(m) => Fit(m)'
    BY <1>2, <2>1, FitKept
  <2> QED BY <1>1, <1>2, <1>4, <1>6, <2>2 DEF MoveOK
<1>7. m \in cmd.sel \/ cmd.phase = "config"
  BY <1>1, <1>5 DEF DownInv, ClaimOK
<1>8. /\ disk \in [L1 -> Identities \union {NoId}]
      /\ running \in [L1 -> Identities \union {NoId}]
  BY <1>1, MachineShape
<1>9. CASE cmd.phase = "identity"
  <2>1. disk'[m] = placement[m]
    BY <1>1, <1>8, <1>9 DEF Remote, InstallIdentity
  <2> QED BY <1>1, <1>2, <1>3, <1>4, <1>7, <1>9, <2>1 DEF MoveOK
<1>10. CASE cmd.phase = "stop"
  <2>1. running'[m] = NoId /\ disk'[m] = placement[m]
    BY <1>1, <1>7, <1>8, <1>10 DEF Remote, StopCommand, MoveOK
  <2>2. Fit(m)'
    BY <1>2, <2>1 DEF Fit
  <2> QED BY <1>1, <1>2, <1>3, <1>4, <1>7, <1>10, <2>1, <2>2 DEF MoveOK
<1>11. CASE cmd.phase = "start"
  <2>1. /\ disk'[m] = placement[m] /\ running'[m] \in {NoId, placement[m]}
    <3>1. disk[m] = placement[m] /\ Fit(m)
      BY <1>7, <1>11 DEF MoveOK
    <3> QED BY <1>1, <1>8, <1>11, <3>1 DEF Remote, StartOnly, Launch, Fit, Rests
  <2>2. Fit(m)'
    BY <1>2, <2>1 DEF Fit
  <2> QED BY <1>1, <1>2, <1>3, <1>4, <1>7, <1>11, <2>1, <2>2 DEF MoveOK
<1> QED BY <1>5, <1>6, <1>9, <1>10, <1>11

LEMMA MoveStep ==
  ASSUME DownInv, CrashKeepsIdentity, MoveOK, [Next]_vars
  PROVE  MoveOK'
<1> SUFFICES ASSUME cmd'.verb = "place" PROVE MoveOK'
  BY DEF MoveOK
<1>1. TypeOK /\ cmd \in Command /\ cmd.sel \subseteq L1 /\ cmd.todo \subseteq L1
  BY MachineShape DEF DownInv
<1>2. ASSUME UNCHANGED <<placement, machine>> PROVE \A n \in L1 : Fit(n) => Fit(n)'
  BY <1>2, FitKept DEF machine
<1>3. ASSUME NEW m \in L1, Step(m) PROVE MoveOK'
  <2>1. cmd.verb = "place"
    BY <1>1, <1>3 DEF Step, Command
  <2> QED BY <1>3, <2>1, PlaceRemote
<1>4. ASSUME NEW m \in L1, ProbePlacement(m) PROVE MoveOK'
  <2>1. /\ cmd.verb = "place" /\ cmd.phase = "probe" /\ cmd'.phase = "probe"
        /\ cmd'.todo = cmd.todo \ {m}
        /\ cmd'.sel = IF NeedsApply(m) THEN cmd.sel \union {m} ELSE cmd.sel
        /\ UNCHANGED <<placement, machine>>
    BY <1>1, <1>4 DEF ProbePlacement, Command, control
  <2>2. NeedsApply(m) \/ Fit(m)
    BY DEF NeedsApply, Fit, Rests, CrashKeepsIdentity
  <2> QED BY <1>2, <2>1, <2>2 DEF MoveOK
<1>5. ASSUME NEW m \in L1, Crash(m) \/ Reboot(m) PROVE MoveOK'
  <2>1. UNCHANGED <<cmd, placement, disk>>
    BY <1>5 DEF Crash, Reboot, control
  <2>2. \A n \in L1 : Fit(n) => Fit(n)'
    BY <1>1, <1>5, FitCrash
  <2> QED BY <1>1, <2>1, <2>2 DEF MoveOK
<1>6. CASE PlanApply
  <2>1. /\ cmd.verb = "place" /\ cmd.phase = "probe" /\ cmd.todo = {}
        /\ cmd'.sel = cmd.sel /\ UNCHANGED <<placement, machine>>
        /\ \/ cmd'.phase = "settled" /\ cmd.sel = {}
           \/ cmd'.phase = "config"
    BY <1>1, <1>6 DEF PlanApply, Command, control
  <2> QED BY <1>2, <2>1 DEF MoveOK
<1>7. CASE Advance
  <2>1. PICK q \in Phases :
          /\ <<cmd.verb, cmd.phase, q>> \in Order
          /\ cmd' = [cmd EXCEPT !.phase = q,
                       !.todo = IF q \in {"next", "settled", "done"}
                                THEN {} ELSE cmd.sel]
    BY <1>7 DEF Advance
  <2>2. /\ cmd.verb = "place" /\ cmd'.phase = q /\ cmd'.sel = cmd.sel /\ cmd.todo = {}
        /\ cmd'.todo = (IF q = "settled" THEN {} ELSE cmd.sel) \/ q \in {"next", "done"}
        /\ UNCHANGED <<placement, machine>>
    BY <1>1, <1>7, <2>1 DEF Advance, Command, control
  <2>3. \/ cmd.phase = "config" /\ q = "identity"
        \/ cmd.phase = "identity" /\ q = "stop"
        \/ cmd.phase = "stop" /\ q = "start"
        \/ cmd.phase = "start" /\ q = "settled"
    BY <2>1, <2>2 DEF Order
  <2>4. UNCHANGED <<disk, running, unit>>
    BY <2>2 DEF machine
  <2> QED BY <1>1, <1>2, <2>2, <2>3, <2>4 DEF MoveOK
<1>8. CASE NextMachine
  <2>1. cmd.verb = "place" /\ cmd.phase = "next"
    BY <1>1, <1>8 DEF NextMachine, Command
  <2> QED BY <2>1 DEF MoveOK
<1>9. CASE SavePlacement
  <2>1. \/ cmd'.phase = "done" /\ cmd'.sel = cmd.sel
        \/ cmd'.phase = "probe" /\ cmd'.todo = L1 /\ cmd'.sel = {}
    BY <1>1, <1>9 DEF SavePlacement, Command
  <2> QED BY <2>1 DEF MoveOK
<1>10. CASE PlaceApplied
  <2>1. cmd'.phase = "done"
    BY <1>1, <1>10 DEF PlaceApplied, Command
  <2> QED BY <2>1 DEF MoveOK
<1>11. ASSUME NEW i \in Identities, NEW m \in Machines, Place(i, m) PROVE MoveOK'
  BY <1>11 DEF Place, Begin, Idle, MoveOK
<1>12. CASE UNCHANGED vars
  <2>1. UNCHANGED <<cmd, placement, disk, machine>>
    BY <1>12 DEF vars, machine
  <2> QED BY <1>1, <1>2, <2>1 DEF MoveOK
<1> QED BY <1>3, <1>4, <1>5, <1>6, <1>7, <1>8, <1>9, <1>10, <1>11, <1>12, PlaceSteps

-----------------------------------------------------------------------------
(* Upgrade and destroy.                                                    *)

LEMMA HistoryKept ==
  ASSUME HistoryOK, UNCHANGED <<file, history>>, cmd'.req = cmd.req,
         cmd'.verb = cmd.verb, cmd.phase # "push"
  PROVE  HistoryOK'
BY DEF HistoryOK

LEMMA HistoryControl ==
  ASSUME DownInv, HistoryOK, Control
  PROVE  HistoryOK'
<1>1. TypeOK /\ cmd \in Command /\ cmd.req \subseteq L1 /\ file \in [L1 -> Nat]
  BY MachineShape DEF DownInv, TypeOK
<1>2. ASSUME NEW m \in L1, Step(m) PROVE HistoryOK'
  <2>1. /\ cmd'.verb = cmd.verb /\ cmd'.req = cmd.req /\ cmd.phase # "push"
        /\ history' = history /\ Remote(m)
    BY <1>1, <1>2 DEF Step, Remote, Command, control
  <2>2. \A n \in L1 : file'[n] \in {file[n], history[ChainOf[n]]}
    BY <1>1, <2>1, RemoteEffect
  <2> QED BY <1>1, <2>1, <2>2 DEF HistoryOK
<1>3. ASSUME NEW m \in L1, PushHistory(m) PROVE HistoryOK'
  <2>1. /\ cmd.phase = "push" /\ cmd'.phase = "push" /\ cmd'.verb = cmd.verb
        /\ cmd'.req = cmd.req /\ cmd'.todo = cmd.todo \ {m} /\ history' = history
        /\ \/ cmd'.failed
           \/ cmd'.failed = cmd.failed /\ file'[m] = history[ChainOf[m]]
        /\ cmd.failed => cmd'.failed
    BY <1>1, <1>3 DEF PushHistory, PushUpgrade, Command, control
  <2>2. \A n \in L1 \ {m} : file'[n] = file[n]
    BY <1>1, <1>3 DEF PushHistory, PushUpgrade, machine
  <2> QED BY <1>1, <2>1, <2>2 DEF HistoryOK
<1>4. ASSUME NEW m \in L1, PushBook(m) PROVE HistoryOK'
  BY <1>1, <1>4, HistoryKept DEF PushBook, InstallConfig, machine, Command, control
<1>5. ASSUME NEW m \in L1, ProbePlacement(m) \/ ProbeStart(m) PROVE HistoryOK'
  BY <1>1, <1>5 DEF ProbePlacement, ProbeStart, HistoryOK, Command
<1>6. CASE PlanApply \/ PlanStart
  BY <1>1, <1>6 DEF PlanApply, PlanStart, HistoryOK, Command
<1>7. CASE Advance
  <2>1. /\ cmd.todo = {} /\ ~cmd.failed /\ UNCHANGED <<file, history>>
        /\ cmd'.req = cmd.req /\ cmd'.verb = cmd.verb
    BY <1>1, <1>7 DEF Advance, Command, machine, control
  <2> QED BY <2>1 DEF HistoryOK
<1>8. CASE RefreshAddressBook
  <2>1. cmd'.verb = cmd.verb /\ cmd.verb # "upgrade"
    BY <1>1, <1>8 DEF RefreshAddressBook, Order, Command
  <2> QED BY <2>1 DEF HistoryOK
<1>9. CASE NextMachine
  <2>1. /\ cmd.phase = "next" /\ UNCHANGED <<file, history>>
        /\ cmd'.req = cmd.req /\ cmd'.verb = cmd.verb
    BY <1>1, <1>9 DEF NextMachine, Command, machine, control
  <2> QED BY <2>1, HistoryKept
<1>10. CASE SavePlacement \/ PlaceApplied
  <2>1. cmd'.verb = "place"
    BY <1>1, <1>10 DEF SavePlacement, PlaceApplied, Command, DownInv, ClaimOK
  <2> QED BY <2>1 DEF HistoryOK
<1>11. CASE \/ PushFailed \/ RefusePlace \/ Complete
            \/ \E m \in L1 : StepRefused(m)
  BY <1>11 DEF PushFailed, RefusePlace, Complete, StepRefused, Abort, Idle, HistoryOK
<1> QED BY <1>2, <1>3, <1>4, <1>5, <1>6, <1>7, <1>8, <1>9, <1>10, <1>11 DEF Control

LEMMA HistoryStep ==
  ASSUME DownInv, HistoryOK, [Next]_vars
  PROVE  HistoryOK'
<1>1. cmd \in Command
  BY MachineShape DEF DownInv
<1>2. CASE Operator
  <2>1. ASSUME NEW m \in L1, UpgradeChain(ChainOf[m]) PROVE HistoryOK'
    BY <2>1 DEF UpgradeChain, Begin, Idle, HistoryOK
  <2>2. ASSUME NEW i \in Identities, NEW m \in Machines, Place(i, m) PROVE HistoryOK'
    BY <2>2 DEF Place, Begin, Idle, HistoryOK
  <2>3. ASSUME NEW S \in SUBSET L1, Start(S) \/ Stop(S) PROVE HistoryOK'
    BY <2>3 DEF Start, Stop, Begin, Idle, HistoryOK
  <2>4. ASSUME NEW S \in SUBSET L1, Destroy(S) \/ Roll(S) PROVE HistoryOK'
    BY <2>4 DEF Destroy, Roll, Begin, Idle, HistoryOK
  <2>5. CASE Deploy
    BY <2>5 DEF Deploy, Begin, Idle, HistoryOK
  <2> QED BY <1>2, <2>1, <2>2, <2>3, <2>4, <2>5 DEF Operator
<1>3. CASE Environment
  <2>1. ASSUME NEW m \in L1, StepLost(m) \/ Interrupt PROVE HistoryOK'
    BY <2>1 DEF StepLost, Interrupt, Abort, Idle, HistoryOK
  <2>2. ASSUME NEW m \in L1, ProbeStartSilent(m) PROVE HistoryOK'
    BY <1>1, <2>2 DEF ProbeStartSilent, HistoryOK, Command
  <2>3. ASSUME NEW m \in L1, Crash(m) \/ Reboot(m) PROVE HistoryOK'
    BY <2>3 DEF Crash, Reboot, HistoryOK, control
  <2>4. CASE Interrupt
    BY <2>4 DEF Interrupt, Abort, Idle, HistoryOK
  <2> QED BY <1>3, <2>1, <2>2, <2>3, <2>4 DEF Environment
<1>4. CASE UNCHANGED vars
  BY <1>4 DEF vars, HistoryOK
<1> QED BY <1>2, <1>3, <1>4, HistoryControl DEF Next

LEMMA WipeStep ==
  ASSUME DownInv, WipeOK, [Next]_vars
  PROVE  WipeOK'
<1>1. cmd \in Command
  BY MachineShape DEF DownInv
<1>2. CASE Operator
  <2>1. ASSUME NEW m \in L1, UpgradeChain(ChainOf[m]) PROVE WipeOK'
    BY <2>1 DEF UpgradeChain, Begin, Idle, WipeOK
  <2>2. ASSUME NEW i \in Identities, NEW m \in Machines, Place(i, m) PROVE WipeOK'
    BY <2>2 DEF Place, Begin, Idle, WipeOK
  <2>3. ASSUME NEW S \in SUBSET L1, Start(S) \/ Stop(S) PROVE WipeOK'
    BY <2>3 DEF Start, Stop, Begin, Idle, WipeOK
  <2>4. ASSUME NEW S \in SUBSET L1, Destroy(S) \/ Roll(S) PROVE WipeOK'
    BY <2>4 DEF Destroy, Roll, Begin, Idle, WipeOK
  <2>5. CASE Deploy
    BY <2>5 DEF Deploy, Begin, Idle, WipeOK
  <2> QED BY <1>2, <2>1, <2>2, <2>3, <2>4, <2>5 DEF Operator
<1>3. CASE Advance
  <2>1. PICK q \in Phases :
          /\ <<cmd.verb, cmd.phase, q>> \in Order
          /\ cmd'.phase = q /\ cmd'.verb = cmd.verb
    BY <1>1, <1>3 DEF Advance, Command
  <2> QED BY <2>1 DEF Order, WipeOK
<1>4. ASSUME NEW m \in L1,
             \/ Step(m) \/ ProbePlacement(m) \/ ProbeStart(m) \/ PushBook(m)
             \/ PushHistory(m) \/ ProbeStartSilent(m) \/ Crash(m) \/ Reboot(m)
      PROVE  WipeOK'
  <2>1. cmd'.verb = cmd.verb /\ cmd'.phase = cmd.phase
    BY <1>1, <1>4 DEF Step, ProbePlacement, ProbeStart, PushBook, PushHistory,
                      ProbeStartSilent, Crash, Reboot, Command
  <2> QED BY <2>1 DEF WipeOK
<1>5. CASE \/ PlanApply \/ PlanStart \/ RefreshAddressBook \/ NextMachine
           \/ SavePlacement \/ PlaceApplied
  BY <1>1, <1>5 DEF PlanApply, PlanStart, RefreshAddressBook, NextMachine,
                    SavePlacement, PlaceApplied, WipeOK, Command
<1>6. CASE \/ PushFailed \/ RefusePlace \/ Complete \/ Interrupt
           \/ \E m \in L1 : StepRefused(m) \/ StepLost(m)
  BY <1>6 DEF PushFailed, RefusePlace, Complete, Interrupt, StepRefused, StepLost, Abort,
              Idle, WipeOK
<1>7. CASE UNCHANGED vars
  BY <1>7 DEF vars, WipeOK
<1> QED BY <1>2, <1>3, <1>4, <1>5, <1>6, <1>7 DEF Next, Control, Environment

-----------------------------------------------------------------------------
(* What holds of every reachable state and step.                           *)

LEMMA MoveInit == Init => MoveInv
<1> SUFFICES ASSUME Init PROVE MoveInv
  OBVIOUS
<1>1. DownInv /\ TypeOK
  BY DownInit DEF DownInv
<1>2. CrashKeepsIdentity
  BY <1>1, MachineShape DEF Init, CrashKeepsIdentity
<1> QED BY <1>1, <1>2 DEF Init, Idle, MoveInv, MoveOK, HistoryOK, WipeOK

LEMMA MoveAlways == Spec => []MoveInv
<1>1. MoveInv /\ [Next]_vars => MoveInv'
  BY DownStep, KeysStep, MoveStep, HistoryStep, WipeStep DEF MoveInv
<1> QED BY MoveInit, <1>1, PTL DEF Spec

\* A crash or a reboot never changes who a node is, in the middle of any verb
\* and after any interrupted one (place.go:76, lifecycle.go:144).
THEOREM CrashesKeepIdentity == Spec => []CrashKeepsIdentity
<1>1. MoveInv => CrashKeepsIdentity
  BY DEF MoveInv
<1> QED BY MoveAlways, <1>1, PTL

\* No machine goes down for an upgrade while another of its chain is without
\* the history (upgrade.go:242).
THEOREM HistoryComesFirst == Spec => []HistoryBeforeRestart
<1>1. MoveInv => HistoryBeforeRestart
  BY DEF MoveInv, HistoryOK, HistoryBeforeRestart
<1> QED BY MoveAlways, <1>1, PTL

\* Place writes placement.json onto a fleet that serves the old one, so two
\* moves are never bundled in one restart (place.go:36).
THEOREM MovesAreIsolated == Spec => IsolatedMove
<1> DEFINE Isolated == placement' # placement =>
                         \A m \in L1 : running[m] \in {NoId, placement[m]}
<1>1. ASSUME MoveInv, [Next]_vars, placement' # placement, NEW m \in L1
      PROVE  running[m] \in {NoId, placement[m]}
  <2>1. SavePlacement
    BY <1>1, FleetKinds DEF MoveInv, Step, StepLost, Crash, Reboot, PushHistory, Abort,
                            control
  <2>2. Fit(m)
    BY <1>1, <2>1, SaveFindsAllFit DEF MoveInv
  <2> QED BY <2>2 DEF Fit, Rests
<1>2. MoveInv /\ [Next]_vars => [Isolated]_vars
  BY <1>1
<1> HIDE DEF Isolated
<1>3. Spec => [][Isolated]_vars
  <2>1. MoveInv /\ [Next]_vars => MoveInv'
    BY DownStep, KeysStep, MoveStep, HistoryStep, WipeStep DEF MoveInv
  <2> QED BY MoveInit, <2>1, <1>2, PTL DEF Spec
<1> QED BY <1>3 DEF IsolatedMove, Isolated

\* Destroy deletes no data under a process of the machines it was told to
\* destroy, whatever crashes and reboots meanwhile (lifecycle.go:341).
THEOREM DestroyKillsFirst == Spec => KillBeforeWipe
<1> DEFINE Killed == \A m \in L1 : data[m] /\ ~data'[m] =>
                       \A n \in cmd.sel : running[n] = NoId
<1>1. ASSUME MoveInv, [Next]_vars, NEW m \in L1, data[m], ~data'[m], NEW n \in cmd.sel
      PROVE  running[n] = NoId
  <2>1. TypeOK /\ data \in [L1 -> BOOLEAN] /\ cmd.sel \subseteq L1
    BY <1>1, MachineShape DEF MoveInv, DownInv, TypeOK
  <2>2. cmd.phase = "wipe"
    <3>1. ASSUME NEW k \in L1, Step(k) \/ StepLost(k) PROVE cmd.phase = "wipe"
      <4>1. Remote(k) \/ Torn(k)
        BY <3>1 DEF Step, StepLost
      <4> QED BY <1>1, <2>1, <4>1, RemoteEffect
    <3>2. ASSUME NEW k \in L1, Crash(k) \/ Reboot(k) PROVE FALSE
      BY <1>1, <2>1, <3>2 DEF Crash, Reboot
    <3>3. data' # data
      BY <1>1
    <3> QED BY <1>1, <3>1, <3>2, <3>3, FleetKinds DEF MoveInv, SavePlacement, machine
  <2>3. cmd.verb = "destroy"
    BY <1>1, <2>2 DEF MoveInv, WipeOK
  <2> QED BY <1>1, <2>1, <2>2, <2>3 DEF MoveInv, DownInv, StoppingOK, Rests
<1>2. MoveInv /\ [Next]_vars => [Killed]_vars
  BY <1>1
<1> HIDE DEF Killed
<1>3. Spec => [][Killed]_vars
  <2>1. MoveInv /\ [Next]_vars => MoveInv'
    BY DownStep, KeysStep, MoveStep, HistoryStep, WipeStep DEF MoveInv
  <2> QED BY MoveInit, <2>1, <1>2, PTL DEF Spec
<1> QED BY <1>3 DEF KillBeforeWipe, Killed

\* All stops of a place come before all its starts, and when the first process
\* is started every machine is fit.
LEMMA PlaceDistinct ==
  ASSUME MoveInv, PlacementInv, [Next]_vars, cmd.verb = "place", DistinctIdentities,
         UserInstall \/ ~\E m \in L1 : Crash(m) \/ Reboot(m)
  PROVE  DistinctIdentities'
<1>1. /\ DownInv /\ MoveOK /\ TypeOK /\ cmd.todo \subseteq L1
      /\ running \in [L1 -> Identities \union {NoId}]
      /\ disk \in [L1 -> Identities \union {NoId}]
  BY MachineShape DEF MoveInv, DownInv
<1>2. ASSUME \A m \in L1 : running'[m] \in {NoId, running[m]}
      PROVE  DistinctIdentities'
  BY <1>2 DEF DistinctIdentities
<1>3. ASSUME NEW m \in L1, Step(m) \/ StepLost(m)
      PROVE  DistinctIdentities'
  <2>1. (Remote(m) \/ Torn(m)) /\ m \in cmd.todo
    BY <1>3 DEF Step, StepLost, Turn
  <2>2. CASE running'[m] \in {running[m], NoId}
    BY <1>1, <1>2, <2>1, <2>2, RemoteEffect
  <2>3. CASE running'[m] \notin {running[m], NoId}
    <3>1. cmd.phase = "start"
      <4>1. cmd.phase \notin {"config", "identity", "stop"}
        BY <1>1, <2>1, <2>3 DEF Remote, Torn, StopCommand, InstallIdentity, InstallConfig
      <4> QED BY <1>1, <2>1, <4>1 DEF MoveOK, Remote, Torn
    <3>2. cmd.todo \subseteq cmd.sel
      BY <1>1, <3>1 DEF DownInv, ClaimOK
    <3>3. \A n \in L1 : running'[n] \in {NoId, placement[n]}
      <4>1. \A n \in L1 : running[n] \in {NoId, placement[n]}
        BY <1>1, <3>1 DEF MoveOK, Fit, Rests
      <4>2. running'[m] = disk[m] /\ disk[m] = placement[m]
        BY <1>1, <2>1, <2>3, <3>1, <3>2, RemoteEffect DEF MoveOK
      <4> QED BY <1>1, <2>1, <4>1, <4>2, RemoteEffect
    <3>4. \A n, k \in L1 : placement[n] = placement[k] => n = k
      BY DEF PlacementInv, PlacementValid, Validate, L1
    <3> QED BY <3>3, <3>4 DEF DistinctIdentities
  <2> QED BY <2>2, <2>3
<1>4. ASSUME NEW m \in L1, Crash(m) \/ Reboot(m)
      PROVE  DistinctIdentities'
  <2>1. UserInstall
    BY <1>4
  <2>2. \A n \in L1 : unit[n] # "enabled"
    BY <1>1, <2>1 DEF DownInv, NoUnitsToEnable
  <2> QED BY <1>1, <1>2, <1>4, <2>1, <2>2 DEF Crash, Reboot
<1>5. CASE running' = running
  BY <1>2, <1>5
<1> QED BY <1>1, <1>3, <1>4, <1>5, FleetKinds DEF SavePlacement, machine

\* A place never makes two machines serve one identity: all stops come before
\* all starts (place.go:76).  In a user install not even a crash does.
THEOREM PlaceNeverDoubles == Spec => PlaceKeepsIdentitiesDistinct
<1> DEFINE Kept == /\ cmd.verb = "place"
                   /\ UserInstall \/ cmd' # cmd
                   /\ DistinctIdentities
                   => DistinctIdentities'
           Inv == MoveInv /\ PlacementInv
<1>1. Inv /\ [Next]_vars => [Kept]_vars
  <2> SUFFICES ASSUME Inv, [Next]_vars, cmd.verb = "place", UserInstall \/ cmd' # cmd,
                      DistinctIdentities
               PROVE  DistinctIdentities'
    OBVIOUS
  <2>1. cmd' # cmd => ~\E m \in L1 : Crash(m) \/ Reboot(m)
    BY DEF Crash, Reboot
  <2> QED BY <2>1, PlaceDistinct
<1>2. Inv /\ [Next]_vars => Inv'
  BY PlacementStep, DownStep, KeysStep, MoveStep, HistoryStep, WipeStep DEF MoveInv
<1>3. Init => Inv
  BY MoveInit, PlacementInit
<1> HIDE DEF Kept, Inv
<1>4. Spec => [][Kept]_vars
  BY <1>1, <1>2, <1>3, PTL DEF Spec
<1> QED BY <1>4 DEF PlaceKeepsIdentitiesDistinct, Kept

-----------------------------------------------------------------------------
(* One machine for each identity.                                          *)

\* Crashes either do not happen or leave the process down.  A process that
\* systemd restarts takes whatever key a verb in progress has written.
StaysDown == UserInstall \/ ~Crashes

Calm == faults = 0 /\ \A c \in Chains : history[c] = 0

\* Every running node serves the identity it is assigned now.
Orderly == \A m \in L1 : running[m] \in {NoId, placement[m]}

\* Between the write of placement.json and the first start.
Moving ==
  /\ cmd.verb = "place" /\ cmd.leg = "after"
  /\ cmd.phase \in {"probe", "config", "identity", "stop"}

\* Every verb but an upgrade installs the assigned key on a machine before it
\* starts it.
KeyedOK ==
  cmd.verb # "upgrade" =>
    \A m \in cmd.sel :
      /\ cmd.phase = "identity" => m \in cmd.todo \/ disk[m] = placement[m]
      /\ \/ cmd.phase \in {"start", "enable"}
         \/ cmd.verb = "start" /\ cmd.phase = "config"
         => disk[m] = placement[m]

VerbOK == IF cmd.verb = "none" THEN cmd.phase = "idle" ELSE cmd.verb \in Verbs

\* A deploy of the whole fleet has stopped every machine before it starts one.
DeployOK ==
  cmd.verb = "deploy" =>
    /\ cmd.sel = L1
    /\ cmd.phase \in {"stop", "package", "unit", "identity", "start", "ready", "done"}
    /\ \A m \in L1 :
         /\ cmd.phase = "stop" => m \in cmd.todo \/ running[m] = NoId
         /\ cmd.phase \in {"package", "unit", "identity"} => running[m] = NoId
         /\ cmd.phase = "start" => running[m] \in {NoId, placement[m]}

OnceOK == DistinctIdentities /\ (Moving \/ Orderly) /\ cmd.verb # "upgrade"

KeyedInv == MoveInv /\ PlacementInv /\ KeyedOK /\ VerbOK

LEMMA OrderlyIsDistinct ==
  ASSUME PlacementInv, Orderly
  PROVE  DistinctIdentities
BY DEF PlacementInv, PlacementValid, Validate, Orderly, DistinctIdentities, L1

\* What begins: a verb at its first phase, on the machines it was told.
LEMMA Beginnings ==
  ASSUME TypeOK, Operator
  PROVE  /\ cmd = Idle /\ cmd'.verb \in Verbs
         /\ cmd'.phase \in {"probe", "disable", "kill", "stop", "next", "push"}
         /\ cmd'.verb = "deploy" => /\ cmd'.sel = L1 /\ cmd'.todo = L1
                                    /\ cmd'.phase = "stop"
         /\ cmd'.verb # "upgrade" => history' = history
         /\ cmd'.verb = "upgrade" => \E m \in L1 : UpgradeChain(ChainOf[m])
         /\ UNCHANGED <<placement, machine, faults>>
<1>1. \A i \in Identities, m \in Machines : Place(i, m) =>
        /\ cmd'.verb = "place" /\ cmd'.phase = "probe" /\ history' = history
        /\ cmd = Idle /\ cmd'.verb \in Verbs /\ UNCHANGED <<placement, machine, faults>>
  BY DEF Place, Begin, Idle
<1>2. \A S \in SUBSET L1 : Start(S) =>
        /\ cmd'.verb = "start" /\ cmd'.phase = "probe" /\ history' = history
        /\ cmd = Idle /\ cmd'.verb \in Verbs /\ UNCHANGED <<placement, machine, faults>>
  BY DEF Start, Begin, Idle
<1>3. \A S \in SUBSET L1 : Stop(S) =>
        /\ cmd'.verb = "stop" /\ cmd'.phase = "disable" /\ history' = history
        /\ cmd = Idle /\ cmd'.verb \in Verbs /\ UNCHANGED <<placement, machine, faults>>
  BY DEF Stop, Begin, Idle
<1>4. \A S \in SUBSET L1 : Destroy(S) =>
        /\ cmd'.verb = "destroy" /\ cmd'.phase = "kill" /\ history' = history
        /\ cmd = Idle /\ cmd'.verb \in Verbs /\ UNCHANGED <<placement, machine, faults>>
  BY DEF Destroy, Begin, Idle
<1>5. \A S \in SUBSET L1 : Roll(S) =>
        /\ cmd'.verb = "roll" /\ cmd'.phase = "next" /\ history' = history
        /\ cmd = Idle /\ cmd'.verb \in Verbs /\ UNCHANGED <<placement, machine, faults>>
  BY DEF Roll, Begin, Idle
<1>6. Deploy =>
        /\ cmd'.verb = "deploy" /\ cmd'.phase = "stop" /\ history' = history
        /\ cmd'.sel = L1 /\ cmd'.todo = L1
        /\ cmd = Idle /\ cmd'.verb \in Verbs /\ UNCHANGED <<placement, machine, faults>>
  BY DEF Deploy, Begin, Idle
<1>7. \A m \in L1 : UpgradeChain(ChainOf[m]) =>
        /\ cmd'.verb = "upgrade" /\ cmd'.phase = "push"
        /\ cmd = Idle /\ cmd'.verb \in Verbs /\ UNCHANGED <<placement, machine, faults>>
  BY DEF UpgradeChain, Begin, Idle
<1>8. CASE \E i \in Identities, m \in Machines : Place(i, m)
  BY <1>1, <1>8
<1>9. CASE \E S \in SUBSET L1 \ {{}} : Start(S) \/ Stop(S) \/ Destroy(S) \/ Roll(S)
  BY <1>2, <1>3, <1>4, <1>5, <1>9
<1>10. CASE \E m \in L1 : UpgradeChain(ChainOf[m])
  BY <1>7, <1>10
<1> QED BY <1>6, <1>8, <1>9, <1>10 DEF Operator

\* The verb goes on or ends, and only a fault is counted as one.
LEMMA VerbGoesOn ==
  ASSUME PlacementInv, DownInv, [Next]_vars, ~Operator
  PROVE  /\ cmd' = Idle \/ cmd'.verb = cmd.verb
         /\ history' = history
         /\ faults' \in {faults, faults + 1}
<1>1. TypeOK /\ cmd \in Command /\ (cmd.phase = "settled" => cmd.verb = "place")
  BY MachineShape DEF DownInv, ClaimOK
<1>2. CASE Control
  <2>1. cmd' = Idle \/ cmd'.verb = cmd.verb
    <3>1. CASE SavePlacement
      BY <1>1, <3>1 DEF SavePlacement, Command
    <3> QED BY <1>1, <1>2, <3>1, ControlKeepsVerb DEF SameVerb
  <2>2. ASSUME NEW m \in L1, Step(m) \/ StepRefused(m) \/ ProbePlacement(m) \/ ProbeStart(m)
        PROVE  history' = history /\ faults' = faults
    BY <2>2 DEF Step, StepRefused, ProbePlacement, ProbeStart, Abort, control
  <2>3. ASSUME NEW m \in L1, PushBook(m) \/ PushHistory(m)
        PROVE  history' = history /\ faults' \in {faults, faults + 1}
    BY <2>3 DEF PushBook, PushHistory, control
  <2>4. CASE PlanApply \/ PlanStart \/ RefreshAddressBook
    BY <2>1, <2>4 DEF PlanApply, PlanStart, RefreshAddressBook, Silent, control
  <2>5. CASE \/ Advance \/ PushFailed \/ NextMachine \/ SavePlacement \/ RefusePlace
             \/ PlaceApplied \/ Complete
    BY <2>1, <2>5 DEF Advance, PushFailed, NextMachine, SavePlacement, RefusePlace,
                      PlaceApplied, Complete, Abort, control
  <2> QED BY <1>2, <2>1, <2>2, <2>3, <2>4, <2>5 DEF Control
<1>3. CASE Environment
  <2>1. cmd' = Idle \/ cmd'.verb = cmd.verb
    BY <1>1, <1>3, EnvironmentKeepsVerb DEF SameVerb
  <2>2. history' = history /\ faults' \in {faults, faults + 1}
    BY <1>3 DEF Environment, StepLost, ProbeStartSilent, Crash, Reboot, Interrupt, Abort,
                control
  <2> QED BY <2>1, <2>2
<1>4. CASE UNCHANGED vars
  BY <1>4 DEF vars
<1> QED BY <1>2, <1>3, <1>4 DEF Next

LEMMA VerbStep ==
  ASSUME KeyedInv, [Next]_vars
  PROVE  VerbOK'
<1>1. TypeOK /\ cmd \in Command /\ DownInv /\ "none" \notin Verbs
  BY MachineShape, FleetAssumption DEF KeyedInv, MoveInv, DownInv, AllVerbs
<1>2. CASE Operator
  BY <1>1, <1>2, Beginnings DEF VerbOK
<1>3. CASE cmd' = Idle
  BY <1>3 DEF VerbOK, Idle
<1>4. CASE ~Operator /\ cmd' # Idle
  <2>1. cmd'.verb = cmd.verb
    BY <1>1, <1>4, VerbGoesOn DEF KeyedInv
  <2>2. CASE cmd.verb # "none"
    BY <2>1, <2>2 DEF KeyedInv, VerbOK
  <2>3. CASE cmd.verb = "none"
    <3>1. cmd.phase = "idle"
      BY <2>3 DEF KeyedInv, VerbOK
    <3>2. ASSUME Control PROVE FALSE
      <4>1. \A m \in L1 : ~Step(m) /\ ~PushBook(m) /\ ~PushHistory(m)
        BY <3>1 DEF Step, Remote, PushBook, PushHistory
      <4>2. \A m \in L1 : ~ProbePlacement(m) /\ ~ProbeStart(m)
        BY <3>1 DEF ProbePlacement, ProbeStart
      <4>3. ~\E m \in L1 : StepRefused(m)
        BY <1>4 DEF StepRefused, Abort
      <4>4. ~PlanApply /\ ~PlanStart /\ ~NextMachine /\ ~SavePlacement /\ ~PlaceApplied
        BY <3>1 DEF PlanApply, PlanStart, NextMachine, SavePlacement, PlaceApplied
      <4>5. ~Advance /\ ~RefreshAddressBook
        BY <2>3 DEF Advance, RefreshAddressBook, Order
      <4>6. ~PushFailed /\ ~RefusePlace /\ ~Complete
        BY <1>4 DEF PushFailed, RefusePlace, Complete, Abort
      <4> QED BY <3>2, <4>1, <4>2, <4>3, <4>4, <4>5, <4>6 DEF Control
    <3>3. CASE Environment
      <4>1. cmd' = cmd
        BY <1>4, <3>1, <3>3 DEF Environment, StepLost, ProbeStartSilent, Interrupt, Abort,
                                Crash, Reboot
      <4> QED BY <4>1 DEF KeyedInv, VerbOK
    <3>4. CASE UNCHANGED vars
      BY <3>4 DEF vars, KeyedInv, VerbOK
    <3> QED BY <1>4, <3>2, <3>3, <3>4 DEF Next
  <2> QED BY <2>2, <2>3
<1> QED BY <1>2, <1>3, <1>4

\* One remote command of a verb in progress.
LEMMA KeyedRemote ==
  ASSUME KeyedInv, NEW m \in L1, Step(m)
  PROVE  KeyedOK'
<1>1. /\ TypeOK /\ cmd \in Command /\ cmd.sel \subseteq L1
      /\ disk \in [L1 -> Identities \union {NoId}]
  BY MachineShape DEF KeyedInv, MoveInv, DownInv
<1>2. /\ Remote(m) /\ placement' = placement
      /\ cmd'.verb = cmd.verb /\ cmd'.phase = cmd.phase /\ cmd'.sel = cmd.sel
      /\ cmd'.todo = cmd.todo \ {m}
  BY <1>1 DEF Step, Command, control
<1>3. CASE cmd.phase = "identity"
  <2>1. disk' = [disk EXCEPT ![m] = placement[m]]
    BY <1>2, <1>3 DEF Remote, InstallIdentity
  <2> QED BY <1>1, <1>2, <1>3, <2>1 DEF KeyedInv, KeyedOK
<1>4. CASE cmd.phase \in {"config", "start", "enable"}
  <2>1. disk' = disk
    BY <1>2, <1>4 DEF Remote, InstallConfig, StartOnly, EnableAndStart
  <2> QED BY <1>2, <1>4, <2>1 DEF KeyedInv, KeyedOK
<1>5. CASE cmd.phase \notin {"identity", "config", "start", "enable"}
  BY <1>2, <1>5 DEF KeyedOK
<1> QED BY <1>3, <1>4, <1>5

LEMMA KeyedStep ==
  ASSUME KeyedInv, [Next]_vars
  PROVE  KeyedOK'
<1>1. TypeOK /\ cmd \in Command /\ DownInv /\ MoveOK
  BY MachineShape DEF KeyedInv, MoveInv, DownInv
<1>2. ASSUME cmd'.phase \notin {"identity", "config", "start", "enable"}
      PROVE  KeyedOK'
  BY <1>2 DEF KeyedOK
<1>3. CASE Operator
  BY <1>1, <1>2, <1>3, Beginnings
<1>4. CASE cmd' = Idle
  BY <1>2, <1>4 DEF Idle
<1>5. ASSUME NEW m \in L1, ProbePlacement(m) \/ ProbeStart(m) \/ ProbeStartSilent(m)
      PROVE  KeyedOK'
  BY <1>1, <1>2, <1>5 DEF ProbePlacement, ProbeStart, ProbeStartSilent, Command
<1>6. ASSUME NEW m \in L1, PushBook(m) \/ PushHistory(m)
      PROVE  KeyedOK'
  BY <1>1, <1>2, <1>6 DEF PushBook, PushHistory, Command
<1>7. CASE PlanApply
  <2>1. cmd'.verb = "place"
    BY <1>1, <1>7 DEF PlanApply, Command
  <2>2. cmd'.phase \in {"config", "settled"}
    BY <1>1, <1>7 DEF PlanApply, Command
  <2> QED BY <2>1, <2>2 DEF KeyedOK
<1>8. CASE PlanStart \/ RefreshAddressBook \/ NextMachine
  BY <1>1, <1>2, <1>8 DEF PlanStart, RefreshAddressBook, NextMachine, Command
<1>9. CASE SavePlacement \/ PlaceApplied
  BY <1>1, <1>2, <1>9 DEF SavePlacement, PlaceApplied, Command
<1>10. CASE Advance
  <2>1. PICK q \in Phases :
          /\ <<cmd.verb, cmd.phase, q>> \in Order
          /\ cmd' = [cmd EXCEPT !.phase = q,
                       !.todo = IF q \in {"next", "settled", "done"}
                                THEN {} ELSE cmd.sel]
    BY <1>10 DEF Advance
  <2>2. /\ cmd'.phase = q /\ cmd'.verb = cmd.verb /\ cmd'.sel = cmd.sel /\ cmd.todo = {}
        /\ q = "identity" => cmd'.todo = cmd.sel
        /\ UNCHANGED <<placement, disk>>
    BY <1>1, <1>10, <2>1 DEF Advance, Command, machine, control
  <2>3. CASE q \in {"start", "enable", "config"}
    <3>1. \/ cmd.phase = "identity"
          \/ cmd.verb = "place"
          \/ cmd.verb = "start" /\ cmd.phase = "config"
          \/ cmd.verb = "upgrade"
      BY <2>1, <2>3 DEF Order
    <3>2. CASE cmd.verb = "place"
      <4>1. q = "start" => cmd.phase = "stop"
        BY <2>1, <3>2 DEF Order
      <4>2. q # "enable"
        BY <2>1, <3>2 DEF Order
      <4>3. q = "start" => \A m \in cmd.sel : disk[m] = placement[m]
        BY <1>1, <3>2, <4>1 DEF MoveOK
      <4> QED BY <2>2, <2>3, <3>2, <4>2, <4>3 DEF KeyedOK
    <3>3. CASE cmd.verb # "place"
      BY <2>2, <2>3, <3>1, <3>3 DEF KeyedInv, KeyedOK
    <3> QED BY <3>2, <3>3
  <2>4. CASE q = "identity"
    BY <2>2, <2>4 DEF KeyedOK
  <2> QED BY <1>2, <2>2, <2>3, <2>4
<1>11. ASSUME UNCHANGED <<cmd, placement, disk>> PROVE KeyedOK'
  BY <1>11 DEF KeyedInv, KeyedOK
<1>12. ASSUME NEW m \in L1, Crash(m) \/ Reboot(m) PROVE KeyedOK'
  BY <1>11, <1>12 DEF Crash, Reboot, control
<1>13. CASE UNCHANGED vars
  BY <1>11, <1>13 DEF vars
<1>14. CASE PushFailed \/ RefusePlace \/ Complete \/ Interrupt
  BY <1>4, <1>14 DEF PushFailed, RefusePlace, Complete, Interrupt, Abort
<1>15. ASSUME NEW m \in L1, StepRefused(m) \/ StepLost(m) PROVE KeyedOK'
  BY <1>4, <1>15 DEF StepRefused, StepLost, Abort
<1> QED BY <1>3, <1>5, <1>6, <1>7, <1>8, <1>9, <1>10, <1>12, <1>13, <1>14, <1>15,
           KeyedRemote DEF Next, Control, Environment
LEMMA KeyedNext ==
  ASSUME KeyedInv, [Next]_vars
  PROVE  KeyedInv'
BY KeyedStep, VerbStep, PlacementStep, DownStep, KeysStep, MoveStep, HistoryStep, WipeStep
   DEF KeyedInv, MoveInv

LEMMA KeyedInit == Init => KeyedInv
BY MoveInit, PlacementInit DEF Init, Idle, KeyedInv, KeyedOK, VerbOK

\* What a process may become: what it is, nothing, or what control starts on a
\* machine that has its key.
LEMMA ProcessStep ==
  ASSUME KeyedInv, StaysDown, [Next]_vars, NEW m \in L1,
         running'[m] \notin {running[m], NoId}
  PROVE  /\ Step(m) \/ StepLost(m)
         /\ \A n \in L1 \ {m} : running'[n] = running[n]
         /\ placement' = placement
         /\ cmd.phase \in {"start", "enable"} /\ m \in cmd.sel
         /\ running'[m] = disk[m]
         /\ cmd.verb # "upgrade" => disk[m] = placement[m]
<1>1. /\ TypeOK /\ DownInv /\ ClaimOK
      /\ running \in [L1 -> Identities \union {NoId}]
      /\ cmd.todo \subseteq L1 /\ cmd.sel \subseteq L1
  BY MachineShape DEF KeyedInv, MoveInv, DownInv
<1>2. ASSUME NEW n \in L1, Step(n) \/ StepLost(n)
      PROVE  /\ n = m
             /\ \A k \in L1 \ {m} : running'[k] = running[k]
             /\ cmd.phase \in {"start", "enable"} /\ m \in cmd.sel
             /\ running'[m] = disk[m] /\ placement' = placement
  <2>1. (Remote(n) \/ Torn(n)) /\ n \in cmd.todo /\ placement' = placement
    BY <1>2 DEF Step, StepLost, Turn, Abort, control
  <2>2. n = m /\ running'[m] = disk[m] /\ \A k \in L1 \ {m} : running'[k] = running[k]
    BY <1>1, <2>1, RemoteEffect
  <2>3. cmd.phase \in {"start", "enable"}
    <3>1. ASSUME Torn(n) PROVE running' = running
      BY <3>1 DEF Torn
    <3>2. ASSUME Remote(n), cmd.phase \notin {"start", "enable"}
          PROVE  running'[m] \in {running[m], NoId}
      BY <1>1, <3>2 DEF Remote, StopCommand, InstallIdentity, InstallConfig, DisableAndStop,
                        KillService, RemoveChainData, InstallPackage, InstallUnit,
                        WaitL1Ready, machine
    <3> QED BY <2>1, <3>1, <3>2
  <2>4. m \in cmd.sel
    BY <1>1, <2>1, <2>2, <2>3 DEF ClaimOK
  <2> QED BY <2>1, <2>2, <2>3, <2>4
<1>3. ASSUME NEW n \in L1, Crash(n) \/ Reboot(n) PROVE FALSE
  <2>1. UserInstall
    BY <1>3 DEF StaysDown, Crash, Reboot
  <2>2. unit[n] # "enabled"
    BY <1>1, <2>1 DEF DownInv, NoUnitsToEnable
  <2> QED BY <1>1, <1>3, <2>1, <2>2 DEF Crash, Reboot
<1>4. running' # running
  OBVIOUS
<1>5. PICK n \in L1 : Step(n) \/ StepLost(n)
  BY <1>1, <1>3, <1>4, FleetKinds DEF SavePlacement, machine
<1>6. n = m
  BY <1>2, <1>5
<1>7. cmd.verb # "upgrade" => disk[m] = placement[m]
  BY <1>1, <1>2, <1>5 DEF KeyedInv, KeyedOK
<1> QED BY <1>2, <1>5, <1>6, <1>7

\* Where nothing is upgraded and nothing fails, nothing was and nothing did.
LEMMA CalmBefore ==
  ASSUME KeyedInv, [Next]_vars, Calm'
  PROVE  /\ Calm /\ faults' = faults
         /\ cmd.verb # "upgrade" => cmd'.verb # "upgrade"
<1>1. /\ DownInv /\ TypeOK /\ history \in [Chains -> Nat] /\ faults \in Nat
      /\ PlacementInv
  BY DEF KeyedInv, MoveInv, DownInv, TypeOK
<1>2. CASE Operator
  <2>1. ASSUME NEW m \in L1, UpgradeChain(ChainOf[m]) PROVE FALSE
    <3>1. ChainOf[m] \in Chains /\ history' = [history EXCEPT ![ChainOf[m]] = @ + 1]
      BY <2>1 DEF UpgradeChain, Chains
    <3>2. history'[ChainOf[m]] = history[ChainOf[m]] + 1
      BY <1>1, <3>1
    <3> QED BY <1>1, <3>1, <3>2 DEF Calm
  <2>2. cmd'.verb # "upgrade" /\ history' = history /\ faults' = faults
    BY <1>1, <1>2, <2>1, Beginnings
  <2> QED BY <2>2 DEF Calm
<1>3. CASE ~Operator
  <2>1. /\ cmd' = Idle \/ cmd'.verb = cmd.verb
        /\ history' = history
        /\ faults' \in {faults, faults + 1}
    BY <1>1, <1>3, VerbGoesOn
  <2>2. cmd' = Idle => cmd'.verb # "upgrade"
    BY DEF Idle
  <2>3. faults = 0 /\ faults' = faults
    BY <1>1, <2>1 DEF Calm
  <2> QED BY <2>1, <2>2, <2>3 DEF Calm
<1> QED BY <1>2, <1>3

\* A place that has written and is not interrupted goes on to the point where
\* every machine is fit.
LEMMA MovingStep ==
  ASSUME KeyedInv, Moving, [Next]_vars, faults' = faults
  PROVE  Moving' \/ Orderly'
<1>1. /\ TypeOK /\ DownInv /\ MoveOK /\ cmd \in Command /\ faults \in Nat
      /\ cmd.verb = "place" /\ cmd.leg = "after"
      /\ cmd.phase \in {"probe", "config", "identity", "stop"}
  BY MachineShape DEF KeyedInv, MoveInv, DownInv, TypeOK, Moving
<1>2. ~Operator
  BY <1>1, Beginnings DEF Idle
<1>3. ASSUME cmd'.verb = "place", cmd'.phase \in {"start", "settled"}
      PROVE  Orderly'
  <2>1. MoveOK'
    BY KeyedNext DEF KeyedInv, MoveInv
  <2>2. ASSUME NEW m \in L1 PROVE Fit(m)'
    BY <1>3, <2>1, <2>2 DEF MoveOK
  <2> QED BY <2>2 DEF Orderly, Fit, Rests
<1>4. CASE cmd'.verb = "place"
  <2>1. ASSUME NEW m \in L1, Step(m) \/ ProbePlacement(m) PROVE Moving'
    BY <1>1, <2>1 DEF Step, ProbePlacement, Moving, Command
  <2>2. ASSUME NEW m \in L1, Crash(m) \/ Reboot(m) PROVE Moving'
    BY <1>1, <2>2 DEF Crash, Reboot, Moving
  <2>3. CASE PlanApply
    BY <1>1, <1>3, <1>4, <2>3 DEF PlanApply, Moving, Command
  <2>4. CASE Advance
    <3>1. PICK q \in Phases : /\ <<cmd.verb, cmd.phase, q>> \in Order
                              /\ cmd'.phase = q /\ cmd'.leg = cmd.leg
      BY <1>1, <2>4 DEF Advance, Command
    <3>2. q \in {"identity", "stop", "start"}
      BY <1>1, <3>1 DEF Order
    <3> QED BY <1>1, <1>3, <1>4, <3>1, <3>2 DEF Moving
  <2>5. CASE UNCHANGED vars
    BY <1>1, <2>5 DEF Moving, vars
  <2>6. ~NextMachine /\ ~SavePlacement /\ ~PlaceApplied
    BY <1>1 DEF NextMachine, SavePlacement, PlaceApplied
  <2>7. ~\E i \in Identities, m \in Machines : Place(i, m)
    BY <1>2 DEF Operator
  <2> QED BY <1>1, <1>4, <2>1, <2>2, <2>3, <2>4, <2>5, <2>6, <2>7, PlaceSteps
<1>5. CASE cmd'.verb # "place"
  <2>1. CASE Control
    <3>1. ASSUME NEW m \in L1, \/ Step(m) \/ ProbePlacement(m) \/ ProbeStart(m)
                               \/ PushBook(m) \/ PushHistory(m)
          PROVE  FALSE
      BY <1>1, <1>5, <3>1 DEF Step, ProbePlacement, ProbeStart, PushBook, PushHistory,
                              Command
    <3>2. ASSUME NEW m \in L1, StepRefused(m) PROVE FALSE
      BY <1>1, <3>2 DEF StepRefused, Refuses
    <3>3. ~PlanApply /\ ~PlanStart /\ ~Advance /\ ~RefreshAddressBook
      BY <1>1, <1>5 DEF PlanApply, PlanStart, Advance, RefreshAddressBook, Command
    <3>4. ~PushFailed /\ ~NextMachine /\ ~SavePlacement /\ ~RefusePlace /\ ~PlaceApplied
            /\ ~Complete
      BY <1>1 DEF PushFailed, NextMachine, SavePlacement, RefusePlace, PlaceApplied, Complete
    <3> QED BY <2>1, <3>1, <3>2, <3>3, <3>4 DEF Control
  <2>2. CASE Environment
    <3>1. ASSUME NEW m \in L1, StepLost(m) \/ ProbeStartSilent(m) PROVE FALSE
      BY <1>1, <3>1 DEF StepLost, ProbeStartSilent
    <3>2. ASSUME NEW m \in L1, Crash(m) \/ Reboot(m) PROVE FALSE
      BY <1>1, <1>5, <3>2 DEF Crash, Reboot
    <3>3. ~Interrupt
      BY <1>1 DEF Interrupt
    <3> QED BY <2>2, <3>1, <3>2, <3>3 DEF Environment
  <2>3. CASE UNCHANGED vars
    BY <1>1, <1>5, <2>3 DEF vars
  <2> QED BY <1>2, <2>1, <2>2, <2>3 DEF Next
<1> QED BY <1>4, <1>5

LEMMA OnceStep ==
  ASSUME KeyedInv, Calm => OnceOK, StaysDown, [Next]_vars, Calm'
  PROVE  OnceOK'
<1>1. OnceOK /\ faults' = faults /\ cmd'.verb # "upgrade" /\ PlacementInv'
  BY CalmBefore, KeyedNext DEF OnceOK, KeyedInv
<1>2. ASSUME NEW m \in L1, running'[m] \notin {running[m], NoId}
      PROVE  Orderly'
  <2>1. /\ \A n \in L1 \ {m} : running'[n] = running[n]
        /\ placement' = placement /\ cmd.phase \in {"start", "enable"}
        /\ running'[m] = placement[m]
    BY <1>1, <1>2, ProcessStep DEF OnceOK
  <2>2. Orderly
    BY <1>1, <2>1 DEF OnceOK, Moving
  <2> QED BY <2>1, <2>2 DEF Orderly
<1>3. ASSUME \A m \in L1 : running'[m] \in {running[m], NoId}
      PROVE  DistinctIdentities' /\ (Moving' \/ Orderly')
  <2>1. DistinctIdentities'
    BY <1>1, <1>3 DEF OnceOK, DistinctIdentities
  <2>2. CASE placement' = placement
    <3>1. Orderly => Orderly'
      BY <1>3, <2>2 DEF Orderly
    <3>2. Moving => Moving' \/ Orderly'
      BY <1>1, MovingStep
    <3> QED BY <1>1, <2>1, <3>1, <3>2 DEF OnceOK
  <2>3. CASE placement' # placement
    <3>1. SavePlacement
      BY <2>3, FleetKinds DEF KeyedInv, MoveInv, Step, StepLost, Crash, Reboot, PushHistory,
                              Abort, control
    <3>2. cmd \in Command /\ cmd.verb = "place"
      BY <3>1, MachineShape DEF KeyedInv, MoveInv, DownInv, ClaimOK, SavePlacement
    <3>3. Moving'
      BY <2>3, <3>1, <3>2 DEF SavePlacement, Moving, Command
    <3> QED BY <2>1, <3>3
  <2> QED BY <2>2, <2>3
<1>4. CASE Orderly'
  BY <1>1, <1>4, OrderlyIsDistinct DEF OnceOK, PlacementInv, PlacementValid, Validate,
                                        Orderly, DistinctIdentities, L1
<1> QED BY <1>1, <1>2, <1>3, <1>4 DEF OnceOK

\* Where a crashed process stays down, no identity is served twice by a fleet
\* on which nothing has failed and nothing was upgraded.
THEOREM IdentitiesServedOnce == StaysDown => (Spec => []IdentityServedOnce)
<1> SUFFICES ASSUME StaysDown PROVE Spec => []IdentityServedOnce
  OBVIOUS
<1> DEFINE Inv == KeyedInv /\ (Calm => OnceOK)
<1>1. Init => Inv
  <2> SUFFICES ASSUME Init PROVE KeyedInv /\ OnceOK
    OBVIOUS
  <2>1. KeyedInv
    BY KeyedInit
  <2>2. Orderly
    BY DEF Init, Orderly
  <2>3. DistinctIdentities
    BY <2>1, <2>2, OrderlyIsDistinct DEF KeyedInv
  <2> QED BY <2>1, <2>2, <2>3 DEF Init, Idle, OnceOK
<1>2. Inv /\ [Next]_vars => Inv'
  BY OnceStep, KeyedNext
<1>3. Inv => IdentityServedOnce
  BY DEF OnceOK, Calm, IdentityServedOnce
<1> HIDE DEF Inv
<1> QED BY <1>1, <1>2, <1>3, PTL DEF Spec

-----------------------------------------------------------------------------
(* One machine for each identity, whatever fails.                          *)

LEMMA DeployStep ==
  ASSUME KeyedInv, DeployOK, StaysDown, [Next]_vars
  PROVE  DeployOK'
<1> SUFFICES ASSUME cmd'.verb = "deploy" PROVE DeployOK'
  BY DEF DeployOK
<1>1. /\ TypeOK /\ DownInv /\ PlacementInv /\ cmd \in Command /\ cmd.todo \subseteq L1
      /\ running \in [L1 -> Identities \union {NoId}]
      /\ (cmd.phase = "settled" => cmd.verb = "place")
  BY MachineShape DEF KeyedInv, MoveInv, DownInv, ClaimOK
<1>2. CASE Operator
  BY <1>1, <1>2, Beginnings DEF DeployOK
<1>3. CASE ~Operator
  <2>1. /\ cmd.verb = "deploy" /\ cmd.sel = L1
        /\ cmd.phase \in {"stop", "package", "unit", "identity", "start", "ready", "done"}
    <3>1. cmd' # Idle
      BY DEF Idle
    <3>2. cmd.verb = "deploy"
      BY <1>1, <1>3, <3>1, VerbGoesOn
    <3> QED BY <3>2 DEF DeployOK
  <2>2. placement' = placement
    <3>1. ~SavePlacement
      BY <1>1, <2>1 DEF SavePlacement
    <3> QED BY <3>1, FleetKinds DEF KeyedInv, MoveInv, Step, StepLost, Crash, Reboot,
                                    PushHistory, Abort, control
  <2>3. ASSUME NEW m \in L1, running'[m] \notin {running[m], NoId}
        PROVE  cmd.phase = "start" /\ running'[m] = placement[m]
    BY <2>1, <2>3, ProcessStep
  <2>4. ASSUME cmd'.phase = cmd.phase, cmd'.sel = cmd.sel, cmd'.todo = cmd.todo
        PROVE  DeployOK'
    BY <2>1, <2>2, <2>3, <2>4 DEF DeployOK
  <2>5. ASSUME NEW m \in L1, Step(m) PROVE DeployOK'
    <3>1. /\ Remote(m) /\ m \in cmd.todo /\ cmd'.phase = cmd.phase /\ cmd'.sel = cmd.sel
          /\ cmd'.todo = cmd.todo \ {m}
      BY <1>1, <2>5 DEF Step, Turn, Command
    <3>2. cmd.phase = "stop" => running'[m] = NoId
      BY <1>1, <3>1 DEF Remote, StopCommand
    <3> QED BY <2>1, <2>2, <2>3, <3>1, <3>2 DEF DeployOK
  <2>6. CASE Advance
    <3>1. PICK q \in Phases :
            /\ <<cmd.verb, cmd.phase, q>> \in Order
            /\ cmd' = [cmd EXCEPT !.phase = q,
                         !.todo = IF q \in {"next", "settled", "done"}
                                  THEN {} ELSE cmd.sel]
      BY <2>6 DEF Advance
    <3>2. /\ cmd'.phase = q /\ cmd'.sel = L1 /\ cmd.todo = {} /\ running' = running
      BY <1>1, <2>1, <2>6, <3>1 DEF Advance, Command, machine
    <3>3. \/ cmd.phase = "stop" /\ q = "package"
          \/ cmd.phase = "package" /\ q = "unit"
          \/ cmd.phase = "unit" /\ q = "identity"
          \/ cmd.phase = "identity" /\ q = "start"
          \/ q \in {"ready", "done"}
      BY <2>1, <3>1 DEF Order
    <3> QED BY <2>1, <3>2, <3>3 DEF DeployOK
  <2>7. ASSUME NEW m \in L1, StepRefused(m) \/ StepLost(m) PROVE FALSE
    BY <2>7 DEF StepRefused, StepLost, Abort, Idle
  <2>8. ASSUME NEW m \in L1, \/ ProbePlacement(m) \/ ProbeStart(m) \/ ProbeStartSilent(m)
                             \/ PushBook(m) \/ PushHistory(m)
        PROVE  FALSE
    BY <2>1, <2>8 DEF ProbePlacement, ProbeStart, ProbeStartSilent, PushBook, PushHistory
  <2>9. /\ ~PlanApply /\ ~PlanStart /\ ~NextMachine /\ ~SavePlacement /\ ~PlaceApplied
        /\ ~RefreshAddressBook
    BY <2>1 DEF PlanApply, PlanStart, NextMachine, SavePlacement, PlaceApplied,
                RefreshAddressBook, Order
  <2>10. ~PushFailed /\ ~RefusePlace /\ ~Complete /\ ~Interrupt
    BY DEF PushFailed, RefusePlace, Complete, Interrupt, Abort, Idle
  <2>11. ASSUME NEW m \in L1, Crash(m) \/ Reboot(m) PROVE DeployOK'
    BY <2>4, <2>11 DEF Crash, Reboot
  <2>12. CASE UNCHANGED vars
    BY <2>4, <2>12 DEF vars
  <2> QED BY <1>3, <2>5, <2>6, <2>7, <2>8, <2>9, <2>10, <2>11, <2>12
          DEF Next, Control, Environment
<1> QED BY <1>2, <1>3

\* Verbs that start no process before all those that serve another identity
\* than assigned are stopped: a place after its reconcile, a deploy after its
\* stop phase.
StopsFirst == Verbs \subseteq {"place", "stop", "destroy", "deploy"}

LEMMA DistinctStep ==
  ASSUME KeyedInv, DeployOK, DistinctIdentities, StaysDown, StopsFirst, [Next]_vars
  PROVE  DistinctIdentities'
<1>1. ASSUME NEW m \in L1, running'[m] \notin {running[m], NoId}
      PROVE  DistinctIdentities'
  <2>1. /\ \A n \in L1 \ {m} : running'[n] = running[n]
        /\ placement' = placement /\ cmd.phase \in {"start", "enable"}
        /\ running'[m] = disk[m] /\ (Step(m) \/ StepLost(m))
        /\ cmd.verb # "upgrade" => disk[m] = placement[m]
    BY <1>1, ProcessStep
  <2>2. cmd.verb \in {"place", "stop", "destroy", "deploy"}
    BY <2>1 DEF KeyedInv, VerbOK, StopsFirst
  <2>3. CASE cmd.verb = "place"
    <3>1. ~\E n \in L1 : Crash(n) \/ Reboot(n)
      <4>1. cmd' # cmd
        <5>1. cmd \in Command /\ m \in cmd.todo /\ cmd.phase # "idle"
          BY <2>1, MachineShape DEF KeyedInv, MoveInv, DownInv, Step, StepLost, Turn
        <5> QED BY <2>1, <5>1 DEF Step, StepLost, Abort, Command, Idle
      <4> QED BY <4>1 DEF Crash, Reboot
    <3> QED BY <2>3, <3>1, PlaceDistinct DEF KeyedInv
  <2>4. CASE cmd.verb \in {"stop", "destroy"}
    BY <2>1, <2>4 DEF KeyedInv, MoveInv, DownInv, StoppingOK
  <2>5. CASE cmd.verb = "deploy"
    <3>1. Orderly
      BY <2>1, <2>5 DEF DeployOK, Orderly
    <3>2. Orderly'
      BY <2>1, <2>5, <3>1 DEF Orderly
    <3>3. PlacementInv'
      BY KeyedNext DEF KeyedInv
    <3> QED BY <3>2, <3>3 DEF PlacementInv, PlacementValid, Validate, Orderly,
                              DistinctIdentities, L1
  <2> QED BY <2>2, <2>3, <2>4, <2>5
<1>2. ASSUME \A m \in L1 : running'[m] \in {running[m], NoId}
      PROVE  DistinctIdentities'
  BY <1>2 DEF DistinctIdentities
<1> QED BY <1>1, <1>2

\* No identity is ever served twice by a fleet that is only placed, stopped,
\* destroyed and deployed, through any number of lost, torn and interrupted
\* commands and of processes that crash and stay down (place.go:76, deploy.go:218).
THEOREM DistinctThroughFaults ==
  StaysDown /\ StopsFirst => (Spec => []DistinctIdentities)
<1> SUFFICES ASSUME StaysDown, StopsFirst PROVE Spec => []DistinctIdentities
  OBVIOUS
<1> DEFINE Inv == KeyedInv /\ DeployOK /\ DistinctIdentities
<1>1. Init => Inv
  <2> SUFFICES ASSUME Init PROVE Inv
    OBVIOUS
  <2>1. KeyedInv /\ Orderly
    BY KeyedInit DEF Init, Orderly
  <2>2. DistinctIdentities
    BY <2>1, OrderlyIsDistinct DEF KeyedInv
  <2> QED BY <2>1, <2>2 DEF Init, Idle, DeployOK
<1>2. Inv /\ [Next]_vars => Inv'
  BY KeyedNext, DeployStep, DistinctStep
<1>3. Inv => DistinctIdentities
  OBVIOUS
<1> HIDE DEF Inv
<1> QED BY <1>1, <1>2, <1>3, PTL DEF Spec

-----------------------------------------------------------------------------
(* Running place again.                                                    *)

\* The machine serves its assigned identity if it is enabled and has a key,
\* and so it does after any crash and reboot.
Served(m) ==
  /\ Fit(m)
  /\ unit[m] = "enabled" /\ disk[m] # NoId => running[m] = placement[m]

\* Place leaves out only machines that are served, and starts the others.
ServeOK ==
  cmd.verb = "place" =>
    /\ \A m \in L1 \ cmd.sel : Served(m) \/ (cmd.phase = "probe" /\ m \in cmd.todo)
    /\ \A m \in cmd.sel :
         /\ cmd.phase = "start" => m \in cmd.todo \/ Served(m)
         /\ cmd.phase \in {"settled", "done"} => Served(m)

\* Nothing but a verb undoes what a place has done.
ConvergedOK ==
  cmd = Idle /\ last = [verb |-> "place", ok |-> TRUE] =>
    \A m \in L1 : Served(m)

\* Run scripts are for user installs.
NoRunScripts == ~UserInstall => \A m \in L1 : unit[m] # "installed"

RerunInv == MoveInv /\ ServeOK /\ ConvergedOK /\ NoRunScripts

LEMMA ServedCrash ==
  ASSUME TypeOK, NoUnitsToEnable, NEW m \in L1, Crash(m) \/ Reboot(m), NEW n \in L1, Served(n)
  PROVE  Served(n)'
<1>1. Fit(n)'
  BY FitCrash DEF Served
<1>2. /\ running \in [L1 -> Identities \union {NoId}] /\ UNCHANGED <<placement, unit, disk>>
  BY MachineShape DEF Crash, Reboot, control
<1>3. /\ unit[n] = "enabled" /\ disk[n] # NoId =>
            running[n] = placement[n] /\ disk[n] = placement[n] /\ running[n] # NoId
  BY MachineShape DEF Served, Fit, Rests
<1>4. unit[n] = "enabled" /\ disk[n] # NoId => running'[n] = placement[n]
  <2>1. ASSUME unit[n] = "enabled", disk[n] # NoId, Crash(m) PROVE running'[n] = placement[n]
    <3>1. NoUnitsToEnable => ~UserInstall
      BY <2>1 DEF NoUnitsToEnable
    <3> QED BY <1>2, <1>3, <2>1, <3>1 DEF Crash
  <2>2. ASSUME unit[n] = "enabled", disk[n] # NoId, Reboot(m) PROVE running'[n] = placement[n]
    BY <1>2, <1>3, <2>2 DEF Reboot
  <2> QED BY <2>1, <2>2
<1> QED BY <1>1, <1>2, <1>4 DEF Served

LEMMA ServedKept ==
  ASSUME NEW n \in L1, Served(n), placement' = placement, disk'[n] = disk[n],
         running'[n] = running[n], unit'[n] = unit[n]
  PROVE  Served(n)'
BY FitKept DEF Served

\* What place leaves alone is served.
LEMMA LeftAloneIsServed ==
  ASSUME CrashKeepsIdentity, NEW m \in L1, ~NeedsApply(m)
  PROVE  Served(m)
BY DEF NeedsApply, Served, Fit, Rests, CrashKeepsIdentity

\* Every verb begins on an idle control.
\* How control comes to rest, and what happens while it rests.
LEMMA IdleSteps ==
  ASSUME TypeOK, [Next]_vars, cmd' = Idle
  PROVE  \/ cmd = Idle /\ (UNCHANGED vars \/ \E m \in L1 : Crash(m) \/ Reboot(m))
         \/ last'.ok = FALSE
         \/ Complete
<1>1. /\ cmd \in Command /\ cmd'.verb = "none" /\ cmd'.phase = "idle"
      /\ cmd'.todo = {}
  BY MachineShape DEF Idle
<1>2. CASE Operator
  <2>1. PICK c : Begin(c)
    BY <1>2, OperatorBegins
  <2>2. cmd'.verb \in AllVerbs
    BY <2>1, FleetAssumption DEF Begin
  <2> QED BY <1>1, <2>2 DEF AllVerbs
<1>3. ASSUME NEW m \in L1,
             \/ Step(m) \/ ProbePlacement(m) \/ ProbeStart(m) \/ PushBook(m)
             \/ PushHistory(m) \/ ProbeStartSilent(m)
      PROVE  FALSE
  <2>1. CASE Step(m)
    <3>1. cmd.phase = "idle" /\ Remote(m)
      BY <1>1, <2>1 DEF Step, Command
    <3> QED BY <3>1 DEF Remote
  <2>2. CASE ProbePlacement(m) \/ ProbeStart(m) \/ ProbeStartSilent(m)
    BY <1>1, <2>2 DEF ProbePlacement, ProbeStart, ProbeStartSilent, Command
  <2>3. CASE PushBook(m) \/ PushHistory(m)
    BY <1>1, <2>3 DEF PushBook, PushHistory, Command
  <2> QED BY <1>3, <2>1, <2>2, <2>3
<1>4. CASE PlanApply \/ PlanStart \/ RefreshAddressBook \/ NextMachine
           \/ SavePlacement \/ PlaceApplied
  <2>1. CASE PlanApply \/ PlanStart
    BY <1>1, <2>1 DEF PlanApply, PlanStart, Command
  <2>2. CASE RefreshAddressBook
    BY <1>1, <2>2 DEF RefreshAddressBook, Command
  <2>3. CASE NextMachine
    BY <1>1, <2>3 DEF NextMachine, Command
  <2>4. CASE SavePlacement \/ PlaceApplied
    BY <1>1, <2>4 DEF SavePlacement, PlaceApplied, Command
  <2> QED BY <1>4, <2>1, <2>2, <2>3, <2>4
<1>5. CASE Advance
  <2>1. PICK q \in Phases : <<cmd.verb, cmd.phase, q>> \in Order /\ cmd'.phase = q
    BY <1>1, <1>5 DEF Advance, Command
  <2> QED BY <1>1, <2>1 DEF Order
<1>6. CASE \/ PushFailed \/ RefusePlace \/ Interrupt
           \/ \E m \in L1 : StepRefused(m) \/ StepLost(m)
  BY <1>6 DEF PushFailed, RefusePlace, Interrupt, StepRefused, StepLost, Abort
<1>7. ASSUME NEW m \in L1, Crash(m) \/ Reboot(m) PROVE cmd = Idle
  BY <1>7 DEF Crash, Reboot
<1>8. CASE UNCHANGED vars
  BY <1>8 DEF vars
<1> QED BY <1>2, <1>3, <1>4, <1>5, <1>6, <1>7, <1>8 DEF Next, Control, Environment

LEMMA ConvergedStep ==
  ASSUME DownInv, MoveOK, ServeOK, ConvergedOK, [Next]_vars
  PROVE  ConvergedOK'
<1> SUFFICES ASSUME cmd' = Idle, last' = [verb |-> "place", ok |-> TRUE], NEW n \in L1
             PROVE  Served(n)'
  BY DEF ConvergedOK
<1>1. TypeOK /\ NoUnitsToEnable
  BY DEF DownInv
<1>2. CASE cmd = Idle /\ UNCHANGED vars
  BY <1>2, ServedKept DEF ConvergedOK, vars
<1>3. ASSUME cmd = Idle, NEW m \in L1, Crash(m) \/ Reboot(m) PROVE Served(n)'
  BY <1>1, <1>3, ServedCrash DEF ConvergedOK, Crash, Reboot
<1>4. CASE Complete
  <2>1. /\ cmd.verb = "place" /\ cmd.phase = "done" /\ cmd.sel \subseteq L1
        /\ UNCHANGED <<placement, disk, running, unit>>
    BY <1>1, <1>4, MachineShape DEF Complete, control, machine
  <2>2. Served(n)
    BY <2>1 DEF ServeOK
  <2> QED BY <2>1, <2>2, ServedKept
<1>5. last'.ok = TRUE
  OBVIOUS
<1> QED BY <1>1, <1>2, <1>3, <1>4, <1>5, IdleSteps

LEMMA ServeRemote ==
  ASSUME DownInv, MoveOK, ServeOK, cmd.verb = "place", NEW m \in L1, Step(m)
  PROVE  ServeOK'
<1>1. /\ TypeOK /\ cmd \in Command /\ cmd.sel \subseteq L1 /\ m \in cmd.todo
      /\ Remote(m) /\ ~Refuses(m)
  BY MachineShape DEF DownInv, Step, Turn
<1>2. /\ cmd'.verb = cmd.verb /\ cmd'.phase = cmd.phase /\ cmd'.sel = cmd.sel
      /\ cmd'.todo = cmd.todo \ {m} /\ placement' = placement
  BY <1>1 DEF Step, Command, control
<1>3. \A n \in L1 \ {m} : Served(n) => Served(n)'
  BY <1>1, <1>2, RemoteEffect, ServedKept
<1>4. cmd.phase \in {"config", "identity", "stop", "start"}
  BY <1>1 DEF MoveOK, Remote
<1>5. CASE cmd.phase = "config"
  <2>1. Served(m) => Served(m)'
    BY <1>1, <1>2, <1>5, ServedKept DEF Remote, InstallConfig
  <2> QED BY <1>1, <1>2, <1>3, <1>5, <2>1 DEF ServeOK
<1>6. m \in cmd.sel \/ cmd.phase = "config"
  BY <1>1, <1>4 DEF DownInv, ClaimOK
<1>7. CASE cmd.phase \in {"identity", "stop"}
  BY <1>1, <1>2, <1>3, <1>6, <1>7 DEF ServeOK
<1>8. CASE cmd.phase = "start"
  <2>1. disk[m] = placement[m] /\ Fit(m)
    BY <1>6, <1>8 DEF MoveOK
  <2>2. disk'[m] = placement[m] /\ running'[m] = placement[m]
    BY <1>1, <1>8, <2>1, MachineShape DEF Remote, StartOnly, Launch, Fit, Rests
  <2>3. Served(m)'
    BY <1>2, <2>2 DEF Served, Fit
  <2> QED BY <1>1, <1>2, <1>3, <1>8, <2>3 DEF ServeOK
<1> QED BY <1>4, <1>5, <1>7, <1>8

LEMMA ServeStep ==
  ASSUME DownInv, CrashKeepsIdentity, MoveOK, ServeOK, [Next]_vars
  PROVE  ServeOK'
<1> SUFFICES ASSUME cmd'.verb = "place" PROVE ServeOK'
  BY DEF ServeOK
<1>1. TypeOK /\ NoUnitsToEnable /\ cmd \in Command /\ cmd.sel \subseteq L1 /\ cmd.todo \subseteq L1
  BY MachineShape DEF DownInv
<1>2. ASSUME UNCHANGED <<placement, machine>> PROVE \A n \in L1 : Served(n) => Served(n)'
  BY <1>2, ServedKept DEF machine
<1>3. ASSUME NEW m \in L1, Step(m) PROVE ServeOK'
  <2>1. cmd.verb = "place"
    BY <1>1, <1>3 DEF Step, Command
  <2> QED BY <1>3, <2>1, ServeRemote
<1>4. ASSUME NEW m \in L1, ProbePlacement(m) PROVE ServeOK'
  <2>1. /\ cmd.verb = "place" /\ cmd.phase = "probe" /\ cmd'.phase = "probe"
        /\ cmd'.todo = cmd.todo \ {m}
        /\ cmd'.sel = IF NeedsApply(m) THEN cmd.sel \union {m} ELSE cmd.sel
        /\ UNCHANGED <<placement, machine>>
    BY <1>1, <1>4 DEF ProbePlacement, Command, control
  <2>2. NeedsApply(m) \/ Served(m)
    BY LeftAloneIsServed
  <2> QED BY <1>2, <2>1, <2>2 DEF ServeOK
<1>5. ASSUME NEW m \in L1, Crash(m) \/ Reboot(m) PROVE ServeOK'
  <2>1. cmd' = cmd
    BY <1>5 DEF Crash, Reboot
  <2>2. \A n \in L1 : Served(n) => Served(n)'
    BY <1>1, <1>5, ServedCrash
  <2> QED BY <1>1, <2>1, <2>2 DEF ServeOK
<1>6. CASE PlanApply
  <2>1. /\ cmd.verb = "place" /\ cmd.phase = "probe" /\ cmd.todo = {}
        /\ cmd'.sel = cmd.sel /\ UNCHANGED <<placement, machine>>
        /\ \/ cmd'.phase = "settled" /\ cmd.sel = {}
           \/ cmd'.phase = "config"
    BY <1>1, <1>6 DEF PlanApply, Command, control
  <2> QED BY <1>2, <2>1 DEF ServeOK
<1>7. CASE Advance
  <2>1. PICK q \in Phases :
          /\ <<cmd.verb, cmd.phase, q>> \in Order
          /\ cmd' = [cmd EXCEPT !.phase = q,
                       !.todo = IF q \in {"next", "settled", "done"}
                                THEN {} ELSE cmd.sel]
    BY <1>7 DEF Advance
  <2>2. /\ cmd.verb = "place" /\ cmd'.phase = q /\ cmd'.sel = cmd.sel /\ cmd.todo = {}
        /\ cmd'.todo = (IF q = "settled" THEN {} ELSE cmd.sel) \/ q \in {"next", "done"}
        /\ UNCHANGED <<placement, machine>>
    BY <1>1, <1>7, <2>1 DEF Advance, Command, control
  <2>3. \/ cmd.phase = "config" /\ q = "identity"
        \/ cmd.phase = "identity" /\ q = "stop"
        \/ cmd.phase = "stop" /\ q = "start"
        \/ cmd.phase = "start" /\ q = "settled"
    BY <2>1, <2>2 DEF Order
  <2> QED BY <1>1, <1>2, <2>2, <2>3 DEF ServeOK
<1>8. CASE NextMachine
  <2>1. cmd.verb = "place" /\ cmd.phase = "next"
    BY <1>1, <1>8 DEF NextMachine, Command
  <2> QED BY <2>1 DEF MoveOK
<1>9. CASE SavePlacement
  <2>1. /\ cmd.verb = "place" /\ cmd.phase = "settled" /\ UNCHANGED machine
        /\ \/ cmd'.phase = "done" /\ cmd'.sel = cmd.sel /\ placement' = placement
           \/ cmd'.phase = "probe" /\ cmd'.todo = L1 /\ cmd'.sel = {}
    BY <1>1, <1>9 DEF SavePlacement, Command, DownInv, ClaimOK
  <2>2. \A m \in L1 : Served(m)
    BY <2>1 DEF ServeOK
  <2>3. CASE cmd'.phase = "done" /\ cmd'.sel = cmd.sel /\ placement' = placement
    BY <1>1, <1>2, <2>1, <2>2, <2>3 DEF ServeOK
  <2>4. CASE cmd'.phase = "probe" /\ cmd'.todo = L1 /\ cmd'.sel = {}
    BY <2>4 DEF ServeOK
  <2> QED BY <2>1, <2>3, <2>4
<1>10. CASE PlaceApplied
  <2>1. /\ cmd.verb = "place" /\ cmd.phase = "settled" /\ cmd'.phase = "done"
        /\ cmd'.sel = cmd.sel /\ UNCHANGED <<placement, machine>>
    BY <1>1, <1>10 DEF PlaceApplied, Command, control, DownInv, ClaimOK
  <2>2. \A m \in L1 : Served(m)
    BY <2>1 DEF ServeOK
  <2> QED BY <1>1, <1>2, <2>1, <2>2 DEF ServeOK
<1>11. ASSUME NEW i \in Identities, NEW m \in Machines, Place(i, m) PROVE ServeOK'
  BY <1>11 DEF Place, Begin, Idle, ServeOK
<1>12. CASE UNCHANGED vars
  <2>1. UNCHANGED <<cmd, placement, machine>>
    BY <1>12 DEF vars, machine
  <2> QED BY <1>1, <1>2, <2>1 DEF ServeOK
<1> QED BY <1>3, <1>4, <1>5, <1>6, <1>7, <1>8, <1>9, <1>10, <1>11, <1>12, PlaceSteps

LEMMA RunScriptsStep ==
  ASSUME TypeOK, NoRunScripts, [Next]_vars
  PROVE  NoRunScripts'
<1> SUFFICES ASSUME ~UserInstall, NEW n \in L1 PROVE unit'[n] # "installed"
  BY DEF NoRunScripts
<1>1. /\ unit \in [L1 -> {"missing", "disabled", "enabled", "installed"}]
      /\ unit[n] # "installed"
  BY DEF TypeOK, NoRunScripts
<1>2. ASSUME NEW m \in L1, Remote(m) \/ Torn(m) PROVE unit'[n] # "installed"
  <2>1. CASE Torn(m)
    BY <1>1, <2>1 DEF Torn, Disabled
  <2>2. CASE StopCommand(m) \/ DisableAndStop(m) \/ KillService(m) \/ InstallIdentity(m)
             \/ InstallConfig(m) \/ InstallPackage(m) \/ RemoveChainData(m)
             \/ WaitL1Ready(m) \/ StartOnly(m)
    BY <1>1, <2>2 DEF StopCommand, DisableAndStop, KillService, InstallIdentity,
                      InstallConfig, InstallPackage, RemoveChainData, WaitL1Ready,
                      StartOnly, Disabled, machine
  <2>3. CASE InstallUnit(m) \/ EnableAndStart(m)
    BY <1>1, <2>3 DEF InstallUnit, EnableAndStart
  <2> QED BY <1>2, <2>1, <2>2, <2>3 DEF Remote
<1>3. CASE unit' = unit
  BY <1>1, <1>3
<1>4. ASSUME NEW m \in L1, Step(m) \/ StepLost(m) PROVE unit'[n] # "installed"
  BY <1>2, <1>4 DEF Step, StepLost
<1>5. CASE Operator
  BY <1>3, <1>5 DEF Operator, Place, Start, Stop, Destroy, Deploy, Roll, UpgradeChain,
                    Begin, machine
<1>6. ASSUME NEW m \in L1,
             \/ StepRefused(m) \/ ProbePlacement(m) \/ ProbeStart(m) \/ PushBook(m)
             \/ PushHistory(m) \/ ProbeStartSilent(m) \/ Crash(m) \/ Reboot(m)
      PROVE  unit' = unit
  BY <1>6 DEF StepRefused, ProbePlacement, ProbeStart, PushBook, PushHistory,
              PushUpgrade, InstallConfig, ProbeStartSilent, Crash, Reboot, machine
<1>7. CASE \/ PlanApply \/ PlanStart \/ Advance \/ RefreshAddressBook \/ PushFailed
           \/ NextMachine \/ SavePlacement \/ RefusePlace \/ PlaceApplied \/ Complete
           \/ Interrupt \/ UNCHANGED vars
  BY <1>3, <1>7 DEF PlanApply, PlanStart, Advance, RefreshAddressBook, PushFailed,
                    NextMachine, SavePlacement, RefusePlace, PlaceApplied, Complete,
                    Interrupt, machine, vars
<1> QED BY <1>3, <1>4, <1>5, <1>6, <1>7 DEF Next, Control, Environment

LEMMA RerunInit == Init => RerunInv
<1> SUFFICES ASSUME Init PROVE RerunInv
  OBVIOUS
<1> QED BY MoveInit DEF Init, Idle, RerunInv, ServeOK, ConvergedOK, NoRunScripts

LEMMA RerunStep == RerunInv /\ [Next]_vars => RerunInv'
<1> SUFFICES ASSUME RerunInv, [Next]_vars PROVE RerunInv'
  OBVIOUS
<1>1. TypeOK /\ DownInv /\ CrashKeepsIdentity /\ MoveOK /\ ServeOK /\ ConvergedOK
      /\ NoRunScripts /\ HistoryOK /\ WipeOK
  BY DEF RerunInv, MoveInv, DownInv
<1>2. MoveInv'
  BY <1>1, DownStep, KeysStep, MoveStep, HistoryStep, WipeStep DEF MoveInv
<1> QED BY <1>1, <1>2, ServeStep, ConvergedStep, RunScriptsStep DEF RerunInv

\* After a place that succeeded, every machine that may be started and has its
\* key serves its assigned identity, whatever was lost, torn or interrupted
\* before it and whatever crashes and reboots since (place.go:76, :132-146).
THEOREM PlacesConverge == ~UserInstall => (Spec => []RerunConverges)
<1> SUFFICES ASSUME ~UserInstall PROVE Spec => []RerunConverges
  OBVIOUS
<1>1. RerunInv => RerunConverges
  BY DEF RerunInv, ConvergedOK, NoRunScripts, Served, RerunConverges, Enabled
<1> QED BY RerunInit, RerunStep, <1>1, PTL DEF Spec

-----------------------------------------------------------------------------
(* The address books while nothing fails: a verb without a lost, torn or   *)
(* interrupted command, under systemd, for the verbs that refresh them.    *)

On(m) == unit[m] = "enabled"
Booked(m) == book[m] = StateSyncPeers(m, Enabled)

\* What a verb that has not pushed a book yet leaves in place: the books of
\* the machines that are installed, or that a finished verb spoke of.
Kept(m) == (unit[m] = "missing" /\ want[m] = "open") \/ Booked(m)

Uninstalled == \A m \in L1 : unit[m] = "missing"
Installed == \A m \in L1 : unit[m] # "missing"

\* Boot intent is what the finished verbs asked for, and what runs has it.
IntentOK ==
  /\ \A m \in L1 : running[m] # NoId => On(m)
  /\ \A m \in L1 \ cmd.req : /\ want[m] = "up" <=> On(m)
                             /\ want[m] = "open" => unit[m] = "missing"
  /\ cmd.verb # "deploy" => Uninstalled \/ Installed

ProgramOK ==
  /\ cmd.verb \in {"none", "place", "start", "stop", "destroy", "deploy"}
  /\ cmd.verb = "none" => cmd = Idle
  /\ cmd.verb = "start" =>
       cmd.phase \in {"probe", "stop", "identity", "config", "enable", "book", "done"}
  /\ cmd.verb = "deploy" =>
       /\ cmd.phase \in {"stop", "package", "unit", "identity", "start", "ready", "done"}
       /\ cmd.req = L1 /\ cmd.sel = L1

\* A machine that moved while it is meant to be up still runs, or holds, its
\* old identity, so place is going to restart it and to push the books.
Moved(m) ==
  /\ On(m)
  /\ \/ m \in cmd.sel
     \/ m \in cmd.todo /\ running[m] # placement[m] /\ disk[m] # placement[m]

\* A refresh in progress, from boot intent as it will stay.
PushingOK == cmd.up = Enabled /\ \A m \in L1 \ cmd.todo : Booked(m)

RestBooks == cmd.verb = "none" => \A m \in L1 : Kept(m)

PlaceBooks ==
  cmd.verb = "place" =>
    /\ \A m \in cmd.sel : On(m)
    /\ cmd.phase = "config" => PushingOK
    /\ cmd.phase # "config" =>
         (\A m \in L1 : Kept(m)) \/ (cmd.phase = "probe" /\ \E m \in L1 : Moved(m))

StartBooks ==
  cmd.verb = "start" =>
    /\ \A m \in cmd.req \ cmd.sel : On(m) \/ (cmd.phase = "probe" /\ m \in cmd.todo)
    /\ cmd.phase \in {"probe", "done"} => \A m \in L1 : Kept(m)
    /\ cmd.phase # "book" /\ Uninstalled => \A m \in L1 \ cmd.req : Kept(m)
    /\ \A m \in cmd.sel :
         /\ cmd.phase = "enable" => m \in cmd.todo \/ On(m)
         /\ cmd.phase \in {"book", "done"} => On(m)
    /\ cmd.phase = "config" => cmd.todo \subseteq cmd.req
    /\ cmd.phase = "book" => PushingOK

StopBooks ==
  cmd.verb \in {"stop", "destroy"} =>
    /\ cmd.phase = "book" => PushingOK
    /\ cmd.phase = "done" => \A m \in L1 : Booked(m)

DeployBooks ==
  cmd.verb = "deploy" =>
    \A m \in L1 :
      /\ cmd.phase # "stop" =>
           book[m] = StateSyncPeers(m, L1) \/ (cmd.phase = "package" /\ m \in cmd.todo)
      /\ cmd.phase \notin {"stop", "package"} =>
           On(m) \/ (cmd.phase = "unit" /\ m \in cmd.todo)
      /\ cmd.phase \in {"identity", "start", "ready", "done"} =>
           disk[m] = placement[m] \/ (cmd.phase = "identity" /\ m \in cmd.todo)
      /\ cmd.phase \in {"start", "ready", "done"} =>
           running[m] # NoId \/ (cmd.phase = "start" /\ m \in cmd.todo)

BookOK == ProgramOK /\ IntentOK /\ RestBooks /\ PlaceBooks /\ StartBooks /\ StopBooks
          /\ DeployBooks

BookInv == RerunInv /\ (faults = 0 => BookOK)

\* The verbs that leave the books as intent asks; a rolling deploy and an
\* upgrade refresh none.
Refreshing == Verbs \subseteq {"place", "start", "stop", "destroy", "deploy"}

LEMMA BookFacts ==
  ASSUME RerunInv, BookOK, ~UserInstall
  PROVE  /\ TypeOK /\ DownInv /\ MoveOK /\ ClaimOK /\ StoppingOK
         /\ cmd \in Command /\ cmd.todo \subseteq L1 /\ cmd.sel \subseteq L1
         /\ cmd.req \subseteq L1 /\ cmd.phase \in Phases
         /\ unit \in [L1 -> {"missing", "disabled", "enabled", "installed"}]
         /\ want \in [L1 -> {"up", "down", "open"}]
         /\ book \in [L1 -> SUBSET (L1 \X Identities)]
         /\ running \in [L1 -> Identities \union {NoId}]
         /\ disk \in [L1 -> Identities \union {NoId}]
         /\ \A m \in L1 : placement[m] \in Identities /\ placement[m] # NoId
         /\ Enabled = {m \in L1 : On(m)}
         /\ cmd.phase \notin {"push", "next"}
         /\ cmd.phase = "book" => cmd.verb \in {"start", "stop", "destroy"}
         /\ faults \in Nat
<1>1. /\ TypeOK /\ DownInv /\ MoveOK /\ ClaimOK /\ StoppingOK /\ NoRunScripts
      /\ ProgramOK
  BY DEF RerunInv, MoveInv, DownInv, BookOK
<1>2. Enabled = {m \in L1 : On(m)}
  BY <1>1 DEF Enabled, NoRunScripts, On
<1>3. /\ cmd.phase \notin {"push", "next"}
      /\ cmd.phase = "book" => cmd.verb \in {"start", "stop", "destroy"}
  BY <1>1 DEF ProgramOK, MoveOK, StoppingOK, Idle
<1> QED BY <1>1, <1>2, <1>3, MachineShape DEF TypeOK, Command

LEMMA BookedKept ==
  ASSUME UNCHANGED <<placement, unit>>
  PROVE  /\ Enabled' = Enabled
         /\ \A m \in L1 : book'[m] = book[m] => (Booked(m) <=> Booked(m)')
         /\ \A m \in L1 : book'[m] = book[m] /\ want'[m] = want[m] => (Kept(m) => Kept(m)')
         /\ \A m \in L1 : On(m) <=> On(m)'
         /\ Uninstalled <=> Uninstalled'
         /\ Installed <=> Installed'
<1>1. Enabled' = Enabled
  BY DEF Enabled
<1>2. ASSUME NEW m \in L1 PROVE StateSyncPeers(m, Enabled)' = StateSyncPeers(m, Enabled)
  BY <1>1 DEF StateSyncPeers
<1> QED BY <1>1, <1>2 DEF Booked, Kept, On, Uninstalled, Installed

\* Crashes and reboots change no book and no intent, and what they start is
\* what was enabled.
LEMMA BookCrash ==
  ASSUME RerunInv, BookOK, ~UserInstall, NEW m \in L1, Crash(m) \/ Reboot(m)
  PROVE  BookOK'
<1> USE BookFacts
<1>1. UNCHANGED <<cmd, placement, unit, disk, book, want>>
  BY DEF Crash, Reboot, control
<1>2. /\ \A n \in L1 \ {m} : running'[n] = running[n]
      /\ running'[m] \in {disk[m], NoId}
      /\ running'[m] # NoId => running[m] # NoId \/ On(m)
      /\ On(m) => running'[m] = disk[m] 
  BY DEF Crash, Reboot, On, BookOK, IntentOK
<1>3. IntentOK'
  BY <1>1, <1>2, BookedKept DEF BookOK, IntentOK, On
<1>4. PlaceBooks'
  <2>1. \A n \in L1 : Moved(n) => Moved(n)'
    BY <1>1, <1>2 DEF Moved, On
  <2>2. PushingOK => PushingOK'
    BY <1>1, BookedKept DEF PushingOK
  <2> QED BY <1>1, <2>1, <2>2, BookedKept DEF BookOK, PlaceBooks
<1>5. StartBooks' /\ StopBooks' /\ RestBooks' /\ ProgramOK'
  BY <1>1, BookedKept DEF BookOK, StartBooks, StopBooks, RestBooks, ProgramOK, PushingOK
<1>6. DeployBooks'
  <2> SUFFICES ASSUME cmd.verb = "deploy", NEW n \in L1
               PROVE  /\ cmd.phase # "stop" =>
                           \/ book[n] = StateSyncPeers(n, L1)
                           \/ cmd.phase = "package" /\ n \in cmd.todo
                      /\ cmd.phase \notin {"stop", "package"} =>
                           On(n) \/ (cmd.phase = "unit" /\ n \in cmd.todo)
                      /\ cmd.phase \in {"identity", "start", "ready", "done"} =>
                           disk[n] = placement[n] \/ (cmd.phase = "identity" /\ n \in cmd.todo)
                      /\ cmd.phase \in {"start", "ready", "done"} =>
                           running'[n] # NoId \/ (cmd.phase = "start" /\ n \in cmd.todo)
    BY <1>1 DEF DeployBooks, StateSyncPeers, On
  <2> QED BY <1>1, <1>2 DEF BookOK, DeployBooks
<1> QED BY <1>3, <1>4, <1>5, <1>6 DEF BookOK

\* A verb begins: it reopens what it names, and every book is as it was.
LEMMA BookBegins ==
  ASSUME RerunInv, BookOK, ~UserInstall, Refreshing, Operator
  PROVE  BookOK'
<1> USE BookFacts
<1>1. /\ cmd = Idle /\ UNCHANGED <<placement, unit, disk, running, book>>
      /\ cmd'.verb \in Verbs
      /\ want' = [m \in L1 |-> IF m \in cmd'.req THEN "open" ELSE want[m]]
  <2> DEFINE Begun == /\ cmd = Idle /\ UNCHANGED <<placement, unit, disk, running, book>>
                      /\ cmd'.verb \in Verbs
                      /\ want' = [m \in L1 |-> IF m \in cmd'.req THEN "open" ELSE want[m]]
  <2>1. \A c : Begin(c) => Begun
    BY DEF Begin, machine
  <2>2. \E c : Begin(c)
    BY OperatorBegins
  <2> QED BY <2>1, <2>2
<1>2. /\ cmd'.verb = "place" => cmd'.phase = "probe" /\ cmd'.sel = {} /\ cmd'.req = {}
      /\ cmd'.verb = "start" => /\ cmd'.phase = "probe" /\ cmd'.sel = {}
                                /\ cmd'.todo = cmd'.req
      /\ cmd'.verb \in {"stop", "destroy"} => cmd'.phase \in {"disable", "kill"}
      /\ cmd'.verb = "deploy" => /\ cmd'.phase = "stop" /\ cmd'.req = L1
                                 /\ cmd'.sel = L1
      /\ cmd'.verb \in {"place", "start", "stop", "destroy", "deploy"}
  <2>1. \A i \in Identities, m \in Machines : Place(i, m) =>
           cmd'.verb = "place" /\ cmd'.phase = "probe" /\ cmd'.sel = {} /\ cmd'.req = {}
    BY DEF Place, Begin, Idle
  <2>2. \A S \in SUBSET L1 : Start(S) =>
           cmd'.verb = "start" /\ cmd'.phase = "probe" /\ cmd'.sel = {} /\ cmd'.todo = cmd'.req
    BY DEF Start, Begin, Idle
  <2>3. \A S \in SUBSET L1 : Stop(S) \/ Destroy(S) =>
           cmd'.verb \in {"stop", "destroy"} /\ cmd'.phase \in {"disable", "kill"}
    <3>1. \A S \in SUBSET L1 : Stop(S) => cmd'.verb = "stop" /\ cmd'.phase = "disable"
      BY DEF Stop, Begin, Idle
    <3>2. \A S \in SUBSET L1 : Destroy(S) => cmd'.verb = "destroy" /\ cmd'.phase = "kill"
      BY DEF Destroy, Begin, Idle
    <3> QED BY <3>1, <3>2
  <2>4. Deploy => /\ cmd'.verb = "deploy" /\ cmd'.phase = "stop"
                  /\ cmd'.req = L1 /\ cmd'.sel = L1
    BY DEF Deploy, Begin, Idle
  <2>5. cmd'.verb \notin {"roll", "upgrade"}
    BY <1>1 DEF Refreshing
  <2>6. \A S \in SUBSET L1 : Roll(S) => cmd'.verb = "roll"
    BY DEF Roll, Begin, Idle
  <2>7. \A c \in {ChainOf[m] : m \in L1} : UpgradeChain(c) => cmd'.verb = "upgrade"
    BY DEF UpgradeChain, Begin, Idle
  <2> QED BY <2>1, <2>2, <2>3, <2>4, <2>5, <2>6, <2>7 DEF Operator
<1>3. \A m \in L1 : Kept(m) => Kept(m)'
  BY <1>1, BookedKept DEF Kept
<1>4. \A m \in L1 : Kept(m)
  BY <1>1 DEF BookOK, RestBooks, Idle
<1>5. IntentOK /\ cmd.req = {} /\ cmd.verb = "none"
  BY <1>1 DEF BookOK, Idle
<1>6. IntentOK'
  BY <1>1, <1>5, BookedKept DEF IntentOK
<1>7. ProgramOK'
  BY <1>2 DEF ProgramOK
<1> QED BY <1>2, <1>3, <1>4, <1>6, <1>7
        DEF BookOK, RestBooks, PlaceBooks, StartBooks, StopBooks, DeployBooks

\* A verb that ends without a fault before its end: place refused the move, or
\* start found a machine without a unit, and then none has one.
LEMMA BookRefused ==
  ASSUME RerunInv, BookOK, ~UserInstall,
         PushFailed \/ RefusePlace \/ \E m \in L1 : StepRefused(m)
  PROVE  BookOK'
<1> USE BookFacts
<1>1. /\ cmd' = Idle /\ UNCHANGED <<placement, unit, disk, running, book, want>>
  BY DEF PushFailed, RefusePlace, StepRefused, Abort, machine, control
<1>2. /\ cmd'.verb = "none" /\ cmd'.req = {}
  BY <1>1 DEF Idle
<1>3. /\ \A m \in L1 : Kept(m)
      /\ \A m \in cmd.req : unit[m] = "missing"
      /\ cmd.verb # "deploy"
  <2>1. CASE PushFailed
    BY <2>1 DEF PushFailed
  <2>2. CASE RefusePlace
    <3>1. cmd.verb = "place" /\ cmd.phase = "settled" /\ cmd.req = {}
      BY <2>2 DEF RefusePlace, ClaimOK
    <3> QED BY <3>1 DEF BookOK, PlaceBooks
  <2>3. ASSUME NEW m \in L1, StepRefused(m)
        PROVE  /\ \A n \in L1 : Kept(n)
               /\ \A n \in cmd.req : unit[n] = "missing"
               /\ cmd.verb # "deploy"
    <3>1. m \in cmd.todo /\ Refuses(m)
      BY <2>3 DEF StepRefused, Turn
    <3>2. CASE cmd.phase = "ready" /\ running[m] = NoId
      <4>1. cmd.verb = "deploy"
        BY <3>2 DEF BookOK, ProgramOK, MoveOK, StoppingOK, Idle
      <4> QED BY <3>2, <4>1 DEF BookOK, DeployBooks
    <3>3. CASE cmd.phase = "start" /\ unit[m] = "missing"
      <4>1. cmd.verb \in {"deploy", "place"}
        BY <3>3 DEF BookOK, ProgramOK, StoppingOK, Idle
      <4>2. m \in cmd.sel
        BY <3>1, <3>3 DEF ClaimOK
      <4>3. On(m)
        BY <3>3, <4>1, <4>2 DEF BookOK, DeployBooks, PlaceBooks
      <4> QED BY <3>3, <4>3 DEF On
    <3>4. CASE cmd.phase = "enable" /\ unit[m] = "missing"
      <4>1. cmd.verb = "start"
        BY <3>4 DEF BookOK, ProgramOK, MoveOK, StoppingOK, Idle
      <4>2. Uninstalled
        BY <3>4, <4>1 DEF BookOK, IntentOK, Installed
      <4>3. \A n \in cmd.req : want[n] = "open" /\ unit[n] = "missing"
        BY <4>2 DEF ClaimOK, Uninstalled
      <4>4. \A n \in L1 \ cmd.req : Kept(n)
        BY <3>4, <4>1, <4>2 DEF BookOK, StartBooks
      <4> QED BY <4>1, <4>3, <4>4 DEF Kept
    <3> QED BY <3>1, <3>2, <3>3, <3>4 DEF Refuses
  <2> QED BY <2>1, <2>2, <2>3
<1>4. \A m \in cmd.req : want[m] = "open" /\ ~On(m)
  BY <1>3 DEF ClaimOK, On
<1>5. IntentOK'
  BY <1>1, <1>2, <1>3, <1>4, BookedKept DEF BookOK, IntentOK
<1>6. RestBooks'
  BY <1>1, <1>3, BookedKept DEF RestBooks
<1>7. ProgramOK'
  BY <1>1, <1>2 DEF ProgramOK
<1> QED BY <1>2, <1>5, <1>6, <1>7 DEF BookOK, PlaceBooks, StartBooks, StopBooks, DeployBooks

\* A verb that ends well: what it named is up and enabled, or down and not.
LEMMA BookCompletes ==
  ASSUME RerunInv, BookOK, ~UserInstall, Complete
  PROVE  BookOK'
<1> USE BookFacts
<1>1. /\ cmd.phase = "done" /\ cmd' = Idle
      /\ UNCHANGED <<placement, unit, disk, running, book>>
      /\ want' = [m \in L1 |->
                    IF m \notin cmd.req THEN want[m]
                    ELSE IF cmd.verb \in {"stop", "destroy"} THEN "down" ELSE "up"]
  BY DEF Complete, machine, control
<1>2. cmd'.verb = "none" /\ cmd'.req = {}
  BY <1>1 DEF Idle
<1>3. /\ \A m \in cmd.req : IF cmd.verb \in {"stop", "destroy"} THEN ~On(m) ELSE On(m)
      /\ \A m \in L1 : Kept(m)
      /\ Uninstalled \/ Installed
  <2>1. CASE cmd.verb = "place"
    BY <1>1, <2>1 DEF BookOK, PlaceBooks, ClaimOK, IntentOK
  <2>2. CASE cmd.verb = "start"
    BY <1>1, <2>2 DEF BookOK, StartBooks, IntentOK
  <2>3. CASE cmd.verb \in {"stop", "destroy"}
    <3>1. \A m \in cmd.req : ~On(m)
      BY <1>1, <2>3 DEF StoppingOK, Rests, On
    <3> QED BY <1>1, <2>3, <3>1 DEF BookOK, StopBooks, IntentOK, Kept
  <2>4. CASE cmd.verb = "deploy"
    <3>1. \A m \in L1 : On(m) /\ book[m] = StateSyncPeers(m, L1)
      BY <1>1, <2>4 DEF BookOK, DeployBooks
    <3>2. Enabled = L1
      BY <3>1
    <3> QED BY <2>4, <3>1, <3>2 DEF Kept, Booked, Installed, On
  <2> QED BY <1>1, <2>1, <2>2, <2>3, <2>4 DEF BookOK, ProgramOK, Idle
<1>4. IntentOK'
  BY <1>1, <1>2, <1>3, BookedKept DEF BookOK, IntentOK
<1>5. RestBooks'
  <2>1. ASSUME NEW m \in cmd.req PROVE Kept(m)'
    <3>1. Booked(m) \/ (unit[m] = "missing" /\ ~On(m))
      BY <1>3 DEF Kept, On
    <3>2. CASE Booked(m)
      BY <1>1, <3>2, BookedKept DEF Kept
    <3>3. CASE unit[m] = "missing" /\ ~On(m) /\ ~Booked(m)
      <4>1. cmd.verb \in {"stop", "destroy"}
        BY <1>3, <3>3
      <4> QED BY <1>1, <3>3, <4>1 DEF BookOK, StopBooks
    <3> QED BY <3>1, <3>2, <3>3
  <2> QED BY <1>1, <1>3, <2>1, BookedKept DEF RestBooks
<1>6. ProgramOK'
  BY <1>1, <1>2 DEF ProgramOK
<1> QED BY <1>2, <1>4, <1>5, <1>6 DEF BookOK, PlaceBooks, StartBooks, StopBooks, DeployBooks

\* Place probes: what was moved is found, and only what is enabled is claimed.
LEMMA BookProbesPlace ==
  ASSUME RerunInv, BookOK, ~UserInstall, NEW m \in L1, ProbePlacement(m)
  PROVE  BookOK'
<1> USE BookFacts
<1>1. /\ cmd.verb = "place" /\ cmd.phase = "probe" /\ cmd'.verb = "place"
      /\ cmd'.phase = "probe" /\ cmd'.req = cmd.req /\ cmd'.todo = cmd.todo \ {m}
      /\ cmd'.sel = IF NeedsApply(m) THEN cmd.sel \union {m} ELSE cmd.sel
      /\ UNCHANGED <<placement, unit, disk, running, book, want>>
  BY DEF ProbePlacement, Command, control, machine
<1>2. NeedsApply(m) => On(m)
  BY DEF NeedsApply, On, BookOK, IntentOK
<1>3. ASSUME NEW n \in L1, Moved(n) PROVE Moved(n)'
  <2>1. On(n)' /\ (n \in cmd.sel => n \in cmd'.sel)
    BY <1>1, <1>3 DEF Moved, On
  <2>2. CASE n = m /\ n \notin cmd.sel
    <3>1. NeedsApply(m)
      BY <1>3, <2>2 DEF Moved, On, NeedsApply
    <3> QED BY <1>1, <2>1, <2>2, <3>1 DEF Moved
  <2> QED BY <1>1, <1>3, <2>1, <2>2 DEF Moved
<1>4. PlaceBooks'
  <2>1. \A n \in cmd'.sel : On(n)'
    BY <1>1, <1>2, BookedKept DEF BookOK, PlaceBooks
  <2>2. (\A n \in L1 : Kept(n)) \/ \E n \in L1 : Moved(n)
    BY <1>1 DEF BookOK, PlaceBooks
  <2>3. (\A n \in L1 : Kept(n))' \/ (\E n \in L1 : Moved(n))'
    BY <1>1, <1>3, <2>2, BookedKept
  <2> QED BY <1>1, <2>1, <2>3 DEF PlaceBooks
<1>5. IntentOK' /\ ProgramOK'
  BY <1>1, BookedKept DEF BookOK, IntentOK, ProgramOK
<1> QED BY <1>1, <1>4, <1>5 DEF BookOK, RestBooks, StartBooks, StopBooks, DeployBooks

\* Start probes: what already serves its identity is enabled.
LEMMA BookProbesStart ==
  ASSUME RerunInv, BookOK, ~UserInstall, NEW m \in L1, ProbeStart(m)
  PROVE  BookOK'
<1> USE BookFacts
<1>1. /\ cmd.verb = "start" /\ cmd.phase = "probe" /\ cmd'.verb = "start"
      /\ cmd'.phase = "probe" /\ cmd'.req = cmd.req /\ cmd'.todo = cmd.todo \ {m}
      /\ cmd'.sel = IF NeedsStart(m) THEN cmd.sel \union {m} ELSE cmd.sel
      /\ UNCHANGED <<placement, unit, disk, running, book, want>>
  BY DEF ProbeStart, Command, control, machine
<1>2. NeedsStart(m) \/ On(m)
  BY DEF NeedsStart, BookOK, IntentOK
<1>3. StartBooks'
  BY <1>1, <1>2, BookedKept DEF BookOK, StartBooks
<1>4. IntentOK' /\ ProgramOK'
  BY <1>1, BookedKept DEF BookOK, IntentOK, ProgramOK
<1> QED BY <1>1, <1>3, <1>4 DEF BookOK, RestBooks, PlaceBooks, StopBooks, DeployBooks

\* Place plans: with nothing to restart the books stand, as nothing that is up
\* was moved; else they go to every machine, from intent as it is.
LEMMA BookPlansPlace ==
  ASSUME RerunInv, BookOK, ~UserInstall, PlanApply, faults' = 0, faults = 0
  PROVE  BookOK'
<1> USE BookFacts
<1>1. /\ cmd.verb = "place" /\ cmd.phase = "probe" /\ cmd.todo = {}
      /\ cmd'.verb = "place" /\ cmd'.req = cmd.req /\ cmd'.sel = cmd.sel
      /\ UNCHANGED <<placement, unit, disk, running, book, want>>
      /\ \/ cmd'.phase = "settled" /\ cmd.sel = {}
         \/ /\ cmd'.phase = "config" /\ cmd'.todo = L1
            /\ \E U \in SUBSET L1 : Silent(U) /\ cmd'.up = IntendedUp(U, {}, {})
  BY DEF PlanApply, Command, control, machine
<1>2. CASE cmd'.phase = "settled" /\ cmd.sel = {}
  <2>1. \A n \in L1 : ~Moved(n)
    BY <1>1, <1>2 DEF Moved
  <2> QED BY <1>1, <1>2, <2>1, BookedKept
          DEF BookOK, PlaceBooks, IntentOK, ProgramOK, RestBooks, StartBooks, StopBooks,
              DeployBooks
<1>3. ASSUME NEW U \in SUBSET L1, Silent(U), cmd'.up = IntendedUp(U, {}, {}),
             cmd'.phase = "config", cmd'.todo = L1
      PROVE  BookOK'
  <2>1. U = {}
    BY <1>3 DEF Silent
  <2>2. cmd'.up = Enabled'
    BY <1>1, <1>3, <2>1, BookedKept DEF IntendedUp
  <2>3. PlaceBooks'
    BY <1>1, <1>3, <2>2, BookedKept DEF BookOK, PlaceBooks, PushingOK
  <2>4. IntentOK' /\ ProgramOK'
    BY <1>1, BookedKept DEF BookOK, IntentOK, ProgramOK
  <2> QED BY <1>1, <2>3, <2>4 DEF BookOK, RestBooks, StartBooks, StopBooks, DeployBooks
<1> QED BY <1>1, <1>2, <1>3

LEMMA BookPlansStart ==
  ASSUME RerunInv, BookOK, ~UserInstall, PlanStart
  PROVE  BookOK'
<1> USE BookFacts
<1>1. /\ cmd.verb = "start" /\ cmd.phase = "probe" /\ cmd.todo = {}
      /\ cmd'.verb = "start" /\ cmd'.req = cmd.req /\ cmd'.sel = cmd.sel
      /\ UNCHANGED <<placement, unit, disk, running, book, want>>
      /\ \/ cmd'.phase = "done" /\ cmd.sel = {}
         \/ cmd'.phase = "stop"
  BY DEF PlanStart, Command, control, machine
<1>2. StartBooks'
  BY <1>1, BookedKept DEF BookOK, StartBooks
<1>3. IntentOK' /\ ProgramOK'
  BY <1>1, BookedKept DEF BookOK, IntentOK, ProgramOK
<1> QED BY <1>1, <1>2, <1>3 DEF BookOK, RestBooks, PlaceBooks, StopBooks, DeployBooks

\* The next phase finds what the last one did on every machine.
LEMMA BookAdvances ==
  ASSUME RerunInv, BookOK, ~UserInstall, Advance
  PROVE  BookOK'
<1> USE BookFacts
<1>1. PICK q \in Phases \ {"book"} :
        /\ <<cmd.verb, cmd.phase, q>> \in Order
        /\ cmd' = [cmd EXCEPT !.phase = q,
                     !.todo = IF q \in {"next", "settled", "done"} THEN {} ELSE cmd.sel]
  BY DEF Advance
<1>2. /\ cmd.todo = {} /\ cmd'.phase = q /\ cmd'.verb = cmd.verb /\ cmd'.sel = cmd.sel
      /\ cmd'.req = cmd.req /\ cmd'.up = cmd.up
      /\ q \notin {"next", "settled", "done"} => cmd'.todo = cmd.sel
      /\ UNCHANGED <<placement, unit, disk, running, book, want>>
  BY <1>1 DEF Advance, Command, control, machine
<1>3. IntentOK'
  BY <1>2, BookedKept DEF BookOK, IntentOK
<1>4. CASE cmd.verb = "place"
  <2>1. \/ cmd.phase = "config" /\ q = "identity"
        \/ cmd.phase = "identity" /\ q = "stop"
        \/ cmd.phase = "stop" /\ q = "start"
        \/ cmd.phase = "start" /\ q = "settled"
    BY <1>1, <1>4 DEF Order
  <2>2. \A m \in L1 : Kept(m)
    BY <1>2, <1>4, <2>1 DEF BookOK, PlaceBooks, PushingOK, Kept
  <2>3. PlaceBooks' /\ ProgramOK'
    BY <1>2, <1>4, <2>1, <2>2, BookedKept DEF BookOK, PlaceBooks, ProgramOK
  <2> QED BY <1>2, <1>3, <1>4, <2>3 DEF BookOK, RestBooks, StartBooks, StopBooks, DeployBooks
<1>5. CASE cmd.verb = "start"
  <2>1. \/ cmd.phase = "stop" /\ q = "identity"
        \/ cmd.phase = "identity" /\ q = "config"
        \/ cmd.phase = "config" /\ q = "enable"
        \/ cmd.phase = "book" /\ q = "done"
    BY <1>1, <1>5 DEF Order
  <2>2. StartBooks'
    <3>1. CASE q # "done"
      <4>1. cmd.sel \subseteq cmd.req
        BY <1>5 DEF ClaimOK
      <4>2. /\ \A m \in cmd.req \ cmd.sel : On(m)'
            /\ Uninstalled' => \A m \in L1 \ cmd.req : Kept(m)'
        BY <1>2, <1>5, <2>1, <3>1, BookedKept DEF BookOK, StartBooks
      <4> QED BY <1>2, <1>5, <2>1, <3>1, <4>1, <4>2 DEF StartBooks
    <3>2. CASE q = "done"
      <4>1. /\ \A m \in L1 : Booked(m)
            /\ \A m \in cmd.req : On(m)
        BY <1>2, <1>5, <2>1, <3>2 DEF BookOK, StartBooks, PushingOK
      <4> QED BY <1>2, <1>5, <3>2, <4>1, BookedKept DEF StartBooks, Kept, ClaimOK
    <3> QED BY <3>1, <3>2
  <2>3. ProgramOK'
    BY <1>2, <1>5, <2>1 DEF ProgramOK
  <2> QED BY <1>2, <1>3, <1>5, <2>2, <2>3 DEF BookOK, RestBooks, PlaceBooks, StopBooks, DeployBooks
<1>6. CASE cmd.verb \in {"stop", "destroy"}
  <2>1. \/ cmd.phase = "kill" /\ q = "wipe"
        \/ cmd.phase = "book" /\ q = "done"
    BY <1>1, <1>6 DEF Order
  <2>2. StopBooks' /\ ProgramOK'
    BY <1>2, <1>6, <2>1, BookedKept DEF BookOK, StopBooks, PushingOK, ProgramOK
  <2> QED BY <1>2, <1>3, <1>6, <2>2 DEF BookOK, RestBooks, PlaceBooks, StartBooks, DeployBooks
<1>7. CASE cmd.verb = "deploy"
  <2>1. \/ cmd.phase = "stop" /\ q = "package"
        \/ cmd.phase = "package" /\ q = "unit"
        \/ cmd.phase = "unit" /\ q = "identity"
        \/ cmd.phase = "identity" /\ q = "start"
        \/ cmd.phase = "start" /\ q = "ready"
        \/ cmd.phase = "ready" /\ q = "done"
    BY <1>1, <1>7 DEF Order
  <2>2. cmd.sel = L1 /\ cmd.req = L1
    BY <1>7 DEF BookOK, ProgramOK
  <2>3. \A m \in L1 : StateSyncPeers(m, L1)' = StateSyncPeers(m, L1)
    BY <1>2 DEF StateSyncPeers
  <2>4. DeployBooks'
    BY <1>2, <1>7, <2>1, <2>2, <2>3, BookedKept DEF BookOK, DeployBooks
  <2>5. ProgramOK'
    BY <1>2, <1>7, <2>1, <2>2 DEF ProgramOK
  <2> QED BY <1>2, <1>3, <1>7, <2>4, <2>5 DEF BookOK, RestBooks, PlaceBooks, StartBooks, StopBooks
<1>8. CASE cmd.verb = "none"
  BY <1>1, <1>8 DEF Order
<1> QED BY <1>4, <1>5, <1>6, <1>7, <1>8 DEF BookOK, ProgramOK

\* A refresh begins: what the verb brought up is enabled, what it took down is
\* not, so the list is the boot intent of the fleet.
LEMMA BookRefreshes ==
  ASSUME RerunInv, BookOK, ~UserInstall, RefreshAddressBook, faults = 0, faults' = 0
  PROVE  BookOK'
<1> USE BookFacts
<1>1. PICK U \in SUBSET L1 :
        /\ Silent(U)
        /\ cmd' = [cmd EXCEPT !.phase = "book", !.todo = L1,
                     !.up = IF cmd.verb = "start"
                            THEN IntendedUp(U, cmd.sel, {})
                            ELSE IntendedUp(U, {}, cmd.sel)]
  BY DEF RefreshAddressBook
<1>2. /\ cmd.todo = {} /\ <<cmd.verb, cmd.phase, "book">> \in Order
      /\ cmd'.phase = "book" /\ cmd'.verb = cmd.verb /\ cmd'.sel = cmd.sel
      /\ cmd'.req = cmd.req /\ cmd'.todo = L1
      /\ cmd.verb = "start" => cmd'.up = IntendedUp(U, cmd.sel, {})
      /\ cmd.verb # "start" => cmd'.up = IntendedUp(U, {}, cmd.sel)
      /\ UNCHANGED <<placement, unit, disk, running, book, want>>
  BY <1>1 DEF RefreshAddressBook, Command, control, machine
<1>a. U = {}
  BY <1>1 DEF Silent
<1>3. \/ cmd.verb = "start" /\ cmd.phase = "enable"
      \/ cmd.verb \in {"stop", "destroy"} /\ cmd.phase \in {"disable", "wipe"}
  BY <1>2 DEF Order
<1>4. cmd'.up = Enabled
  <2>1. CASE cmd.verb = "start" /\ cmd.phase = "enable"
    <3>1. \A m \in cmd.sel : On(m)
      BY <1>2, <2>1 DEF BookOK, StartBooks
    <3> QED BY <1>2, <1>a, <2>1, <3>1 DEF IntendedUp
  <2>2. CASE cmd.verb \in {"stop", "destroy"}
    <3>1. \A m \in cmd.sel : ~On(m)
      BY <1>2, <2>2 DEF StoppingOK, Rests, On
    <3> QED BY <1>2, <1>a, <2>2, <3>1 DEF IntendedUp
  <2> QED BY <1>3, <2>1, <2>2
<1>5. PushingOK'
  BY <1>2, <1>4, BookedKept DEF PushingOK
<1>6. StartBooks' /\ StopBooks'
  BY <1>2, <1>3, <1>5, BookedKept DEF BookOK, StartBooks, StopBooks
<1>7. IntentOK' /\ ProgramOK'
  BY <1>2, <1>3, BookedKept DEF BookOK, IntentOK, ProgramOK
<1> QED BY <1>2, <1>3, <1>6, <1>7 DEF BookOK, RestBooks, PlaceBooks, DeployBooks

LEMMA BookPushed ==
  ASSUME RerunInv, BookOK, ~UserInstall, NEW m \in L1, PushBook(m), faults = 0, faults' = 0
  PROVE  BookOK'
<1> USE BookFacts
<1>1. /\ cmd.phase = "book" /\ cmd'.phase = "book" /\ cmd'.verb = cmd.verb
      /\ cmd'.sel = cmd.sel /\ cmd'.req = cmd.req /\ cmd'.up = cmd.up
      /\ cmd'.todo = cmd.todo \ {m} /\ InstallConfig(m)
      /\ UNCHANGED <<placement, unit, disk, running, want>>
  BY DEF PushBook, InstallConfig, Command, control
<1>2. cmd.verb \in {"start", "stop", "destroy"} /\ PushingOK
  BY <1>1 DEF BookOK, StartBooks, StopBooks
<1>3. /\ book'[m] = StateSyncPeers(m, Enabled)
      /\ \A n \in L1 \ {m} : book'[n] = book[n]
  BY <1>1, <1>2 DEF InstallConfig, PushingOK
<1>4. StateSyncPeers(m, Enabled)' = StateSyncPeers(m, Enabled)
  BY <1>1 DEF StateSyncPeers, Enabled
<1>5. PushingOK'
  BY <1>1, <1>2, <1>3, <1>4, BookedKept DEF PushingOK, Booked
<1>6. StartBooks' /\ StopBooks'
  BY <1>1, <1>2, <1>5, BookedKept DEF BookOK, StartBooks, StopBooks
<1>7. IntentOK' /\ ProgramOK'
  BY <1>1, <1>2, BookedKept DEF BookOK, IntentOK, ProgramOK
<1> QED BY <1>1, <1>2, <1>6, <1>7 DEF BookOK, RestBooks, PlaceBooks, DeployBooks

\* The move is written: either the books still stand, as nothing that is up has
\* moved, or something that is up serves another identity than assigned.
LEMMA BookMoves ==
  ASSUME RerunInv, BookOK, ~UserInstall, SavePlacement
  PROVE  BookOK'
<1> USE BookFacts
<1>1. /\ cmd.verb = "place" /\ cmd.phase = "settled" /\ cmd'.verb = "place"
      /\ cmd'.req = cmd.req /\ Validate(placement')
      /\ UNCHANGED <<unit, disk, running, book, want>>
      /\ \/ placement' = placement /\ cmd'.phase = "done" /\ cmd'.sel = cmd.sel
         \/ cmd'.phase = "probe" /\ cmd'.todo = L1 /\ cmd'.sel = {}
  BY DEF SavePlacement, Command, machine, ClaimOK
<1>2. \A m \in L1 : Kept(m)
  BY <1>1 DEF BookOK, PlaceBooks
<1>3. IntentOK' /\ ProgramOK'
  BY <1>1 DEF BookOK, IntentOK, ProgramOK, On, Uninstalled, Installed
<1>4. CASE placement' = placement /\ cmd'.phase = "done" /\ cmd'.sel = cmd.sel
  <2>1. PlaceBooks'
    BY <1>1, <1>2, <1>4, BookedKept DEF BookOK, PlaceBooks
  <2> QED BY <1>1, <1>3, <2>1 DEF BookOK, RestBooks, StartBooks, StopBooks, DeployBooks
<1>5. CASE cmd'.phase = "probe" /\ cmd'.todo = L1 /\ cmd'.sel = {}
  <2>1. ASSUME NEW m \in L1, On(m), placement'[m] # placement[m] PROVE Moved(m)'
    <3>1. Fit(m)
      BY SaveFindsAllFit
    <3>2. placement'[m] # NoId
      BY <1>1, FleetAssumption DEF Validate, L1
    <3> QED BY <1>1, <1>5, <2>1, <3>1, <3>2 DEF Fit, Rests, On, Moved
  <2>2. ASSUME \A m \in L1 : On(m) => placement'[m] = placement[m], NEW m \in L1
        PROVE  Kept(m)'
    <3>1. Enabled' = Enabled /\ \A p \in Enabled : placement'[p] = placement[p]
      BY <1>1, <2>2 DEF Enabled
    <3>2. StateSyncPeers(m, Enabled)' = StateSyncPeers(m, Enabled)
      BY <3>1 DEF StateSyncPeers
    <3> QED BY <1>1, <1>2, <3>2 DEF Kept, Booked
  <2>3. (\A m \in L1 : Kept(m))' \/ (\E m \in L1 : Moved(m))'
    BY <2>1, <2>2
  <2>4. PlaceBooks'
    BY <1>1, <1>5, <2>3 DEF PlaceBooks
  <2> QED BY <1>1, <1>3, <2>4 DEF BookOK, RestBooks, StartBooks, StopBooks, DeployBooks
<1> QED BY <1>1, <1>4, <1>5

LEMMA BookApplied ==
  ASSUME RerunInv, BookOK, ~UserInstall, PlaceApplied
  PROVE  BookOK'
<1> USE BookFacts
<1>1. /\ cmd.verb = "place" /\ cmd.phase = "settled" /\ cmd'.verb = "place"
      /\ cmd'.phase = "done" /\ cmd'.req = cmd.req /\ cmd'.sel = cmd.sel
      /\ UNCHANGED <<placement, unit, disk, running, book, want>>
  BY DEF PlaceApplied, Command, control, machine, ClaimOK
<1>2. PlaceBooks' /\ IntentOK' /\ ProgramOK'
  BY <1>1, BookedKept DEF BookOK, PlaceBooks, IntentOK, ProgramOK
<1> QED BY <1>1, <1>2 DEF BookOK, RestBooks, StartBooks, StopBooks, DeployBooks

\* One remote command that is not lost.
LEMMA BookStep ==
  ASSUME RerunInv, BookOK, ~UserInstall, NEW m \in L1, Step(m)
  PROVE  /\ m \in cmd.todo /\ Remote(m) /\ ~Refuses(m)
         /\ cmd'.verb = cmd.verb /\ cmd'.phase = cmd.phase /\ cmd'.sel = cmd.sel
         /\ cmd'.req = cmd.req /\ cmd'.up = cmd.up /\ cmd'.todo = cmd.todo \ {m}
         /\ UNCHANGED <<placement, want>>
         /\ \A n \in L1 \ {m} : /\ book'[n] = book[n] /\ unit'[n] = unit[n]
                                /\ disk'[n] = disk[n] /\ running'[n] = running[n]
<1> USE BookFacts
<1>1. m \in cmd.todo /\ Remote(m) /\ ~Refuses(m)
  BY DEF Step, Turn
<1>2. \A n \in L1 \ {m} : book'[n] = book[n]
  <2>1. CASE InstallConfig(m) \/ InstallPackage(m)
    BY <2>1 DEF InstallConfig, InstallPackage
  <2>2. CASE book' = book
    BY <2>2
  <2> QED BY <1>1, <2>1, <2>2
          DEF Remote, StopCommand, InstallIdentity, StartOnly, EnableAndStart,
              DisableAndStop, KillService, RemoveChainData, InstallUnit, WaitL1Ready, machine
<1>3. \A n \in L1 \ {m} : /\ disk'[n] = disk[n] /\ running'[n] = running[n]
                          /\ unit'[n] = unit[n]
  BY <1>1, RemoteEffect
<1>4. /\ cmd'.verb = cmd.verb /\ cmd'.phase = cmd.phase /\ cmd'.sel = cmd.sel
      /\ cmd'.req = cmd.req /\ cmd'.up = cmd.up /\ cmd'.todo = cmd.todo \ {m}
      /\ UNCHANGED <<placement, want>>
  BY DEF Step, Command, control
<1> QED BY <1>1, <1>2, <1>3, <1>4

LEMMA BookStepPlace ==
  ASSUME RerunInv, BookOK, ~UserInstall, NEW m \in L1, Step(m), cmd.verb = "place"
  PROVE  BookOK'
<1> USE BookFacts, BookStep
<1>1. cmd.phase \in {"config", "identity", "stop", "start"}
  BY DEF MoveOK, Remote
<1>2. unit' = unit /\ (cmd.phase # "config" => book' = book)
  BY <1>1 DEF Remote, InstallConfig, InstallIdentity, StopCommand, StartOnly
<1>3. running'[m] # NoId => On(m)
  <2>1. cmd.phase # "config" => m \in cmd.sel
    BY <1>1 DEF ClaimOK
  <2>2. cmd.phase = "config" => running' = running
    BY <1>1 DEF Remote, InstallConfig
  <2> QED BY <2>1, <2>2 DEF BookOK, PlaceBooks, IntentOK
<1>4. IntentOK' /\ ProgramOK'
  BY <1>2, <1>3, BookedKept DEF BookOK, IntentOK, ProgramOK
<1>5. PlaceBooks'
  <2>1. CASE cmd.phase = "config"
    <3>1. book'[m] = StateSyncPeers(m, Enabled) /\ PushingOK
      BY <1>1, <2>1 DEF Remote, InstallConfig, BookOK, PlaceBooks, PushingOK
    <3>2. StateSyncPeers(m, Enabled)' = StateSyncPeers(m, Enabled)
      BY <1>2 DEF StateSyncPeers, Enabled
    <3>3. PushingOK'
      BY <1>2, <3>1, <3>2, BookedKept DEF PushingOK, Booked
    <3> QED BY <1>2, <2>1, <3>3, BookedKept DEF BookOK, PlaceBooks
  <2>2. CASE cmd.phase # "config"
    BY <1>1, <1>2, <2>2, BookedKept DEF BookOK, PlaceBooks
  <2> QED BY <2>1, <2>2
<1> QED BY <1>4, <1>5 DEF BookOK, RestBooks, StartBooks, StopBooks, DeployBooks

LEMMA BookStepStart ==
  ASSUME RerunInv, BookOK, ~UserInstall, NEW m \in L1, Step(m), cmd.verb = "start"
  PROVE  BookOK'
<1> USE BookFacts, BookStep
<1>1. cmd.phase \in {"stop", "identity", "config", "enable"}
  BY DEF BookOK, ProgramOK, Remote
<1>2. m \in cmd.req /\ (cmd.phase # "config" => m \in cmd.sel)
  BY <1>1 DEF ClaimOK, BookOK, StartBooks
<1>3. CASE cmd.phase # "enable"
  <2>1. /\ unit' = unit /\ (running'[m] # NoId => running[m] # NoId)
    BY <1>1, <1>3 DEF Remote, StopCommand, InstallIdentity, InstallConfig
  <2>2. IntentOK' /\ ProgramOK'
    BY <2>1, BookedKept DEF BookOK, IntentOK, ProgramOK
  <2>3. StartBooks'
    BY <1>1, <1>2, <1>3, <2>1, BookedKept DEF BookOK, StartBooks
  <2> QED BY <2>2, <2>3 DEF BookOK, RestBooks, PlaceBooks, StopBooks, DeployBooks
<1>4. CASE cmd.phase = "enable"
  <2>1. /\ unit[m] # "missing" /\ unit'[m] = "enabled" /\ Installed
    BY <1>4 DEF Remote, EnableAndStart, Refuses, BookOK, IntentOK, Uninstalled
  <2>2. On(m)' /\ Installed' /\ ~Uninstalled'
    BY <2>1 DEF On, Installed, Uninstalled
  <2>3. \A n \in L1 \ {m} : On(n) <=> On(n)'
    BY DEF On
  <2>4. IntentOK' /\ ProgramOK'
    BY <1>2, <2>2, <2>3 DEF BookOK, IntentOK, ProgramOK
  <2>5. StartBooks'
    BY <1>2, <1>4, <2>2, <2>3 DEF BookOK, StartBooks
  <2> QED BY <2>4, <2>5 DEF BookOK, RestBooks, PlaceBooks, StopBooks, DeployBooks
<1> QED BY <1>3, <1>4

LEMMA BookStepStop ==
  ASSUME RerunInv, BookOK, ~UserInstall, NEW m \in L1, Step(m),
         cmd.verb \in {"stop", "destroy"}
  PROVE  BookOK'
<1> USE BookFacts, BookStep
<1>1. cmd.phase \in {"disable", "kill", "wipe"} /\ m \in cmd.req
  BY DEF StoppingOK, Remote, ClaimOK
<1>2. /\ running'[m] # NoId => running[m] # NoId /\ unit'[m] = unit[m]
      /\ unit[m] = "missing" <=> unit'[m] = "missing"
  BY <1>1 DEF Remote, DisableAndStop, KillService, Disabled, RemoveChainData
<1>3. IntentOK'
  <2>1. \A n \in L1 \ {m} : On(n) <=> On(n)'
    BY DEF On
  <2>2. running'[m] # NoId => On(m)'
    BY <1>2 DEF BookOK, IntentOK, On
  <2>3. (Uninstalled <=> Uninstalled') /\ (Installed <=> Installed')
    BY <1>2 DEF Uninstalled, Installed
  <2> QED BY <1>1, <2>1, <2>2, <2>3 DEF BookOK, IntentOK
<1>4. StopBooks' /\ ProgramOK'
  BY <1>1 DEF BookOK, StopBooks, ProgramOK
<1> QED BY <1>3, <1>4 DEF BookOK, RestBooks, PlaceBooks, StartBooks, DeployBooks

LEMMA BookStepDeploy ==
  ASSUME RerunInv, BookOK, ~UserInstall, NEW m \in L1, Step(m), cmd.verb = "deploy"
  PROVE  BookOK'
<1> USE BookFacts, BookStep
<1>1. /\ cmd.phase \in {"stop", "package", "unit", "identity", "start", "ready"}
      /\ cmd.req = L1 /\ cmd.sel = L1
  BY DEF BookOK, ProgramOK, Remote
<1>2. \A n \in L1 : StateSyncPeers(n, L1)' = StateSyncPeers(n, L1)
  BY DEF StateSyncPeers
<1>3. \A n \in L1 \ {m} : On(n) <=> On(n)'
  BY DEF On
<1>4. /\ cmd.phase = "package" => book'[m] = StateSyncPeers(m, L1)
      /\ cmd.phase # "package" => book'[m] = book[m]
  BY <1>1 DEF Remote, StopCommand, InstallPackage, InstallUnit, InstallIdentity, StartOnly,
              WaitL1Ready, machine
<1>5. /\ cmd.phase = "unit" => unit'[m] = "enabled"
      /\ cmd.phase # "unit" => unit'[m] = unit[m]
  BY <1>1 DEF Remote, StopCommand, InstallPackage, InstallUnit, InstallIdentity, StartOnly,
              WaitL1Ready, machine
<1>6. /\ cmd.phase = "identity" => disk'[m] = placement[m]
      /\ cmd.phase # "identity" => disk'[m] = disk[m]
  BY <1>1 DEF Remote, StopCommand, InstallPackage, InstallUnit, InstallIdentity, StartOnly,
              WaitL1Ready, machine
<1>7. /\ cmd.phase = "start" => running'[m] # NoId \/ disk[m] = NoId
      /\ cmd.phase \notin {"stop", "start"} => running'[m] = running[m]
      /\ cmd.phase = "stop" => running'[m] = NoId
  BY <1>1 DEF Remote, StopCommand, InstallPackage, InstallUnit, InstallIdentity, StartOnly,
              Launch, WaitL1Ready, machine
<1>8. DeployBooks'
  <2> DEFINE D(n) ==
        /\ cmd.phase # "stop" =>
             book[n] = StateSyncPeers(n, L1) \/ (cmd.phase = "package" /\ n \in cmd.todo)
        /\ cmd.phase \notin {"stop", "package"} =>
             On(n) \/ (cmd.phase = "unit" /\ n \in cmd.todo)
        /\ cmd.phase \in {"identity", "start", "ready", "done"} =>
             disk[n] = placement[n] \/ (cmd.phase = "identity" /\ n \in cmd.todo)
        /\ cmd.phase \in {"start", "ready", "done"} =>
             running[n] # NoId \/ (cmd.phase = "start" /\ n \in cmd.todo)
  <2>1. \A n \in L1 : D(n)
    BY DEF BookOK, DeployBooks
  <2>2. \A n \in L1 \ {m} : D(n)'
    BY <1>2, <1>3, <2>1
  <2>3. D(m)'
    <3>1. D(m)
      BY <2>1
    <3>2. cmd.phase = "unit" => On(m)'
      BY <1>5 DEF On
    <3>3. cmd.phase # "unit" => (On(m) <=> On(m)')
      BY <1>5 DEF On
    <3> QED BY <1>1, <1>2, <1>4, <1>6, <1>7, <3>1, <3>2, <3>3
  <2> QED BY <2>2, <2>3 DEF DeployBooks
<1>9. IntentOK'
  <2>1. running'[m] # NoId => On(m)'
    <3>1. CASE cmd.phase = "start"
      <4>1. On(m)
        BY <3>1 DEF BookOK, DeployBooks
      <4> QED BY <1>5, <3>1, <4>1 DEF On
    <3>2. CASE cmd.phase # "start"
      BY <1>5, <1>7, <3>2 DEF BookOK, IntentOK, On
    <3> QED BY <3>1, <3>2
  <2> QED BY <1>1, <1>3, <2>1 DEF BookOK, IntentOK
<1>10. ProgramOK'
  BY <1>1 DEF BookOK, ProgramOK
<1> QED BY <1>8, <1>9, <1>10 DEF BookOK, RestBooks, PlaceBooks, StartBooks, StopBooks

LEMMA BookInit == Init /\ ~UserInstall => BookInv
<1> SUFFICES ASSUME Init, ~UserInstall PROVE BookInv
  OBVIOUS
<1>1. /\ RerunInv /\ cmd = Idle
      /\ Deployed => \A m \in L1 : /\ unit[m] = "enabled" /\ want[m] = "up"
                                   /\ book[m] = StateSyncPeers(m, L1)
      /\ ~Deployed => \A m \in L1 : /\ unit[m] = "missing" /\ want[m] = "open"
                                    /\ running[m] = NoId
  BY RerunInit DEF Init, RerunInv
<1>2. cmd.verb = "none" /\ cmd.req = {}
  BY <1>1 DEF Idle
<1>3. ProgramOK /\ PlaceBooks /\ StartBooks /\ StopBooks /\ DeployBooks
  BY <1>1, <1>2 DEF ProgramOK, PlaceBooks, StartBooks, StopBooks, DeployBooks
<1>4. CASE Deployed
  <2>1. Installed /\ \A m \in L1 : On(m)
    BY <1>1, <1>4 DEF Installed, On
  <2>2. Enabled = L1
    BY <2>1 DEF Enabled, On
  <2>3. IntentOK
    BY <1>1, <1>2, <1>4, <2>1 DEF IntentOK, On
  <2>4. RestBooks
    BY <1>1, <1>4, <2>2 DEF RestBooks, Kept, Booked
  <2> QED BY <1>1, <1>3, <2>3, <2>4 DEF BookInv, BookOK
<1>5. CASE ~Deployed
  <2>1. Uninstalled /\ \A m \in L1 : ~On(m)
    BY <1>1, <1>5 DEF Uninstalled, On
  <2>2. IntentOK /\ RestBooks
    BY <1>1, <1>2, <1>5, <2>1 DEF IntentOK, RestBooks, Kept
  <2> QED BY <1>1, <1>3, <2>2 DEF BookInv, BookOK
<1> QED BY <1>4, <1>5

LEMMA BookNext ==
  ASSUME BookInv, ~UserInstall, Refreshing, [Next]_vars
  PROVE  BookInv'
<1>1. RerunInv /\ TypeOK /\ faults \in Nat
  BY DEF BookInv, RerunInv, MoveInv, DownInv, TypeOK
<1>2. RerunInv'
  BY <1>1, RerunStep
<1> SUFFICES ASSUME faults' = 0 PROVE BookOK'
  BY <1>2 DEF BookInv
<1>3. ASSUME NEW m \in L1, StepLost(m) \/ ProbeStartSilent(m) PROVE FALSE
  BY <1>1, <1>3 DEF StepLost, ProbeStartSilent
<1>4. ASSUME Interrupt PROVE FALSE
  BY <1>1, <1>4 DEF Interrupt
<1>5. ASSUME faults = 0, BookOK PROVE BookOK'
  <2> USE <1>1, <1>5
  <2>1. CASE Operator
    BY <2>1, BookBegins
  <2>2. ASSUME NEW m \in L1, Step(m) PROVE BookOK'
    <3>1. cmd.verb # "none"
      <4>1. Remote(m)
        BY <2>2 DEF Step
      <4> QED BY <4>1 DEF BookOK, ProgramOK, Idle, Remote
    <3> QED BY <2>2, <3>1, BookStepPlace, BookStepStart, BookStepStop, BookStepDeploy
            DEF BookOK, ProgramOK
  <2>3. ASSUME NEW m \in L1, PushHistory(m) \/ NextMachine PROVE BookOK'
    BY <2>3, BookFacts DEF PushHistory, NextMachine
  <2>4. ASSUME NEW m \in L1, StepRefused(m) \/ ProbePlacement(m) \/ ProbeStart(m) \/ PushBook(m)
        PROVE  BookOK'
    BY <2>4, BookRefused, BookProbesPlace, BookProbesStart, BookPushed
  <2>5. CASE PlanApply \/ PlanStart \/ Advance \/ RefreshAddressBook
    BY <2>5, BookPlansPlace, BookPlansStart, BookAdvances, BookRefreshes
  <2>6. CASE PushFailed \/ SavePlacement \/ RefusePlace \/ PlaceApplied \/ Complete
    BY <2>6, BookRefused, BookMoves, BookApplied, BookCompletes
  <2>7. CASE NextMachine
    BY <2>7, BookFacts DEF NextMachine
  <2>8. ASSUME NEW m \in L1, Crash(m) \/ Reboot(m) PROVE BookOK'
    BY <2>8, BookCrash
  <2>9. CASE UNCHANGED vars
    <3>1. UNCHANGED <<cmd, placement, unit, disk, running, book, want>>
      BY <2>9 DEF vars
    <3>2. \A m \in L1 : StateSyncPeers(m, L1)' = StateSyncPeers(m, L1)
      BY <3>1 DEF StateSyncPeers
    <3>3. RestBooks' /\ PlaceBooks' /\ StartBooks' /\ StopBooks'
      <4>1. \A m \in L1 : Moved(m) => Moved(m)'
        BY <3>1 DEF Moved, On
      <4>2. PushingOK => PushingOK'
        <5>1. Enabled' = Enabled /\ \A m \in L1 : Booked(m) => Booked(m)'
          BY <3>1, BookedKept
        <5> QED BY <3>1, <5>1 DEF PushingOK
      <4>3. /\ \A m \in L1 : (Kept(m) => Kept(m)') /\ (Booked(m) => Booked(m)')
            /\ \A m \in L1 : On(m) <=> On(m)'
            /\ Uninstalled <=> Uninstalled'
        BY <3>1, BookedKept
      <4>4. cmd.sel \subseteq L1 /\ cmd.req \subseteq L1
        BY <1>1, MachineShape
      <4>5. PlaceBooks' /\ RestBooks'
        BY <3>1, <4>1, <4>2, <4>3, <4>4 DEF BookOK, PlaceBooks, RestBooks
      <4>6. StartBooks' /\ StopBooks'
        BY <3>1, <4>2, <4>3, <4>4 DEF BookOK, StartBooks, StopBooks
      <4> QED BY <4>5, <4>6
    <3>4. DeployBooks' /\ IntentOK' /\ ProgramOK'
      BY <3>1, <3>2, BookedKept DEF BookOK, DeployBooks, IntentOK, ProgramOK
    <3> QED BY <3>3, <3>4 DEF BookOK
  <2> QED BY <1>3, <1>4, <2>1, <2>2, <2>3, <2>4, <2>5, <2>6, <2>7, <2>8, <2>9
          DEF Next, Control, Environment
<1>6. faults = 0 \/ faults' # 0
  <2>1. faults' \in {faults, faults + 1}
    <3>1. CASE Operator
      BY <3>1 DEF Operator, Place, Start, Stop, Destroy, Deploy, Roll, UpgradeChain, Begin
    <3>2. ASSUME NEW m \in L1,
                 \/ Step(m) \/ StepRefused(m) \/ ProbePlacement(m) \/ ProbeStart(m)
                 \/ PushBook(m) \/ PushHistory(m) \/ StepLost(m) \/ ProbeStartSilent(m)
                 \/ Crash(m) \/ Reboot(m)
          PROVE  faults' \in {faults, faults + 1}
      BY <3>2 DEF Step, StepRefused, ProbePlacement, ProbeStart, PushBook, PushHistory,
                  StepLost, ProbeStartSilent, Crash, Reboot
    <3>3. CASE PlanApply \/ PlanStart \/ RefreshAddressBook
      BY <3>3 DEF PlanApply, PlanStart, RefreshAddressBook, Silent
    <3>4. CASE \/ Advance \/ PushFailed \/ NextMachine \/ SavePlacement \/ RefusePlace
               \/ PlaceApplied \/ Complete \/ Interrupt \/ UNCHANGED vars
      BY <3>4 DEF Advance, PushFailed, NextMachine, SavePlacement, RefusePlace,
                  PlaceApplied, Complete, Interrupt, vars
    <3> QED BY <3>1, <3>2, <3>3, <3>4 DEF Next, Control, Environment
  <2> QED BY <1>1, <2>1
<1> QED BY <1>5, <1>6 DEF BookInv

\* While nothing fails, every address book lists exactly the machines of its
\* chain that are meant to be up, with the identities they are assigned now:
\* through moves, stops, starts, refused verbs, crashes and reboots, of a fleet
\* that was deployed before or is deployed now (lifecycle.go:233, place.go:103).
THEOREM BooksFollowIntent ==
  ~UserInstall /\ Refreshing => (Spec => []BookFollowsIntent)
<1> SUFFICES ASSUME ~UserInstall, Refreshing PROVE Spec => []BookFollowsIntent
  OBVIOUS
<1>1. Init => BookInv
  BY BookInit
<1>2. BookInv /\ [Next]_vars => BookInv'
  BY BookNext
<1>3. BookInv => BookFollowsIntent
  <2> SUFFICES ASSUME BookInv, cmd = Idle, faults = 0, NEW m \in L1, want[m] # "open"
               PROVE  book[m] = StateSyncPeers(m, {p \in L1 : want[p] = "up"})
    BY DEF BookFollowsIntent
  <2>1. RerunInv /\ BookOK /\ cmd.verb = "none" /\ cmd.req = {}
    BY DEF BookInv, Idle
  <2>2. Enabled = {p \in L1 : want[p] = "up"}
    <3>1. \A p \in L1 : want[p] = "up" <=> On(p)
      BY <2>1 DEF BookOK, IntentOK, On
    <3> QED BY <2>1, <3>1, BookFacts
  <2>3. Booked(m)
    BY <2>1 DEF BookOK, RestBooks, Kept
  <2> QED BY <2>2, <2>3 DEF Booked
<1> QED BY <1>1, <1>2, <1>3, PTL DEF Spec

\* While nothing fails, a start that ends well leaves boot intent on all it was
\* asked for (lifecycle.go:348): it takes a stop that was cut off between its
\* two systemctl calls for a start to leave a machine disabled.
THEOREM StartsRestoreIntent ==
  ~UserInstall /\ Refreshing => (Spec => []StartRestoresIntent)
<1> SUFFICES ASSUME ~UserInstall, Refreshing PROVE Spec => []StartRestoresIntent
  OBVIOUS
<1>1. Init => BookInv
  BY BookInit
<1>2. BookInv /\ [Next]_vars => BookInv'
  BY BookNext
<1>3. BookInv => StartRestoresIntent
  <2> SUFFICES ASSUME BookInv, cmd = Idle, faults = 0, NEW m \in L1, want[m] = "up"
               PROVE  m \in Enabled
    BY DEF StartRestoresIntent
  <2>1. RerunInv /\ BookOK /\ cmd.req = {}
    BY DEF BookInv, Idle
  <2>2. On(m)
    BY <2>1 DEF BookOK, IntentOK, On
  <2> QED BY <2>1, <2>2, BookFacts
<1> QED BY <1>1, <1>2, <1>3, PTL DEF Spec

=============================================================================
