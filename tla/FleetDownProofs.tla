-------------------------- MODULE FleetDownProofs --------------------------
(***************************************************************************)
(* A machine that was taken down on purpose stays down, for every fleet.   *)
(*                                                                         *)
(* StoppedStaysDown is not inductive: it says nothing of the boot intent   *)
(* that decides whether a reboot, or a later place, brings a machine back, *)
(* nor of which machines the verb in progress may still start.  DownInv    *)
(* adds both: a machine that is down is not enabled either, and a verb     *)
(* only ever starts machines it has claimed, none of which is down.        *)
(***************************************************************************)
EXTENDS FleetProofs

\* Nothing but a verb that names m brings it back.
Rests(m) == running[m] = NoId /\ unit[m] # "enabled"

\* A user install has no systemd units to enable.
NoUnitsToEnable == UserInstall => \A m \in L1 : unit[m] # "enabled"

\* The machines a verb may start: those it was told to, or, for place, those
\* it probed and found running or interrupted.
ClaimOK ==
  /\ \A m \in cmd.req : want[m] = "open"
  /\ cmd.verb # "place" =>
       /\ cmd.sel \subseteq cmd.req /\ cmd.rest \subseteq cmd.req
       /\ cmd.phase = "probe" => cmd.todo \subseteq cmd.req
  /\ cmd.verb = "place" =>
       /\ cmd.req = {} /\ cmd.rest = {}
       /\ \A m \in cmd.sel : want[m] # "down"
  /\ cmd.phase \in {"idle", "probe", "config", "book", "push"}
       \/ cmd.todo \subseteq cmd.sel
  /\ cmd.phase = "settled" => cmd.verb = "place"

\* A stop or a destroy leaves the machines it has visited at rest.
StoppingOK ==
  cmd.verb \in {"stop", "destroy"} =>
    /\ cmd.sel = cmd.req
    /\ cmd.phase \in {"disable", "kill", "wipe", "book", "done"}
    /\ \A m \in cmd.req :
         Rests(m) \/ (cmd.phase \in {"disable", "kill"} /\ m \in cmd.todo)

DownInv ==
  /\ TypeOK
  /\ NoUnitsToEnable
  /\ \A m \in L1 : want[m] = "down" => Rests(m)
  /\ ClaimOK
  /\ StoppingOK

LEMMA TypeStep ==
  ASSUME TypeOK, [Next]_vars
  PROVE  TypeOK'
<1>1. CASE UNCHANGED vars
  BY <1>1 DEF TypeOK, vars
<1> QED
  BY <1>1, OperatorType, ControlType, EnvironmentType DEF Next

\* A remote command, whole or torn, touches one machine, and wakes it only in
\* the phases that start a process or install a unit.
LEMMA RemoteRests ==
  ASSUME TypeOK, NoUnitsToEnable, NEW m \in L1, Remote(m) \/ Torn(m)
  PROVE  /\ NoUnitsToEnable'
         /\ \A n \in L1 \ {m} : Rests(n) => Rests(n)'
         /\ cmd.phase \notin {"start", "enable", "unit"}
              => (Rests(m) => Rests(m)')
         /\ cmd.phase \in {"disable", "kill"} /\ Remote(m) => Rests(m)'
<1> USE DEF NoUnitsToEnable, Rests
<1>a. UserInstall \in BOOLEAN
  BY FleetAssumption
<1>b. /\ unit \in [L1 -> {"missing", "disabled", "enabled", "installed"}]
      /\ running \in [L1 -> Identities \union {NoId}]
  BY DEF TypeOK
<1>3. CASE cmd.phase = "stop" /\ StopCommand(m)
  BY <1>3, <1>b DEF StopCommand
<1>4. CASE cmd.phase = "identity" /\ InstallIdentity(m)
  BY <1>4 DEF InstallIdentity
<1>5. CASE cmd.phase = "config" /\ InstallConfig(m)
  BY <1>5 DEF InstallConfig
<1>6. CASE cmd.phase = "start" /\ StartOnly(m)
  BY <1>6, <1>b DEF StartOnly, Launch
<1>7. CASE cmd.phase = "enable" /\ EnableAndStart(m)
  BY <1>7, <1>a, <1>b DEF EnableAndStart, Launch
<1>8. CASE cmd.phase = "disable" /\ DisableAndStop(m)
  BY <1>8, <1>a, <1>b DEF DisableAndStop, Disabled
<1>9. CASE cmd.phase = "kill" /\ KillService(m)
  BY <1>9, <1>a, <1>b DEF KillService, Disabled
<1>10. CASE cmd.phase = "wipe" /\ RemoveChainData(m)
  BY <1>10 DEF RemoveChainData
<1>11. CASE cmd.phase = "package" /\ InstallPackage(m)
  BY <1>11 DEF InstallPackage
<1>12. CASE cmd.phase = "unit" /\ InstallUnit(m)
  BY <1>12, <1>a, <1>b DEF InstallUnit
<1>13. CASE cmd.phase = "ready" /\ WaitL1Ready(m)
  BY <1>13 DEF WaitL1Ready, machine
<1>14. ASSUME Torn(m), ~Remote(m)
       PROVE  /\ NoUnitsToEnable'
              /\ \A n \in L1 \ {m} : Rests(n) => Rests(n)'
              /\ cmd.phase \notin {"start", "enable", "unit"}
                   => (Rests(m) => Rests(m)')
  BY <1>14, <1>a, <1>b DEF Torn, Disabled
<1> QED
  BY <1>3, <1>4, <1>5, <1>6, <1>7, <1>8, <1>9, <1>10, <1>11, <1>12, <1>13,
     <1>14 DEF Remote

\* The verb in progress never starts a machine that was taken down.
LEMMA StartsOnlyClaimed ==
  ASSUME DownInv, NEW m \in cmd.todo,
         cmd.phase \in {"start", "enable", "unit"}
  PROVE  want[m] # "down"
  BY DEF DownInv, ClaimOK

\* A step that leaves the machines alone, and the verb's claims as they are or
\* narrower, keeps the invariant.
LEMMA DownOperator ==
  ASSUME DownInv, Operator
  PROVE  DownInv'
<1> USE DEF DownInv, ClaimOK, StoppingOK, NoUnitsToEnable, Rests, machine
<1>1. TypeOK'
  BY OperatorType
<1>a. want \in [L1 -> {"up", "down", "open"}]
  BY DEF TypeOK
<1>2. ASSUME NEW i \in Identities, NEW m \in Machines, Place(i, m)
      PROVE  DownInv'
  BY <1>1, <1>2, <1>a DEF Place, Begin, Idle
<1>3. ASSUME NEW S \in SUBSET L1, Start(S)
      PROVE  DownInv'
  BY <1>1, <1>3, <1>a DEF Start, Begin, Idle
<1>4. ASSUME NEW S \in SUBSET L1, Stop(S)
      PROVE  DownInv'
  BY <1>1, <1>4, <1>a DEF Stop, Begin, Idle
<1>5. ASSUME NEW S \in SUBSET L1, Destroy(S)
      PROVE  DownInv'
  BY <1>1, <1>5, <1>a DEF Destroy, Begin, Idle
<1>6. CASE Deploy
  BY <1>1, <1>6, <1>a DEF Deploy, Begin, Idle
<1>7. ASSUME NEW S \in SUBSET L1, Roll(S)
      PROVE  DownInv'
  BY <1>1, <1>7, <1>a DEF Roll, Begin, Idle
<1>8. ASSUME NEW m \in L1, UpgradeChain(ChainOf[m])
      PROVE  DownInv'
  BY <1>1, <1>8, <1>a DEF UpgradeChain, Begin, Idle
<1> QED
  BY <1>2, <1>3, <1>4, <1>5, <1>6, <1>7, <1>8 DEF Operator

\* Whatever ends a verb in an error leaves what is down at rest.
LEMMA DownAbort ==
  ASSUME DownInv, TypeOK', Abort, NoUnitsToEnable',
         \A m \in L1 : want[m] = "down" => Rests(m)'
  PROVE  DownInv'
  BY DEF Abort, DownInv, ClaimOK, StoppingOK, Idle

LEMMA DownControl ==
  ASSUME DownInv, Control
  PROVE  DownInv'
<1> USE DEF DownInv
<1>0. TypeOK'
  BY ControlType
<1>a. /\ cmd \in Command
      /\ cmd.todo \subseteq L1 /\ cmd.sel \subseteq L1
      /\ cmd.rest \subseteq L1 /\ cmd.req \subseteq L1
  BY DEF TypeOK, Command
<1>b. ASSUME UNCHANGED machine
      PROVE  NoUnitsToEnable' /\ \A m \in L1 : Rests(m)' = Rests(m)
  BY <1>b DEF machine, NoUnitsToEnable, Rests
<1>1. ASSUME NEW m \in L1, Step(m)
      PROVE  DownInv'
  <2>1. m \in cmd.todo /\ Remote(m)
    BY <1>1 DEF Step, Turn
  <2>2. /\ cmd' = [cmd EXCEPT !.todo = @ \ {m}] /\ want' = want
    BY <1>1 DEF Step
  <2>3. NoUnitsToEnable'
    BY <2>1, RemoteRests
  <2>4. \A n \in L1 : want'[n] = "down" => Rests(n)'
    BY <2>1, <2>2, RemoteRests, StartsOnlyClaimed
  <2>5. ClaimOK'
    BY <2>2, <1>a DEF ClaimOK, Command
  <2>6. StoppingOK'
    <3> SUFFICES ASSUME cmd.verb \in {"stop", "destroy"}
                 PROVE  StoppingOK'
      BY <2>2, <1>a DEF StoppingOK, Command
    <3>1. /\ cmd'.phase = cmd.phase /\ cmd'.sel = cmd.sel
          /\ cmd'.req = cmd.req /\ cmd'.todo = cmd.todo \ {m}
      BY <2>2, <1>a DEF Command
    <3>2. \A n \in cmd.req : Rests(n) => Rests(n)'
      BY <2>1, <1>a, RemoteRests DEF StoppingOK
    <3>3. cmd.phase \in {"disable", "kill"} => Rests(m)'
      BY <2>1, RemoteRests
    <3>4. /\ cmd.sel = cmd.req
          /\ cmd.phase \in {"disable", "kill", "wipe", "book", "done"}
          /\ \A n \in cmd.req :
               Rests(n) \/ (cmd.phase \in {"disable", "kill"} /\ n \in cmd.todo)
      BY DEF StoppingOK
    <3> HIDE DEF DownInv
    <3> QED BY <3>1, <3>2, <3>3, <3>4 DEF StoppingOK, Rests
  <2> QED BY <1>0, <2>3, <2>4, <2>5, <2>6
<1>2. CASE \E m \in L1 : StepRefused(m)
  BY <1>0, <1>2, <1>b, DownAbort DEF StepRefused
<1>3. ASSUME NEW m \in L1, ProbePlacement(m)
      PROVE  DownInv'
  <2>1. NeedsApply(m) => want[m] # "down"
    BY DEF NeedsApply, Rests
  <2> QED
    BY <1>0, <1>3, <1>a, <1>b, <2>1
       DEF ProbePlacement, ClaimOK, StoppingOK, Command
<1>4. ASSUME NEW m \in L1, ProbeStart(m)
      PROVE  DownInv'
  BY <1>0, <1>4, <1>a, <1>b DEF ProbeStart, Turn, ClaimOK, StoppingOK, Command
<1>5. ASSUME NEW m \in L1, PushBook(m)
      PROVE  DownInv'
  <2>1. UNCHANGED <<unit, running>>
    BY <1>5 DEF PushBook, InstallConfig, machine
  <2>2. /\ cmd'.verb = cmd.verb /\ cmd'.phase = cmd.phase
        /\ cmd'.todo = cmd.todo \ {m} /\ cmd'.sel = cmd.sel
        /\ cmd'.rest = cmd.rest /\ cmd'.req = cmd.req
    BY <1>5, <1>a DEF PushBook, Command
  <2>3. cmd.phase = "book" /\ want' = want
    BY <1>5 DEF PushBook
  <2> QED
    BY <1>0, <2>1, <2>2, <2>3
       DEF ClaimOK, StoppingOK, NoUnitsToEnable, Rests
<1>6. ASSUME NEW m \in L1, PushHistory(m)
      PROVE  DownInv'
  <2>1. UNCHANGED <<unit, running>>
    BY <1>6 DEF PushHistory, PushUpgrade, machine
  <2>2. /\ cmd'.verb = cmd.verb /\ cmd'.phase = cmd.phase
        /\ cmd'.todo = cmd.todo \ {m} /\ cmd'.sel = cmd.sel
        /\ cmd'.rest = cmd.rest /\ cmd'.req = cmd.req
    BY <1>6, <1>a DEF PushHistory, Command
  <2>3. cmd.phase = "push" /\ want' = want
    BY <1>6 DEF PushHistory
  <2> QED
    BY <1>0, <2>1, <2>2, <2>3
       DEF ClaimOK, StoppingOK, NoUnitsToEnable, Rests
<1>7. CASE PlanApply
  <2>1. UNCHANGED <<unit, running, want>> /\ cmd.verb = "place"
    BY <1>7 DEF PlanApply, machine
  <2>2. /\ cmd'.verb = cmd.verb /\ cmd'.sel = cmd.sel
        /\ cmd'.rest = cmd.rest /\ cmd'.req = cmd.req
        /\ \/ cmd'.phase = "settled" /\ cmd'.todo = {}
           \/ cmd'.phase = "config"
    BY <1>7, <1>a DEF PlanApply, Command
  <2> QED
    BY <1>0, <2>1, <2>2 DEF ClaimOK, StoppingOK, NoUnitsToEnable, Rests
<1>8. CASE PlanStart
  <2>1. UNCHANGED <<unit, running, want>> /\ cmd.verb = "start"
    BY <1>8 DEF PlanStart, machine
  <2>2. /\ cmd'.verb = cmd.verb /\ cmd'.sel = cmd.sel
        /\ cmd'.rest = cmd.rest /\ cmd'.req = cmd.req
        /\ \/ cmd'.phase = "done" /\ cmd'.todo = {}
           \/ cmd'.phase = "stop" /\ cmd'.todo = cmd.sel
    BY <1>8, <1>a DEF PlanStart, Command
  <2> QED
    BY <1>0, <2>1, <2>2 DEF ClaimOK, StoppingOK, NoUnitsToEnable, Rests
<1>9. CASE Advance
  <2>1. UNCHANGED <<unit, running, want>>
    BY <1>9 DEF Advance, machine
  <2>2. PICK q \in Phases :
          /\ <<cmd.verb, cmd.phase, q>> \in Order
          /\ cmd' = [cmd EXCEPT !.phase = q,
                       !.todo = IF q \in {"next", "settled", "done"}
                                THEN {} ELSE cmd.sel]
    BY <1>9 DEF Advance
  <2>3. /\ cmd'.verb = cmd.verb /\ cmd'.sel = cmd.sel
        /\ cmd'.rest = cmd.rest /\ cmd'.req = cmd.req
        /\ cmd'.phase = q /\ cmd'.todo \subseteq cmd.sel
    BY <2>2, <1>a DEF Command
  <2>4. ClaimOK'
    <3>1. q # "probe" /\ (q = "settled" => cmd.verb = "place")
      BY <2>2 DEF Order
    <3> QED BY <2>1, <2>3, <3>1 DEF ClaimOK
  <2>5. StoppingOK'
    <3> SUFFICES ASSUME cmd.verb \in {"stop", "destroy"}
                 PROVE  StoppingOK'
      BY <2>3 DEF StoppingOK
    <3>1. q \in {"wipe", "book", "done"}
      BY <2>2 DEF Order
    <3>2. \A m \in cmd.req : Rests(m)
      BY <1>9 DEF Advance, StoppingOK
    <3>3. cmd.sel = cmd.req
      BY DEF StoppingOK
    <3> HIDE DEF DownInv
    <3> QED BY <2>1, <2>3, <3>1, <3>2, <3>3 DEF StoppingOK, Rests
  <2> QED BY <1>0, <2>1, <2>4, <2>5 DEF NoUnitsToEnable, Rests
<1>10. CASE RefreshAddressBook
  <2>1. UNCHANGED <<unit, running, want>> /\ cmd.todo = {}
    BY <1>10 DEF RefreshAddressBook, machine
  <2>2. /\ cmd'.verb = cmd.verb /\ cmd'.sel = cmd.sel
        /\ cmd'.rest = cmd.rest /\ cmd'.req = cmd.req
        /\ cmd'.phase = "book"
    BY <1>10, <1>a DEF RefreshAddressBook, Command
  <2> QED
    BY <1>0, <2>1, <2>2 DEF ClaimOK, StoppingOK, NoUnitsToEnable, Rests
<1>11. CASE PushFailed
  BY <1>0, <1>11, <1>b, DownAbort DEF PushFailed
<1>12. CASE NextMachine
  <2>1. UNCHANGED <<unit, running, want>> /\ cmd.phase = "next"
    BY <1>12 DEF NextMachine, machine
  <2>2. cmd.verb \notin {"stop", "destroy"}
    BY <2>1 DEF StoppingOK
  <2>3. CASE cmd' = [cmd EXCEPT !.phase = "done"]
    BY <1>0, <1>a, <2>1, <2>2, <2>3
       DEF ClaimOK, StoppingOK, NoUnitsToEnable, Rests, Command
  <2>4. ASSUME NEW m \in cmd.rest,
               cmd' = [cmd EXCEPT !.phase = "stop", !.todo = {m},
                                  !.sel = {m}, !.rest = @ \ {m}]
        PROVE  DownInv'
    <3>1. /\ cmd'.verb = cmd.verb /\ cmd'.sel = {m} /\ cmd'.todo = {m}
          /\ cmd'.rest \subseteq cmd.rest /\ cmd'.req = cmd.req
          /\ cmd'.phase = "stop"
      BY <2>4, <1>a DEF Command
    <3> QED
      BY <1>0, <2>1, <2>2, <3>1 DEF ClaimOK, StoppingOK, NoUnitsToEnable, Rests
  <2> QED BY <1>12, <2>3, <2>4 DEF NextMachine
<1>13. CASE SavePlacement
  <2>1. UNCHANGED <<unit, running, want>> /\ cmd.phase = "settled"
    BY <1>13 DEF SavePlacement, machine
  <2>2. cmd.verb \notin {"stop", "destroy"}
    BY <2>1 DEF StoppingOK
  <2>3. CASE cmd' = [cmd EXCEPT !.phase = "done"]
    BY <1>0, <1>a, <2>1, <2>2, <2>3
       DEF ClaimOK, StoppingOK, NoUnitsToEnable, Rests, Command
  <2>4. CASE cmd' = [cmd EXCEPT !.leg = "after", !.phase = "probe",
                                !.todo = L1, !.sel = {}, !.up = {}]
    <3>1. /\ cmd'.verb = cmd.verb /\ cmd'.sel = {}
          /\ cmd'.rest = cmd.rest /\ cmd'.req = cmd.req
          /\ cmd'.phase = "probe"
      BY <2>4, <1>a DEF Command
    <3> QED
      BY <1>0, <2>1, <2>2, <3>1
         DEF ClaimOK, StoppingOK, NoUnitsToEnable, Rests
  <2> QED BY <1>13, <2>3, <2>4 DEF SavePlacement
<1>14. CASE RefusePlace
  BY <1>0, <1>14, <1>b, DownAbort DEF RefusePlace
<1>15. CASE PlaceApplied
  BY <1>0, <1>15, <1>a, <1>b DEF PlaceApplied, ClaimOK, StoppingOK, Command
<1>16. CASE Complete
  <2>1. UNCHANGED <<unit, running>> /\ cmd' = Idle /\ cmd.phase = "done"
    BY <1>16 DEF Complete, machine
  <2>2. \A m \in L1 : want'[m] = "down" => Rests(m)
    BY <1>16, <2>1 DEF Complete, StoppingOK
  <2> QED
    BY <1>0, <2>1, <2>2 DEF ClaimOK, StoppingOK, NoUnitsToEnable, Rests, Idle
<1> QED
  BY <1>1, <1>2, <1>3, <1>4, <1>5, <1>6, <1>7, <1>8, <1>9, <1>10, <1>11,
     <1>12, <1>13, <1>14, <1>15, <1>16 DEF Control

LEMMA DownEnvironment ==
  ASSUME DownInv, Environment
  PROVE  DownInv'
<1> USE DEF DownInv
<1>0. TypeOK'
  BY EnvironmentType
<1>a. cmd \in Command /\ cmd.todo \subseteq L1
  BY DEF TypeOK, Command
<1>1. ASSUME NEW m \in L1, StepLost(m)
      PROVE  DownInv'
  <2>1. m \in cmd.todo /\ (Remote(m) \/ Torn(m)) /\ Abort
    BY <1>1 DEF StepLost, Turn
  <2>2. \A n \in L1 : want[n] = "down" => Rests(n)'
    BY <2>1, RemoteRests, StartsOnlyClaimed
  <2>3. NoUnitsToEnable'
    BY <2>1, RemoteRests
  <2> QED BY <1>0, <2>1, <2>2, <2>3, DownAbort
<1>2. ASSUME NEW m \in L1, ProbeStartSilent(m)
      PROVE  DownInv'
  <2>1. UNCHANGED <<unit, running, want>> /\ cmd.verb = "start"
    BY <1>2 DEF ProbeStartSilent, machine
  <2>2. /\ cmd'.verb = cmd.verb /\ cmd'.phase = cmd.phase
        /\ cmd'.todo = cmd.todo \ {m} /\ cmd'.sel = cmd.sel \union {m}
        /\ cmd'.rest = cmd.rest /\ cmd'.req = cmd.req
    BY <1>2, <1>a DEF ProbeStartSilent, Command
  <2>3. m \in cmd.todo /\ cmd.phase = "probe"
    BY <1>2 DEF ProbeStartSilent, Turn
  <2> QED
    BY <1>0, <2>1, <2>2, <2>3 DEF ClaimOK, StoppingOK, NoUnitsToEnable, Rests
<1>3. ASSUME NEW m \in L1, Crash(m) \/ Reboot(m)
      PROVE  DownInv'
  <2>1. \A n \in L1 : Rests(n) => Rests(n)'
    <3>1. running \in [L1 -> Identities \union {NoId}]
      BY DEF TypeOK
    <3> QED BY <1>3, <3>1 DEF Crash, Reboot, Rests
  <2>2. UNCHANGED <<unit, cmd, want>>
    BY <1>3 DEF Crash, Reboot
  <2> QED
    BY <1>0, <1>a, <2>1, <2>2
       DEF ClaimOK, StoppingOK, NoUnitsToEnable, TypeOK, Command
<1>4. CASE Interrupt
  <2>1. Abort /\ UNCHANGED machine
    BY <1>4 DEF Interrupt
  <2> QED
    BY <1>0, <2>1, DownAbort DEF machine, NoUnitsToEnable, Rests
<1> QED
  BY <1>1, <1>2, <1>3, <1>4 DEF Environment

LEMMA DownInit == Init => DownInv
<1> SUFFICES ASSUME Init PROVE DownInv
  OBVIOUS
<1>1. TypeOK
  BY InitType
<1>2. \A m \in L1 : want[m] # "down"
  BY DEF Init
<1>3. NoUnitsToEnable
  BY DEF Init, NoUnitsToEnable
<1> QED
  BY <1>1, <1>2, <1>3 DEF Init, DownInv, ClaimOK, StoppingOK, Idle

LEMMA DownStep == DownInv /\ [Next]_vars => DownInv'
<1> SUFFICES ASSUME DownInv, [Next]_vars PROVE DownInv'
  OBVIOUS
<1>1. CASE UNCHANGED vars
  <2>1. TypeOK'
    BY TypeStep DEF DownInv
  <2> QED
    BY <1>1, <2>1 DEF vars, DownInv, ClaimOK, StoppingOK, NoUnitsToEnable,
                      Rests
<1> QED
  BY <1>1, DownOperator, DownControl, DownEnvironment DEF Next

\* A machine taken down on purpose stays down until a verb that names it
\* starts it, whatever the layout, the fleet, the faults and the crashes.
THEOREM TakenDownStaysDown == Spec => []StoppedStaysDown
<1>1. DownInv => StoppedStaysDown
  BY DEF DownInv, StoppedStaysDown, Rests
<1> QED
  BY DownInit, DownStep, <1>1, PTL DEF Spec

=============================================================================
