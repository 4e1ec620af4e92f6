---------------------------- MODULE FleetProofs ----------------------------
(***************************************************************************)
(* Theorems about the fleet control plane, for every inventory, layout,    *)
(* bound and choice of verbs.                                              *)
(***************************************************************************)
EXTENDS Fleet, TLAPS

-----------------------------------------------------------------------------
(* Type correctness.                                                       *)

\* The part of TypeOK that remote commands and the machines themselves change.
MachineOK ==
  /\ unit \in [L1 -> {"missing", "disabled", "enabled", "installed"}]
  /\ disk \in [L1 -> Identities \union {NoId}]
  /\ running \in [L1 -> Identities \union {NoId}]
  /\ book \in [L1 -> SUBSET (L1 \X Identities)]
  /\ data \in [L1 -> BOOLEAN]
  /\ file \in [L1 -> Nat]

\* The address book stateSyncPeers renders names L1 machines and identities.
LEMMA PeersType ==
  ASSUME placement \in [Machines -> Identities],
         NEW m \in L1, NEW up \in SUBSET L1
  PROVE  StateSyncPeers(m, up) \in SUBSET (L1 \X Identities)
  BY DEF StateSyncPeers, L1

LEMMA IdleType == Idle \in Command
  BY DEF Idle, Command, Phases

\* Updates of the command in progress keep its shape.
LEMMA PhaseUpdate ==
  ASSUME NEW c \in Command, NEW q \in Phases,
         NEW t \in SUBSET L1, NEW s \in SUBSET L1
  PROVE  /\ [c EXCEPT !.phase = q] \in Command
         /\ [c EXCEPT !.todo = t] \in Command
         /\ [c EXCEPT !.todo = t, !.sel = s] \in Command
         /\ [c EXCEPT !.phase = q, !.todo = t] \in Command
         /\ [c EXCEPT !.phase = q, !.todo = t, !.up = s] \in Command
  BY DEF Command

LEMMA PushUpdate ==
  ASSUME NEW c \in Command, NEW t \in SUBSET L1
  PROVE  /\ [c EXCEPT !.todo = t] \in Command
         /\ [c EXCEPT !.todo = t, !.failed = TRUE] \in Command
  BY DEF Command

LEMMA TurnUpdate ==
  ASSUME NEW c \in Command, NEW t \in SUBSET L1, NEW r \in SUBSET L1
  PROVE  [c EXCEPT !.phase = "stop", !.todo = t, !.sel = t, !.rest = r]
            \in Command
  BY DEF Command, Phases

\* Every remote command, whole or torn, keeps the machines well typed.
LEMMA RemoteType ==
  ASSUME TypeOK, NEW m \in L1, Remote(m) \/ Torn(m)
  PROVE  MachineOK'
<1> USE DEF TypeOK, MachineOK
<1>1. /\ StateSyncPeers(m, L1) \in SUBSET (L1 \X Identities)
      /\ StateSyncPeers(m, cmd.up) \in SUBSET (L1 \X Identities)
  <2>1. cmd.up \in SUBSET L1
    BY DEF Command
  <2> QED BY <2>1, PeersType
<1>2. placement[m] \in Identities /\ history[ChainOf[m]] \in Nat
  BY DEF L1, Chains
<1>3. CASE StopCommand(m)
  BY <1>3 DEF StopCommand
<1>4. CASE InstallIdentity(m)
  BY <1>4, <1>2 DEF InstallIdentity
<1>5. CASE InstallConfig(m)
  BY <1>5, <1>1 DEF InstallConfig
<1>6. CASE StartOnly(m)
  BY <1>6 DEF StartOnly, Launch
<1>7. CASE EnableAndStart(m)
  BY <1>7 DEF EnableAndStart, Launch
<1>8. CASE DisableAndStop(m)
  BY <1>8 DEF DisableAndStop, Disabled
<1>9. CASE KillService(m)
  BY <1>9 DEF KillService, Disabled
<1>10. CASE RemoveChainData(m)
  BY <1>10 DEF RemoveChainData
<1>11. CASE InstallPackage(m)
  BY <1>11, <1>1, <1>2 DEF InstallPackage
<1>12. CASE InstallUnit(m)
  BY <1>12 DEF InstallUnit
<1>13. CASE WaitL1Ready(m)
  BY <1>13 DEF WaitL1Ready, machine
<1>14. CASE Torn(m)
  BY <1>14, <1>1 DEF Torn, Disabled
<1> QED
  BY <1>3, <1>4, <1>5, <1>6, <1>7, <1>8, <1>9, <1>10, <1>11, <1>12, <1>13,
     <1>14 DEF Remote


\* An aborted verb leaves an idle session and its name behind.
LEMMA AbortType ==
  ASSUME TypeOK, Abort
  PROVE  /\ cmd' \in Command
         /\ last' \in [verb : AllVerbs \union {"none"}, ok : BOOLEAN]
         /\ UNCHANGED <<placement, history, want, issued>>
<1>1. cmd.verb \in AllVerbs \union {"none"}
  BY DEF TypeOK, Command
<1> QED
  BY <1>1, IdleType DEF Abort, control

\* Starting a verb.
LEMMA BeginType ==
  ASSUME TypeOK, NEW c \in Command, Begin(c)
  PROVE  /\ cmd' \in Command
         /\ want' \in [L1 -> {"up", "down", "open"}]
         /\ issued' \in Nat
         /\ UNCHANGED <<machine, placement, last, faults>>
  BY DEF Begin, TypeOK

LEMMA OperatorType ==
  ASSUME TypeOK, Operator
  PROVE  TypeOK'
<1>1. MachineOK' /\ placement' \in [Machines -> Identities]
      /\ last' \in [verb : AllVerbs \union {"none"}, ok : BOOLEAN]
      /\ faults' \in Nat
  BY DEF TypeOK, MachineOK, machine, Operator, Place, Start, Stop, Destroy,
         Deploy, Roll, UpgradeChain, Begin
<1>2. ASSUME NEW i \in Identities, NEW m \in Machines, Place(i, m)
      PROVE  TypeOK'
  <2> DEFINE c == [Idle EXCEPT !.verb = "place", !.phase = "probe",
                               !.todo = L1, !.move = <<i, m>>]
  <2>1. c \in Command
    BY DEF Command, Idle, AllVerbs, Phases
  <2> HIDE DEF c
  <2>2. Begin(c) /\ UNCHANGED history
    BY <1>2 DEF Place, c
  <2> QED
    BY <1>1, <2>1, <2>2, BeginType DEF TypeOK, MachineOK
<1>3. ASSUME NEW S \in SUBSET L1, Start(S)
      PROVE  TypeOK'
  <2> DEFINE c == [Idle EXCEPT !.verb = "start", !.phase = "probe",
                               !.todo = S, !.req = S]
  <2>1. c \in Command
    BY DEF Command, Idle, AllVerbs, Phases
  <2> HIDE DEF c
  <2>2. Begin(c) /\ UNCHANGED history
    BY <1>3 DEF Start, c
  <2> QED
    BY <1>1, <2>1, <2>2, BeginType DEF TypeOK, MachineOK
<1>4. ASSUME NEW S \in SUBSET L1, Stop(S)
      PROVE  TypeOK'
  <2> DEFINE c == [Idle EXCEPT !.verb = "stop", !.phase = "disable",
                               !.todo = S, !.sel = S, !.req = S]
  <2>1. c \in Command
    BY DEF Command, Idle, AllVerbs, Phases
  <2> HIDE DEF c
  <2>2. Begin(c) /\ UNCHANGED history
    BY <1>4 DEF Stop, c
  <2> QED
    BY <1>1, <2>1, <2>2, BeginType DEF TypeOK, MachineOK
<1>5. ASSUME NEW S \in SUBSET L1, Destroy(S)
      PROVE  TypeOK'
  <2> DEFINE c == [Idle EXCEPT !.verb = "destroy", !.phase = "kill",
                               !.todo = S, !.sel = S, !.req = S]
  <2>1. c \in Command
    BY DEF Command, Idle, AllVerbs, Phases
  <2> HIDE DEF c
  <2>2. Begin(c) /\ UNCHANGED history
    BY <1>5 DEF Destroy, c
  <2> QED
    BY <1>1, <2>1, <2>2, BeginType DEF TypeOK, MachineOK
<1>6. CASE Deploy
  <2> DEFINE c == [Idle EXCEPT !.verb = "deploy", !.phase = "stop",
                               !.todo = L1, !.sel = L1, !.req = L1]
  <2>1. c \in Command
    BY DEF Command, Idle, AllVerbs, Phases
  <2> HIDE DEF c
  <2>2. Begin(c) /\ UNCHANGED history
    BY <1>6 DEF Deploy, c
  <2> QED
    BY <1>1, <2>1, <2>2, BeginType DEF TypeOK, MachineOK
<1>7. ASSUME NEW S \in SUBSET L1, Roll(S)
      PROVE  TypeOK'
  <2> DEFINE c == [Idle EXCEPT !.verb = "roll", !.phase = "next", !.rest = S,
                               !.req = S]
  <2>1. c \in Command
    BY DEF Command, Idle, AllVerbs, Phases
  <2> HIDE DEF c
  <2>2. Begin(c) /\ UNCHANGED history
    BY <1>7 DEF Roll, c
  <2> QED
    BY <1>1, <2>1, <2>2, BeginType DEF TypeOK, MachineOK
<1>8. ASSUME NEW m \in L1, UpgradeChain(ChainOf[m])
      PROVE  TypeOK'
  <2> DEFINE S == {n \in L1 : ChainOf[n] = ChainOf[m]}
             c == [Idle EXCEPT !.verb = "upgrade", !.phase = "push",
                               !.todo = S, !.rest = S, !.req = S]
  <2>1. c \in Command
    BY DEF Command, Idle, AllVerbs, Phases
  <2> HIDE DEF c
  <2>2. Begin(c) /\ history' = [history EXCEPT ![ChainOf[m]] = @ + 1]
    BY <1>8 DEF UpgradeChain, c
  <2>3. history' \in [Chains -> Nat]
    BY <2>2 DEF TypeOK, Chains
  <2> QED
    BY <1>1, <2>1, <2>2, <2>3, BeginType DEF TypeOK, MachineOK
<1> QED
  BY <1>2, <1>3, <1>4, <1>5, <1>6, <1>7, <1>8 DEF Operator

LEMMA ControlType ==
  ASSUME TypeOK, Control
  PROVE  TypeOK'
<1> USE DEF TypeOK, MachineOK
<1>a. /\ cmd \in Command
      /\ cmd.todo \subseteq L1 /\ cmd.sel \subseteq L1
      /\ cmd.rest \subseteq L1 /\ cmd.up \subseteq L1
  BY DEF Command
<1>b. \A U \in SUBSET L1 : /\ IntendedUp(U, cmd.sel, {}) \subseteq L1
                           /\ IntendedUp(U, {}, cmd.sel) \subseteq L1
                           /\ IntendedUp(U, {}, {}) \subseteq L1
  BY <1>a DEF IntendedUp, Enabled
<1>c. \A U \in SUBSET L1 : Silent(U) => faults' \in Nat
  BY DEF Silent
<1>1. ASSUME NEW m \in L1, Step(m)
      PROVE  TypeOK'
  <2>1. MachineOK'
    BY <1>1, RemoteType DEF Step
  <2>2. cmd' \in Command
    BY <1>1, <1>a DEF Step, Command
  <2> QED BY <1>1, <2>1, <2>2 DEF Step, control
<1>2. ASSUME NEW m \in L1, StepRefused(m)
      PROVE  TypeOK'
  BY <1>2, AbortType DEF StepRefused, machine
<1>3. ASSUME NEW m \in L1, ProbePlacement(m)
      PROVE  TypeOK'
  BY <1>3, <1>a DEF ProbePlacement, Command, control, machine
<1>4. ASSUME NEW m \in L1, ProbeStart(m)
      PROVE  TypeOK'
  BY <1>4, <1>a DEF ProbeStart, Command, control, machine
<1>5. ASSUME NEW m \in L1, PushBook(m)
      PROVE  TypeOK'
  <2>1. cmd' \in Command
    BY <1>5, <1>a DEF PushBook, Command
  <2>2. MachineOK' /\ faults' \in Nat
    BY <1>5, <1>a, PeersType DEF PushBook, InstallConfig, machine
  <2> QED BY <1>5, <2>1, <2>2 DEF PushBook, control
<1>6. ASSUME NEW m \in L1, PushHistory(m)
      PROVE  TypeOK'
  <2>1. cmd' \in Command
    <3>1. cmd.todo \ {m} \in SUBSET L1
      BY <1>a
    <3> HIDE DEF TypeOK, MachineOK
    <3> QED BY <1>6, <1>a, <3>1, PushUpdate DEF PushHistory
  <2>2. MachineOK' /\ faults' \in Nat
    <3>1. history[ChainOf[m]] \in Nat
      BY DEF Chains
    <3> QED BY <1>6, <3>1 DEF PushHistory, PushUpgrade, machine
  <2> QED BY <1>6, <2>1, <2>2 DEF PushHistory, control
<1>7. CASE PlanApply
  <2>1. cmd' \in Command
    <3>1. CASE cmd' = [cmd EXCEPT !.phase = "settled"]
      BY <3>1, <1>a, PhaseUpdate DEF Phases
    <3>2. ASSUME NEW U \in SUBSET L1,
                 cmd' = [cmd EXCEPT !.phase = "config", !.todo = L1,
                                    !.up = IntendedUp(U, {}, {})]
          PROVE  cmd' \in Command
      <4>1. "config" \in Phases
        BY DEF Phases
      <4> HIDE DEF TypeOK, MachineOK
      <4> QED BY <3>2, <4>1, <1>a, <1>b, PhaseUpdate
    <3> QED BY <1>7, <3>1, <3>2 DEF PlanApply
  <2>2. faults' \in Nat
    BY <1>7, <1>c DEF PlanApply
  <2> QED BY <1>7, <2>1, <2>2 DEF PlanApply, control, machine
<1>8. CASE PlanStart
  <2>1. cmd' \in Command
    <3>1. CASE cmd' = [cmd EXCEPT !.phase = "done"]
      BY <3>1, <1>a, PhaseUpdate DEF Phases
    <3>2. ASSUME NEW U \in SUBSET L1,
                 cmd' = [cmd EXCEPT !.phase = "stop", !.todo = cmd.sel,
                                    !.up = IntendedUp(U, cmd.sel, {})]
          PROVE  cmd' \in Command
      <4>1. "stop" \in Phases
        BY DEF Phases
      <4> HIDE DEF TypeOK, MachineOK
      <4> QED BY <3>2, <4>1, <1>a, <1>b, PhaseUpdate
    <3> QED BY <1>8, <3>1, <3>2 DEF PlanStart
  <2>2. faults' \in Nat
    BY <1>8, <1>c DEF PlanStart
  <2> QED BY <1>8, <2>1, <2>2 DEF PlanStart, control, machine
<1>9. CASE Advance
  <2>1. PICK q \in Phases :
          cmd' = [cmd EXCEPT !.phase = q,
                             !.todo = IF q \in {"next", "settled", "done"}
                                      THEN {} ELSE cmd.sel]
    BY <1>9 DEF Advance
  <2>2. cmd' \in Command
    <3> HIDE DEF TypeOK, MachineOK
    <3> QED BY <2>1, <1>a, <1>b, PhaseUpdate
  <2> QED BY <1>9, <2>2 DEF Advance, control, machine
<1>10. CASE RefreshAddressBook
  <2>1. PICK U \in SUBSET L1 :
          /\ Silent(U)
          /\ cmd' = [cmd EXCEPT !.phase = "book", !.todo = L1,
                       !.up = IF cmd.verb = "start"
                              THEN IntendedUp(U, cmd.sel, {})
                              ELSE IntendedUp(U, {}, cmd.sel)]
    BY <1>10 DEF RefreshAddressBook
  <2>2. cmd' \in Command
    <3>1. "book" \in Phases
      BY DEF Phases
    <3> HIDE DEF TypeOK, MachineOK
    <3> QED BY <2>1, <3>1, <1>a, <1>b, PhaseUpdate
  <2>3. faults' \in Nat
    BY <2>1, <1>c
  <2> QED BY <1>10, <2>2, <2>3 DEF RefreshAddressBook, control, machine
<1>11. CASE PushFailed
  BY <1>11, AbortType DEF PushFailed, machine
<1>12. CASE NextMachine
  <2>1. CASE cmd' = [cmd EXCEPT !.phase = "done"]
    BY <1>12, <2>1, <1>a, PhaseUpdate DEF NextMachine, Phases, control, machine
  <2>2. ASSUME NEW m \in cmd.rest,
               cmd' = [cmd EXCEPT !.phase = "stop", !.todo = {m},
                                  !.sel = {m}, !.rest = @ \ {m}]
        PROVE  TypeOK'
    <3>1. {m} \in SUBSET L1 /\ cmd.rest \ {m} \in SUBSET L1
      BY <1>a
    <3>2. cmd' \in Command
      <4> HIDE DEF TypeOK, MachineOK
      <4> QED BY <2>2, <3>1, <1>a, TurnUpdate
    <3> QED BY <1>12, <3>2 DEF NextMachine, control, machine
  <2> QED BY <1>12, <2>1, <2>2 DEF NextMachine
<1>13. CASE SavePlacement
  <2>1. PICK i, m : Validate(PlanPlace(i, m)) /\ placement' = PlanPlace(i, m)
    BY <1>13 DEF SavePlacement
  <2>2. placement' \in [Machines -> Identities]
    BY <2>1 DEF Validate, PlanPlace
  <2>3. cmd' \in Command
    BY <1>13, <1>a DEF SavePlacement, Command, Phases
  <2> QED BY <1>13, <2>2, <2>3 DEF SavePlacement, machine
<1>14. CASE RefusePlace
  BY <1>14, AbortType DEF RefusePlace, machine
<1>15. CASE PlaceApplied
  <2>1. cmd' \in Command
    BY <1>15, <1>a DEF PlaceApplied, Command, Phases
  <2> QED BY <1>15, <2>1 DEF PlaceApplied, control, machine
<1>16. CASE Complete
  <2>1. last' \in [verb : AllVerbs \union {"none"}, ok : BOOLEAN]
    BY <1>16, <1>a DEF Complete, Command
  <2>2. want' \in [L1 -> {"up", "down", "open"}]
    BY <1>16 DEF Complete
  <2> QED BY <1>16, <2>1, <2>2, IdleType DEF Complete, control, machine
<1> QED
  BY <1>1, <1>2, <1>3, <1>4, <1>5, <1>6, <1>7, <1>8, <1>9, <1>10, <1>11,
     <1>12, <1>13, <1>14, <1>15, <1>16 DEF Control

LEMMA EnvironmentType ==
  ASSUME TypeOK, Environment
  PROVE  TypeOK'
<1> USE DEF TypeOK, MachineOK
<1>1. ASSUME NEW m \in L1, StepLost(m)
      PROVE  TypeOK'
  <2>1. MachineOK'
    BY <1>1, RemoteType DEF StepLost
  <2> QED BY <1>1, <2>1, AbortType DEF StepLost
<1>2. ASSUME NEW m \in L1, ProbeStartSilent(m)
      PROVE  TypeOK'
  <2>1. cmd' \in Command
    BY <1>2 DEF ProbeStartSilent, Command
  <2> QED BY <1>2, <2>1 DEF ProbeStartSilent, control, machine
<1>3. ASSUME NEW m \in L1, Crash(m)
      PROVE  TypeOK'
  BY <1>3 DEF Crash, control
<1>4. ASSUME NEW m \in L1, Reboot(m)
      PROVE  TypeOK'
  BY <1>4 DEF Reboot, control
<1>5. CASE Interrupt
  BY <1>5, AbortType DEF Interrupt, machine
<1> QED
  BY <1>1, <1>2, <1>3, <1>4, <1>5 DEF Environment

LEMMA HomePlacementType ==
  /\ HomePlacement \in [Machines -> Identities]
  /\ \A m \in Machines : Home[HomePlacement[m]] = m
  BY FleetAssumption DEF HomePlacement

LEMMA InitType ==
  ASSUME Init
  PROVE  TypeOK
<1>1. placement \in [Machines -> Identities]
  BY HomePlacementType DEF Init
<1>2. \A m \in L1 : placement[m] \in Identities
  BY <1>1 DEF L1
<1>3. \A m \in L1 : StateSyncPeers(m, L1) \in SUBSET (L1 \X Identities)
  BY <1>1, PeersType
<1>4. Deployed \in BOOLEAN
  BY FleetAssumption
<1> QED
  BY <1>1, <1>2, <1>3, <1>4, IdleType DEF Init, TypeOK

\* Every reachable state is well typed.
THEOREM TypeCorrect == Spec => []TypeOK
<1>1. Init => TypeOK
  BY InitType
<1>2. TypeOK /\ [Next]_vars => TypeOK'
  <2> SUFFICES ASSUME TypeOK, [Next]_vars PROVE TypeOK'
    OBVIOUS
  <2>1. CASE UNCHANGED vars
    BY <2>1 DEF TypeOK, vars
  <2> QED
    BY <2>1, OperatorType, ControlType, EnvironmentType DEF Next
<1> QED
  BY <1>1, <1>2, PTL DEF Spec

-----------------------------------------------------------------------------
(* placement.json.                                                         *)

\* A place command names an identity and a machine until it ends, and only a
\* place reaches the point where placement.json is written.
MoveNamed ==
  /\ cmd.verb = "place" => cmd.move \in Identities \X Machines
  /\ cmd.phase = "settled" => cmd.verb = "place"

\* Every file that place writes passes the check of the next command that reads it.
PlacementValid == Validate(placement)

PlacementInv ==
  /\ TypeOK
  /\ PlacementValid
  /\ \A i \in Identities : \E m \in Machines : placement[m] = i
  /\ MoveNamed

\* Every step but the write leaves placement.json alone, and ends the verb,
\* begins one, or goes on with the one in progress.
SameVerb ==
  /\ cmd'.verb = cmd.verb /\ cmd'.move = cmd.move
  /\ cmd'.phase = "settled" => cmd.phase = "settled" \/ cmd.verb = "place"

LEMMA ControlKeepsVerb ==
  ASSUME TypeOK, Control, ~SavePlacement
  PROVE  placement' = placement /\ (cmd' = Idle \/ SameVerb)
<1>a. cmd \in Command
  BY DEF TypeOK
<1>1. ASSUME NEW m \in L1, Step(m)
      PROVE  placement' = placement /\ SameVerb
  BY <1>1, <1>a DEF Step, SameVerb, Command, control
<1>2. ASSUME NEW m \in L1, StepRefused(m)
      PROVE  placement' = placement /\ cmd' = Idle
  BY <1>2 DEF StepRefused, Abort, control
<1>3. ASSUME NEW m \in L1, ProbePlacement(m)
      PROVE  placement' = placement /\ SameVerb
  BY <1>3, <1>a DEF ProbePlacement, SameVerb, Command, control
<1>4. ASSUME NEW m \in L1, ProbeStart(m)
      PROVE  placement' = placement /\ SameVerb
  BY <1>4, <1>a DEF ProbeStart, SameVerb, Command, control
<1>5. ASSUME NEW m \in L1, PushBook(m)
      PROVE  placement' = placement /\ SameVerb
  BY <1>5, <1>a DEF PushBook, SameVerb, Command, control
<1>6. ASSUME NEW m \in L1, PushHistory(m)
      PROVE  placement' = placement /\ SameVerb
  BY <1>6, <1>a DEF PushHistory, SameVerb, Command, control
<1>7. CASE PlanApply
  BY <1>7, <1>a DEF PlanApply, SameVerb, Command, control
<1>8. CASE PlanStart
  BY <1>8, <1>a DEF PlanStart, SameVerb, Command, control
<1>9. CASE Advance
  <2>1. \A q : <<cmd.verb, cmd.phase, q>> \in Order /\ q = "settled"
                  => cmd.verb = "place"
    BY DEF Order
  <2> QED BY <1>9, <1>a, <2>1 DEF Advance, SameVerb, Command, control
<1>10. CASE RefreshAddressBook
  BY <1>10, <1>a DEF RefreshAddressBook, SameVerb, Command, control
<1>11. CASE NextMachine
  BY <1>11, <1>a DEF NextMachine, SameVerb, Command, control
<1>12. CASE PlaceApplied
  BY <1>12, <1>a DEF PlaceApplied, SameVerb, Command, control
<1>13. CASE PushFailed \/ RefusePlace \/ Complete
  BY <1>13 DEF PushFailed, RefusePlace, Complete, Abort, control
<1> QED
  BY <1>1, <1>2, <1>3, <1>4, <1>5, <1>6, <1>7, <1>8, <1>9, <1>10, <1>11,
     <1>12, <1>13 DEF Control

LEMMA EnvironmentKeepsVerb ==
  ASSUME TypeOK, Environment
  PROVE  placement' = placement /\ (cmd' = Idle \/ SameVerb)
<1>a. cmd \in Command
  BY DEF TypeOK
<1>1. ASSUME NEW m \in L1, StepLost(m)
      PROVE  placement' = placement /\ cmd' = Idle
  BY <1>1 DEF StepLost, Abort, control
<1>2. ASSUME NEW m \in L1, ProbeStartSilent(m)
      PROVE  placement' = placement /\ SameVerb
  BY <1>2, <1>a DEF ProbeStartSilent, SameVerb, Command, control
<1>3. ASSUME NEW m \in L1, Crash(m) \/ Reboot(m)
      PROVE  placement' = placement /\ SameVerb
  BY <1>3 DEF Crash, Reboot, SameVerb, control
<1>4. CASE Interrupt
  BY <1>4 DEF Interrupt, Abort, control
<1> QED
  BY <1>1, <1>2, <1>3, <1>4 DEF Environment

LEMMA OperatorNamesMove ==
  ASSUME TypeOK, Operator
  PROVE  placement' = placement /\ MoveNamed'
<1>1. ASSUME NEW i \in Identities, NEW m \in Machines, Place(i, m)
      PROVE  placement' = placement /\ MoveNamed'
  BY <1>1 DEF Place, Begin, MoveNamed, Idle
<1>2. ASSUME NEW S \in SUBSET L1,
             Start(S) \/ Stop(S) \/ Destroy(S) \/ Roll(S)
      PROVE  placement' = placement /\ MoveNamed'
  <2>1. CASE Start(S) \/ Stop(S)
    BY <2>1 DEF Start, Stop, Begin, MoveNamed, Idle
  <2>2. CASE Destroy(S) \/ Roll(S)
    BY <2>2 DEF Destroy, Roll, Begin, MoveNamed, Idle
  <2> QED BY <1>2, <2>1, <2>2
<1>3. CASE Deploy
  BY <1>3 DEF Deploy, Begin, MoveNamed, Idle
<1>4. ASSUME NEW m \in L1, UpgradeChain(ChainOf[m])
      PROVE  placement' = placement /\ MoveNamed'
  BY <1>4 DEF UpgradeChain, Begin, MoveNamed, Idle
<1> QED
  BY <1>1, <1>2, <1>3, <1>4 DEF Operator

\* The write: the named exchange, or no change at all.
LEMMA SaveExchanges ==
  ASSUME PlacementInv, SavePlacement
  PROVE  placement' = placement \/ File!Next
<1> DEFINE i == cmd.move[1]
           m == cmd.move[2]
<1>1. i \in Identities /\ m \in Machines
  BY DEF PlacementInv, MoveNamed, SavePlacement
<1>2. Movable(i, m) /\ placement' = PlanPlace(i, m)
  BY DEF SavePlacement
<1>3. PICK n \in Machines : placement[n] = i
  BY <1>1 DEF PlacementInv
<1>4. placement \in [Machines -> Identities]
  BY DEF PlacementInv, TypeOK
<1>5. \A k \in Machines : placement[k] = i => k = n
  BY <1>3 DEF PlacementInv, PlacementValid, Validate
<1> HIDE DEF i, m
<1>6. CASE m = n
  <2>1. ASSUME NEW k \in Machines
        PROVE  placement'[k] = placement[k]
    <3>1. placement'[k] = IF k = m THEN i
                          ELSE IF placement[k] = i THEN placement[m]
                          ELSE placement[k]
      BY <1>2 DEF PlanPlace
    <3>2. placement[k] = i <=> k = m
      BY <1>3, <1>5, <1>6
    <3> QED BY <3>1, <3>2
  <2>2. placement' \in [Machines -> Identities]
    BY <1>1, <1>2, <1>4 DEF PlanPlace
  <2> QED BY <1>4, <2>1, <2>2
<1>7. CASE m # n
  <2>1. placement' = [placement EXCEPT ![m] = placement[n],
                                       ![n] = placement[m]]
    BY <1>1, <1>2, <1>3, <1>4, <1>5, <1>7 DEF PlanPlace
  <2>2. Role[m] = "validator" /\ Role[n] = "validator" /\ ChainOf[m] = ChainOf[n]
    BY <1>2, <1>3 DEF Movable, PlacementInv, PlacementValid, Validate
  <2>3. File!Exchange(m, n)
    BY <1>7, <2>1, <2>2 DEF File!Exchange
  <2> QED BY <1>1, <2>3 DEF File!Next
<1> QED BY <1>6, <1>7

LEMMA PlacementStep ==
  ASSUME PlacementInv, [Next]_vars
  PROVE  PlacementInv' /\ (placement' = placement \/ File!Next)
<1>1. TypeOK'
  <2>1. CASE UNCHANGED vars
    BY <2>1 DEF PlacementInv, TypeOK, vars
  <2> QED
    BY <2>1, OperatorType, ControlType, EnvironmentType DEF Next, PlacementInv
<1>2. ASSUME placement' = placement, MoveNamed'
      PROVE  PlacementInv'
  BY <1>1, <1>2 DEF PlacementInv, PlacementValid, Validate
<1>3. CASE SavePlacement
  <2>1. placement' = placement \/ File!Next
    BY <1>3, SaveExchanges
  <2>2. MoveNamed'
    <3>1. cmd \in Command /\ cmd.verb = "place"
      BY <1>3 DEF PlacementInv, TypeOK, MoveNamed, SavePlacement
    <3> QED BY <1>3, <3>1 DEF SavePlacement, MoveNamed, PlacementInv, Command
  <2>3. PlacementValid'
    BY <1>3 DEF SavePlacement, PlacementValid, Validate
  <2>4. \A i \in Identities : \E k \in Machines : placement'[k] = i
    <3>1. CASE File!Next
      <4>1. PICK k, n \in Machines : File!Exchange(k, n)
        BY <3>1 DEF File!Next
      <4> QED BY <4>1 DEF File!Exchange, PlacementInv, TypeOK
    <3> QED BY <2>1, <3>1 DEF PlacementInv
  <2> QED BY <1>1, <2>1, <2>2, <2>3, <2>4 DEF PlacementInv
<1>4. CASE Operator
  BY <1>2, <1>4, OperatorNamesMove DEF PlacementInv
<1>5. ASSUME placement' = placement, cmd' = Idle \/ SameVerb
      PROVE  PlacementInv' /\ placement' = placement
  <2>1. MoveNamed'
    BY <1>5 DEF MoveNamed, SameVerb, Idle, PlacementInv
  <2> QED BY <1>2, <1>5, <2>1
<1>6. CASE Control /\ ~SavePlacement
  BY <1>5, <1>6, ControlKeepsVerb DEF PlacementInv
<1>7. CASE Environment
  BY <1>5, <1>7, EnvironmentKeepsVerb DEF PlacementInv
<1>8. CASE UNCHANGED vars
  BY <1>2, <1>8 DEF vars, PlacementInv, MoveNamed
<1> QED
  BY <1>3, <1>4, <1>6, <1>7, <1>8 DEF Next

LEMMA PlacementInit ==
  ASSUME Init
  PROVE  PlacementInv /\ File!Init
<1>1. /\ placement \in [Machines -> Identities]
      /\ \A m \in Machines : Home[placement[m]] = m
  BY HomePlacementType DEF Init
<1>2. PlacementValid
  BY <1>1 DEF PlacementValid, Validate
<1>3. \A i \in Identities : \E m \in Machines : placement[m] = i
  BY <1>1, FleetAssumption
<1>4. MoveNamed
  BY DEF Init, Idle, MoveNamed
<1> QED
  BY <1>1, <1>2, <1>3, <1>4, InitType DEF PlacementInv, File!Init

\* The fleet implements the abstract placement file: every step is one
\* exchange of two validators of one chain, or leaves the file alone.
THEOREM FleetImplementsPlacementFile == Spec => KeepsPlacementFile
<1>1. PlacementInv /\ [Next]_vars => PlacementInv' /\ [File!Next]_placement
  BY PlacementStep
<1>2. Init => PlacementInv /\ File!Init
  BY PlacementInit
<1> QED
  BY <1>1, <1>2, PTL DEF Spec, KeepsPlacementFile, File!Spec

=============================================================================
