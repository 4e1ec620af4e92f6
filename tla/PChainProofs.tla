---------------------------- MODULE PChainProofs ----------------------------
(***************************************************************************)
(* The height that control derives for the P-chain node is never more than *)
(* its database holds, so freeze only ever stops a node that had caught up *)
(* with the public chain; for every number of validator sets, both layouts *)
(* and any interleaving of crashes, reboots, faults and verbs.  A mode     *)
(* that was announced is the mode that runs, an archive is a whole copy of *)
(* a stopped database, and the node is back after one; each for the        *)
(* layouts and machines for which the code can promise it.                 *)
(***************************************************************************)
EXTENDS PChain, TLAPS

\* The startup line is never ahead of the process that runs now, so adding
\* its accepted counter cannot overstate the database.
SampleOK ==
  /\ log <= db.height
  /\ cmd.startup <= db.height
  /\ proc # "down" => /\ base <= db.height
                      /\ log <= base
                      /\ cmd.startup <= base

\* A sample starts without a counter, only a gate that compares heights reads
\* the public height, and nothing is sampled once the gate has passed.
GateOK ==
  /\ cmd.phase \in {"mode", "upstream", "logs"} => cmd.accepted = None
  /\ FrozenDeploy => cmd.up = None /\ cmd.phase # "upstream"
  /\ cmd.gated => \/ cmd.phase = "done"
                  \/ /\ cmd.verb = "freeze"
                     /\ cmd.phase \in {"stop", "package", "unit", "identity",
                                       "start"}

HeightInv ==
  TypeOK /\ SampleOK /\ GateOK /\ ObservedNeverOverstates /\ FreezeGateSound

-----------------------------------------------------------------------------
LEMMA IdleType == Idle \in Command
BY DEF Idle, Command, AllVerbs, Modes, Phases, Height, None

LEMMA ImageHeight ==
  ASSUME NEW d \in Image
  PROVE  /\ d.height \in Int /\ d.height >= -1 /\ d.whole \in BOOLEAN
         /\ d # Empty => d.height \in Nat
<1>1. CASE d = Empty
  BY <1>1 DEF Empty, None
<1>2. CASE d \in [height : Nat, whole : BOOLEAN]
  BY <1>2
<1> QED BY <1>1, <1>2 DEF Image

LEMMA FreshImage ==
  /\ Empty \in Image /\ Empty.height = -1
  /\ \A h \in Nat, w \in BOOLEAN :
       LET d == [height |-> h, whole |-> w] IN d \in Image /\ d.height = h
BY DEF Empty, Image, None

LEMMA HeightInit == Init => HeightInv
<1> SUFFICES ASSUME Init PROVE HeightInv
  OBVIOUS
<1>1. db \in Image /\ export \in Image /\ archive \in Image /\ db.height = -1
  BY FreshImage DEF Init
<1>2. TypeOK
  BY <1>1, IdleType DEF Init, TypeOK, Height, Ended, AllVerbs, Modes, None
<1>3. SampleOK /\ GateOK /\ ObservedNeverOverstates /\ FreezeGateSound
  BY <1>1 DEF Init, SampleOK, GateOK, ObservedNeverOverstates, FreezeGateSound,
         FrozenDeploy, Local, Idle, None
<1> QED BY <1>2, <1>3 DEF HeightInv

-----------------------------------------------------------------------------
(* The process comes and goes, and the database only grows.                *)
Grows ==
  /\ db' \in Image
  /\ db'.height >= db.height
  /\ base' \in Nat
  /\ logged' \in BOOLEAN
  /\ proc' \in Modes \union {"down"}
  /\ proc' # "down" => \/ proc # "down" /\ base' = base
                       \/ base' = db'.height

LEMMA StillGrows == ASSUME TypeOK, UNCHANGED process PROVE Grows
BY ImageHeight DEF TypeOK, Grows, process

LEMMA BootGrows == ASSUME TypeOK, Boot PROVE Grows
<1> DEFINE fresh == [height |-> 0, whole |-> TRUE]
<1>0. fresh \in Image /\ fresh.height = 0 /\ Empty.height = -1
  BY FreshImage
<1>1. CASE key /\ conf # "none" /\ db = Empty
  <2>1. db' = fresh /\ base' = db'.height /\ logged' = FALSE /\ proc' = conf
    BY <1>1 DEF Boot
  <2> HIDE DEF fresh
  <2>2. proc' \in Modes \union {"down"}
    BY <1>1, <2>1 DEF TypeOK
  <2>3. logged' \in BOOLEAN
    BY <2>1
  <2>4. base' = 0 /\ db' \in Image /\ db'.height = 0 /\ db.height = -1
    BY <1>0, <1>1, <2>1
  <2> QED BY <2>1, <2>2, <2>3, <2>4 DEF Grows
<1>2. CASE key /\ conf # "none" /\ db # Empty
  <2>1. db' = db /\ base' = db'.height /\ logged' = FALSE /\ proc' = conf
    BY <1>2 DEF Boot
  <2>2. proc' \in Modes \union {"down"}
    BY <1>2, <2>1 DEF TypeOK
  <2>3. logged' \in BOOLEAN
    BY <2>1
  <2>4. base' \in Nat /\ db' \in Image
    BY <1>2, <2>1, ImageHeight DEF TypeOK
  <2>5. db'.height >= db.height
    BY <2>1, <2>4, ImageHeight
  <2> QED BY <2>1, <2>2, <2>3, <2>4, <2>5 DEF Grows
<1>3. CASE ~(key /\ conf # "none")
  BY <1>3, ImageHeight DEF TypeOK, Boot, Grows
<1> QED BY <1>1, <1>2, <1>3

LEMMA LaunchGrows == ASSUME TypeOK, Launch PROVE Grows
BY BootGrows, StillGrows DEF Launch

LEMMA HaltGrows == ASSUME TypeOK, Halt PROVE Grows
BY ImageHeight DEF TypeOK, Halt, Grows

-----------------------------------------------------------------------------
(* What a step leaves alone, whatever it is.                               *)
OthersOK ==
  /\ upstream \in Nat
  /\ registered \in [Sets -> Height]
  /\ unit \in {"missing", "disabled", "enabled", "installed"}
  /\ conf \in Modes \union {"none"}
  /\ key \in BOOLEAN
  /\ export \in Image /\ archive \in Image
  /\ last \in Ended
  /\ issued \in Nat /\ faults \in Nat

\* Samples are kept or dropped; only a gate that has passed stays passed.
KeepsSamples ==
  /\ cmd' \in Command
  /\ cmd'.startup \in {cmd.startup, None}
  /\ cmd'.accepted \in {cmd.accepted, None}
  /\ cmd'.gated => cmd.gated /\ cmd'.up = cmd.up

LEMMA CommandHeights ==
  ASSUME NEW c \in Command
  PROVE  /\ c.up \in Int /\ c.up >= -1
         /\ c.startup \in Int /\ c.startup >= -1
         /\ c.accepted \in Int /\ c.accepted >= -1
         /\ c.gated \in BOOLEAN
BY DEF Command, Height, None

\* A step that takes no sample keeps the heights in order.
LEMMA QuietStep ==
  ASSUME HeightInv, Grows, OthersOK', log' = log, KeepsSamples, GateOK'
  PROVE  HeightInv'
<1>1. TypeOK'
  BY DEF HeightInv, TypeOK, Grows, OthersOK, KeepsSamples
<1>2. /\ db.height \in Int /\ db'.height \in Int /\ db'.height >= db.height
      /\ base \in Int /\ base' \in Int /\ log \in Int /\ db.height >= -1
      /\ cmd.up \in Int /\ cmd.startup \in Int /\ cmd.accepted \in Int
      /\ cmd'.up \in Int /\ cmd'.startup \in Int /\ cmd'.accepted \in Int
  BY <1>1, ImageHeight, CommandHeights
     DEF HeightInv, TypeOK, Grows, KeepsSamples, Height, None
<1>3. SampleOK'
  BY <1>2 DEF HeightInv, SampleOK, Grows, KeepsSamples, None
<1>4. ObservedNeverOverstates'
  BY <1>2 DEF HeightInv, ObservedNeverOverstates, Local, KeepsSamples, None
<1>5. FreezeGateSound'
  BY <1>2 DEF HeightInv, FreezeGateSound, KeepsSamples, None
<1> QED BY <1>1, <1>3, <1>4, <1>5 DEF HeightInv

LEMMA EndFacts ==
  ASSUME HeightInv, NEW ok \in BOOLEAN, NEW unsure \in BOOLEAN, End(ok, unsure)
  PROVE  KeepsSamples /\ GateOK' /\ last' \in Ended /\ issued' = issued
<1>1. KeepsSamples /\ GateOK'
  BY IdleType DEF End, KeepsSamples, GateOK, FrozenDeploy, Idle
<1>2. last' \in Ended
  BY DEF HeightInv, TypeOK, Command, Ended, End
<1> QED BY <1>1, <1>2 DEF End

\* The phase alone moves on.
LEMMA ToFacts ==
  ASSUME HeightInv, NEW p \in Phases \ {"mode", "upstream", "logs"}, To(p),
         cmd.gated => \/ p = "done"
                      \/ /\ cmd.verb = "freeze"
                         /\ p \in {"stop", "package", "unit", "identity",
                                   "start"}
  PROVE  KeepsSamples /\ GateOK'
<1>1. /\ cmd' \in Command /\ cmd'.phase = p /\ cmd'.verb = cmd.verb
      /\ cmd'.mode = cmd.mode /\ cmd'.startup = cmd.startup
      /\ cmd'.accepted = cmd.accepted /\ cmd'.gated = cmd.gated
      /\ cmd'.up = cmd.up
  BY DEF To, HeightInv, TypeOK, Command
<1> QED BY <1>1 DEF HeightInv, GateOK, FrozenDeploy, KeepsSamples

\* The command is left alone.
LEMMA SameCommand ==
  ASSUME HeightInv, cmd' = cmd PROVE KeepsSamples /\ GateOK'
BY DEF HeightInv, TypeOK, KeepsSamples, GateOK, FrozenDeploy

LEMMA SameOthers ==
  ASSUME HeightInv, UNCHANGED <<public, files, copies, last, issued>>,
         faults' \in Nat
  PROVE  OthersOK'
BY DEF HeightInv, TypeOK, OthersOK, public, files, copies

-----------------------------------------------------------------------------
(* The environment.                                                        *)
LEMMA EnvironmentStep == ASSUME HeightInv, Environment PROVE HeightInv'
<1> USE DEF session
<1>1. CASE LogStartup
  <2>1. UNCHANGED <<public, files, copies, cmd, last, issued, faults>>
    BY <1>1 DEF LogStartup
  <2>2. /\ db' = db /\ base' = base /\ proc' = proc /\ log' = base
        /\ logged' = TRUE /\ proc # "down"
    BY <1>1 DEF LogStartup
  <2>3. OthersOK' /\ GateOK' /\ KeepsSamples
    BY <2>1, SameOthers, SameCommand DEF HeightInv, TypeOK
  <2>4. TypeOK'
    BY <2>1, <2>2, <2>3 DEF HeightInv, TypeOK, OthersOK, KeepsSamples, Height
  <2>5. SampleOK'
    BY <2>1, <2>2 DEF HeightInv, TypeOK, SampleOK
  <2>6. ObservedNeverOverstates' /\ FreezeGateSound'
    BY <2>1, <2>2 DEF HeightInv, ObservedNeverOverstates, FreezeGateSound, Local
  <2> QED BY <2>3, <2>4, <2>5, <2>6 DEF HeightInv
<1>2. CASE RotateLog
  <2>1. UNCHANGED <<public, files, copies, cmd, last, issued, faults>>
    BY <1>2 DEF RotateLog
  <2>2. db' = db /\ base' = base /\ proc' = proc /\ logged' = logged /\ log' = None
    BY <1>2 DEF RotateLog, process
  <2>3. OthersOK' /\ GateOK' /\ KeepsSamples
    BY <2>1, SameOthers, SameCommand DEF HeightInv, TypeOK
  <2>4. TypeOK'
    BY <2>1, <2>2, <2>3 DEF HeightInv, TypeOK, OthersOK, KeepsSamples, Height
  <2>5. SampleOK'
    BY <2>1, <2>2, ImageHeight DEF HeightInv, TypeOK, SampleOK, None
  <2>6. ObservedNeverOverstates' /\ FreezeGateSound'
    BY <2>1, <2>2 DEF HeightInv, ObservedNeverOverstates, FreezeGateSound, Local
  <2> QED BY <2>3, <2>4, <2>5, <2>6 DEF HeightInv
<1>3. CASE Accept
  <2>1. UNCHANGED <<public, files, copies, cmd, last, issued, faults, log>>
    BY <1>3 DEF Accept
  <2>2. /\ proc' = proc /\ base' = base /\ logged' = logged
        /\ db' \in Image /\ db'.height >= db.height
    <3>1. db' = [height |-> db.height + 1, whole |-> db.whole] /\ db \in Image
      BY <1>3 DEF Accept, HeightInv, TypeOK
    <3>2. db.height + 1 \in Nat /\ db.whole \in BOOLEAN /\ db.height \in Int
      BY <3>1, ImageHeight
    <3>3. db' \in Image /\ db'.height = db.height + 1
      BY <3>1, <3>2, FreshImage
    <3> QED BY <3>2, <3>3, <1>3 DEF Accept
  <2>3. Grows
    BY <2>2 DEF HeightInv, TypeOK, Grows
  <2> QED BY <2>1, <2>3, SameOthers, SameCommand, QuietStep DEF HeightInv, TypeOK
<1>4. CASE Crash
  BY <1>4, BootGrows, HaltGrows, SameOthers, SameCommand, QuietStep
     DEF Crash, HeightInv, TypeOK
<1>5. CASE Reboot
  BY <1>5, BootGrows, HaltGrows, SameOthers, SameCommand, QuietStep
     DEF Reboot, HeightInv, TypeOK
<1>6. ASSUME NewBlock \/ \E t \in Sets : Convert(t) PROVE HeightInv'
  <2>1. UNCHANGED <<files, process, log, copies, cmd, last, issued, faults>>
    BY <1>6 DEF NewBlock, Convert
  <2>2. upstream' \in Nat
    BY <1>6 DEF NewBlock, Convert, HeightInv, TypeOK
  <2>3. registered' \in [Sets -> Height]
    <3>1. registered \in [Sets -> Height] /\ upstream' \in Height
      BY <2>2 DEF HeightInv, TypeOK, Height
    <3>2. CASE NewBlock
      BY <3>1, <3>2 DEF NewBlock
    <3>3. ASSUME NEW t \in Sets, Convert(t) PROVE registered' \in [Sets -> Height]
      <4>1. registered' = [registered EXCEPT ![t] = upstream']
        BY <3>3 DEF Convert
      <4> QED BY <3>1, <4>1
    <3> QED BY <1>6, <3>2, <3>3
  <2>4. OthersOK'
    BY <2>1, <2>2, <2>3 DEF HeightInv, TypeOK, OthersOK, files, copies
  <2>5. log' = log /\ cmd' = cmd /\ UNCHANGED process
    BY <2>1
  <2> QED BY <2>5, <2>4, StillGrows, SameCommand, QuietStep DEF HeightInv
<1> QED BY <1>1, <1>2, <1>3, <1>4, <1>5, <1>6 DEF Environment

-----------------------------------------------------------------------------
(* The operator.                                                           *)
LEMMA IssueStep ==
  ASSUME HeightInv, NEW v \in AllVerbs, NEW m \in Modes,
         NEW p \in Phases \ {"upstream"},
         Issue(v, m, p)
  PROVE  HeightInv'
<1> DEFINE c == [Idle EXCEPT !.verb = v, !.mode = m, !.phase = p]
<1>1. /\ c \in Command /\ c.startup = None /\ c.accepted = None
      /\ c.gated = FALSE /\ c.up = None /\ c.phase = p
  BY IdleType DEF Idle, Command
<1>2. cmd' = c
  BY DEF Issue
<1> HIDE DEF c
<1>3. KeepsSamples /\ GateOK'
  BY <1>1, <1>2 DEF KeepsSamples, GateOK, FrozenDeploy
<1>4. OthersOK' /\ log' = log /\ UNCHANGED process
  BY DEF HeightInv, TypeOK, OthersOK, Issue, public, files, copies
<1> QED BY <1>3, <1>4, StillGrows, QuietStep DEF HeightInv

LEMMA OperatorStep == ASSUME HeightInv, Operator PROVE HeightInv'
<1>0. /\ AllVerbs = {"follow", "freeze", "deploy", "archive", "start", "stop"}
      /\ {"follow", "frozen"} = Modes
      /\ {"stop", "mode", "active", "enable", "disable"} \subseteq Phases
  BY DEF AllVerbs, Modes, Phases
<1>1. CASE FollowPChain
  <2>1. Issue("follow", "follow", "stop")
    BY <1>1 DEF FollowPChain
  <2> QED BY <1>0, <2>1, IssueStep
<1>2. CASE FreezePChain
  <2>1. Issue("freeze", "frozen", "mode")
    BY <1>2 DEF FreezePChain
  <2> QED BY <1>0, <2>1, IssueStep
<1>3. CASE ArchivePChain
  <2>1. Issue("archive", "follow", "active")
    BY <1>3 DEF ArchivePChain
  <2> QED BY <1>0, <2>1, IssueStep
<1>4. CASE StartPChain
  <2>1. Issue("start", "follow", "enable")
    BY <1>4 DEF StartPChain
  <2> QED BY <1>0, <2>1, IssueStep
<1>5. CASE StopPChain
  <2>1. Issue("stop", "follow", "disable")
    BY <1>5 DEF StopPChain
  <2> QED BY <1>0, <2>1, IssueStep
<1>6. ASSUME NEW m \in Modes, Deploy(m) PROVE HeightInv'
  <2>1. Issue("deploy", m, "stop")
    BY <1>6 DEF Deploy
  <2> QED BY <1>0, <2>1, IssueStep
<1>7. CASE RemoveArchive
  <2>1. OthersOK' /\ cmd' = cmd /\ log' = log /\ UNCHANGED process
    BY <1>7, FreshImage
       DEF RemoveArchive, HeightInv, TypeOK, OthersOK, public, files, session
  <2> QED BY <2>1, StillGrows, SameCommand, QuietStep DEF HeightInv
<1> QED BY <1>1, <1>2, <1>3, <1>4, <1>5, <1>6, <1>7 DEF Operator

-----------------------------------------------------------------------------
(* The gate: the only steps that take a sample.                            *)
LEMMA GateUnchanged ==
  ASSUME HeightInv,
         UNCHANGED <<public, files, process, log, copies, last, issued, faults>>
  PROVE  /\ OthersOK' /\ Grows /\ log' = log /\ db' = db /\ base' = base
         /\ proc' = proc /\ logged' = logged
BY SameOthers, StillGrows DEF HeightInv, TypeOK, process

LEMMA SampleStep ==
  ASSUME HeightInv, cmd' \in Command, GateOK',
         UNCHANGED <<public, files, process, log, copies, last, issued, faults>>,
         cmd'.startup <= db.height,
         proc # "down" => cmd'.startup <= base,
         ObservedNeverOverstates', FreezeGateSound'
  PROVE  HeightInv'
<1>1. TypeOK'
  BY GateUnchanged DEF HeightInv, TypeOK, OthersOK
<1>2. SampleOK'
  BY GateUnchanged DEF HeightInv, SampleOK
<1> QED BY <1>1, <1>2 DEF HeightInv

LEMMA ReadMetricsStep == ASSUME HeightInv, ReadMetrics PROVE HeightInv'
<1> DEFINE q == NextSample("metrics")
<1>1. q \in Phases \ {"mode", "upstream", "logs"} /\ q # "done"
  BY DEF NextSample, Phases
<1>2. /\ cmd' = [cmd EXCEPT !.accepted = Accepted, !.phase = q]
      /\ cmd.phase = "metrics" /\ proc # "down"
      /\ UNCHANGED <<public, files, process, log, copies, last, issued, faults>>
  BY DEF ReadMetrics
<1> HIDE DEF q
<1>3. /\ db.height \in Int /\ base \in Int /\ Accepted = db.height - base
      /\ Accepted \in Nat /\ cmd.startup \in Int /\ cmd.startup <= base
  BY <1>2, ImageHeight, CommandHeights DEF HeightInv, TypeOK, SampleOK, Accepted
<1>4. /\ cmd' \in Command /\ cmd'.phase = q /\ cmd'.accepted = Accepted
      /\ cmd'.startup = cmd.startup /\ cmd'.up = cmd.up
      /\ cmd'.gated = cmd.gated /\ cmd'.verb = cmd.verb /\ cmd'.mode = cmd.mode
  BY <1>1, <1>2, <1>3 DEF HeightInv, TypeOK, Command, Height
<1>5. GateOK' /\ cmd.gated = FALSE
  BY <1>1, <1>2, <1>4 DEF HeightInv, TypeOK, Command, GateOK, FrozenDeploy
<1>6. db' = db
  BY <1>2 DEF process
<1>7. ObservedNeverOverstates' /\ FreezeGateSound'
  BY <1>3, <1>4, <1>5, <1>6
     DEF HeightInv, ObservedNeverOverstates, FreezeGateSound, Local, None
<1> QED BY <1>2, <1>3, <1>4, <1>5, <1>7, SampleStep DEF HeightInv, SampleOK

LEMMA ReadLogsStep == ASSUME HeightInv, ReadLogs PROVE HeightInv'
<1> DEFINE q == NextSample("logs")
<1>1. q = "health" /\ q \in Phases
  BY DEF NextSample, Phases
<1>2. /\ cmd' = [cmd EXCEPT !.startup = log, !.phase = q]
      /\ cmd.phase = "logs"
      /\ UNCHANGED <<public, files, process, log, copies, last, issued, faults>>
  BY DEF ReadLogs
<1> HIDE DEF q
<1>3. /\ cmd' \in Command /\ cmd'.phase = "health" /\ cmd'.accepted = None
      /\ cmd'.startup = log /\ cmd'.up = cmd.up
      /\ cmd'.gated = cmd.gated /\ cmd'.verb = cmd.verb /\ cmd'.mode = cmd.mode
  BY <1>1, <1>2 DEF HeightInv, TypeOK, Command, GateOK
<1>4. GateOK' /\ cmd.gated = FALSE
  BY <1>2, <1>3 DEF HeightInv, TypeOK, Command, GateOK, FrozenDeploy
<1>5. ObservedNeverOverstates' /\ FreezeGateSound'
  BY <1>2, <1>3, <1>4, ImageHeight, GateUnchanged
     DEF HeightInv, TypeOK, ObservedNeverOverstates, FreezeGateSound, Local, None
<1> QED BY <1>2, <1>3, <1>4, <1>5, SampleStep DEF HeightInv, SampleOK

LEMMA CheckStep == ASSUME HeightInv, Check PROVE HeightInv'
<1> DEFINE q == IF cmd.verb = "freeze" THEN "stop" ELSE "done"
<1>1. q \in {"stop", "done"} /\ q \in Phases /\ (q = "stop" => cmd.verb = "freeze")
  BY DEF Phases
<1>2. /\ cmd' = [cmd EXCEPT !.gated = TRUE, !.phase = q]
      /\ GatePasses
      /\ UNCHANGED <<public, files, process, log, copies, last, issued, faults>>
  BY DEF Check
<1> HIDE DEF q
<1>3. /\ cmd' \in Command /\ cmd'.phase = q /\ cmd'.accepted = cmd.accepted
      /\ cmd'.startup = cmd.startup /\ cmd'.up = cmd.up
      /\ cmd'.verb = cmd.verb /\ cmd'.mode = cmd.mode
  BY <1>1, <1>2 DEF HeightInv, TypeOK, Command
<1>4. GateOK'
  BY <1>1, <1>3 DEF HeightInv, GateOK, FrozenDeploy
<1>5. db' = db
  BY <1>2, GateUnchanged
<1>6. ObservedNeverOverstates'
  BY <1>3, <1>5 DEF HeightInv, ObservedNeverOverstates, Local
<1>7. FreezeGateSound'
  <2>1. CASE FrozenDeploy
    BY <2>1, <1>3 DEF HeightInv, GateOK, FreezeGateSound
  <2>2. CASE ~FrozenDeploy
    <3>1. Local >= cmd.up /\ Local <= db.height
      BY <2>2, <1>2 DEF GatePasses, HeightInv, ObservedNeverOverstates
    <3>2. Local \in Int /\ cmd.up \in Int /\ db.height \in Int
      BY CommandHeights, ImageHeight DEF HeightInv, TypeOK, Local, None
    <3> QED BY <3>1, <3>2, <1>3, <1>5 DEF FreezeGateSound
  <2> QED BY <2>1, <2>2
<1> QED BY <1>2, <1>3, <1>4, <1>6, <1>7, SampleStep DEF HeightInv, SampleOK

LEMMA GateStep == ASSUME HeightInv, Gate PROVE HeightInv'
<1> USE DEF HeightInv, TypeOK
<1>1. ASSUME UNCHANGED <<public, files, process, log, copies, last, issued, faults>>,
             KeepsSamples, GateOK'
      PROVE  HeightInv'
  BY <1>1, GateUnchanged, QuietStep
<1>2. GateStart \in {"logs", "upstream"} /\ (FrozenDeploy => GateStart = "logs")
  BY DEF GateStart
<1>3. CASE ProbeMode
  <2>1. PICK q \in {"stop", "logs", "upstream"} :
          /\ cmd' = [cmd EXCEPT !.phase = q, !.todo = Sets]
          /\ FrozenDeploy => q # "upstream"
    BY <1>2, <1>3 DEF ProbeMode
  <2>2. /\ cmd' \in Command /\ cmd'.phase = q /\ cmd'.up = cmd.up
        /\ cmd'.startup = cmd.startup /\ cmd'.accepted = cmd.accepted
        /\ cmd'.gated = cmd.gated /\ cmd'.verb = cmd.verb
        /\ cmd'.mode = cmd.mode
    BY <2>1 DEF Command, Phases
  <2>3. KeepsSamples /\ GateOK'
    BY <1>3, <2>1, <2>2 DEF ProbeMode, KeepsSamples, GateOK, FrozenDeploy
  <2> QED BY <1>1, <1>3, <2>3 DEF ProbeMode
<1>4. CASE ReadUpstream
  <2>1. NextSample("upstream") = "logs"
    BY DEF NextSample
  <2>2. /\ cmd' \in Command /\ cmd'.phase = "logs" /\ cmd'.up = upstream
        /\ cmd'.startup = cmd.startup /\ cmd'.accepted = cmd.accepted
        /\ cmd'.gated = cmd.gated /\ cmd'.verb = cmd.verb
        /\ cmd'.mode = cmd.mode
    BY <2>1, <1>4 DEF ReadUpstream, Command, Phases, Height
  <2>3. KeepsSamples /\ GateOK'
    BY <1>4, <2>2 DEF ReadUpstream, KeepsSamples, GateOK, FrozenDeploy
  <2> QED BY <1>1, <1>4, <2>3 DEF ReadUpstream
<1>5. CASE ReadHealth
  <2>1. NextSample("health") = "metrics"
    BY DEF NextSample
  <2>2. /\ cmd' \in Command /\ cmd'.phase = "metrics" /\ cmd'.up = cmd.up
        /\ cmd'.startup = cmd.startup /\ cmd'.accepted = cmd.accepted
        /\ cmd'.gated = cmd.gated /\ cmd'.verb = cmd.verb
        /\ cmd'.mode = cmd.mode
    BY <2>1, <1>5 DEF ReadHealth, Command, Phases
  <2>3. KeepsSamples /\ GateOK'
    BY <1>5, <2>2 DEF ReadHealth, KeepsSamples, GateOK, FrozenDeploy
  <2> QED BY <1>1, <1>5, <2>3 DEF ReadHealth
<1>6. ASSUME NEW t \in Sets, ReadValidators(t) PROVE HeightInv'
  <2>1. PICK q \in {"check", "sets"}, v \in SUBSET Sets :
          cmd' = [cmd EXCEPT !.todo = @ \ {t}, !.visible = v, !.phase = q]
    BY <1>6 DEF ReadValidators, Command
  <2>2. /\ cmd' \in Command /\ cmd'.phase = q /\ cmd'.up = cmd.up
        /\ cmd'.startup = cmd.startup /\ cmd'.accepted = cmd.accepted
        /\ cmd'.gated = cmd.gated /\ cmd'.verb = cmd.verb
        /\ cmd'.mode = cmd.mode
    BY <2>1 DEF Command, Phases
  <2>3. KeepsSamples /\ GateOK'
    BY <1>6, <2>1, <2>2 DEF ReadValidators, KeepsSamples, GateOK, FrozenDeploy
  <2> QED BY <1>1, <1>6, <2>3 DEF ReadValidators
<1>7. CASE WaitReady
  <2>1. /\ cmd' \in Command /\ cmd'.phase = GateStart /\ cmd'.up = None
        /\ cmd'.startup = None /\ cmd'.accepted = None
        /\ cmd'.gated = cmd.gated /\ cmd'.verb = cmd.verb
        /\ cmd'.mode = cmd.mode
    BY <1>2, <1>7 DEF WaitReady, Command, Phases, Height
  <2>2. KeepsSamples /\ GateOK'
    BY <1>2, <1>7, <2>1 DEF WaitReady, KeepsSamples, GateOK, FrozenDeploy
  <2> QED BY <1>1, <1>7, <2>2 DEF WaitReady
<1>8. CASE NotReadyYet
  <2>1. "ready" \in Phases \ {"mode", "upstream", "logs"} /\ cmd.gated = FALSE
    BY <1>8 DEF NotReadyYet, GateBlocked, Phases, GateOK, Command
  <2> QED BY <1>1, <1>8, <2>1, ToFacts DEF NotReadyYet
<1>9. CASE RefuseFreeze \/ DeadlinePassed
  BY <1>9, EndFacts, QuietStep, StillGrows
     DEF RefuseFreeze, DeadlinePassed, Abort, OthersOK, public, files, copies
<1> QED BY <1>3, <1>4, <1>5, <1>6, <1>7, <1>8, <1>9, ReadLogsStep,
           ReadMetricsStep, CheckStep DEF Gate

-----------------------------------------------------------------------------
(* The remote phases.                                                      *)
FilesOK ==
  /\ unit \in {"missing", "disabled", "enabled", "installed"}
  /\ conf \in Modes \union {"none"}
  /\ key \in BOOLEAN

LEMMA RemoteGrows ==
  ASSUME HeightInv, Remote \/ Torn PROVE Grows /\ FilesOK'
<1> USE DEF HeightInv, TypeOK
<1>1. CASE cmd.phase = "stop" /\ StopNode
  BY <1>1, HaltGrows DEF StopNode, FilesOK, files
<1>2. CASE \/ cmd.phase = "package" /\ InstallPackage
           \/ cmd.phase = "unit" /\ InstallUnit
           \/ cmd.phase = "identity" /\ InstallIdentity
           \/ cmd.phase = "alive" /\ proc # "down" /\ UNCHANGED <<files, process>>
  <2>1. UNCHANGED process
    BY <1>2 DEF InstallPackage, InstallUnit, InstallIdentity
  <2>2. cmd.mode \in Modes
    BY DEF Command
  <2>3. FilesOK'
    BY <1>2, <2>2 DEF InstallPackage, InstallUnit, InstallIdentity, FilesOK, files
  <2> QED BY <2>1, <2>3, StillGrows
<1>3. CASE cmd.phase = "seed" /\ SeedPChain
  BY <1>3, ImageHeight, FreshImage DEF SeedPChain, Grows, FilesOK, files
<1>4. CASE cmd.phase = "start" /\ StartNode
  BY <1>4, LaunchGrows DEF StartNode, FilesOK, files
<1>5. CASE cmd.phase = "enable" /\ EnableAndStart
  BY <1>5, LaunchGrows DEF EnableAndStart, FilesOK
<1>6. CASE cmd.phase = "disable" /\ DisableAndStop
  BY <1>6, HaltGrows DEF DisableAndStop, Disabled, FilesOK
<1>7. CASE Torn
  BY <1>7, StillGrows DEF Torn, Disabled, FilesOK
<1> QED BY <1>1, <1>2, <1>3, <1>4, <1>5, <1>6, <1>7 DEF Remote

LEMMA AfterPhase ==
  ASSUME HeightInv, Remote
  PROVE  /\ After(cmd) \in Phases \ {"mode", "upstream", "logs"}
         /\ cmd.gated => \/ After(cmd) = "done"
                         \/ /\ cmd.verb = "freeze"
                            /\ After(cmd) \in {"stop", "package", "unit",
                                               "identity", "start"}
<1>1. cmd.phase \in {"stop", "package", "unit", "identity", "seed", "start",
                    "enable", "disable", "alive"}
  BY DEF Remote
<1>2. After(cmd) \in {"package", "unit", "identity", "seedcheck", "start",
                     "ready", "alive", "done"}
  BY <1>1 DEF After
<1>3. After(cmd) \in Phases \ {"mode", "upstream", "logs"}
  BY <1>2 DEF Phases
<1>4. ASSUME cmd.gated, After(cmd) # "done"
      PROVE  /\ cmd.verb = "freeze"
             /\ After(cmd) \in {"package", "unit", "identity", "start"}
  BY <1>1, <1>4 DEF HeightInv, GateOK, After
<1> QED BY <1>3, <1>4

LEMMA ReconcileStep == ASSUME HeightInv, Reconcile PROVE HeightInv'
<1>0. ASSUME FilesOK', UNCHANGED <<public, copies>>,
             last' \in Ended, issued' = issued, faults' \in Nat
      PROVE  OthersOK'
  BY <1>0 DEF HeightInv, TypeOK, OthersOK, FilesOK, public, copies
<1>f. HeightInv /\ UNCHANGED files => FilesOK'
  BY DEF HeightInv, TypeOK, FilesOK, files
<1>t. last \in Ended /\ faults \in Nat /\ TypeOK /\ faults + 1 \in Nat
  BY DEF HeightInv, TypeOK
<1>1. CASE Step
  <2>1. KeepsSamples /\ GateOK' /\ last' \in Ended /\ issued' = issued
    BY <1>1, <1>t, AfterPhase, ToFacts, EndFacts DEF Step, Abort
  <2> QED BY <1>1, <2>1, <1>0, <1>t, RemoteGrows, QuietStep DEF Step
<1>2. CASE SeedCheck
  <2>1. PICK q \in {"seed", "start"} : To(q)
    BY <1>2 DEF SeedCheck
  <2>2. q \in Phases \ {"mode", "upstream", "logs"} /\ cmd.gated = FALSE
    BY <1>2, <2>1 DEF SeedCheck, HeightInv, TypeOK, Command, GateOK, Phases
  <2>3. KeepsSamples /\ GateOK'
    BY <2>1, <2>2, ToFacts
  <2>4. OthersOK' /\ Grows /\ log' = log
    BY <1>2, GateUnchanged DEF SeedCheck
  <2> QED BY <2>3, <2>4, QuietStep
<1>3. CASE StepRefused \/ Interrupt \/ Finish
  <2>1. UNCHANGED <<public, files, process, log, copies>> /\ faults' \in Nat
    BY <1>3, <1>t DEF StepRefused, Interrupt, Finish
  <2>2. KeepsSamples /\ GateOK' /\ last' \in Ended /\ issued' = issued
    BY <1>3, EndFacts DEF StepRefused, Interrupt, Finish, Abort
  <2> QED BY <2>1, <2>2, <1>0, <1>f, <1>t, StillGrows, QuietStep
<1>4. CASE StepLost
  <2>1. KeepsSamples /\ GateOK' /\ last' \in Ended /\ issued' = issued
    BY <1>4, EndFacts DEF StepLost, Abort
  <2> QED BY <1>4, <2>1, <1>0, <1>t, RemoteGrows, QuietStep DEF StepLost
<1> QED BY <1>1, <1>2, <1>3, <1>4 DEF Reconcile

-----------------------------------------------------------------------------
(* pchain archive.                                                         *)
LEMMA ArchiveCommand ==
  ASSUME HeightInv, NEW h \in BOOLEAN, NEW f \in BOOLEAN,
         NEW p \in {"tar", "restart"}, ~cmd.gated,
         cmd' = [cmd EXCEPT !.phase = p, !.halted = h, !.failed = f]
  PROVE  KeepsSamples /\ GateOK'
<1>1. /\ cmd' \in Command /\ cmd'.phase = p /\ cmd'.verb = cmd.verb
      /\ cmd'.mode = cmd.mode /\ cmd'.startup = cmd.startup
      /\ cmd'.accepted = cmd.accepted /\ cmd'.gated = cmd.gated
      /\ cmd'.up = cmd.up
  BY DEF HeightInv, TypeOK, Command, Phases
<1> QED BY <1>1 DEF HeightInv, GateOK, FrozenDeploy, KeepsSamples

LEMMA ArchiveStep == ASSUME HeightInv, Archive PROVE HeightInv'
<1>0. ASSUME UNCHANGED <<public, files>>, export' \in Image, archive' \in Image,
             last' \in Ended, issued' = issued, faults' \in Nat
      PROVE  OthersOK'
  BY <1>0 DEF HeightInv, TypeOK, OthersOK, public, files
<1>t. /\ last \in Ended /\ faults \in Nat /\ TypeOK /\ faults + 1 \in Nat
      /\ export \in Image /\ archive \in Image /\ Empty \in Image
      /\ cmd.gated \in BOOLEAN /\ cmd.halted \in BOOLEAN /\ cmd.failed \in BOOLEAN
  BY FreshImage DEF HeightInv, TypeOK, Command
<1>c. UNCHANGED copies => export' \in Image /\ archive' \in Image
  BY <1>t DEF copies
<1>g. cmd.phase \in {"active", "halt", "tar", "restart", "download"} => ~cmd.gated
  BY DEF HeightInv, GateOK
<1>p. {"halt", "restart", "download"} \subseteq Phases \ {"mode", "upstream", "logs"}
  BY DEF Phases
<1>1. CASE CheckActive
  <2>1. KeepsSamples /\ GateOK' /\ last' \in Ended /\ issued' = issued
    BY <1>1, <1>t, <1>g, <1>p, ToFacts, EndFacts DEF CheckActive, Abort
  <2> QED BY <1>1, <2>1, <1>0, <1>t, <1>c, StillGrows, QuietStep DEF CheckActive
<1>2. CASE HaltForArchive
  <2>1. Grows
    BY <1>2, <1>t, HaltGrows, StillGrows DEF HaltForArchive
  <2>2. \/ cmd' = [cmd EXCEPT !.phase = "tar", !.halted = TRUE, !.failed = cmd.failed]
        \/ cmd' = [cmd EXCEPT !.phase = "restart", !.halted = TRUE, !.failed = TRUE]
    BY <1>2, <1>t DEF HaltForArchive, HeightInv, TypeOK, Command
  <2>3. KeepsSamples /\ GateOK'
    BY <1>2, <2>2, <1>t, <1>g, ArchiveCommand DEF HaltForArchive
  <2> QED BY <1>2, <2>1, <2>3, <1>0, <1>t, <1>c, QuietStep DEF HaltForArchive
<1>3. CASE Tar
  <2>1. UNCHANGED <<public, files, process, log, archive, last, issued>>
        /\ cmd.phase = "tar" /\ faults' \in Nat
    BY <1>3, <1>t DEF Tar
  <2>2. export' \in Image
    <3>1. ASSUME db # Empty PROVE Snapshot \in Image
      BY <3>1, ImageHeight, FreshImage DEF Snapshot, HeightInv, TypeOK
    <3> QED BY <1>3, <1>t, <3>1 DEF Tar
  <2>3. KeepsSamples /\ GateOK'
    <3>1. CASE To("restart")
      BY <2>1, <3>1, <1>g, <1>p, ToFacts
    <3>2. CASE cmd' = [cmd EXCEPT !.phase = "restart", !.failed = TRUE]
      <4>1. cmd' = [cmd EXCEPT !.phase = "restart", !.halted = cmd.halted,
                               !.failed = TRUE]
        BY <3>2 DEF HeightInv, TypeOK, Command
      <4> QED BY <4>1, <2>1, <1>g, <1>t, ArchiveCommand
    <3> QED BY <1>3, <3>1, <3>2 DEF Tar
  <2>4. OthersOK'
    BY <2>1, <2>2, <1>0, <1>t
  <2> QED BY <2>1, <2>3, <2>4, <1>t, StillGrows, QuietStep
<1>4. CASE RestartAfterArchive \/ RestartLost
  <2>1. /\ UNCHANGED <<public, files, log, copies>> /\ cmd.phase = "restart"
        /\ faults' \in Nat
    BY <1>4, <1>t DEF RestartAfterArchive, RestartLost
  <2>2. Grows
    BY <1>4, <1>t, LaunchGrows, StillGrows DEF RestartAfterArchive, RestartLost
  <2>3. KeepsSamples /\ GateOK' /\ last' \in Ended /\ issued' = issued
    BY <1>4, <2>1, <1>t, <1>g, <1>p, ToFacts, EndFacts
       DEF RestartAfterArchive, RestartLost, Abort
  <2> QED BY <2>1, <2>2, <2>3, <1>0, <1>c, QuietStep
<1>5. CASE Download \/ DownloadFails
  <2>1. KeepsSamples /\ GateOK' /\ last' \in Ended /\ issued' = issued
    BY <1>5, EndFacts DEF Download, DownloadFails, Abort
  <2>2. OthersOK' /\ log' = log /\ UNCHANGED process
    BY <1>5, <2>1, <1>0, <1>t DEF Download, DownloadFails
  <2> QED BY <2>1, <2>2, <1>t, StillGrows, QuietStep
<1> QED BY <1>1, <1>2, <1>3, <1>4, <1>5 DEF Archive

-----------------------------------------------------------------------------
LEMMA HeightStep == ASSUME HeightInv, [Next]_vars PROVE HeightInv'
<1>1. CASE UNCHANGED vars
  <2>1. OthersOK' /\ log' = log /\ cmd' = cmd /\ UNCHANGED process
    BY <1>1 DEF vars, HeightInv, TypeOK, OthersOK, process
  <2> QED BY <2>1, StillGrows, SameCommand, QuietStep DEF HeightInv
<1>2. CASE Next
  BY <1>2, OperatorStep, GateStep, ReconcileStep, ArchiveStep, EnvironmentStep
     DEF Next
<1> QED BY <1>1, <1>2

LEMMA HeightAlways == Spec => []HeightInv
<1>1. HeightInv /\ [Next]_vars => HeightInv'
  BY HeightStep
<1> QED BY HeightInit, <1>1, PTL DEF Spec

\* Files, process, session and archives keep their shape under every verb,
\* fault, crash and reboot (freeze.go, pchainview.go, deploy.go).
THEOREM PChainTypeCorrect == Spec => []TypeOK
<1>1. HeightInv => TypeOK
  BY DEF HeightInv
<1> QED BY HeightAlways, <1>1, PTL

\* The height that observePChain adds up from the log and the metrics of a
\* node that may have restarted in between is never more than the database
\* holds (pchainview.go observePChain).
THEOREM ObservationIsSafe == Spec => []ObservedNeverOverstates
<1>1. HeightInv => ObservedNeverOverstates
  BY DEF HeightInv
<1> QED BY HeightAlways, <1>1, PTL

\* freeze stops only a node whose database holds all the public chain held
\* when its gate began (freeze.go freezeGateState and check).
THEOREM FreezeGateIsSound == Spec => []FreezeGateSound
<1>1. HeightInv => FreezeGateSound
  BY DEF HeightInv
<1> QED BY HeightAlways, <1>1, PTL

LEMMA DatabaseStep ==
  ASSUME HeightInv, [Next]_vars PROVE db'.height >= db.height
<1>0. TypeOK /\ db.height \in Int
  BY ImageHeight DEF HeightInv, TypeOK
<1>1. Grows => db'.height >= db.height
  BY DEF Grows
<1>2. UNCHANGED process => db'.height >= db.height
  BY <1>0 DEF process
<1>3. CASE UNCHANGED vars
  BY <1>2, <1>3 DEF vars, process
<1>4. CASE Operator
  <2>1. UNCHANGED process
    BY <1>4 DEF Operator, FollowPChain, FreezePChain, ArchivePChain,
                StartPChain, StopPChain, Deploy, RemoveArchive, Issue
  <2> QED BY <2>1, <1>2
<1>5. CASE Gate
  <2>1. UNCHANGED process
    BY <1>5 DEF Gate, ProbeMode, ReadUpstream, ReadLogs, ReadHealth, ReadMetrics,
                ReadValidators, Check, RefuseFreeze, WaitReady, NotReadyYet,
                DeadlinePassed
  <2> QED BY <2>1, <1>2
<1>6. CASE Reconcile
  <2>1. Remote \/ Torn \/ UNCHANGED process
    BY <1>6 DEF Reconcile, Step, SeedCheck, StepRefused, StepLost, Interrupt,
                Finish
  <2> QED BY <2>1, <1>1, <1>2, RemoteGrows
<1>7. CASE Archive
  <2>1. Halt \/ Launch \/ UNCHANGED process
    BY <1>7 DEF Archive, CheckActive, HaltForArchive, Tar, RestartAfterArchive,
                RestartLost, Download, DownloadFails
  <2> QED BY <2>1, <1>0, <1>1, <1>2, HaltGrows, LaunchGrows
<1>8. CASE Environment
  <2>1. CASE Accept
    BY <2>1, <1>0 DEF Accept
  <2>2. CASE Crash \/ Reboot
    <3>1. Boot \/ Halt
      BY <2>2 DEF Crash, Reboot
    <3> QED BY <3>1, <1>0, <1>1, BootGrows, HaltGrows
  <2>3. CASE LogStartup \/ RotateLog \/ NewBlock \/ \E t \in Sets : Convert(t)
    <3>1. db' = db
      BY <2>3 DEF LogStartup, RotateLog, NewBlock, Convert, process
    <3> QED BY <3>1, <1>0
  <2> QED BY <1>8, <2>1, <2>2, <2>3 DEF Environment
<1> QED BY <1>3, <1>4, <1>5, <1>6, <1>7, <1>8 DEF Next

\* No verb, crash or seed takes the P-chain database back to a lower height:
\* an existing database is authoritative over an archive (deploy.go
\* seedPChain).
THEOREM DatabaseOnlyGrows == Spec => DatabaseNeverRegresses
<1>1. HeightInv /\ [Next]_vars => [db'.height >= db.height]_vars
  BY DatabaseStep
<1> QED BY HeightAlways, <1>1, PTL DEF Spec, DatabaseNeverRegresses

-----------------------------------------------------------------------------
(* What each phase finds on the machine.                                   *)
Placing  == {"stop", "package", "unit", "identity", "start", "done"}
Sampling == {"upstream", "logs", "health", "metrics", "sets", "check"}

\* The phases a verb goes through.
PhasesOf(verb) ==
  CASE verb = "none"    -> {"idle"}
    [] verb = "follow"  -> Placing
    [] verb = "freeze"  -> Placing \union Sampling \union {"mode"}
    [] verb = "deploy"  -> Placing \union Sampling \union {"seedcheck", "seed", "ready"}
    [] verb = "start"   -> {"enable", "alive", "done"}
    [] verb = "stop"    -> {"disable", "done"}
    [] verb = "archive" -> {"active", "halt", "tar", "restart", "download"}

PhaseOK ==
  /\ cmd.phase \in PhasesOf(cmd.verb)
  /\ cmd.phase = "active" => ~cmd.halted

\* Without systemd there is only a run script.
UnitOK == UserInstall => unit \in {"missing", "installed"}

\* A process has its key and runs what node.json says.
RunsConf == proc # "down" => proc = conf /\ key

\* From the stop of a verb to its start nothing runs.
Stopped == {"package", "unit", "identity", "seedcheck", "seed", "start", "tar"}
DownOK == cmd.phase \in Stopped => proc = "down"

RenderedOK ==
  cmd.verb \in {"follow", "freeze"} /\
  cmd.phase \in {"unit", "identity", "start", "done"} => conf = cmd.mode

LastOK ==
  cmd.phase = "idle" /\ last.ok /\ last.verb \in {"follow", "freeze"} =>
    conf = last.mode

RunInv ==
  HeightInv /\ PhaseOK /\ UnitOK /\ RunsConf /\ DownOK /\ RenderedOK /\ LastOK

\* The machine does not boot the node behind the back of a verb.
Steady == UserInstall \/ ~Reboots

LEMMA RunInit == Init => RunInv
BY HeightInit DEF Init, RunInv, PhaseOK, PhasesOf, UnitOK, RunsConf, DownOK,
                  Stopped, RenderedOK, LastOK, Idle

LEMMA CommandShape ==
  ASSUME HeightInv
  PROVE  /\ cmd \in Command /\ cmd.verb \in AllVerbs \union {"none"}
         /\ cmd.phase \in Phases /\ cmd.mode \in Modes
BY DEF HeightInv, TypeOK, Command

LEMMA Runs ==
  ASSUME RunsConf, UNCHANGED <<conf, key>>,
         Boot \/ Launch \/ Halt \/ UNCHANGED process
  PROVE  RunsConf'
BY DEF RunsConf, Boot, Launch, Halt, process

\* What a phase that hands on to phase p must have left behind.
LEMMA MovesOn ==
  ASSUME NEW p \in PhasesOf(cmd.verb) \ {"idle", "active"},
         cmd'.verb = cmd.verb, cmd'.mode = cmd.mode, cmd'.phase = p,
         p \in Stopped => proc' = "down",
         cmd.verb \in {"follow", "freeze"}
           /\ p \in {"unit", "identity", "start", "done"} => conf' = cmd.mode
  PROVE  PhaseOK' /\ DownOK' /\ RenderedOK' /\ LastOK'
BY DEF PhaseOK, PhasesOf, Stopped, DownOK, RenderedOK, LastOK

LEMMA Ends ==
  ASSUME NEW ok, NEW unsure, End(ok, unsure),
         ok /\ cmd.verb \in {"follow", "freeze"} => conf' = cmd.mode
  PROVE  PhaseOK' /\ DownOK' /\ RenderedOK' /\ LastOK'
BY DEF End, Idle, PhaseOK, PhasesOf, Stopped, DownOK, RenderedOK, LastOK

\* The environment meets a machine whose files nobody changes.
LEMMA Meets ==
  ASSUME RunInv, UNCHANGED <<files, cmd, last>>,
         Boot \/ Launch \/ Halt \/ proc' = proc,
         proc = "down" /\ cmd.phase \in Stopped => proc' = "down"
  PROVE  PhaseOK' /\ UnitOK' /\ RunsConf' /\ DownOK' /\ RenderedOK' /\ LastOK'
BY DEF RunInv, PhaseOK, UnitOK, RunsConf, DownOK, RenderedOK, LastOK, files,
       Boot, Launch, Halt, process

LEMMA EnvironmentRuns ==
  ASSUME Steady, RunInv, Environment
  PROVE  PhaseOK' /\ UnitOK' /\ RunsConf' /\ DownOK' /\ RenderedOK' /\ LastOK'
<1> USE DEF session, process
<1>1. UNCHANGED <<files, cmd, last>>
  BY DEF Environment, LogStartup, RotateLog, Accept, Crash, Reboot, NewBlock,
         Convert
<1>2. CASE Crash
  BY <1>1, <1>2, Meets DEF Crash
<1>3. CASE Reboot
  <2>1. unit # "enabled"
    BY <1>3 DEF Steady, RunInv, UnitOK, Reboot
  <2> QED BY <1>1, <1>3, <2>1, Meets DEF Reboot, Halt
<1>4. CASE LogStartup \/ RotateLog \/ Accept \/ NewBlock \/ \E t \in Sets : Convert(t)
  <2>1. proc' = proc
    BY <1>4 DEF LogStartup, RotateLog, Accept, NewBlock, Convert
  <2> QED BY <1>1, <2>1, Meets
<1> QED BY <1>2, <1>3, <1>4 DEF Environment

LEMMA OperatorRuns ==
  ASSUME RunInv, Operator
  PROVE  PhaseOK' /\ UnitOK' /\ RunsConf' /\ DownOK' /\ RenderedOK' /\ LastOK'
<1>1. UNCHANGED <<files, process, last>>
  BY DEF Operator, FollowPChain, FreezePChain, ArchivePChain, StartPChain,
         StopPChain, Deploy, RemoveArchive, Issue, session
<1>2. UnitOK' /\ RunsConf'
  BY <1>1 DEF RunInv, UnitOK, RunsConf, files, process
<1>3. CASE RemoveArchive
  <2>1. cmd' = cmd
    BY <1>3 DEF RemoveArchive, session
  <2> QED BY <1>1, <2>1, Meets DEF process
<1>4. ASSUME NEW v, NEW m, NEW p, Issue(v, m, p),
             p \in PhasesOf(v) \ (Stopped \union {"idle", "unit", "identity",
                                                  "start", "done"})
      PROVE  PhaseOK' /\ DownOK' /\ RenderedOK' /\ LastOK'
  <2>1. cmd'.verb = v /\ cmd'.phase = p /\ cmd'.halted = FALSE
    BY <1>4 DEF Issue, Idle
  <2> QED BY <1>4, <2>1 DEF PhaseOK, DownOK, RenderedOK, LastOK
<1>5. \/ Issue("follow", "follow", "stop")
      \/ Issue("freeze", "frozen", "mode")
      \/ Issue("archive", "follow", "active")
      \/ Issue("start", "follow", "enable")
      \/ Issue("stop", "follow", "disable")
      \/ \E m \in Modes : Issue("deploy", m, "stop")
      \/ RemoveArchive
  BY DEF Operator, FollowPChain, FreezePChain, ArchivePChain, StartPChain,
         StopPChain, Deploy
<1> QED BY <1>2, <1>3, <1>4, <1>5, Zenon DEF PhasesOf, Placing, Sampling, Stopped

\* The gate reads; it changes nothing on the machine.
LEMMA GateRuns ==
  ASSUME RunInv, Gate
  PROVE  PhaseOK' /\ UnitOK' /\ RunsConf' /\ DownOK' /\ RenderedOK' /\ LastOK'
<1>1. UNCHANGED <<files, process>>
  BY DEF Gate, ProbeMode, ReadUpstream, ReadLogs, ReadHealth, ReadMetrics,
         ReadValidators, Check, RefuseFreeze, WaitReady, NotReadyYet,
         DeadlinePassed
<1>2. UnitOK' /\ RunsConf'
  BY <1>1 DEF RunInv, UnitOK, RunsConf, files, process
<1>3. CASE RefuseFreeze \/ DeadlinePassed
  BY <1>2, <1>3, Ends DEF RefuseFreeze, DeadlinePassed, Abort
<1>4. CASE ~(RefuseFreeze \/ DeadlinePassed)
  <2>0. cmd \in Command /\ cmd.phase \in PhasesOf(cmd.verb)
    BY CommandShape DEF RunInv, PhaseOK
  <2>1. cmd.phase \in Sampling \union {"mode", "ready"}
    BY <1>4 DEF Gate, ProbeMode, ReadUpstream, ReadLogs, ReadHealth, ReadMetrics,
                ReadValidators, Check, WaitReady, NotReadyYet, GateBlocked, Sampling
  <2>2. cmd.verb \in {"freeze", "deploy"} /\ (cmd.phase = "mode" => cmd.verb = "freeze")
    BY <2>0, <2>1, CommandShape DEF PhasesOf, Placing, Sampling, AllVerbs, RunInv
  <2>3. \E p \in Sampling \union {"stop", "done", "ready"} :
          /\ cmd'.phase = p /\ cmd'.verb = cmd.verb /\ cmd'.mode = cmd.mode
          /\ p = "done" \/ p = "ready" => cmd.verb = "deploy"
    <3>1. CASE ProbeMode \/ WaitReady \/ NotReadyYet
      <4>1. CASE ProbeMode
        BY <2>0, <2>2, <4>1 DEF ProbeMode, GateStart, FrozenDeploy, Command, Sampling
      <4>2. CASE WaitReady
        BY <2>0, <4>2 DEF WaitReady, GateStart, FrozenDeploy, Command, Sampling
      <4>3. CASE NotReadyYet
        BY <2>0, <4>3 DEF NotReadyYet, To, Command, Sampling
      <4> QED BY <3>1, <4>1, <4>2, <4>3
    <3>2. CASE ReadUpstream \/ ReadLogs \/ ReadHealth \/ ReadMetrics
      <4>1. CASE ReadUpstream \/ ReadLogs
        BY <2>0, <4>1 DEF ReadUpstream, ReadLogs, NextSample, Command, Sampling
      <4>2. CASE ReadHealth \/ ReadMetrics
        BY <2>0, <4>2 DEF ReadHealth, ReadMetrics, NextSample, Command, Sampling
      <4> QED BY <3>2, <4>1, <4>2
    <3>3. CASE \E t \in Sets : ReadValidators(t)
      BY <2>0, <3>3 DEF ReadValidators, Command, Sampling
    <3>4. CASE Check
      BY <2>0, <2>2, <3>4 DEF Check, Command, Sampling
    <3> QED BY <1>4, <3>1, <3>2, <3>3, <3>4 DEF Gate
  <2>4. PICK p \in Sampling \union {"stop", "done", "ready"} :
          /\ cmd'.phase = p /\ cmd'.verb = cmd.verb /\ cmd'.mode = cmd.mode
          /\ p = "done" \/ p = "ready" => cmd.verb = "deploy"
    BY <2>3
  <2>5. p \in PhasesOf(cmd.verb) \ {"idle", "active"} /\ p \notin Stopped
    BY <2>2, <2>4 DEF PhasesOf, Placing, Sampling, Stopped
  <2> QED BY <1>2, <2>2, <2>4, <2>5, MovesOn DEF Sampling
<1> QED BY <1>3, <1>4

LEMMA RemoteRuns ==
  ASSUME RunInv, Remote \/ Torn PROVE RunsConf' /\ UnitOK'
<1>1. CASE cmd.phase = "package" /\ InstallPackage
  BY <1>1 DEF RunInv, RunsConf, UnitOK, DownOK, Stopped, InstallPackage, process
<1>2. CASE cmd.phase = "unit" /\ InstallUnit
  BY <1>2, Runs DEF RunInv, UnitOK, InstallUnit
<1>3. CASE cmd.phase = "identity" /\ InstallIdentity
  BY <1>3 DEF RunInv, RunsConf, UnitOK, InstallIdentity, process
<1>4. CASE cmd.phase = "seed" /\ SeedPChain
  BY <1>4 DEF RunInv, RunsConf, UnitOK, SeedPChain, files
<1>5. CASE \/ cmd.phase = "stop" /\ StopNode
           \/ cmd.phase = "start" /\ StartNode
           \/ cmd.phase = "enable" /\ EnableAndStart
           \/ cmd.phase = "disable" /\ DisableAndStop
           \/ cmd.phase = "alive" /\ UNCHANGED <<files, process>>
  <2>1. UNCHANGED <<conf, key>> /\ (Launch \/ Halt \/ UNCHANGED process)
    BY <1>5 DEF StopNode, StartNode, EnableAndStart, DisableAndStop, files
  <2>2. UnitOK'
    BY <1>5 DEF RunInv, UnitOK, StopNode, StartNode, EnableAndStart,
                DisableAndStop, Disabled, files
  <2> QED BY <2>1, <2>2, Runs DEF RunInv
<1>6. CASE Torn
  <2>1. UnitOK' /\ proc' = proc /\ conf' = conf
    BY <1>6 DEF RunInv, UnitOK, Torn, Disabled, process
  <2>2. proc # "down" => key'= key
    BY <1>6 DEF RunInv, DownOK, Stopped, Torn
  <2> QED BY <2>1, <2>2 DEF RunInv, RunsConf
<1> QED BY <1>1, <1>2, <1>3, <1>4, <1>5, <1>6 DEF Remote

LEMMA ReconcileRuns ==
  ASSUME RunInv, Reconcile
  PROVE  PhaseOK' /\ UnitOK' /\ RunsConf' /\ DownOK' /\ RenderedOK' /\ LastOK'
<1>0. cmd \in Command /\ cmd.verb \in AllVerbs \union {"none"}
  BY CommandShape DEF RunInv
<1>1. CASE StepRefused \/ Interrupt \/ Finish
  <2>1. UNCHANGED <<files, process>>
    BY <1>1 DEF StepRefused, Interrupt, Finish
  <2>2. UnitOK' /\ RunsConf'
    BY <2>1 DEF RunInv, UnitOK, RunsConf, files, process
  <2>3. PICK ok \in BOOLEAN, unsure \in BOOLEAN :
          End(ok, unsure) /\ (ok => cmd.phase = "done")
    BY <1>1 DEF StepRefused, Interrupt, Finish, Abort
  <2>4. ok /\ cmd.verb \in {"follow", "freeze"} => conf' = cmd.mode
    BY <2>1, <2>3 DEF RunInv, RenderedOK, files
  <2> QED BY <2>2, <2>3, <2>4, Ends
<1>2. CASE SeedCheck
  <2>1. UNCHANGED <<files, process>> /\ cmd.phase = "seedcheck"
    BY <1>2 DEF SeedCheck
  <2>2. UnitOK' /\ RunsConf' /\ proc' = "down"
    BY <2>1 DEF RunInv, UnitOK, RunsConf, DownOK, Stopped, files, process
  <2>3. PICK p \in {"seed", "start"} : To(p)
    BY <1>2 DEF SeedCheck
  <2>4. cmd'.phase = p /\ cmd'.verb = cmd.verb /\ cmd'.mode = cmd.mode
    BY <1>0, <2>3 DEF To, Command
  <2>5. cmd.verb = "deploy"
    BY <1>0, <2>1 DEF RunInv, PhaseOK, PhasesOf, Placing, Sampling, AllVerbs
  <2>6. p \in PhasesOf(cmd.verb) \ {"idle", "active"}
    BY <2>5 DEF PhasesOf, Placing
  <2> QED BY <2>2, <2>4, <2>5, <2>6, MovesOn
<1>3. CASE StepLost
  <2>1. UnitOK' /\ RunsConf'
    BY <1>3, RemoteRuns DEF StepLost
  <2> QED BY <1>3, <2>1, Ends DEF StepLost, Abort
<1>4. CASE Step
  <2>1. UnitOK' /\ RunsConf' /\ Remote
    BY <1>4, RemoteRuns DEF Step
  <2>2. CASE Abort
    BY <2>1, <2>2, Ends DEF Abort
  <2>3. CASE To(After(cmd))
    <3>1. cmd'.phase = After(cmd) /\ cmd'.verb = cmd.verb /\ cmd'.mode = cmd.mode
      BY <1>0, <2>3 DEF To, Command
    <3>2. cmd.phase \in {"stop", "package", "unit", "identity", "seed", "start",
                         "enable", "disable", "alive"}
      BY <2>1 DEF Remote
    <3>3. cmd.phase \in PhasesOf(cmd.verb)
      BY DEF RunInv, PhaseOK
    <3>4. After(cmd) \in PhasesOf(cmd.verb) \ {"idle", "active"}
      BY <1>0, <3>2, <3>3 DEF After, PhasesOf, Placing, Sampling, AllVerbs
    <3>5. After(cmd) \in Stopped => proc' = "down"
      <4>1. After(cmd) \in Stopped =>
              cmd.phase \in {"stop", "package", "unit", "identity", "seed"}
        BY <3>2 DEF After, Stopped
      <4>2. cmd.phase \in {"stop", "package", "unit", "identity", "seed"} =>
              proc' = "down"
        BY <2>1 DEF RunInv, DownOK, Stopped, Remote, StopNode, InstallPackage,
                    InstallUnit, InstallIdentity, SeedPChain, Halt, process
      <4> QED BY <4>1, <4>2
    <3>6. cmd.verb \in {"follow", "freeze"}
            /\ After(cmd) \in {"unit", "identity", "start", "done"} => conf' = cmd.mode
      <4>1. ASSUME cmd.verb \in {"follow", "freeze"},
                   After(cmd) \in {"unit", "identity", "start", "done"}
            PROVE  cmd.phase \in {"package", "unit", "identity", "start"}
        BY <3>2, <3>3, <4>1 DEF After, PhasesOf, Placing, Sampling
      <4>2. cmd.phase = "package" => conf' = cmd.mode
        BY <2>1 DEF Remote, InstallPackage
      <4>3. cmd.phase \in {"unit", "identity", "start"} => conf' = conf
        BY <2>1 DEF Remote, InstallUnit, InstallIdentity, StartNode, files
      <4> QED BY <4>1, <4>2, <4>3 DEF RunInv, RenderedOK
    <3> QED BY <2>1, <3>1, <3>4, <3>5, <3>6, MovesOn
  <2> QED BY <1>4, <2>2, <2>3 DEF Step
<1> QED BY <1>1, <1>2, <1>3, <1>4 DEF Reconcile

LEMMA ArchiveRuns ==
  ASSUME RunInv, Archive
  PROVE  PhaseOK' /\ UnitOK' /\ RunsConf' /\ DownOK' /\ RenderedOK' /\ LastOK'
<1>0. cmd \in Command /\ cmd.verb \in AllVerbs \union {"none"}
  BY CommandShape DEF RunInv
<1>1. cmd.phase \in {"active", "halt", "tar", "restart", "download"}
  BY DEF Archive, CheckActive, HaltForArchive, Tar, RestartAfterArchive,
         RestartLost, Download, DownloadFails
<1>2. cmd.verb = "archive"
  BY <1>0, <1>1 DEF RunInv, PhaseOK, PhasesOf, Placing, Sampling, AllVerbs
<1>3. UNCHANGED files /\ (Halt \/ Launch \/ UNCHANGED process)
  BY DEF Archive, CheckActive, HaltForArchive, Tar, RestartAfterArchive,
         RestartLost, Download, DownloadFails
<1>4. UnitOK' /\ RunsConf'
  BY <1>3, Runs DEF RunInv, UnitOK, files
<1>5. ASSUME NEW ok, NEW unsure, End(ok, unsure)
      PROVE  PhaseOK' /\ DownOK' /\ RenderedOK' /\ LastOK'
  BY <1>2, <1>5, Ends
<1>6. ASSUME NEW p \in {"halt", "tar", "restart", "download"},
             cmd'.phase = p, cmd'.verb = cmd.verb, cmd'.mode = cmd.mode,
             p = "tar" => proc' = "down"
      PROVE  PhaseOK' /\ DownOK' /\ RenderedOK' /\ LastOK'
  <2>1. p \in PhasesOf(cmd.verb) \ {"idle", "active"}
    BY <1>2 DEF PhasesOf
  <2> QED BY <1>2, <1>6, <2>1, MovesOn DEF Stopped
<1>7. \/ \E ok \in BOOLEAN, unsure \in BOOLEAN : End(ok, unsure)
      \/ \E p \in {"halt", "tar", "restart", "download"} :
           /\ cmd'.phase = p /\ cmd'.verb = cmd.verb /\ cmd'.mode = cmd.mode
           /\ p = "tar" => proc' = "down"
  <2>1. CASE CheckActive \/ RestartAfterArchive \/ RestartLost \/ Download \/ DownloadFails
    BY <1>0, <2>1 DEF CheckActive, RestartAfterArchive, RestartLost, Download,
                      DownloadFails, Abort, To, Command
  <2>2. CASE HaltForArchive
    BY <1>0, <2>2 DEF HaltForArchive, Abort, To, Halt, Command
  <2>3. CASE Tar
    BY <1>0, <2>3 DEF Tar, Abort, To, Command
  <2> QED BY <2>1, <2>2, <2>3 DEF Archive
<1> QED BY <1>4, <1>5, <1>6, <1>7

LEMMA RunStep == ASSUME Steady, RunInv, [Next]_vars PROVE RunInv'
<1>1. HeightInv'
  BY HeightStep DEF RunInv
<1>2. CASE UNCHANGED vars
  BY <1>1, <1>2, Meets DEF vars, files, RunInv
<1>3. CASE Next
  BY <1>1, <1>3, OperatorRuns, GateRuns, ReconcileRuns, ArchiveRuns,
     EnvironmentRuns DEF Next, RunInv
<1> QED BY <1>2, <1>3

LEMMA RunAlways == Steady => (Spec => []RunInv)
<1> SUFFICES ASSUME Steady PROVE Spec => []RunInv
  OBVIOUS
<1>1. RunInv /\ [Next]_vars => RunInv'
  BY RunStep
<1> QED BY RunInit, <1>1, PTL DEF Spec

\* A "P-chain node is running in <mode> mode" is true of the process that is
\* there afterwards, whatever crashes it has: it can only have read the
\* node.json of that verb (freeze.go, deploy.go FollowPChain).  Under systemd
\* a reboot may start the old files in the middle of the verb.
THEOREM AnnouncedModeIsRunning ==
  (UserInstall \/ ~Reboots) => (Spec => []AnnouncedModeRuns)
<1>1. RunInv => AnnouncedModeRuns
  BY DEF RunInv, AnnouncedModeRuns, RunsConf, LastOK, Idle
<1> QED BY <1>1, RunAlways, PTL DEF Steady

-----------------------------------------------------------------------------
(* The copies of the database.                                             *)
LEMMA DatabaseWhole ==
  ASSUME CopiesWhole, [Next]_vars PROVE db'.whole
<1>1. Boot => db'.whole
  BY DEF Boot, CopiesWhole
<1>2. db' = db => db'.whole
  BY DEF CopiesWhole
<1>3. CASE UNCHANGED vars
  BY <1>2, <1>3 DEF vars
<1>4. CASE Operator \/ Gate
  <2>1. db' = db
    BY <1>4 DEF Operator, FollowPChain, FreezePChain, ArchivePChain, StartPChain,
         StopPChain, Deploy, RemoveArchive, Issue, Gate, ProbeMode, ReadUpstream,
         ReadLogs, ReadHealth, ReadMetrics, ReadValidators, Check, RefuseFreeze,
         WaitReady, NotReadyYet, DeadlinePassed, process
  <2> QED BY <1>2, <2>1
<1>5. CASE Reconcile
  <2>1. Remote \/ Torn \/ db' = db
    BY <1>5 DEF Reconcile, Step, SeedCheck, StepRefused, StepLost, Interrupt,
                Finish, process
  <2>2. Remote \/ Torn => Launch \/ db' \in {db, archive}
    BY DEF Remote, Torn, StopNode, InstallPackage, InstallUnit, InstallIdentity,
           SeedPChain, StartNode, EnableAndStart, DisableAndStop, Halt, process
  <2> QED BY <2>1, <2>2, <1>1, <1>2 DEF Launch, CopiesWhole, process
<1>6. CASE Archive
  <2>1. Launch \/ db' = db
    BY <1>6 DEF Archive, CheckActive, HaltForArchive, Tar, RestartAfterArchive,
                RestartLost, Download, DownloadFails, Halt, process
  <2> QED BY <2>1, <1>1, <1>2 DEF Launch, process
<1>7. CASE Environment
  <2>1. CASE Accept
    BY <2>1 DEF Accept, CopiesWhole
  <2>2. CASE ~Accept
    <3>1. Boot \/ db' = db
      BY <1>7, <2>2 DEF Environment, LogStartup, RotateLog, Crash, Reboot,
                        NewBlock, Convert, Halt, process
    <3> QED BY <3>1, <1>1, <1>2
  <2> QED BY <2>1, <2>2
<1> QED BY <1>3, <1>4, <1>5, <1>6, <1>7 DEF Next

\* tar runs only where the verb's stop is still in effect.
LEMMA ExportWhole ==
  ASSUME RunInv, CopiesWhole, [Next]_vars PROVE export'.whole /\ archive'.whole
<1>0. Empty.whole
  BY DEF Empty
<1>1. CASE Tar
  <2>1. proc = "down"
    BY <1>1 DEF Tar, RunInv, DownOK, Stopped
  <2>2. Snapshot.whole
    BY <2>1 DEF Snapshot, CopiesWhole
  <2> QED BY <1>0, <1>1, <2>2 DEF Tar, CopiesWhole
<1>2. CASE Download \/ DownloadFails \/ RemoveArchive
  BY <1>0, <1>2 DEF Download, DownloadFails, RemoveArchive, CopiesWhole
<1>3. CASE ~(Tar \/ Download \/ DownloadFails \/ RemoveArchive)
  <2>1. CASE Operator \/ Gate
    BY <1>3, <2>1
       DEF Operator, FollowPChain, FreezePChain, ArchivePChain, StartPChain,
         StopPChain, Deploy, Issue, Gate, ProbeMode, ReadUpstream,
         ReadLogs, ReadHealth, ReadMetrics, ReadValidators, Check, RefuseFreeze,
         WaitReady, NotReadyYet, DeadlinePassed, copies, CopiesWhole
  <2>2. CASE Reconcile \/ Archive
    BY <1>3, <2>2
       DEF Reconcile, Step, SeedCheck, StepRefused, StepLost, Interrupt, Finish,
           Archive, CheckActive, HaltForArchive, RestartAfterArchive,
           RestartLost, copies, CopiesWhole
  <2>3. CASE Environment
    BY <2>3 DEF Environment, LogStartup, RotateLog, Accept, Crash, Reboot,
                NewBlock, Convert, copies, CopiesWhole
  <2>4. CASE UNCHANGED vars
    BY <2>4 DEF vars, CopiesWhole
  <2> QED BY <2>1, <2>2, <2>3, <2>4 DEF Next
<1> QED BY <1>1, <1>2, <1>3

\* No archive is taken of a database that a process is writing, and so no
\* machine is seeded with a torn one (deploy.go ArchivePChain, seedPChain).
\* Under systemd a reboot between the stop and the tar brings the enabled unit
\* back, and the copy is torn.
THEOREM ArchivesAreWhole ==
  (UserInstall \/ ~Reboots) => (Spec => []CopiesWhole)
<1> SUFFICES ASSUME Steady PROVE Spec => []CopiesWhole
  BY DEF Steady
<1>1. Init => CopiesWhole
  <2>1. Empty.whole
    BY DEF Empty
  <2> QED BY <2>1 DEF Init, CopiesWhole
<1>2. RunInv /\ CopiesWhole /\ [Next]_vars => CopiesWhole'
  BY DatabaseWhole, ExportWhole DEF CopiesWhole
<1> QED BY <1>1, <1>2, RunAlways, PTL DEF Spec

-----------------------------------------------------------------------------
(* What an archive leaves behind.                                          *)
BackUp ==
  /\ cmd.phase = "download" => proc # "down"
  /\ cmd.phase = "idle" /\ last.verb = "archive" /\ last.halted /\ ~last.unsure =>
       proc # "down"

\* Nothing but a verb takes the node down for good.
Supervised == ~Reboots /\ (~UserInstall \/ ~Crashes)

\* A process that crashes under systemd finds its files again.
LEMMA StaysUp ==
  ASSUME Supervised, RunInv, Environment, proc # "down" PROVE proc' # "down"
<1>1. key /\ conf # "none" /\ conf # "down"
  BY DEF RunInv, RunsConf, HeightInv, TypeOK, Modes
<1>2. CASE Crash
  BY <1>1, <1>2 DEF Supervised, Crash, Boot
<1>3. CASE ~Crash
  <2>1. proc' = proc
    BY <1>3 DEF Environment, LogStartup, RotateLog, Accept, Reboot, Supervised,
                NewBlock, Convert, process
  <2> QED BY <2>1
<1> QED BY <1>2, <1>3

LEMMA BackUpStep ==
  ASSUME Supervised, RunInv, BackUp, [Next]_vars PROVE BackUp'
<1>0. cmd \in Command /\ cmd.verb \in AllVerbs \union {"none"}
  BY CommandShape DEF RunInv
<1>v. /\ cmd.verb = "archive" <=>
           cmd.phase \in {"active", "halt", "tar", "restart", "download"}
      /\ cmd.phase = "active" => ~cmd.halted
      /\ cmd.phase = "idle" => cmd.verb = "none"
  BY <1>0 DEF RunInv, PhaseOK, PhasesOf, Placing, Sampling, AllVerbs
<1>1. CASE UNCHANGED <<proc, cmd, last>>
  BY <1>1 DEF BackUp
<1>2. CASE Environment
  <2>1. UNCHANGED <<cmd, last>>
    BY <1>2 DEF Environment, LogStartup, RotateLog, Accept, Crash, Reboot,
                NewBlock, Convert, session
  <2> QED BY <1>2, <2>1, StaysUp DEF BackUp
<1>3. CASE Operator
  <2>1. CASE RemoveArchive
    BY <1>1, <2>1 DEF RemoveArchive, session, process
  <2>2. CASE ~RemoveArchive
    <3>1. \E v \in AllVerbs, m \in Modes,
             p \in {"stop", "mode", "active", "enable", "disable"} : Issue(v, m, p)
      BY <1>3, <2>2 DEF Operator, FollowPChain, FreezePChain, ArchivePChain,
                        StartPChain, StopPChain, Deploy, AllVerbs, Modes
    <3>2. cmd'.phase \notin {"idle", "download"}
      BY <3>1 DEF Issue, Idle
    <3> QED BY <3>2 DEF BackUp
  <2> QED BY <2>1, <2>2
<1>4. ASSUME NEW ok, NEW unsure, End(ok, unsure), cmd.verb # "archive" \/ unsure
      PROVE  BackUp'
  BY <1>4 DEF End, Idle, BackUp
<1>5. CASE Gate
  <2>1. CASE RefuseFreeze \/ DeadlinePassed
    BY <1>4, <2>1 DEF RefuseFreeze, DeadlinePassed, Abort
  <2>2. CASE ~(RefuseFreeze \/ DeadlinePassed)
    <3>1. cmd'.phase \in Sampling \union {"stop", "done", "ready"}
      <4>1. CASE ProbeMode
        BY <1>0, <4>1 DEF ProbeMode, GateStart, Command, Sampling
      <4>2. CASE ReadUpstream \/ ReadLogs
        BY <1>0, <4>2 DEF ReadUpstream, ReadLogs, NextSample, Command, Sampling
      <4>3. CASE ReadHealth \/ ReadMetrics
        BY <1>0, <4>3 DEF ReadHealth, ReadMetrics, NextSample, Command, Sampling
      <4>4. ASSUME NEW s \in Sets, ReadValidators(s)
            PROVE  cmd'.phase \in Sampling \union {"stop", "done", "ready"}
        BY <1>0, <4>4 DEF ReadValidators, Command, Sampling
      <4>5. CASE Check \/ WaitReady \/ NotReadyYet
        BY <1>0, <4>5 DEF Check, WaitReady, NotReadyYet, To, GateStart, Command, Sampling
      <4> QED BY <1>5, <2>2, <4>1, <4>2, <4>3, <4>4, <4>5 DEF Gate
    <3> QED BY <3>1 DEF BackUp, Sampling
  <2> QED BY <2>1, <2>2
<1>6. CASE Reconcile
  <2>1. CASE Interrupt
    BY <1>4, <2>1 DEF Interrupt
  <2>2. CASE StepRefused \/ Finish \/ StepLost
    <3>1. cmd.phase \notin {"active", "halt", "tar", "restart", "download"}
      BY <2>2 DEF StepRefused, Finish, StepLost, Remote, Torn
    <3>2. \E ok \in BOOLEAN, unsure \in BOOLEAN : End(ok, unsure)
      BY <2>2 DEF StepRefused, Finish, StepLost, Abort
    <3> QED BY <1>v, <1>4, <3>1, <3>2
  <2>3. CASE SeedCheck
    BY <1>0, <2>3 DEF SeedCheck, To, Command, BackUp
  <2>4. CASE Step
    <3>1. cmd.phase \in {"stop", "package", "unit", "identity", "seed", "start",
                         "enable", "disable", "alive"}
      BY <2>4 DEF Step, Remote
    <3>2. CASE Abort
      BY <1>v, <1>4, <3>1, <3>2 DEF Abort
    <3>3. CASE To(After(cmd))
      <4>1. cmd'.phase = After(cmd)
        BY <1>0, <3>3 DEF To, Command
      <4>2. After(cmd) \notin {"idle", "download"}
        BY <3>1 DEF After
      <4> QED BY <4>1, <4>2 DEF BackUp
    <3> QED BY <2>4, <3>2, <3>3 DEF Step
  <2> QED BY <1>6, <2>1, <2>2, <2>3, <2>4 DEF Reconcile
<1>7. CASE Archive
  <2>1. CASE CheckActive
    BY <1>0, <1>v, <2>1 DEF CheckActive, Abort, End, To, Idle, Command, BackUp
  <2>2. CASE HaltForArchive \/ Tar
    BY <1>0, <2>2 DEF HaltForArchive, Tar, To, Command, BackUp
  <2>3. CASE RestartAfterArchive
    BY <1>0, <2>3 DEF RestartAfterArchive, Abort, End, To, Idle, Command, BackUp
  <2>4. CASE RestartLost
    BY <1>4, <2>4 DEF RestartLost
  <2>5. CASE Download \/ DownloadFails
    BY <2>5 DEF Download, DownloadFails, Abort, End, BackUp, process
  <2> QED BY <1>7, <2>1, <2>2, <2>3, <2>4, <2>5 DEF Archive
<1>8. CASE UNCHANGED vars
  BY <1>1, <1>8 DEF vars
<1> QED BY <1>2, <1>3, <1>5, <1>6, <1>7, <1>8 DEF Next

\* Where only a verb takes the node down for good, an archive that stopped it
\* has it running again when it ends, whatever step failed, unless it says that
\* it could not be sure (deploy.go ArchivePChain).
THEOREM ArchiveBringsBack ==
  (~Reboots /\ (~UserInstall \/ ~Crashes)) => (Spec => []ArchiveRestartsNode)
<1> SUFFICES ASSUME Supervised PROVE Spec => []ArchiveRestartsNode
  BY DEF Supervised
<1>1. Init => BackUp
  BY DEF Init, BackUp, Idle
<1>2. RunInv /\ BackUp /\ [Next]_vars => BackUp'
  BY BackUpStep
<1>3. BackUp => ArchiveRestartsNode
  BY DEF BackUp, ArchiveRestartsNode, Idle
<1> QED BY <1>1, <1>2, <1>3, RunAlways, PTL DEF Spec, Supervised, Steady
=============================================================================
