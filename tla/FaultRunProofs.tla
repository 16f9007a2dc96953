---------------------------- MODULE FaultRunProofs ----------------------------
(***************************************************************************)
(* The types of the fault acceptance, that a scenario which passed was     *)
(* recovered and had withheld what its fault must withhold, and that a     *)
(* good run passes every scenario, for every matrix, every profile and     *)
(* every delay the assumptions of FaultRun allow.                          *)
(***************************************************************************)
EXTENDS FaultRun, SequenceTheorems, TLAPS

-----------------------------------------------------------------------------
(* The inductive invariant.                                                *)

Phases == {"baseline", "suppressed", "recovered", "owned_child_exit"}
Marker == [phase : Phases, clock : Nat]
Row == [phase : Phases, clock : Nat, streams : SUBSET Streams]
Capture == [exit : {0, 1, 23, 75}, events : Seq(Row), clean : BOOLEAN]
Clouds == [stamp : Nat, defect : {"absent", "none"} \cup Kinds]
Samples == [stamp : Nat, pose : [x : {0, 5}, heading : {0}],
            framesMatch : {TRUE}, finite : {TRUE}]

(* Whether the scenario has a recovery, and when.                          *)
Recovers == kind # "launch_failure" /\ Delay <= Deadline
RecoveredAt == FaultAt + IF kind = "process_exit" THEN LossDelay ELSE Delay
FaultWindow == FaultAt..(FaultAt + 1)

RunnerTypes ==
  /\ matrix \in Matrices /\ conditions \in {"good", "slow", "bad"}
  /\ index \in DOMAIN matrix
  /\ stage \in {"ready", "watch", "settle", "restart", "captured", "judged", "over"}
  /\ captures \in Seq(Capture) /\ results \in Seq(BOOLEAN)
  /\ report \in {"none", "passed", "failed", "aborted"}
  /\ losses \in 0..MaxLosses /\ noticed \in BOOLEAN

(* How many attempts were captured.                                        *)
Attempts ==
  /\ Len(captures) <= 2
  /\ Running => captures = <<>> \/ (kind = "process_exit" /\ Len(captures) = 1)
  /\ stage = "restart" => kind = "process_exit" /\ Len(captures) = 1
  /\ stage \in {"captured", "judged"} =>
       Len(captures) = IF kind = "process_exit" THEN 2 ELSE 1

FixtureInv ==
  /\ clock \in Nat /\ nextEvent \in 1..4
  /\ markers \in Seq(Marker) /\ Len(markers) < nextEvent
  /\ Running => nextEvent <= Len(Events) + 1

(* What was observed of a recovery was published for it.                   *)
MarkersTrue ==
  Running => \A i \in DOMAIN markers :
    markers[i].phase = "recovered" => Recovers /\ markers[i].clock = RecoveredAt

CapturesTrue ==
  \A k \in DOMAIN captures : \A i \in DOMAIN captures[k].events :
    captures[k].events[i].phase = "recovered" =>
      /\ Recovers /\ captures[k].events[i].clock = RecoveredAt
      /\ \A s \in captures[k].events[i].streams : Seen(captures[k].events[i], s, emitted)

OutputTypes ==
  observed \subseteq emitted /\ emitted \subseteq [stream : Streams, stamp : Nat]

(* The inputs of the time of the fault are those that must be withheld.    *)
CloudInv ==
  /\ cloudIn \in Clouds /\ gatePrevious \in Nat
  /\ cloudIn.stamp \in FaultWindow =>
       /\ kind \in CloudFaults =>
            cloudIn.defect \in {"malformed_layout", "empty_cloud", "nan_cloud"}
       /\ kind = "tf_loss" => cloudIn.defect = "tf_loss"
       /\ ReachesNodes

SampleInv ==
  /\ odomIn \in Samples \cup {NoSample} /\ previousSample \in Samples \cup {NoSample}
  /\ previousTimestamp \in Nat /\ silence \in Int
  /\ kind \in {"odom_regression", "odom_loss"} /\ odomIn # NoSample =>
       odomIn.stamp \notin FaultWindow

WithheldInv ==
  kind # "odom_jump" =>
    \A o \in emitted : o.stamp \in FaultWindow => o.stream \notin Withheld

JudgedInv == stage = "judged" => results # <<>> /\ Last(results) = Passes

(* A jump that is published, as the first sample of a slow run, is what    *)
(* the seed and the recovery are compared with: neither is published.      *)
OdomAt(stamps) == \E o \in emitted : o.stream = "odom" /\ o.stamp \in stamps
JumpOut == OdomAt(FaultWindow)
RecoveryOut == OdomAt(RecoveredAt..(RecoveredAt + 1))

JumpOrder ==
  /\ clock <= RecoveredAt /\ previousTimestamp <= clock
  /\ nextEvent <= Len(Events) => clock < Due.clock
  /\ odomIn # NoSample =>
       /\ previousTimestamp < odomIn.stamp /\ odomIn.stamp <= clock
       /\ odomIn.stamp \in FaultWindow => odomIn.pose.x = 5
       /\ odomIn.stamp > FaultAt =>
            odomIn.pose.x = 0 /\ odomIn.stamp \in {RecoveredAt - 1, RecoveredAt}

JumpKept ==
  /\ previousTimestamp >= FaultAt
  /\ silence <= clock - FaultAt
  /\ previousSample # NoSample
  /\ \/ previousSample.pose.x = 5
     \/ recoveryRequired /\ consecutiveValid = 0 /\ previousTimestamp >= RecoveredAt - 1
     \/ previousTimestamp = RecoveredAt

JumpInv ==
  kind = "odom_jump" =>
    /\ ~(JumpOut /\ RecoveryOut)
    /\ Running => /\ JumpOrder
                  /\ RecoveryOut => previousTimestamp >= RecoveredAt
                  /\ JumpOut => JumpKept

FaultInv ==
  /\ RunnerTypes /\ Attempts /\ FixtureInv /\ MarkersTrue /\ CapturesTrue /\ OutputTypes
  /\ CloudInv /\ SampleInv /\ WithheldInv /\ JudgedInv /\ JumpInv

-----------------------------------------------------------------------------
(* The scenario and its events.                                            *)

(* What the assumptions say of the numbers.                                *)
LEMMA Times ==
  /\ FaultAt \in Nat /\ FaultAt > 1 /\ Baseline \in Nat /\ Baseline > 0
  /\ Baseline < FaultAt
  /\ RecoveryDelay \in Nat /\ LossDelay \in Nat /\ FixtureTick \in Nat
  /\ FixtureTick > 0 /\ Deadline \in Nat
  /\ Baseline - StartupTicks * FixtureTick \in Nat
  /\ Baseline - StartupTicks * FixtureTick < Baseline
  /\ Delay \in Nat /\ Delay > 2
  /\ RecoveredAt \in Nat /\ RecoveredAt > FaultAt + 2
<1>1. StartupTicks \in Nat \ {0} /\ FixtureTick \in Nat \ {0}
  BY TimeAssumption
<1>2. StartupTicks * FixtureTick \in Nat \ {0}
  BY <1>1, SMT
<1>3. QED
  BY <1>1, <1>2, TimeAssumption, RecoveryAssumption DEF FaultAt, RecoveredAt, Delay

(* The scenario in hand is one of the known kinds.                         *)
LEMMA KindKnown ==
  ASSUME RunnerTypes
  PROVE  kind \in Kinds
BY MatrixAssumption DEF RunnerTypes, kind

(* As long as the scenario stays, so does all that depends on it only.     *)
LEMMA ScenarioKept ==
  ASSUME UNCHANGED <<matrix, index>>
  PROVE  /\ kind' = kind /\ Delay' = Delay /\ RecoveredAt' = RecoveredAt
         /\ Recovers' = Recovers /\ Withheld' = Withheld /\ ReachesNodes' = ReachesNodes
BY DEF kind, Delay, RecoveredAt, Recovers, Withheld, ReachesNodes

LEMMA EventsKept ==
  ASSUME UNCHANGED <<matrix, index, captures>>
  PROVE  Events' = Events
BY ScenarioKept DEF Events, Restarted, RecoveringEvents, ProcessExitEvents

(* The events of an attempt, each at its time.                             *)
LEMMA EventFacts ==
  ASSUME RunnerTypes
  PROVE  /\ Events \in Seq(Marker) /\ Len(Events) \in 0..3
         /\ \A i \in 1..Len(Events) :
              /\ Events[i] \in Marker
              /\ Events[i].phase = "baseline" => Events[i].clock = Baseline
              /\ Events[i].phase \in {"suppressed", "owned_child_exit"} =>
                   Events[i].clock = FaultAt
              /\ Events[i].phase = "recovered" =>
                   Recovers /\ Events[i].clock = RecoveredAt
         /\ Recovers /\ (kind = "process_exit" => Restarted) =>
              Events # <<>> /\ Last(Events) = Event("recovered", RecoveredAt)
<1> DEFINE B == Event("baseline", Baseline)
           S == Event("suppressed", FaultAt)
           X == Event("owned_child_exit", FaultAt)
           R == Event("recovered", RecoveredAt)
<1>1. /\ B \in Marker /\ S \in Marker /\ X \in Marker /\ R \in Marker
      /\ B.phase = "baseline" /\ B.clock = Baseline
      /\ S.phase = "suppressed" /\ S.clock = FaultAt
      /\ X.phase = "owned_child_exit" /\ X.clock = FaultAt
      /\ R.phase = "recovered" /\ R.clock = RecoveredAt
  BY Times DEF Event, Marker, Phases
<1>2. \/ Events = <<>> /\ ~Recovers
      \/ Events = <<B, S, R>> /\ Recovers /\ kind # "process_exit"
      \/ Events = <<R>> /\ Recovers /\ kind = "process_exit"
      \/ Events = <<B, S, X>> /\ kind = "process_exit" /\ ~Restarted
  BY Times DEF Events, RecoveringEvents, ProcessExitEvents, Recovers, RecoveredAt
<1> HIDE DEF B, S, X, R
<1>3. CASE Events = <<>> /\ ~Recovers
  BY <1>3
<1>4. CASE Events = <<B, S, R>> /\ Recovers /\ kind # "process_exit"
  <2>1. Len(Events) = 3 /\ Events[1] = B /\ Events[2] = S /\ Events[3] = R
    BY <1>4
  <2>2. Events \in Seq(Marker)
    BY <1>1, <1>4
  <2>3. Last(Events) = R /\ Events # <<>>
    BY <2>1 DEF Last
  <2>4. QED
    BY <1>1, <1>4, <2>1, <2>2, <2>3 DEF R
<1>5. CASE Events = <<R>> /\ Recovers /\ kind = "process_exit"
  <2>1. Len(Events) = 1 /\ Events[1] = R
    BY <1>5
  <2>2. Events \in Seq(Marker)
    BY <1>1, <1>5
  <2>3. Last(Events) = R /\ Events # <<>>
    BY <2>1 DEF Last
  <2>4. QED
    BY <1>1, <1>5, <2>1, <2>2, <2>3 DEF R
<1>6. CASE Events = <<B, S, X>> /\ kind = "process_exit" /\ ~Restarted
  <2>1. Len(Events) = 3 /\ Events[1] = B /\ Events[2] = S /\ Events[3] = X
    BY <1>6
  <2>2. Events \in Seq(Marker)
    BY <1>1, <1>6
  <2>3. QED
    BY <1>1, <1>6, <2>1, <2>2
<1>7. QED
  BY <1>2, <1>3, <1>4, <1>5, <1>6

(* The event that is due.                                                  *)
LEMMA DueFacts ==
  ASSUME RunnerTypes, FixtureInv, FixtureAlive
  PROVE  /\ Due \in Marker /\ nextEvent \in 1..Len(Events) /\ nextEvent <= 3
         /\ Due.phase = "baseline" => Due.clock = Baseline
         /\ Due.phase \in {"suppressed", "owned_child_exit"} => Due.clock = FaultAt
         /\ Due.phase = "recovered" => Recovers /\ Due.clock = RecoveredAt
<1>1. nextEvent \in 1..Len(Events) /\ nextEvent <= 3
  BY EventFacts DEF FixtureInv, FixtureAlive
<1>2. QED
  BY <1>1, EventFacts DEF Due

(* What is published with it.                                              *)
LEMMA CloudFacts ==
  ASSUME RunnerTypes, FixtureInv, FixtureAlive
  PROVE  /\ CloudOf(Due) \in Clouds
         /\ CloudOf(Due).stamp \in FaultWindow =>
              /\ kind \in CloudFaults =>
                   CloudOf(Due).defect \in {"malformed_layout", "empty_cloud", "nan_cloud"}
              /\ kind = "tf_loss" => CloudOf(Due).defect = "tf_loss"
              /\ ReachesNodes
<1>1. kind \in Kinds /\ (AtFault(Due) => ReachesNodes)
  <2>1. kind # "launch_failure"
    <3>1. nextEvent \in 1..Len(Events)
      BY DueFacts
    <3>2. kind = "launch_failure" => Len(Events) = 0
      BY DEF Events
    <3>3. QED
      BY <3>1, <3>2
  <2>2. QED
    BY <2>1, KindKnown DEF AtFault, ReachesNodes
<1>2. CASE HasInputs(Due)
  <2>1. CloudOf(Due) = [stamp |-> Due.clock, defect |-> "none"] /\ Due.clock \in Nat
    BY <1>2, DueFacts DEF CloudOf, Cloud, Marker
  <2>2. Due.clock = Baseline \/ Due.clock = RecoveredAt
    BY <1>2, DueFacts DEF HasInputs
  <2>3. Due.clock \notin FaultWindow
    BY <2>2, Times DEF FaultWindow
  <2>4. QED
    BY <2>1, <2>3 DEF Clouds
<1>3. CASE ~HasInputs(Due) /\ ~AtFault(Due)
  BY <1>3, Times DEF CloudOf, NoCloud, Clouds, FaultWindow
<1>4. CASE ~HasInputs(Due) /\ AtFault(Due)
  <2>1. Due.clock \in Nat
    BY DueFacts DEF Marker
  <2>2. CASE kind = "stale_cloud"
    <3>1. CloudOf(Due) = [stamp |-> 1, defect |-> "none"]
      BY <1>4, <2>2 DEF CloudOf, Cloud, OdometryFaults
    <3>2. 1 \notin FaultWindow
      BY Times DEF FaultWindow
    <3>3. QED
      BY <3>1, <3>2 DEF Clouds
  <2>3. CASE kind \in OdometryFaults
    BY <1>1, <1>4, <2>1, <2>3 DEF CloudOf, Cloud, Clouds, OdometryFaults, CloudFaults
  <2>4. CASE kind # "stale_cloud" /\ kind \notin OdometryFaults
    <3>1. CloudOf(Due) = [stamp |-> Due.clock, defect |-> kind]
      BY <1>4, <2>4 DEF CloudOf, Cloud
    <3>2. QED
      BY <1>1, <1>4, <2>1, <2>4, <3>1 DEF Clouds, CloudFaults
  <2>5. QED
    BY <2>2, <2>3, <2>4
<1>5. QED
  BY <1>2, <1>3, <1>4

LEMMA SampleFacts ==
  ASSUME RunnerTypes, FixtureInv, FixtureAlive
  PROVE  /\ OdometryOf(Due) \in Samples \cup {NoSample}
         /\ kind \in {"odom_regression", "odom_loss"} /\ OdometryOf(Due) # NoSample =>
              OdometryOf(Due).stamp \notin FaultWindow
         /\ kind = "odom_jump" /\ OdometryOf(Due) # NoSample =>
              /\ OdometryOf(Due).stamp = Due.clock
              /\ Due.clock \in FaultWindow => OdometryOf(Due).pose.x = 5
              /\ Due.clock > FaultAt =>
                   OdometryOf(Due).pose.x = 0 /\ Due.clock = RecoveredAt
<1>1. Due.clock \in Nat /\ Baseline - 1 \in Nat
  BY DueFacts, Times DEF Marker
<1>2. CASE HasInputs(Due)
  <2>1. OdometryOf(Due) = Sample(Due.clock, 0)
    BY <1>2 DEF OdometryOf
  <2>2. Due.clock = Baseline \/ Due.clock = RecoveredAt
    BY <1>2, DueFacts DEF HasInputs
  <2>3. Due.clock \notin FaultWindow /\ (Due.clock > FaultAt => Due.clock = RecoveredAt)
    BY <2>2, Times DEF FaultWindow
  <2>4. QED
    BY <1>1, <2>1, <2>3 DEF Sample, Samples
<1>3. CASE ~HasInputs(Due) /\ (~AtFault(Due) \/ kind = "odom_loss")
  BY <1>3 DEF OdometryOf
<1>4. CASE ~HasInputs(Due) /\ AtFault(Due) /\ kind # "odom_loss"
  <2>1. Due.clock = FaultAt
    BY <1>4, DueFacts DEF AtFault
  <2>2. CASE kind = "odom_regression"
    BY <1>1, <1>4, <2>2, Times DEF OdometryOf, Sample, Samples, FaultWindow
  <2>3. CASE kind = "odom_jump"
    <3>1. OdometryOf(Due) = Sample(Due.clock, 5)
      BY <1>4, <2>3 DEF OdometryOf
    <3>2. QED
      BY <1>1, <2>1, <2>3, <3>1, Times DEF Sample, Samples
  <2>4. CASE kind \notin {"odom_regression", "odom_jump"}
    <3>1. OdometryOf(Due) = Sample(Due.clock, 0)
      BY <1>4, <2>4 DEF OdometryOf
    <3>2. QED
      BY <1>1, <1>4, <2>4, <3>1 DEF Sample, Samples
  <2>5. QED
    BY <2>2, <2>3, <2>4
<1>5. QED
  BY <1>2, <1>3, <1>4

-----------------------------------------------------------------------------
(* What a step leaves alone keeps its part of the invariant.               *)

LEMMA InputsKept ==
  ASSUME CloudInv, SampleInv,
         UNCHANGED <<matrix, index, cloudIn, odomIn, gatePrevious,
                     previousSample, previousTimestamp, silence>>
  PROVE  CloudInv' /\ SampleInv'
BY DEF CloudInv, SampleInv, ReachesNodes, kind, FaultWindow, FaultAt

LEMMA OutputsKept ==
  ASSUME OutputTypes, WithheldInv, UNCHANGED <<matrix, index, observed, emitted>>
  PROVE  OutputTypes' /\ WithheldInv'
<1>1. kind' = kind /\ Withheld' = Withheld
  BY ScenarioKept
<1>2. QED
  BY <1>1 DEF OutputTypes, WithheldInv, FaultWindow, FaultAt

LEMMA SeenKept ==
  ASSUME NEW A, NEW B, A \subseteq B, NEW marker, NEW stream, Seen(marker, stream, A)
  PROVE  Seen(marker, stream, B)
BY DEF Seen

LEMMA CapturesKept ==
  ASSUME CapturesTrue, UNCHANGED <<matrix, index, captures>>, emitted \subseteq emitted'
  PROVE  CapturesTrue'
<1>1. Recovers' = Recovers /\ RecoveredAt' = RecoveredAt
  BY ScenarioKept
<1> SUFFICES ASSUME NEW k \in DOMAIN captures, NEW i \in DOMAIN captures[k].events,
                    captures[k].events[i].phase = "recovered"
             PROVE  /\ Recovers /\ captures[k].events[i].clock = RecoveredAt
                    /\ \A s \in captures[k].events[i].streams :
                         Seen(captures[k].events[i], s, emitted')
  BY <1>1 DEF CapturesTrue, Seen
<1>2. QED
  BY SeenKept DEF CapturesTrue

LEMMA MarkersKept ==
  ASSUME MarkersTrue, UNCHANGED <<matrix, index, markers>>, Running' => Running
  PROVE  MarkersTrue'
BY ScenarioKept DEF MarkersTrue

LEMMA FixtureKept ==
  ASSUME FixtureInv, UNCHANGED <<matrix, index, clock, nextEvent, markers>>,
         Running' => Running /\ captures' = captures
  PROVE  FixtureInv'
BY EventsKept DEF FixtureInv

LEMMA JumpAsBefore ==
  ASSUME JumpInv, UNCHANGED <<matrix, index, clock, nextEvent, odomIn, emitted,
                    previousTimestamp, previousSample, recoveryRequired,
                    consecutiveValid, silence>>,
         Running' => Running /\ captures' = captures
  PROVE  JumpInv'
<1>1. kind' = kind /\ RecoveredAt' = RecoveredAt
  BY ScenarioKept
<1>2. JumpOut' = JumpOut /\ RecoveryOut' = RecoveryOut /\ JumpKept' = JumpKept
  BY <1>1 DEF JumpOut, RecoveryOut, OdomAt, JumpKept, FaultWindow, FaultAt
<1>3. ASSUME Running' PROVE JumpOrder' = JumpOrder
  <2>1. Events' = Events
    BY <1>3, EventsKept
  <2>2. QED
    BY <1>1, <2>1 DEF JumpOrder, Due, FaultWindow, FaultAt
<1>4. QED
  BY <1>1, <1>2, <1>3 DEF JumpInv

(* The steps of the runner that only move its stage.                       *)
LEMMA StageOnly ==
  ASSUME FaultInv,
         UNCHANGED <<matrix, conditions, index, captures, fixture, inputs,
                     gatePrevious, observer, history, adapter>>,
         Running' => Running
  PROVE  /\ FixtureInv' /\ MarkersTrue' /\ CapturesTrue' /\ OutputTypes'
         /\ CloudInv' /\ SampleInv' /\ WithheldInv' /\ JumpInv'
<1> USE DEF fixture, inputs, observer, history, adapter
<1>1. FixtureInv'
  BY FixtureKept DEF FaultInv
<1>2. MarkersTrue'
  BY MarkersKept DEF FaultInv
<1>3. CapturesTrue'
  BY CapturesKept DEF FaultInv
<1>4. OutputTypes' /\ WithheldInv'
  BY OutputsKept DEF FaultInv
<1>5. CloudInv' /\ SampleInv'
  BY InputsKept DEF FaultInv
<1>6. JumpInv'
  BY JumpAsBefore DEF FaultInv
<1>7. QED
  BY <1>1, <1>2, <1>3, <1>4, <1>5, <1>6

-----------------------------------------------------------------------------
(* The steps of the runner.                                                *)

LEMMA SeeTerminalKeeps ==
  ASSUME FaultInv, SeeTerminal
  PROVE  FaultInv'
<1>1. Running' /\ Running
  BY DEF SeeTerminal, Running
<1>2. /\ FixtureInv' /\ MarkersTrue' /\ CapturesTrue' /\ OutputTypes'
      /\ CloudInv' /\ SampleInv' /\ WithheldInv' /\ JumpInv'
  BY <1>1, StageOnly DEF SeeTerminal
<1>3. RunnerTypes' /\ Attempts' /\ JudgedInv'
  BY ScenarioKept DEF SeeTerminal, FaultInv, RunnerTypes, Attempts, JudgedInv, Running,
     observer, history
<1>4. QED
  BY <1>2, <1>3 DEF FaultInv

LEMMA GiveUpKeeps ==
  ASSUME FaultInv, GiveUp
  PROVE  FaultInv'
<1>1. ~Running'
  BY DEF GiveUp, Running
<1>2. /\ FixtureInv' /\ MarkersTrue' /\ CapturesTrue' /\ OutputTypes'
      /\ CloudInv' /\ SampleInv' /\ WithheldInv' /\ JumpInv'
  BY <1>1, StageOnly DEF GiveUp
<1>3. RunnerTypes' /\ Attempts' /\ JudgedInv'
  BY DEF GiveUp, FaultInv, RunnerTypes, Attempts, JudgedInv, Running,
     observer, history
<1>4. QED
  BY <1>2, <1>3 DEF FaultInv

LEMMA WriteReportKeeps ==
  ASSUME FaultInv, WriteReport
  PROVE  FaultInv'
<1>1. ~Running'
  BY DEF WriteReport, Running
<1>2. /\ FixtureInv' /\ MarkersTrue' /\ CapturesTrue' /\ OutputTypes'
      /\ CloudInv' /\ SampleInv' /\ WithheldInv' /\ JumpInv'
  BY <1>1, StageOnly DEF WriteReport
<1>3. RunnerTypes' /\ Attempts' /\ JudgedInv'
  BY DEF WriteReport, FaultInv, RunnerTypes, Attempts, JudgedInv, Running,
     observer, history
<1>4. QED
  BY <1>2, <1>3 DEF FaultInv

LEMMA PassesKept ==
  ASSUME UNCHANGED <<matrix, index, captures>>
  PROVE  Passes' = Passes
<1>1. /\ AllEvents' = AllEvents /\ SafeThroughout' = SafeThroughout
      /\ ExpectedExit' = ExpectedExit /\ kind' = kind
  BY ScenarioKept DEF AllEvents, SafeThroughout, ExpectedExit
<1>2. QED
  BY <1>1 DEF Passes, RestartPasses

LEMMA PassesBoolean == Passes \in BOOLEAN
BY DEF Passes, SafeThroughout, RestartPasses, RecoveryPasses

LEMMA JudgeKeeps ==
  ASSUME FaultInv, Judge
  PROVE  FaultInv'
<1>1. ~Running'
  BY DEF Judge, Running
<1>2. /\ FixtureInv' /\ MarkersTrue' /\ CapturesTrue' /\ OutputTypes'
      /\ CloudInv' /\ SampleInv' /\ WithheldInv' /\ JumpInv'
  BY <1>1, StageOnly DEF Judge
<1>3. RunnerTypes' /\ Attempts'
  BY PassesBoolean, ScenarioKept DEF Judge, FaultInv, RunnerTypes, Attempts, Running,
     observer, history
<1>4. results' # <<>> /\ Last(results') = Passes
  BY DEF Judge, FaultInv, RunnerTypes, Last
<1>5. JudgedInv'
  BY <1>4, PassesKept DEF Judge, JudgedInv
<1>6. QED
  BY <1>2, <1>3, <1>5 DEF FaultInv

(* What is captured is what was observed.                                  *)
LEMMA CorrelatedFacts ==
  ASSUME FaultInv
  PROVE  /\ Correlated \in Seq(Row) /\ DOMAIN Correlated = DOMAIN markers
         /\ \A i \in DOMAIN markers :
              /\ Correlated[i].phase = markers[i].phase
              /\ Correlated[i].clock = markers[i].clock
              /\ \A s \in Correlated[i].streams : Seen(Correlated[i], s, emitted)
              /\ Correlated[i].streams = {s \in Streams : Seen(markers[i], s, observed)}
<1>1. markers \in Seq(Marker) /\ DOMAIN markers = 1..Len(markers) /\ Len(markers) \in Nat
  BY DEF FaultInv, FixtureInv
<1>2. \A i \in DOMAIN markers : markers[i] \in Marker
  BY <1>1
<1> DEFINE seen(i) == {s \in Streams : Seen(markers[i], s, observed)}
<1>s. \A i \in DOMAIN markers : seen(i) \in SUBSET Streams
  OBVIOUS
<1>t. \A i \in DOMAIN markers : \A s \in seen(i) : Seen(markers[i], s, observed)
  OBVIOUS
<1>d. Correlated = [i \in DOMAIN markers |->
        [phase |-> markers[i].phase, clock |-> markers[i].clock, streams |-> seen(i)]]
  BY DEF Correlated
<1> HIDE DEF seen
<1>3. \A i \in DOMAIN markers :
        /\ Correlated[i] = [phase |-> markers[i].phase, clock |-> markers[i].clock,
                            streams |-> seen(i)]
        /\ Correlated[i].phase = markers[i].phase
        /\ Correlated[i].clock = markers[i].clock
        /\ Correlated[i].streams = seen(i)
  BY <1>d
<1>4. \A i \in DOMAIN markers : Correlated[i] \in Row
  <2> TAKE i \in DOMAIN markers
  <2>1. markers[i].phase \in Phases /\ markers[i].clock \in Nat /\ seen(i) \in SUBSET Streams
    BY <1>s, <1>2 DEF Marker
  <2>2. Correlated[i] = [phase |-> markers[i].phase, clock |-> markers[i].clock,
                         streams |-> seen(i)]
    BY <1>3
  <2>3. QED
    BY <2>1, <2>2 DEF Row
<1>5. Correlated \in [1..Len(markers) -> Row]
  BY <1>d, <1>1, <1>4
<1>6. Correlated \in Seq(Row)
  BY <1>1, <1>5, SeqDef
<1>7. ASSUME NEW i \in DOMAIN markers, NEW s \in Correlated[i].streams
      PROVE  Seen(Correlated[i], s, emitted)
  <2>1. Seen(markers[i], s, observed)
    BY <1>t, <1>3, <1>7
  <2>2. Seen(markers[i], s, emitted)
    BY <2>1, SeenKept DEF FaultInv, OutputTypes
  <2>3. QED
    <3>1. Correlated[i].clock = markers[i].clock
      BY <1>3
    <3>2. QED
      BY <2>2, <3>1 DEF Seen
<1>8. \A i \in DOMAIN markers :
        Correlated[i].streams = {s \in Streams : Seen(markers[i], s, observed)}
  BY <1>3 DEF seen
<1>9. QED
  BY <1>d, <1>3, <1>6, <1>7, <1>8

LEMMA StopAndCaptureKeeps ==
  ASSUME FaultInv, StopAndCapture
  PROVE  FaultInv'
<1> USE DEF fixture, inputs, observer, history, adapter
<1>1. ~Running' /\ Running /\ stage' # "judged"
  BY DEF StopAndCapture, Running
<1>2. PICK clean \in BOOLEAN, exit \in {CapturedExit} \cup OtherExits :
        captures' = Append(captures, [exit |-> exit, events |-> Correlated, clean |-> clean])
  BY DEF StopAndCapture
<1> DEFINE row == [exit |-> exit, events |-> Correlated, clean |-> clean]
<1>3. captures \in Seq(Capture) /\ Len(captures) \in Nat
  BY DEF FaultInv, RunnerTypes
<1>4. row \in Capture
  BY CorrelatedFacts DEF Capture, CapturedExit, OtherExits, ExpectedExit
<1>5. /\ captures' \in Seq(Capture) /\ Len(captures') = Len(captures) + 1
      /\ captures'[Len(captures) + 1] = row
      /\ \A k \in DOMAIN captures : captures'[k] = captures[k]
      /\ DOMAIN captures' = DOMAIN captures \cup {Len(captures) + 1}
  BY <1>2, <1>3, <1>4
<1>6. RunnerTypes'
  BY <1>5 DEF StopAndCapture, FaultInv, RunnerTypes
<1>7. Attempts'
  BY <1>1, <1>3, <1>5, ScenarioKept
     DEF StopAndCapture, FaultInv, Attempts, Running, Restarted
<1>8. FixtureInv' /\ MarkersTrue' /\ JudgedInv'
  BY <1>1 DEF StopAndCapture, FaultInv, FixtureInv, MarkersTrue, JudgedInv
<1>9. CapturesTrue'
  <2>1. Recovers' = Recovers /\ RecoveredAt' = RecoveredAt /\ emitted' = emitted
    BY ScenarioKept DEF StopAndCapture
  <2> SUFFICES ASSUME NEW k \in DOMAIN captures', NEW i \in DOMAIN captures'[k].events,
                      captures'[k].events[i].phase = "recovered"
               PROVE  /\ Recovers /\ captures'[k].events[i].clock = RecoveredAt
                      /\ \A s \in captures'[k].events[i].streams :
                           Seen(captures'[k].events[i], s, emitted)
    BY <2>1 DEF CapturesTrue, Seen
  <2>2. CASE k \in DOMAIN captures
    BY <1>5, <2>2 DEF FaultInv, CapturesTrue
  <2>3. CASE k = Len(captures) + 1
    <3>1. captures'[k].events = Correlated
      BY <1>5, <2>3
    <3>2. QED
      BY <1>1, <3>1, CorrelatedFacts DEF FaultInv, MarkersTrue
  <2>4. QED
    BY <1>5, <2>2, <2>3
<1>10. OutputTypes' /\ WithheldInv'
  BY OutputsKept DEF StopAndCapture, FaultInv
<1>11. CloudInv' /\ SampleInv'
  BY InputsKept DEF StopAndCapture, FaultInv
<1>12. JumpInv'
  BY <1>1, JumpAsBefore DEF StopAndCapture, FaultInv
<1>13. QED
  BY <1>6, <1>7, <1>8, <1>9, <1>10, <1>11, <1>12 DEF FaultInv

(* The first event of an attempt, before a step and after it.              *)
StartsLate ==
  /\ Len(Events) \in Nat
  /\ 1 <= Len(Events) => Events[1].clock \in Nat /\ Baseline <= Events[1].clock

LEMMA FirstEventFacts == RunnerTypes => StartsLate
<1> SUFFICES ASSUME RunnerTypes PROVE StartsLate
  OBVIOUS
<1>1. Len(Events) \in Nat
  BY EventFacts
<1>2. ASSUME 1 <= Len(Events)
      PROVE  Events[1].clock \in Nat /\ Baseline <= Events[1].clock
  <2>1. 1 \in 1..Len(Events)
    BY <1>1, <1>2
  <2>2. Events[1].clock \in {Baseline, FaultAt, RecoveredAt}
    BY <2>1, EventFacts DEF Marker, Phases
  <2>3. QED
    BY <2>2, Times
<1>3. QED
  BY <1>1, <1>2 DEF StartsLate

(* A launch starts every node, and the fixture, anew.                      *)
LEMMA FreshInputs ==
  ASSUME FreshPipeline
  PROVE  CloudInv' /\ SampleInv'
<1>1. 0 \notin FaultWindow
  BY Times DEF FaultWindow
<1>2. cloudIn' = NoCloud /\ NoCloud \in Clouds /\ NoCloud.stamp = 0
  BY DEF FreshPipeline, NoCloud, Clouds
<1>3. CloudInv'
  BY <1>1, <1>2 DEF FreshPipeline, CloudInv, FaultWindow, FaultAt
<1>4. SampleInv'
  BY DEF FreshPipeline, SampleInv
<1>5. QED
  BY <1>3, <1>4

LEMMA LaunchFirstKeeps ==
  ASSUME FaultInv, LaunchFirst
  PROVE  FaultInv'
<1>1. /\ index' \in DOMAIN matrix /\ matrix' = matrix /\ captures' = <<>>
      /\ emitted' = {} /\ observed' = {} /\ markers' = <<>> /\ stage' = "watch"
      /\ clock' = Baseline - StartupTicks * FixtureTick /\ nextEvent' = 1
      /\ UNCHANGED <<conditions, results, report, losses>> /\ noticed' = FALSE
  <2>1. matrix \in Seq(Kinds) /\ index \in 1..Len(matrix)
    BY MatrixAssumption DEF FaultInv, RunnerTypes
  <2>2. QED
    BY <2>1 DEF LaunchFirst, StartFixture, FreshObserver
<1>2. RunnerTypes'
  <2>1. <<>> \in Seq(Capture) /\ index' \in DOMAIN matrix'
    BY <1>1
  <2>2. QED
    BY <1>1, <2>1 DEF FaultInv, RunnerTypes
<1>3. Attempts' /\ MarkersTrue' /\ CapturesTrue' /\ OutputTypes' /\ WithheldInv' /\ JudgedInv'
  BY <1>1 DEF Attempts, MarkersTrue, CapturesTrue, OutputTypes, WithheldInv, JudgedInv,
     Running
<1>4. /\ Len(Events') \in Nat
      /\ 1 <= Len(Events') => Events'[1].clock \in Nat /\ Baseline <= Events'[1].clock
  <2>1. StartsLate'
    BY <1>2, FirstEventFacts, PTL
  <2>2. QED
    BY <2>1 DEF StartsLate
<1>5. FixtureInv'
  BY <1>1, <1>4, Times DEF FixtureInv
<1>6. CloudInv' /\ SampleInv'
  BY FreshInputs DEF LaunchFirst
<1>7. JumpInv'
  <2>1. ~JumpOut' /\ ~RecoveryOut'
    BY <1>1 DEF JumpOut, RecoveryOut, OdomAt
  <2>2. odomIn' = NoSample /\ previousTimestamp' = 0
    BY DEF LaunchFirst, FreshPipeline
  <2>3. nextEvent' <= Len(Events') => clock' < Due'.clock
    BY <1>1, <1>4, Times DEF Due
  <2>4. kind' = "odom_jump" => JumpOrder'
    BY <1>1, <2>2, <2>3, Times DEF JumpOrder, RecoveredAt, Delay
  <2>5. QED
    BY <2>1, <2>4 DEF JumpInv
<1>8. QED
  BY <1>2, <1>3, <1>5, <1>6, <1>7 DEF FaultInv

LEMMA LaunchRestartKeeps ==
  ASSUME FaultInv, LaunchRestart
  PROVE  FaultInv'
<1>1. /\ UNCHANGED <<matrix, index, captures, emitted, losses>>
      /\ observed' = {} /\ markers' = <<>> /\ stage' = "watch"
      /\ clock' = FaultAt /\ nextEvent' = 1 /\ kind = "process_exit"
      /\ Len(captures) = 1
  BY DEF LaunchRestart, StartFixture, FreshObserver, FaultInv, Attempts, history
<1>2. RunnerTypes'
  BY <1>1 DEF LaunchRestart, FaultInv, RunnerTypes, history
<1>3. kind' = kind /\ Events' = Events /\ Len(Events) \in Nat
  BY <1>1, ScenarioKept, EventsKept, EventFacts DEF FaultInv
<1>4. Attempts' /\ MarkersTrue' /\ JudgedInv'
  BY <1>1, <1>3 DEF FaultInv, Attempts, MarkersTrue, JudgedInv, Running
<1>5. CapturesTrue'
  BY <1>1, CapturesKept DEF FaultInv
<1>6. OutputTypes'
  BY <1>1 DEF FaultInv, OutputTypes
<1>7. WithheldInv'
  BY <1>1, <1>3, ScenarioKept DEF FaultInv, WithheldInv, FaultWindow, FaultAt
<1>8. FixtureInv'
  BY <1>1, <1>3, Times DEF FixtureInv
<1>9. CloudInv' /\ SampleInv'
  BY FreshInputs DEF LaunchRestart
<1>10. JumpInv'
  BY <1>1, <1>3 DEF JumpInv
<1>11. QED
  BY <1>2, <1>4, <1>5, <1>6, <1>7, <1>8, <1>9, <1>10 DEF FaultInv

-----------------------------------------------------------------------------
(* The steps of the fixture.                                               *)

(* A running attempt leaves the runner's part alone.                       *)
LEMMA RunnerKept ==
  ASSUME FaultInv, Running, UNCHANGED runner,
         losses' \in 0..MaxLosses, noticed' \in BOOLEAN
  PROVE  RunnerTypes' /\ Attempts' /\ JudgedInv' /\ Running'
BY ScenarioKept DEF FaultInv, RunnerTypes, Attempts, JudgedInv, Running, runner

(* The clock moves the silence of the odometry by as much, or by less.     *)
LEMMA ClockFacts ==
  ASSUME NEW t \in Nat, ClockTo(t), clock \in Nat, silence \in Int
  PROVE  /\ clock' = t /\ silence' \in Int
         /\ silence' = silence \/ silence' <= silence + t - clock
         /\ UNCHANGED <<previousTimestamp, previousSample, recoveryRequired,
                        consecutiveValid>>
<1>1. Adapter!MaxSilence \in Int
  BY ProfileAssumption DEF Adapter!MaxSilence, Adapter!LossDeadline
<1>2. QED
  BY <1>1 DEF ClockTo, Lesser

LEMMA MissedFew ==
  ASSUME RunnerTypes, MayLose, losses' = losses + 1
  PROVE  losses' \in 0..MaxLosses
BY ProfileAssumption DEF RunnerTypes, MayLose

(* The events of a jump are a strict sequence up to the recovery.          *)
LEMMA JumpEvents ==
  ASSUME RunnerTypes, kind = "odom_jump", NEW i \in 1..Len(Events)
  PROVE  /\ Events[i].clock \in Nat /\ Events[i].clock <= RecoveredAt
         /\ i + 1 <= Len(Events) => Events[i].clock < Events[i + 1].clock
<1> DEFINE B == Event("baseline", Baseline)
           S == Event("suppressed", FaultAt)
           R == Event("recovered", RecoveredAt)
<1>1. B.clock = Baseline /\ S.clock = FaultAt /\ R.clock = RecoveredAt
  BY DEF Event
<1>2. Events = <<>> \/ Events = <<B, S, R>>
  BY DEF Events, RecoveringEvents, RecoveredAt
<1> HIDE DEF B, S, R
<1>3. CASE Events = <<>>
  BY <1>3
<1>4. CASE Events = <<B, S, R>>
  <2>1. Len(Events) = 3 /\ Events[1] = B /\ Events[2] = S /\ Events[3] = R
    BY <1>4
  <2>2. i = 1 \/ i = 2 \/ i = 3
    BY <2>1
  <2>3. QED
    BY <1>1, <2>1, <2>2, Times
<1>5. QED
  BY <1>2, <1>3, <1>4

(* Time alone does not undo what is known of a published jump.             *)
LEMMA JumpAfterClock ==
  ASSUME FaultInv, Running, NEW t \in Nat, ClockTo(t),
         kind = "odom_jump" => clock <= t /\ JumpOrder',
         UNCHANGED <<matrix, index, stage, emitted>>
  PROVE  JumpInv'
<1>1. kind' = kind /\ RecoveredAt' = RecoveredAt /\ Running' = Running
  BY ScenarioKept DEF Running
<1>2. JumpOut' = JumpOut /\ RecoveryOut' = RecoveryOut
  BY <1>1 DEF JumpOut, RecoveryOut, OdomAt, FaultWindow, FaultAt
<1>3. /\ clock' = t /\ clock \in Nat /\ silence \in Int /\ silence' \in Int
      /\ silence' = silence \/ silence' <= silence + t - clock
      /\ UNCHANGED <<previousTimestamp, previousSample, recoveryRequired,
                     consecutiveValid>>
  BY ClockFacts DEF FaultInv, FixtureInv, SampleInv
<1>4. ASSUME kind = "odom_jump", JumpKept PROVE JumpKept'
  BY <1>1, <1>3, <1>4, Times DEF JumpKept, FaultAt
<1>5. QED
  BY <1>1, <1>2, <1>3, <1>4 DEF JumpInv, FaultInv

LEMMA AdvanceClockKeeps ==
  ASSUME FaultInv, AdvanceClock
  PROVE  FaultInv'
<1>1. /\ Running /\ FixtureAlive /\ RunnerTypes /\ FixtureInv
      /\ UNCHANGED <<runner, matrix, index, stage, captures, nextEvent, cloudIn, odomIn,
                     gatePrevious, markers, observed, losses, emitted, noticed>>
  BY DEF AdvanceClock, FixtureAlive, FaultInv, runner, inputs, observer, history
<1>2. clock \in Nat /\ clock + FixtureTick \in Nat /\ silence \in Int
  BY <1>1, Times DEF FaultInv, FixtureInv, SampleInv
<1>3. ClockTo(clock + FixtureTick) /\ clock + FixtureTick < Due.clock
  BY DEF AdvanceClock
<1>4. /\ clock' = clock + FixtureTick /\ silence' \in Int
      /\ UNCHANGED <<previousTimestamp, previousSample>>
  BY <1>2, <1>3, ClockFacts
<1>5. Events' = Events /\ Due' = Due /\ kind' = kind /\ RecoveredAt' = RecoveredAt
  BY <1>1, EventsKept, ScenarioKept DEF Due
<1>6. RunnerTypes' /\ Attempts' /\ JudgedInv' /\ Running'
  BY <1>1, RunnerKept DEF FaultInv, RunnerTypes
<1>7. FixtureInv'
  BY <1>1, <1>2, <1>4, <1>5 DEF FixtureInv
<1>8. MarkersTrue' /\ CapturesTrue' /\ OutputTypes' /\ WithheldInv'
  BY <1>1, MarkersKept, CapturesKept, OutputsKept DEF FaultInv
<1>9. CloudInv' /\ SampleInv'
  BY <1>1, <1>4, <1>5
     DEF FaultInv, CloudInv, SampleInv, ReachesNodes, FaultWindow, FaultAt
<1>10. kind = "odom_jump" => clock <= clock + FixtureTick /\ JumpOrder'
  <2> SUFFICES ASSUME kind = "odom_jump" PROVE JumpOrder'
    BY <1>2, Times
  <2>1. JumpOrder
    BY <1>1 DEF FaultInv, JumpInv
  <2>2. Due.clock \in Nat /\ Due.clock <= RecoveredAt
    BY <1>1, DueFacts, JumpEvents DEF Due
  <2>3. previousTimestamp \in Nat /\ (odomIn # NoSample => odomIn.stamp \in Nat)
    BY DEF FaultInv, SampleInv, Samples
  <2>4. QED
    BY <1>1, <1>2, <1>3, <1>4, <1>5, <2>1, <2>2, <2>3, Times
       DEF JumpOrder, FaultWindow, FaultAt
<1>11. JumpInv'
  BY <1>1, <1>2, <1>3, <1>10, JumpAfterClock
<1>12. QED
  BY <1>6, <1>7, <1>8, <1>9, <1>11 DEF FaultInv

LEMMA SeedOdometryKeeps ==
  ASSUME FaultInv, SeedOdometry
  PROVE  FaultInv'
<1>1. /\ Running /\ FixtureAlive /\ RunnerTypes /\ FixtureInv
      /\ UNCHANGED <<runner, matrix, index, stage, captures, nextEvent, cloudIn,
                     gatePrevious, markers, observed, losses, emitted, noticed>>
  BY DEF SeedOdometry, FixtureAlive, FaultInv, runner, inputs, observer, history
<1>2. /\ clock \in Nat /\ silence \in Int /\ Due.phase = "recovered"
      /\ clock < Due.clock - 1 /\ Due.clock = RecoveredAt /\ Due.clock - 1 \in Nat
  BY <1>1, DueFacts, Times DEF FaultInv, FixtureInv, SampleInv, SeedOdometry, SeedDue
<1>3. ClockTo(Due.clock - 1) /\ odomIn' = Sample(Due.clock - 1, 0)
  BY DEF SeedOdometry
<1>4. /\ clock' = Due.clock - 1 /\ silence' \in Int
      /\ UNCHANGED <<previousTimestamp, previousSample>>
  BY <1>2, <1>3, ClockFacts
<1>5. Events' = Events /\ Due' = Due /\ kind' = kind /\ RecoveredAt' = RecoveredAt
  BY <1>1, EventsKept, ScenarioKept DEF Due
<1>6. RunnerTypes' /\ Attempts' /\ JudgedInv' /\ Running'
  BY <1>1, RunnerKept DEF FaultInv, RunnerTypes
<1>7. FixtureInv'
  BY <1>1, <1>2, <1>4, <1>5 DEF FixtureInv
<1>8. MarkersTrue' /\ CapturesTrue' /\ OutputTypes' /\ WithheldInv'
  BY <1>1, MarkersKept, CapturesKept, OutputsKept DEF FaultInv
<1>9. CloudInv'
  BY <1>1, <1>5 DEF FaultInv, CloudInv, ReachesNodes, FaultWindow, FaultAt
<1>10. /\ odomIn' \in Samples /\ odomIn'.stamp = Due.clock - 1 /\ odomIn'.pose.x = 0
       /\ odomIn'.stamp \notin FaultWindow
  BY <1>2, <1>3, Times DEF Sample, Samples, FaultWindow
<1>11. SampleInv'
  BY <1>4, <1>10 DEF FaultInv, SampleInv, FaultWindow, FaultAt
<1>12. kind = "odom_jump" => clock <= Due.clock - 1 /\ JumpOrder'
  <2> SUFFICES ASSUME kind = "odom_jump" PROVE JumpOrder'
    BY <1>2, Times
  <2>1. JumpOrder
    BY <1>1 DEF FaultInv, JumpInv
  <2>2. previousTimestamp \in Nat
    BY DEF FaultInv, SampleInv
  <2>3. QED
    BY <1>1, <1>2, <1>4, <1>5, <1>10, <2>1, <2>2, Times
       DEF JumpOrder, FaultWindow, FaultAt
<1>13. JumpInv'
  BY <1>1, <1>2, <1>3, <1>12, JumpAfterClock
<1>14. QED
  BY <1>6, <1>7, <1>8, <1>9, <1>11, <1>13 DEF FaultInv

LEMMA EmitEventKeeps ==
  ASSUME FaultInv, EmitEvent
  PROVE  FaultInv'
<1>1. /\ Running /\ FixtureAlive /\ RunnerTypes /\ FixtureInv
      /\ UNCHANGED <<runner, matrix, index, stage, captures, gatePrevious, observed,
                     emitted, noticed>>
      /\ nextEvent' = nextEvent + 1
  BY DEF EmitEvent, FixtureAlive, FaultInv, runner, history
<1>2. clock \in Nat /\ silence \in Int /\ Due \in Marker /\ Due.clock \in Nat
  BY <1>1, DueFacts DEF FaultInv, FixtureInv, SampleInv, Marker
<1>3. /\ ClockTo(Due.clock)
      /\ cloudIn' = cloudIn \/ cloudIn' = CloudOf(Due)
      /\ \/ odomIn' = odomIn /\ OdometryOf(Due) = NoSample
         \/ odomIn' = OdometryOf(Due) /\ OdometryOf(Due) # NoSample
      /\ \/ markers' = Append(markers, Due) /\ UNCHANGED losses
         \/ MayLose /\ losses' = losses + 1 /\ UNCHANGED markers
  BY DEF EmitEvent
<1>4. /\ clock' = Due.clock /\ silence' \in Int
      /\ UNCHANGED <<previousTimestamp, previousSample>>
  BY <1>2, <1>3, ClockFacts
<1>5. /\ Events' = Events /\ kind' = kind /\ RecoveredAt' = RecoveredAt
      /\ Recovers' = Recovers
  BY <1>1, EventsKept, ScenarioKept
<1>6. losses' \in 0..MaxLosses
  BY <1>1, <1>3, MissedFew DEF RunnerTypes
<1>7. RunnerTypes' /\ Attempts' /\ JudgedInv' /\ Running'
  BY <1>1, <1>6, RunnerKept DEF RunnerTypes
<1>8. FixtureInv'
  <2>1. /\ nextEvent \in 1..Len(Events) /\ nextEvent <= 3 /\ Len(Events) \in Nat
        /\ markers \in Seq(Marker) /\ Len(markers) < nextEvent
    BY <1>1, DueFacts, EventFacts DEF FixtureInv
  <2>2. clock' \in Nat /\ nextEvent' \in 1..4 /\ nextEvent' <= Len(Events') + 1
    BY <1>1, <1>2, <1>4, <1>5, <2>1
  <2>3. markers' \in Seq(Marker) /\ Len(markers') <= Len(markers) + 1
    BY <1>2, <1>3, <2>1
  <2>4. Len(markers') < nextEvent'
    <3>1. Len(markers) \in Nat /\ Len(markers') \in Nat
      BY <2>1, <2>3
    <3>2. QED
      BY <1>1, <2>1, <2>3, <3>1
  <2>5. QED
    BY <2>2, <2>3, <2>4 DEF FixtureInv
<1>9. MarkersTrue'
  <2>1. markers \in Seq(Marker) /\ MarkersTrue
    BY <1>1 DEF FixtureInv, FaultInv
  <2>2. Due.phase = "recovered" => Recovers /\ Due.clock = RecoveredAt
    BY <1>1, DueFacts
  <2>3. QED
    BY <1>1, <1>2, <1>3, <1>5, <2>1, <2>2 DEF MarkersTrue
<1>10. CapturesTrue' /\ OutputTypes' /\ WithheldInv'
  BY <1>1, CapturesKept, OutputsKept DEF FaultInv
<1>11. CloudInv'
  BY <1>1, <1>3, <1>5, CloudFacts
     DEF FaultInv, CloudInv, ReachesNodes, FaultWindow, FaultAt
<1>12. SampleInv'
  BY <1>1, <1>3, <1>4, <1>5, SampleFacts DEF FaultInv, SampleInv, FaultWindow, FaultAt
<1>13. kind = "odom_jump" => clock <= Due.clock /\ JumpOrder'
  <2> SUFFICES ASSUME kind = "odom_jump" PROVE clock <= Due.clock /\ JumpOrder'
    OBVIOUS
  <2>1. JumpOrder /\ clock < Due.clock
    BY <1>1, DueFacts DEF FaultInv, JumpInv, JumpOrder
  <2>2. previousTimestamp \in Nat /\ (odomIn # NoSample => odomIn.stamp \in Nat)
    BY DEF FaultInv, SampleInv, Samples
  <2>3. clock' <= RecoveredAt' /\ previousTimestamp' <= clock'
    BY <1>1, <1>2, <1>4, <1>5, <2>1, <2>2, DueFacts, JumpEvents DEF JumpOrder, Due
  <2>4. nextEvent' <= Len(Events') => clock' < Due'.clock
    BY <1>1, <1>4, <1>5, DueFacts, JumpEvents DEF Due
  <2>5. CASE odomIn' = odomIn /\ OdometryOf(Due) = NoSample
    BY <1>2, <1>4, <1>5, <2>1, <2>2, <2>3, <2>4, <2>5, Times
       DEF JumpOrder, FaultWindow, FaultAt
  <2>6. CASE odomIn' = OdometryOf(Due) /\ OdometryOf(Due) # NoSample
    <3>1. /\ odomIn'.stamp = Due.clock
          /\ Due.clock \in FaultWindow => odomIn'.pose.x = 5
          /\ Due.clock > FaultAt => odomIn'.pose.x = 0 /\ Due.clock = RecoveredAt
      BY <1>1, <2>6, SampleFacts
    <3>2. QED
      BY <1>2, <1>4, <1>5, <2>1, <2>2, <2>3, <2>4, <3>1, Times
         DEF JumpOrder, FaultWindow, FaultAt
  <2>7. QED
    BY <1>3, <2>1, <2>5, <2>6, <1>2
<1>14. JumpInv'
  BY <1>1, <1>2, <1>3, <1>13, JumpAfterClock
<1>15. QED
  BY <1>7, <1>8, <1>9, <1>10, <1>11, <1>12, <1>14 DEF FaultInv

-----------------------------------------------------------------------------
(* The steps of the nodes.                                                 *)

(* What is published at a time, is published; what is observed was.        *)
LEMMA PublishFacts ==
  ASSUME FaultInv, NEW streams \in SUBSET Streams, NEW stamp \in Nat,
         Publish(streams, stamp)
  PROVE  /\ emitted' = emitted \cup [stream : streams, stamp : {stamp}]
         /\ emitted \subseteq emitted' /\ losses' \in 0..MaxLosses /\ OutputTypes'
         /\ \A o \in emitted' : o \in emitted \/ (o.stream \in streams /\ o.stamp = stamp)
<1>1. emitted' = emitted \cup [stream : streams, stamp : {stamp}]
  BY DEF Publish
<1>2. losses' \in 0..MaxLosses
  BY MissedFew DEF Publish, FaultInv, RunnerTypes
<1>3. observed' \subseteq emitted'
  BY DEF Publish, FaultInv, OutputTypes
<1>4. [stream : streams, stamp : {stamp}] \subseteq [stream : Streams, stamp : Nat]
  OBVIOUS
<1>5. OutputTypes'
  BY <1>1, <1>3, <1>4 DEF FaultInv, OutputTypes
<1>6. QED
  BY <1>1, <1>2, <1>5

(* A node that handles its input leaves the fixture alone.                 *)
LEMMA NodeKeeps ==
  ASSUME FaultInv, Running, UNCHANGED <<runner, clock, nextEvent, markers>>,
         losses' \in 0..MaxLosses, noticed' \in BOOLEAN, emitted \subseteq emitted'
  PROVE  /\ RunnerTypes' /\ Attempts' /\ JudgedInv' /\ FixtureInv' /\ MarkersTrue'
         /\ CapturesTrue' /\ Running'
         /\ Events' = Events /\ Due' = Due /\ kind' = kind /\ RecoveredAt' = RecoveredAt
<1>1. UNCHANGED <<matrix, index, captures>>
  BY DEF runner
<1>2. RunnerTypes' /\ Attempts' /\ JudgedInv' /\ Running'
  BY RunnerKept
<1>3. FixtureInv' /\ MarkersTrue' /\ CapturesTrue'
  BY <1>1, FixtureKept, MarkersKept, CapturesKept DEF FaultInv
<1>4. QED
  BY <1>1, <1>2, <1>3, EventsKept, ScenarioKept DEF Due

(* A cloud of the fault is refused, or one without a transform no scan.    *)
LEMMA HandleCloudKeeps ==
  ASSUME FaultInv, HandleCloud
  PROVE  FaultInv'
<1> DEFINE streams == {"validated_cloud"} \cup
                      IF cloudIn.defect = "tf_loss" THEN {} ELSE {"scan"}
<1>1. /\ Running /\ cloudIn' = NoCloud /\ cloudIn \in Clouds /\ cloudIn.stamp \in Nat
      /\ UNCHANGED <<runner, matrix, index, stage, captures, clock, nextEvent, odomIn,
                     markers, previousTimestamp, previousSample, recoveryRequired,
                     consecutiveValid, silence>>
  BY DEF HandleCloud, FaultInv, CloudInv, Clouds, runner, fixture, adapter
<1>2. noticed' \in BOOLEAN
  BY DEF HandleCloud, FaultInv, RunnerTypes, GateAccepts
<1>3. streams \in SUBSET Streams
  BY DEF Streams
<1>4. \/ /\ GateAccepts(cloudIn) /\ gatePrevious' = cloudIn.stamp
         /\ Publish(streams, cloudIn.stamp)
      \/ UNCHANGED <<gatePrevious, observed, losses, emitted>>
  BY DEF HandleCloud
<1> HIDE DEF streams
<1>5. /\ losses' \in 0..MaxLosses /\ emitted \subseteq emitted' /\ OutputTypes'
      /\ gatePrevious' \in Nat
      /\ \A o \in emitted' \ emitted : /\ GateAccepts(cloudIn)
                                       /\ o.stream \in streams /\ o.stamp = cloudIn.stamp
  <2>1. CASE UNCHANGED <<gatePrevious, observed, losses, emitted>>
    BY <2>1 DEF FaultInv, RunnerTypes, CloudInv, OutputTypes
  <2>2. CASE GateAccepts(cloudIn) /\ gatePrevious' = cloudIn.stamp
             /\ Publish(streams, cloudIn.stamp)
    BY <1>1, <1>3, <2>2, PublishFacts
  <2>3. QED
    BY <1>4, <2>1, <2>2
<1>6. /\ RunnerTypes' /\ Attempts' /\ JudgedInv' /\ FixtureInv' /\ MarkersTrue'
      /\ CapturesTrue' /\ Running'
      /\ Events' = Events /\ Due' = Due /\ kind' = kind /\ RecoveredAt' = RecoveredAt
  BY <1>1, <1>2, <1>5, NodeKeeps
<1>7. CloudInv'
  <2>1. NoCloud \in Clouds /\ NoCloud.stamp \notin FaultWindow
    BY Times DEF NoCloud, Clouds, FaultWindow
  <2>2. QED
    BY <1>1, <1>5, <2>1 DEF CloudInv, FaultWindow, FaultAt
<1>8. SampleInv'
  BY <1>1, <1>6 DEF FaultInv, SampleInv, FaultWindow, FaultAt
<1>9. \A o \in emitted' \ emitted : /\ o.stream \in {"validated_cloud", "scan"}
                                    /\ o.stamp \in FaultWindow => o.stream \notin Withheld
  <2> SUFFICES ASSUME NEW o \in emitted' \ emitted
               PROVE  /\ o.stream \in {"validated_cloud", "scan"}
                      /\ o.stamp \in FaultWindow => o.stream \notin Withheld
    OBVIOUS
  <2>1. GateAccepts(cloudIn) /\ o.stream \in streams /\ o.stamp = cloudIn.stamp
    BY <1>5
  <2>2. o.stream \in {"validated_cloud", "scan"}
    BY <2>1 DEF streams
  <2>3. ASSUME o.stamp \in FaultWindow PROVE o.stream \notin Withheld
    <3>1. kind \notin CloudFaults \cup {"process_exit", "launch_failure"}
      BY <2>1, <2>3 DEF FaultInv, CloudInv, GateAccepts, ReachesNodes
    <3>2. kind = "tf_loss" => o.stream = "validated_cloud"
      BY <2>1, <2>3 DEF FaultInv, CloudInv, streams
    <3>3. kind \in Kinds
      BY KindKnown DEF FaultInv
    <3>4. QED
      BY <2>2, <3>1, <3>2, <3>3 DEF Withheld, OdometryFaults, Kinds
  <2>4. QED
    BY <2>2, <2>3
<1>10. WithheldInv'
  <2>1. Withheld' = Withheld
    BY <1>1, ScenarioKept
  <2>2. QED
    BY <1>6, <1>9, <2>1 DEF FaultInv, WithheldInv, FaultWindow, FaultAt
<1>11. JumpInv'
  <2>1. JumpOut' = JumpOut /\ RecoveryOut' = RecoveryOut
    BY <1>5, <1>6, <1>9 DEF JumpOut, RecoveryOut, OdomAt, FaultWindow, FaultAt
  <2>2. JumpOrder' = JumpOrder /\ JumpKept' = JumpKept
    BY <1>1, <1>6 DEF JumpOrder, JumpKept, FaultWindow, FaultAt
  <2>3. QED
    BY <1>1, <1>6, <2>1, <2>2 DEF FaultInv, JumpInv
<1>12. QED
  BY <1>5, <1>6, <1>7, <1>8, <1>10, <1>11 DEF FaultInv

(* What the adapter does with the sample that waits: it is published if it *)
(* continues the last, which a recovery alone never lets it.               *)
LEMMA SampleHandled ==
  ASSUME FaultInv, HandleOdometry
  PROVE  /\ odomIn \in Samples /\ odomIn.stamp \in Nat
         /\ previousTimestamp' \in {previousTimestamp, odomIn.stamp}
         /\ previousSample' \in Samples \cup {NoSample}
         /\ silence' \in {silence, 0}
         /\ losses' \in 0..MaxLosses /\ noticed' \in BOOLEAN
         /\ emitted \subseteq emitted' /\ OutputTypes'
         /\ \A o \in emitted' \ emitted :
              /\ o.stream \in {"odom", "tf"} /\ o.stamp = odomIn.stamp
              /\ previousTimestamp' = odomIn.stamp /\ silence' = 0
              /\ previousSample' = odomIn /\ Adapter!Valid(odomIn)
              /\ ~recoveryRequired \/ consecutiveValid + 1 >= RecoverySamples
<1>1. odomIn \in Samples /\ odomIn # NoSample
  BY DEF HandleOdometry, FaultInv, SampleInv
<1>2. odomIn.stamp \in Nat
  BY <1>1 DEF Samples
<1>3. CASE /\ Adapter!HealthySample(odomIn) \/ Adapter!RecoveredSample(odomIn)
           /\ Publish({"odom", "tf"}, odomIn.stamp) /\ UNCHANGED noticed
  <2>1. /\ previousTimestamp' = odomIn.stamp /\ silence' = 0
        /\ previousSample' = odomIn /\ Adapter!Valid(odomIn)
        /\ ~recoveryRequired \/ consecutiveValid + 1 >= RecoverySamples
    BY <1>3 DEF Adapter!HealthySample, Adapter!RecoveredSample, Adapter!Receive
  <2>2. {"odom", "tf"} \in SUBSET Streams
    BY DEF Streams
  <2>3. /\ emitted \subseteq emitted' /\ losses' \in 0..MaxLosses /\ OutputTypes'
        /\ \A o \in emitted' : \/ o \in emitted
                               \/ o.stream \in {"odom", "tf"} /\ o.stamp = odomIn.stamp
    BY <1>2, <1>3, <2>2, PublishFacts
  <2>4. QED
    BY <1>1, <1>2, <1>3, <2>1, <2>3 DEF FaultInv, RunnerTypes
<1>4. CASE /\ \/ Adapter!RejectSample(odomIn) /\ noticed' = TRUE
              \/ Adapter!FaultSample(odomIn) /\ noticed' = TRUE
              \/ Adapter!PendingSample(odomIn) /\ UNCHANGED noticed
           /\ UNCHANGED <<observed, losses, emitted>>
  <2>1. previousTimestamp' \in {previousTimestamp, odomIn.stamp} /\ silence' \in {silence, 0}
    BY <1>4 DEF Adapter!RejectSample, Adapter!FaultSample, Adapter!PendingSample,
       Adapter!Receive, Adapter!continuity
  <2>2. previousSample' \in {previousSample, odomIn}
    BY <1>4 DEF Adapter!RejectSample, Adapter!FaultSample, Adapter!PendingSample,
       Adapter!continuity, Adapter!RecoveryBaseline
  <2>3. QED
    BY <1>1, <1>2, <1>4, <2>1, <2>2 DEF FaultInv, RunnerTypes, SampleInv, OutputTypes
<1>5. QED
  BY <1>3, <1>4 DEF HandleOdometry

(* A sample that jumps from the one before is a fault, one that ends a     *)
(* recovery too early is pending.                                          *)
LEMMA JumpIsHandled ==
  ASSUME FaultInv, HandleOdometry, kind = "odom_jump", JumpOut
  PROVE  JumpKept' /\ emitted' = emitted
<1>1. /\ odomIn \in Samples /\ odomIn # NoSample /\ odomIn.stamp \in Nat /\ Running
      /\ clock' = clock /\ kind' = kind /\ RecoveredAt' = RecoveredAt
  BY SampleHandled, ScenarioKept DEF HandleOdometry, FaultInv, SampleInv, runner, fixture
<1>2. JumpOrder /\ JumpKept
  BY <1>1 DEF FaultInv, JumpInv
<1>3. /\ previousTimestamp \in Nat /\ previousSample \in Samples /\ clock \in Nat
      /\ previousSample # NoSample /\ silence \in Int
  BY <1>2 DEF FaultInv, SampleInv, FixtureInv, JumpKept
<1>4. /\ odomIn.stamp > FaultAt /\ odomIn.pose.x = 0
      /\ odomIn.stamp \in {RecoveredAt - 1, RecoveredAt} /\ odomIn.stamp <= RecoveredAt
      /\ odomIn.stamp > previousTimestamp /\ odomIn.stamp <= clock
  BY <1>1, <1>2, <1>3, Times DEF JumpOrder, JumpKept
<1>5. /\ odomIn.framesMatch = TRUE /\ odomIn.finite = TRUE
  BY <1>1 DEF Samples
<1>6. Adapter!ContractAccepts(odomIn)
  BY <1>1, <1>3, <1>4, <1>5, Times DEF Adapter!ContractAccepts
<1>7. ~Adapter!RejectSample(odomIn)
  BY <1>6 DEF Adapter!RejectSample
<1>8. previousSample.pose.x = 5 => ~Adapter!Valid(odomIn)
  <2>1. ASSUME previousSample.pose.x = 5 PROVE Adapter!Jump(odomIn.pose, previousSample.pose)
    BY <1>4, <2>1, ProfileAssumption, RecoveryAssumption
       DEF Adapter!Jump, Adapter!Distance
  <2>2. QED
    BY <1>3, <2>1 DEF Adapter!Valid, Adapter!Continuous
<1>9. \/ previousSample.pose.x = 5
      \/ /\ recoveryRequired /\ consecutiveValid = 0 /\ odomIn.stamp = RecoveredAt
  BY <1>2, <1>3, <1>4, Times DEF JumpKept
<1>10. ~Adapter!HealthySample(odomIn) /\ ~Adapter!RecoveredSample(odomIn)
  BY <1>8, <1>9, ProfileAssumption, RecoveryAssumption
     DEF Adapter!HealthySample, Adapter!RecoveredSample
<1>11. /\ emitted' = emitted
       /\ Adapter!FaultSample(odomIn) \/ Adapter!PendingSample(odomIn)
  BY <1>7, <1>10 DEF HandleOdometry
<1>12. /\ previousTimestamp' = odomIn.stamp /\ silence' = 0
       /\ previousSample' \in {previousSample, odomIn}
  BY <1>11 DEF Adapter!FaultSample, Adapter!PendingSample, Adapter!Receive,
     Adapter!RecoveryBaseline
<1>13. \/ recoveryRequired' /\ consecutiveValid' = 0
       \/ odomIn.stamp = RecoveredAt
  BY <1>8, <1>9, <1>11 DEF Adapter!FaultSample, Adapter!PendingSample
<1>14. JumpKept'
  BY <1>1, <1>3, <1>4, <1>12, <1>13, Times DEF JumpKept, FaultAt
<1>15. QED
  BY <1>11, <1>14

LEMMA HandleOdometryKeeps ==
  ASSUME FaultInv, HandleOdometry
  PROVE  FaultInv'
<1>1. /\ Running /\ odomIn # NoSample /\ odomIn' = NoSample
      /\ UNCHANGED <<runner, matrix, index, stage, captures, clock, nextEvent, cloudIn,
                     gatePrevious, markers>>
  BY DEF HandleOdometry, runner, fixture
<1>2. /\ odomIn \in Samples /\ odomIn.stamp \in Nat
      /\ previousTimestamp' \in {previousTimestamp, odomIn.stamp}
      /\ previousSample' \in Samples \cup {NoSample}
      /\ silence' \in {silence, 0}
      /\ losses' \in 0..MaxLosses /\ noticed' \in BOOLEAN
      /\ emitted \subseteq emitted' /\ OutputTypes'
  BY SampleHandled
<1>3. \A o \in emitted' \ emitted :
        /\ o.stream \in {"odom", "tf"} /\ o.stamp = odomIn.stamp
        /\ previousTimestamp' = odomIn.stamp /\ silence' = 0
        /\ previousSample' = odomIn
  BY SampleHandled
<1>4. /\ RunnerTypes' /\ Attempts' /\ JudgedInv' /\ FixtureInv' /\ MarkersTrue'
      /\ CapturesTrue' /\ Running'
      /\ Events' = Events /\ Due' = Due /\ kind' = kind /\ RecoveredAt' = RecoveredAt
  BY <1>1, <1>2, NodeKeeps
<1>5. CloudInv'
  BY <1>1, <1>4 DEF FaultInv, CloudInv, ReachesNodes, FaultWindow, FaultAt
<1>6. SampleInv'
  BY <1>1, <1>2, <1>4 DEF FaultInv, SampleInv, FaultWindow, FaultAt
<1>7. WithheldInv'
  <2>1. Withheld' = Withheld
    BY <1>1, ScenarioKept
  <2> SUFFICES ASSUME kind # "odom_jump", NEW o \in emitted', o.stamp \in FaultWindow
               PROVE  o.stream \notin Withheld
    BY <1>4, <2>1 DEF WithheldInv, FaultWindow, FaultAt
  <2>2. CASE o \in emitted
    BY <2>2 DEF FaultInv, WithheldInv
  <2>3. CASE o \notin emitted
    <3>1. o.stream \in {"odom", "tf"} /\ odomIn.stamp \in FaultWindow
      BY <1>3, <2>3
    <3>2. kind \notin {"odom_regression", "odom_loss"}
      BY <1>1, <3>1 DEF FaultInv, SampleInv
    <3>3. QED
      BY <3>1, <3>2 DEF Withheld, OdometryFaults
  <2>4. QED
    BY <2>2, <2>3
<1>8. JumpInv'
  <2> SUFFICES ASSUME kind = "odom_jump"
               PROVE  /\ ~(JumpOut' /\ RecoveryOut') /\ JumpOrder'
                      /\ RecoveryOut' => previousTimestamp' >= RecoveredAt
                      /\ JumpOut' => JumpKept'
    BY <1>4 DEF JumpInv
  <2>1. /\ JumpOrder /\ (RecoveryOut => previousTimestamp >= RecoveredAt)
        /\ ~(JumpOut /\ RecoveryOut)
    BY <1>1 DEF FaultInv, JumpInv
  <2>2. /\ previousTimestamp \in Nat /\ clock \in Nat /\ previousTimestamp < odomIn.stamp
        /\ odomIn.stamp <= clock /\ clock <= RecoveredAt
    BY <1>1, <2>1 DEF FaultInv, SampleInv, FixtureInv, JumpOrder
  <2>3. JumpOrder'
    BY <1>1, <1>2, <1>4, <2>1, <2>2 DEF JumpOrder
  <2>4. JumpOut' => JumpOut \/ (odomIn.stamp \in FaultWindow /\ odomIn.pose.x = 5
                               /\ previousTimestamp' = odomIn.stamp /\ silence' = 0
                               /\ previousSample' = odomIn)
    BY <1>1, <1>3, <2>1 DEF JumpOut, OdomAt, JumpOrder, FaultWindow, FaultAt
  <2>5. RecoveryOut' => RecoveryOut \/ (odomIn.stamp >= RecoveredAt
                                       /\ previousTimestamp' = odomIn.stamp)
    BY <1>2, <1>3, <1>4, Times DEF RecoveryOut, OdomAt
  <2>6. RecoveryOut' => previousTimestamp' >= RecoveredAt
    BY <1>2, <2>1, <2>2, <2>5, Times
  <2>7. CASE JumpOut
    <3>1. JumpKept' /\ emitted' = emitted
      BY <2>7, JumpIsHandled
    <3>2. RecoveryOut' = RecoveryOut
      BY <1>4, <3>1 DEF RecoveryOut, OdomAt
    <3>3. QED
      BY <2>1, <2>3, <2>6, <2>7, <3>1, <3>2
  <2>8. CASE ~JumpOut /\ JumpOut'
    <3>1. /\ odomIn.stamp \in FaultWindow /\ odomIn.pose.x = 5
          /\ previousTimestamp' = odomIn.stamp /\ silence' = 0
          /\ previousSample' = odomIn
      BY <2>4, <2>8
    <3>2. odomIn.stamp >= FaultAt /\ odomIn.stamp < RecoveredAt
      BY <3>1, Times DEF FaultWindow
    <3>3. ~RecoveryOut'
      BY <1>2, <2>1, <2>2, <2>5, <3>2, Times
    <3>4. JumpKept'
      BY <1>1, <1>2, <2>2, <3>1, <3>2, Times DEF JumpKept, FaultAt
    <3>5. QED
      BY <2>3, <3>3, <3>4
  <2>9. QED
    BY <2>3, <2>6, <2>7, <2>8
<1>9. QED
  BY <1>2, <1>4, <1>5, <1>6, <1>7, <1>8 DEF FaultInv

(* After a published jump there is no loss to report before the recovery.  *)
LEMMA CheckLossKeeps ==
  ASSUME FaultInv, CheckLoss
  PROVE  FaultInv'
<1>1. /\ Running
      /\ UNCHANGED <<runner, matrix, index, stage, captures, clock, nextEvent, cloudIn,
                     odomIn, gatePrevious, markers, observed, losses, emitted>>
      /\ noticed' \in BOOLEAN
  BY DEF CheckLoss, runner, fixture, inputs, observer, FaultInv, RunnerTypes
<1>2. /\ UNCHANGED <<previousTimestamp, silence>>
      /\ \/ UNCHANGED <<previousSample, recoveryRequired, consecutiveValid>>
         \/ previousSample' = NoSample /\ silence > MaxGap
  BY DEF CheckLoss, Adapter!CheckQuiet, Adapter!ReportLoss, Adapter!continuity,
     Adapter!LossExpired
<1>3. /\ RunnerTypes' /\ Attempts' /\ JudgedInv' /\ FixtureInv' /\ MarkersTrue'
      /\ CapturesTrue' /\ Running'
      /\ Events' = Events /\ Due' = Due /\ kind' = kind /\ RecoveredAt' = RecoveredAt
  BY <1>1, NodeKeeps DEF FaultInv, RunnerTypes
<1>4. OutputTypes' /\ WithheldInv'
  BY <1>1, OutputsKept DEF FaultInv
<1>5. CloudInv' /\ SampleInv'
  BY <1>1, <1>2, <1>3
     DEF FaultInv, CloudInv, SampleInv, ReachesNodes, FaultWindow, FaultAt
<1>6. JumpInv'
  <2> SUFFICES ASSUME kind = "odom_jump" PROVE JumpInv'
    BY <1>3 DEF JumpInv
  <2>1. /\ JumpOrder /\ (RecoveryOut => previousTimestamp >= RecoveredAt)
        /\ ~(JumpOut /\ RecoveryOut) /\ (JumpOut => JumpKept)
    BY <1>1 DEF FaultInv, JumpInv
  <2>2. /\ JumpOut' = JumpOut /\ RecoveryOut' = RecoveryOut /\ JumpOrder' = JumpOrder
    BY <1>1, <1>2, <1>3
       DEF JumpOut, RecoveryOut, OdomAt, JumpOrder, FaultWindow, FaultAt
  <2>3. ASSUME JumpOut PROVE JumpKept'
    <3>1. silence <= clock - FaultAt /\ clock <= RecoveredAt
      BY <2>1, <2>3 DEF JumpOrder, JumpKept
    <3>2. RecoveredAt - FaultAt <= MaxGap
      BY Times, RecoveryAssumption, ProfileAssumption DEF RecoveredAt, Delay
    <3>3. ~(silence > MaxGap)
      BY <3>1, <3>2, Times, ProfileAssumption DEF FaultInv, SampleInv, FixtureInv
    <3>4. QED
      BY <1>1, <1>2, <1>3, <2>1, <2>3, <3>3 DEF JumpKept, FaultAt
  <2>4. QED
    BY <1>2, <1>3, <2>1, <2>2, <2>3 DEF JumpInv
<1>7. QED
  BY <1>3, <1>4, <1>5, <1>6 DEF FaultInv

-----------------------------------------------------------------------------
(* The theorems.                                                           *)

LEMMA InitHolds ==
  ASSUME Init
  PROVE  FaultInv
<1>1. 0 \notin FaultWindow /\ NoCloud \in Clouds /\ NoCloud.stamp = 0
  BY Times DEF FaultWindow, NoCloud, Clouds
<1>2. index \in DOMAIN matrix
  BY MatrixAssumption DEF Init
<1>3. ~Running /\ stage = "ready"
  BY DEF Init, Running
<1>4. RunnerTypes /\ Attempts
  <2>1. <<>> \in Seq(Capture) /\ <<>> \in Seq(BOOLEAN) /\ Len(<<>>) = 0
    OBVIOUS
  <2>2. 0 \in 0..MaxLosses
    BY ProfileAssumption
  <2>3. RunnerTypes
    BY <1>2, <2>1, <2>2 DEF Init, RunnerTypes
  <2>4. captures = <<>> /\ Len(captures) = 0
    BY <2>1 DEF Init
  <2>5. Attempts
    BY <1>3, <2>4 DEF Attempts
  <2>6. QED
    BY <2>3, <2>5
<1>5. FixtureInv /\ MarkersTrue /\ CapturesTrue /\ OutputTypes /\ WithheldInv /\ JudgedInv
  BY <1>3 DEF Init, FixtureInv, MarkersTrue, CapturesTrue, OutputTypes, WithheldInv,
     JudgedInv
<1>6. CloudInv /\ SampleInv
  BY <1>1 DEF Init, CloudInv, SampleInv, Adapter!Init
<1>7. JumpInv
  BY <1>3 DEF Init, JumpInv, JumpOut, OdomAt
<1>8. QED
  BY <1>4, <1>5, <1>6, <1>7 DEF FaultInv

LEMMA StutterKeeps ==
  ASSUME FaultInv, UNCHANGED vars
  PROVE  FaultInv'
<1>1. UNCHANGED <<matrix, conditions, index, stage, captures, results, report, fixture,
                  inputs, gatePrevious, observer, history, adapter>>
  BY DEF vars, runner
<1>2. /\ FixtureInv' /\ MarkersTrue' /\ CapturesTrue' /\ OutputTypes'
      /\ CloudInv' /\ SampleInv' /\ WithheldInv' /\ JumpInv'
  BY <1>1, StageOnly DEF Running
<1>3. RunnerTypes' /\ Attempts' /\ JudgedInv'
  BY <1>1, ScenarioKept, PassesKept
     DEF FaultInv, RunnerTypes, Attempts, JudgedInv, Running, observer, history
<1>4. QED
  BY <1>2, <1>3 DEF FaultInv

(* What is known of every attempt is kept by every step of the fixture, of *)
(* the nodes and of the runner.                                            *)
THEOREM FaultInvariant == Spec => []FaultInv
<1>1. Init => FaultInv
  BY InitHolds
<1>2. FaultInv /\ [Next]_vars => FaultInv'
  BY AdvanceClockKeeps, SeedOdometryKeeps, EmitEventKeeps, HandleCloudKeeps,
     HandleOdometryKeeps, CheckLossKeeps, LaunchFirstKeeps, LaunchRestartKeeps,
     SeeTerminalKeeps, GiveUpKeeps, StopAndCaptureKeeps, JudgeKeeps, WriteReportKeeps,
     StutterKeeps
     DEF Next, Fixture, Pipeline, Runner
<1>3. QED
  BY <1>1, <1>2, PTL DEF Spec

(* The variables keep their types; there is one marker at most for each    *)
(* event that was published.                                               *)
THEOREM TypeCorrect == Spec => []TypeOK
<1>1. FaultInv => TypeOK
  BY DEF FaultInv, RunnerTypes, Attempts, FixtureInv, OutputTypes, CloudInv, TypeOK
<1>2. QED
  BY <1>1, FaultInvariant, PTL

(* An element of two sequences put together is one of either.              *)
LEMMA ConcatIndex ==
  ASSUME NEW S, NEW s \in Seq(S), NEW t \in Seq(S), NEW i \in DOMAIN (s \o t)
  PROVE  \/ i \in DOMAIN s /\ (s \o t)[i] = s[i]
         \/ i - Len(s) \in DOMAIN t /\ (s \o t)[i] = t[i - Len(s)]
OBVIOUS

(* The recovery a verdict rests on is one that was captured.               *)
LEMMA RecoveryCaptured ==
  ASSUME FaultInv, Len(captures) \in 1..2,
         NEW suppressed, RecoveryPasses(AllEvents, suppressed)
  PROVE  Recovers /\ \A s \in Streams : Seen(Event("recovered", RecoveredAt), s, emitted)
<1>1. PICK recovered \in FirstEvent(AllEvents, "recovered") : recovered.streams = Streams
  BY DEF RecoveryPasses
<1>2. PICK i \in DOMAIN AllEvents : recovered = AllEvents[i] /\ recovered.phase = "recovered"
  BY <1>1 DEF FirstEvent
<1>3. captures \in Seq(Capture)
  BY DEF FaultInv, RunnerTypes
<1>4. \A k \in 1..Len(captures) : k \in DOMAIN captures /\ captures[k].events \in Seq(Row)
  <2> TAKE k \in 1..Len(captures)
  <2>1. k \in DOMAIN captures /\ captures[k] \in Capture
    BY <1>3
  <2>2. QED
    BY <2>1 DEF Capture
<1>5. \E k \in DOMAIN captures : \E j \in DOMAIN captures[k].events :
        recovered = captures[k].events[j]
  <2>1. CASE Len(captures) = 2
    <3>1. /\ 1 \in DOMAIN captures /\ captures[1].events \in Seq(Row)
          /\ 2 \in DOMAIN captures /\ captures[2].events \in Seq(Row)
      BY <1>4, <2>1
    <3>2. AllEvents = captures[1].events \o captures[2].events
      BY <2>1 DEF AllEvents
    <3> DEFINE s == captures[1].events
               t == captures[2].events
    <3>3. s \in Seq(Row) /\ t \in Seq(Row) /\ i \in DOMAIN (s \o t) /\ recovered = (s \o t)[i]
      BY <1>2, <3>1, <3>2
    <3> HIDE DEF s, t
    <3>4. \/ i \in DOMAIN s /\ recovered = s[i]
          \/ i - Len(s) \in DOMAIN t /\ recovered = t[i - Len(s)]
      BY <3>3, ConcatIndex
    <3>5. QED
      BY <3>1, <3>4 DEF s, t
  <2>2. CASE Len(captures) # 2
    <3>1. AllEvents = captures[1].events \o <<>>
      BY <2>2 DEF AllEvents
    <3>2. 1 \in DOMAIN captures /\ captures[1].events \in Seq(Row)
      BY <1>4
    <3>3. i \in DOMAIN captures[1].events /\ recovered = captures[1].events[i]
      BY <1>2, <3>1, <3>2
    <3>4. QED
      BY <3>2, <3>3
  <2>3. QED
    BY <2>1, <2>2
<1>6. /\ Recovers /\ recovered.clock = RecoveredAt
      /\ \A s \in recovered.streams : Seen(recovered, s, emitted)
  BY <1>2, <1>5 DEF FaultInv, CapturesTrue
<1>7. QED
  BY <1>1, <1>6 DEF Seen, Event

(* A scenario that passed has recovered in all four streams, for the       *)
(* attempt that had to, and nothing its fault must suppress was published, *)
(* whatever came late and whatever the observer missed: the runner's       *)
(* verdict, built from what was observed, is true of what happened.        *)
THEOREM PassedTruthful == Spec => []PassedIsTrue
<1>1. FaultInv => PassedIsTrue
  <2> SUFFICES ASSUME FaultInv, stage = "judged", Last(results)
               PROVE  /\ SafeThroughout
                      /\ kind # "launch_failure" =>
                           \A s \in Streams : Seen(Last(Events), s, emitted)
                      /\ \A s \in Withheld :
                           ~Seen(Event("suppressed", FaultAt), s, emitted)
    BY DEF PassedIsTrue
  <2>1. Passes
    BY DEF FaultInv, JudgedInv
  <2>2. /\ Len(captures) \in 1..2 /\ RunnerTypes
        /\ kind = "process_exit" => captures # <<>>
    <3>1. /\ captures \in Seq(Capture) /\ RunnerTypes
          /\ Len(captures) = IF kind = "process_exit" THEN 2 ELSE 1
      BY DEF FaultInv, Attempts, RunnerTypes
    <3>2. captures = <<>> => Len(captures) = 0
      OBVIOUS
    <3>3. QED
      BY <3>1, <3>2
  <2>3. kind # "launch_failure" => \E suppressed : RecoveryPasses(AllEvents, suppressed)
    BY <2>1 DEF Passes, RestartPasses
  <2>4. kind # "launch_failure" =>
          /\ Recovers
          /\ \A s \in Streams : Seen(Event("recovered", RecoveredAt), s, emitted)
    BY <2>2, <2>3, RecoveryCaptured
  <2>5. kind # "launch_failure" => Last(Events) = Event("recovered", RecoveredAt)
    BY <2>2, <2>4, EventFacts DEF Restarted
  <2>6. ASSUME NEW s \in Withheld, Seen(Event("suppressed", FaultAt), s, emitted)
        PROVE  FALSE
    <3>1. PICK o \in emitted : o.stream = s /\ o.stamp - FaultAt \in 0..1
      BY <2>6 DEF Seen, Event
    <3>2. o.stamp \in FaultWindow
      BY <3>1, Times DEF FaultWindow, FaultInv, OutputTypes
    <3>3. CASE kind # "odom_jump"
      BY <3>1, <3>2, <3>3 DEF FaultInv, WithheldInv
    <3>4. CASE kind = "odom_jump"
      <4>1. s = "odom" /\ JumpOut
        BY <3>1, <3>2, <3>4 DEF Withheld, OdometryFaults, CloudFaults, JumpOut, OdomAt
      <4>2. PICK r \in emitted : r.stream = "odom" /\ r.stamp - RecoveredAt \in 0..1
        BY <2>4, <3>4 DEF Seen, Event, Streams
      <4>3. RecoveryOut
        BY <4>2, Times DEF RecoveryOut, OdomAt, FaultInv, OutputTypes
      <4>4. QED
        BY <3>4, <4>1, <4>3 DEF FaultInv, JumpInv
    <3>5. QED
      BY <3>3, <3>4
  <2>7. QED
    BY <2>1, <2>4, <2>5, <2>6 DEF Passes
<1>2. QED
  BY <1>1, FaultInvariant, PTL

-----------------------------------------------------------------------------
(* The course of a good run.                                               *)

(* Whether the attempt has a recovery to come.                             *)
HasRecovery == kind # "launch_failure" /\ (kind = "process_exit" => Restarted)
Ended == nextEvent > Len(Events)

Idle == odomIn = NoSample
Waits(at, x) == odomIn = Sample(at, x) /\ clock = at

(* The states of the adapter: before the first sample; after a sample of   *)
(* time h was published; after a jump, a loss, and the seed that follows.  *)
Fresh ==
  previousSample = NoSample /\ previousTimestamp = 0 /\ ~receivedOnce /\ ~recoveryRequired
Healthy(h) ==
  /\ previousSample = Sample(h, 0) /\ previousTimestamp = h /\ ~recoveryRequired
  /\ receivedOnce /\ silence <= clock - h
Awaited ==
  /\ Healthy(Baseline) /\ ~lossReported
  /\ silence >= Lesser(Adapter!MaxSilence, clock - Baseline)
  /\ silence - sinceCheck <= MaxGap
Broken ==
  /\ previousSample = Sample(Baseline, 0) /\ previousTimestamp = FaultAt
  /\ silence <= clock - FaultAt /\ recoveryRequired /\ consecutiveValid = 0
Lost ==
  /\ previousSample = NoSample /\ previousTimestamp = Baseline
  /\ recoveryRequired /\ consecutiveValid = 0 /\ lossReported
Half ==
  /\ previousSample = Sample(RecoveredAt - 1, 0) /\ previousTimestamp = RecoveredAt - 1
  /\ silence <= clock - (RecoveredAt - 1) /\ recoveryRequired /\ consecutiveValid = 1

OnGrid == \E n \in Nat : clock = FaultAt + n * FixtureTick

(* A fault that was noticed, up to the seed and behind it.                 *)
Seeded(before, after) ==
  \/ Idle /\ before /\ clock < RecoveredAt - 1 /\ OnGrid
  \/ Waits(RecoveredAt - 1, 0) /\ before
  \/ Idle /\ after /\ clock = RecoveredAt - 1

BaselinePace == (Waits(Baseline, 0) /\ Fresh) \/ (Idle /\ Awaited)

FaultPace ==
  /\ kind \notin OdometryFaults =>
       \/ Waits(FaultAt, 0) /\ Healthy(Baseline)
       \/ Idle /\ Healthy(FaultAt)
  /\ kind = "odom_regression" =>
       \/ odomIn = Sample(Baseline - 1, 0) /\ clock = FaultAt /\ Healthy(Baseline)
       \/ noticed /\ Seeded(Healthy(Baseline), Healthy(RecoveredAt - 1))
  /\ kind = "odom_jump" =>
       \/ Waits(FaultAt, 5) /\ Healthy(Baseline)
       \/ noticed /\ Seeded(Broken, Half)
  /\ kind = "odom_loss" =>
       \/ Idle /\ Awaited /\ clock < RecoveredAt - 1 /\ OnGrid
       \/ noticed /\ Seeded(Lost, Half)

Prepared ==
  CASE kind = "process_exit" -> Fresh
    [] kind = "odom_regression" -> Healthy(RecoveredAt - 1)
    [] kind \in {"odom_jump", "odom_loss"} -> Half
    [] OTHER -> Healthy(FaultAt)

Recovered(streams) == [stream : streams, stamp : {RecoveredAt}] \subseteq observed

OdometryPace ==
  /\ Ended => \/ Waits(RecoveredAt, 0) /\ Prepared
              \/ Recovered({"odom", "tf"})
  /\ ~Ended => /\ nextEvent = 1 => Idle /\ Fresh
               /\ nextEvent = 2 => BaselinePace
               /\ nextEvent = 3 => FaultPace
  /\ Ended /\ kind \in OdometryFaults => noticed
  /\ kind = "odom_jump" => ~JumpOut

CloudPace ==
  /\ gatePrevious <= clock /\ cloudIn.stamp <= clock
  /\ Ended => cloudIn = Cloud(RecoveredAt, "none") \/ Recovered({"validated_cloud", "scan"})
  /\ kind \in CloudFaults \cup {"tf_loss"} /\ nextEvent > 2 =>
       \/ noticed
       \/ ~Ended /\ clock = FaultAt /\ cloudIn = CloudOf(Event("suppressed", FaultAt))

ClockPace ==
  /\ sinceCheck \in Nat
  /\ ~Ended => clock < Due.clock
  /\ Ended => clock = RecoveredAt
  /\ kind # "process_exit" => /\ nextEvent = 2 => clock >= Baseline
                              /\ nextEvent = 3 => clock >= FaultAt

MarkersPace ==
  /\ Len(markers) = nextEvent - 1 /\ \A i \in DOMAIN markers : markers[i] = Events[i]
  /\ stage = "settle" => TerminalSeen

(* The capture of an attempt that ended with the exit.                     *)
ExitCaptured ==
  /\ captures[1].exit = 75 /\ DOMAIN captures[1].events = 1..3
  /\ captures[1].events[1].phase = "baseline"
  /\ captures[1].events[2].phase = "suppressed" /\ captures[1].events[2].clock = FaultAt
  /\ captures[1].events[3].phase = "owned_child_exit"

GoodInv ==
  conditions = "good" =>
    /\ \A i \in DOMAIN results : results[i]
    /\ report \in {"none", "passed"}
    /\ SafeThroughout
    /\ kind = "process_exit" /\ captures # <<>> => ExitCaptured
    /\ Running => MarkersPace
    /\ Running /\ HasRecovery => ClockPace /\ OdometryPace /\ CloudPace
    /\ stage \in {"captured", "judged"} => Passes /\ (ReachesNodes => noticed)

-----------------------------------------------------------------------------
(* Facts of a good run.                                                    *)

LEMMA Pace ==
  /\ RecoveryDelay < Deadline /\ LossDelay < Deadline /\ Deadline < Baseline
  /\ FixtureTick > 1 /\ RecoverySamples = 2 /\ Delay < Deadline
  /\ MaxGap \in Nat /\ CheckPeriod \in Nat /\ CheckLag \in Nat
  /\ Adapter!MaxSilence = MaxGap + CheckPeriod + CheckLag + 1
  /\ FaultAt - Baseline <= MaxGap /\ FaultAt - Baseline + RecoveryDelay <= MaxGap
  /\ FaultAt - Baseline + LossDelay > MaxGap + CheckPeriod + CheckLag + 1
  /\ \E ticks \in Nat : Delay = ticks * FixtureTick
<1>1. Adapter!MaxSilence = MaxGap + CheckPeriod + CheckLag + 1
  BY DEF Adapter!MaxSilence, Adapter!LossDeadline
<1>2. \E ticks \in Nat : Delay = ticks * FixtureTick
  <2>1. Delay \in {RecoveryDelay, LossDelay}
    BY DEF Delay
  <2>2. PICK ticks \in 1..Delay : Delay = ticks * FixtureTick
    BY <2>1, PaceAssumption
  <2>3. ticks \in Nat
    BY Times
  <2>4. QED
    BY <2>2, <2>3
<1>3. QED
  BY <1>1, <1>2, PaceAssumption, TimeAssumption, ProfileAssumption DEF FaultAt, Delay

(* The fixture does not come to stand where the seed would be.             *)
LEMMA OffTheSeed ==
  ASSUME kind # "process_exit", NEW n \in Nat
  PROVE  FaultAt + n * FixtureTick # RecoveredAt - 1
<1>1. PICK k \in Nat : Delay = k * FixtureTick
  BY Pace
<1> SUFFICES ASSUME FaultAt + n * FixtureTick = RecoveredAt - 1 PROVE FALSE
  OBVIOUS
<1>2. n * FixtureTick \in Nat /\ k * FixtureTick \in Nat
  BY <1>1, Times
<1>3. k * FixtureTick - n * FixtureTick = 1
  BY <1>1, <1>2, Times DEF RecoveredAt
<1>4. (k - n) * FixtureTick = 1
  BY <1>1, <1>3, Times
<1>5. k - n \in Int /\ FixtureTick \in Nat /\ FixtureTick > 1
  BY <1>1, Times, Pace
<1>6. k - n <= 0 \/ k - n >= 1
  BY <1>5
<1>7. CASE k - n <= 0
  BY <1>4, <1>5, <1>7
<1>8. CASE k - n >= 1
  BY <1>4, <1>5, <1>8
<1>9. QED
  BY <1>6, <1>7, <1>8

LEMMA GridAdvances ==
  ASSUME clock \in Nat, OnGrid, clock' = clock + FixtureTick
  PROVE  OnGrid'
<1>1. PICK n \in Nat : clock = FaultAt + n * FixtureTick
  BY DEF OnGrid
<1>2. n + 1 \in Nat /\ clock' = FaultAt + (n + 1) * FixtureTick
  BY <1>1, Times
<1>3. QED
  BY <1>2 DEF OnGrid, FaultAt

LEMMA GridStarts ==
  ASSUME clock' = FaultAt
  PROVE  OnGrid'
<1>1. clock' = FaultAt + 0 * FixtureTick
  BY Times
<1>2. QED
  BY <1>1 DEF OnGrid, FaultAt

(* The events of an attempt with a recovery, one by one.                   *)
LEMMA PlanOfRecovery ==
  ASSUME RunnerTypes, HasRecovery
  PROVE  /\ Recovers
         /\ kind = "process_exit" =>
              Len(Events) = 1 /\ Events[1] = Event("recovered", RecoveredAt)
         /\ kind # "process_exit" =>
              /\ Len(Events) = 3
              /\ Events[1] = Event("baseline", Baseline)
              /\ Events[2] = Event("suppressed", FaultAt)
              /\ Events[3] = Event("recovered", RecoveredAt)
<1>1. Delay <= Deadline /\ LossDelay <= Deadline
  BY Pace, Times
<1>2. Recovers
  BY <1>1 DEF Recovers, HasRecovery
<1>3. CASE kind = "process_exit"
  BY <1>1, <1>2, <1>3, Times DEF Events, HasRecovery, RecoveredAt
<1>4. CASE kind # "process_exit"
  BY <1>1, <1>2, <1>4, Times DEF Events, HasRecovery, RecoveredAt, RecoveringEvents
<1>5. QED
  BY <1>2, <1>3, <1>4

LEMMA PlanOfExit ==
  ASSUME RunnerTypes, kind = "process_exit", ~Restarted
  PROVE  /\ Len(Events) = 3
         /\ Events[1] = Event("baseline", Baseline)
         /\ Events[2] = Event("suppressed", FaultAt)
         /\ Events[3] = Event("owned_child_exit", FaultAt)
<1>1. Delay <= Deadline
  BY Pace, Times
<1>2. QED
  BY <1>1, Times DEF Events, ProcessExitEvents

LEMMA WhereInPlan ==
  ASSUME FaultInv, Running, HasRecovery
  PROVE  /\ nextEvent \in 1..4
         /\ Ended => nextEvent = Len(Events) + 1
         /\ ~Ended /\ kind = "process_exit" =>
              nextEvent = 1 /\ Due = Event("recovered", RecoveredAt)
         /\ ~Ended /\ kind # "process_exit" =>
              \/ nextEvent = 1 /\ Due = Event("baseline", Baseline)
              \/ nextEvent = 2 /\ Due = Event("suppressed", FaultAt)
              \/ nextEvent = 3 /\ Due = Event("recovered", RecoveredAt)
<1>1. nextEvent \in 1..4 /\ nextEvent <= Len(Events) + 1 /\ RunnerTypes
  BY DEF FaultInv, FixtureInv
<1>2. Len(Events) \in Nat
  BY <1>1, EventFacts
<1>3. Ended => nextEvent = Len(Events) + 1
  BY <1>1, <1>2 DEF Ended
<1>4. CASE kind = "process_exit"
  <2>1. Len(Events) = 1 /\ Events[1] = Event("recovered", RecoveredAt)
    BY <1>1, <1>4, PlanOfRecovery
  <2>2. ~Ended => nextEvent = 1
    BY <1>1, <2>1 DEF Ended
  <2>3. QED
    BY <1>1, <1>3, <1>4, <2>1, <2>2 DEF Due
<1>5. CASE kind # "process_exit"
  <2>1. /\ Len(Events) = 3
        /\ Events[1] = Event("baseline", Baseline)
        /\ Events[2] = Event("suppressed", FaultAt)
        /\ Events[3] = Event("recovered", RecoveredAt)
    BY <1>1, <1>5, PlanOfRecovery
  <2>2. ~Ended => nextEvent \in {1, 2, 3}
    BY <1>1, <2>1 DEF Ended
  <2>3. QED
    BY <1>1, <1>3, <1>5, <2>1, <2>2 DEF Due
<1>6. QED
  BY <1>4, <1>5

(* A sample is no missing sample.                                          *)
LEMMA SampleIsData ==
  ASSUME NEW at \in Nat, NEW x \in {0, 5}
  PROVE  /\ Sample(at, x) # NoSample /\ Sample(at, x).stamp = at
         /\ Sample(at, x).pose.x = x /\ Sample(at, x).pose.heading = 0
         /\ Sample(at, x).framesMatch = TRUE /\ Sample(at, x).finite = TRUE
<1>1. Sample(at, x) \in [stamp : Nat, pose : [x : Int, heading : Int],
                         framesMatch : BOOLEAN, finite : BOOLEAN]
  BY DEF Sample
<1>2. QED
  BY <1>1, ProfileAssumption DEF Sample

(* The runner's part of a good run stays as it is while an attempt runs.   *)
LEMMA GoodWhileRunning ==
  ASSUME GoodInv, conditions = "good", Running, UNCHANGED runner, MarkersPace',
         HasRecovery => ClockPace' /\ OdometryPace' /\ CloudPace'
  PROVE  GoodInv'
<1>1. /\ UNCHANGED <<matrix, index, captures, results, report, stage, conditions>>
      /\ kind' = kind
  BY ScenarioKept DEF runner
<1>2. HasRecovery' = HasRecovery /\ ~(stage' \in {"captured", "judged"})
  BY <1>1 DEF HasRecovery, Restarted, Running
<1>3. SafeThroughout' /\ (kind' = "process_exit" /\ captures' # <<>> => ExitCaptured')
  BY <1>1 DEF GoodInv, SafeThroughout, ExitCaptured, FaultAt
<1>4. QED
  BY <1>1, <1>2, <1>3 DEF GoodInv

(* Markers stay what they were when none is published.                     *)
LEMMA MarkersPaceKept ==
  ASSUME MarkersPace, UNCHANGED <<matrix, index, captures, stage, nextEvent, markers>>
  PROVE  MarkersPace'
BY EventsKept, ScenarioKept DEF MarkersPace, TerminalSeen, Restarted

(* So does the adapter while its variables and the clock do.               *)
LEMMA AdapterStateKept ==
  ASSUME UNCHANGED <<matrix, index, clock, odomIn, previousTimestamp, previousSample,
                     recoveryRequired, consecutiveValid, receivedOnce, silence,
                     lossReported>>
  PROVE  /\ Fresh' = Fresh /\ Broken' = Broken /\ Lost' = Lost /\ Half' = Half
         /\ Idle' = Idle /\ OnGrid' = OnGrid
         /\ \A h : Healthy(h)' = Healthy(h)
BY ScenarioKept
   DEF Fresh, Broken, Lost, Half, Idle, OnGrid, Healthy, Sample, FaultAt
(* The course of the odometry is left alone by a step of the gate, or of a *)
(* quiet timer.                                                            *)
LEMMA OdometryPaceKept ==
  ASSUME OdometryPace,
         UNCHANGED <<matrix, index, captures, clock, nextEvent, odomIn,
                     previousTimestamp, previousSample, recoveryRequired,
                     consecutiveValid, receivedOnce, silence, lossReported>>,
         Awaited => Awaited', noticed => noticed', observed \subseteq observed', JumpOut' => JumpOut
  PROVE  OdometryPace'
<1>1. /\ Fresh' = Fresh /\ Broken' = Broken /\ Lost' = Lost /\ Half' = Half
      /\ Idle' = Idle /\ OnGrid' = OnGrid
      /\ Healthy(Baseline)' = Healthy(Baseline) /\ Healthy(FaultAt)' = Healthy(FaultAt)
      /\ Healthy(RecoveredAt - 1)' = Healthy(RecoveredAt - 1)
  BY AdapterStateKept, ScenarioKept DEF Healthy, Sample, FaultAt
<1>2. /\ kind' = kind /\ RecoveredAt' = RecoveredAt /\ Ended' = Ended
  BY ScenarioKept, EventsKept DEF Ended
<1>3. Prepared' = Prepared
  BY <1>1, <1>2 DEF Prepared, FaultAt
<1>4. BaselinePace => BaselinePace'
  BY <1>1 DEF BaselinePace, Waits
<1>5. FaultPace => FaultPace'
  BY <1>1, <1>2 DEF FaultPace, Waits, Seeded, FaultAt
<1>6. \A streams : Recovered(streams) => Recovered(streams)'
  BY <1>2 DEF Recovered
<1>7. Waits(RecoveredAt, 0)' = Waits(RecoveredAt, 0)
  BY <1>2 DEF Waits
<1>8. QED
  BY <1>1, <1>2, <1>3, <1>4, <1>5, <1>6, <1>7 DEF OdometryPace

(* A good run misses nothing.                                              *)
LEMMA NothingMissed ==
  ASSUME conditions = "good", NEW streams, NEW stamp, Publish(streams, stamp)
  PROVE  observed' = observed \cup [stream : streams, stamp : {stamp}]
BY DEF Publish, MayLose

(* The gate passes the cloud of the recovery and refuses the clouds of the *)
(* fault, or the converter makes no scan of them.                          *)
LEMMA HandleCloudInPace ==
  ASSUME FaultInv, GoodInv, conditions = "good", HandleCloud
  PROVE  GoodInv'
<1>1. /\ Running /\ cloudIn' = NoCloud /\ cloudIn \in Clouds /\ cloudIn.stamp \in Nat
      /\ gatePrevious \in Nat /\ clock \in Nat /\ nextEvent \in Nat
      /\ UNCHANGED <<runner, matrix, index, stage, captures, clock, nextEvent, odomIn,
                     markers, previousTimestamp, previousSample, recoveryRequired,
                     consecutiveValid, silence, receivedOnce, lossReported, sinceCheck>>
      /\ RunnerTypes
  BY DEF HandleCloud, FaultInv, CloudInv, FixtureInv, Clouds, runner, fixture, adapter
<1>2. /\ \/ ~GateAccepts(cloudIn) /\ UNCHANGED <<gatePrevious, observed, emitted>>
         \/ /\ GateAccepts(cloudIn) /\ gatePrevious' = cloudIn.stamp
            /\ Publish({"validated_cloud"} \cup
                       IF cloudIn.defect = "tf_loss" THEN {} ELSE {"scan"}, cloudIn.stamp)
      /\ noticed' = (noticed \/ ~GateAccepts(cloudIn) \/ cloudIn.defect = "tf_loss")
  BY DEF HandleCloud
<1>3. /\ kind' = kind /\ RecoveredAt' = RecoveredAt /\ Events' = Events /\ Due' = Due
      /\ Ended' = Ended
  BY <1>1, EventsKept, ScenarioKept DEF Due, Ended
<1>4. observed \subseteq observed'
  BY <1>2, NothingMissed
<1>5. MarkersPace'
  BY <1>1, MarkersPaceKept DEF GoodInv
<1>6. ASSUME HasRecovery PROVE ClockPace' /\ OdometryPace' /\ CloudPace'
  <2>1. ClockPace /\ OdometryPace /\ CloudPace
    BY <1>1, <1>6 DEF GoodInv
  <2>2. ClockPace'
    BY <1>1, <1>3, <2>1 DEF ClockPace, FaultAt
  <2>3. JumpOut' => JumpOut
    BY <1>2 DEF JumpOut, OdomAt, Publish, FaultWindow, FaultAt
  <2>4. Awaited' = Awaited
    BY <1>1 DEF Awaited, Healthy, Lesser, Sample, Adapter!MaxSilence, Adapter!LossDeadline
  <2>5. OdometryPace'
    BY <1>1, <1>2, <1>4, <2>1, <2>3, <2>4, OdometryPaceKept
  <2>6. gatePrevious' <= clock' /\ cloudIn'.stamp <= clock'
    BY <1>1, <1>2, <2>1 DEF CloudPace, NoCloud
  <2>7. Ended => Recovered({"validated_cloud", "scan"})'
    <3> SUFFICES ASSUME Ended PROVE Recovered({"validated_cloud", "scan"})'
      OBVIOUS
    <3>1. CASE Recovered({"validated_cloud", "scan"})
      BY <1>3, <1>4, <3>1 DEF Recovered
    <3>2. CASE cloudIn = Cloud(RecoveredAt, "none")
      <4>1. cloudIn.stamp = RecoveredAt /\ cloudIn.defect = "none" /\ clock = RecoveredAt
        BY <2>1, <3>2 DEF Cloud, ClockPace
      <4>2. GateAccepts(cloudIn)
        BY <1>1, <2>1, <4>1, Times DEF GateAccepts, CloudPace
      <4>3. Publish({"validated_cloud", "scan"}, RecoveredAt)
        BY <1>2, <4>1, <4>2
      <4>4. QED
        BY <1>3, <4>3, NothingMissed DEF Recovered
    <3>3. QED
      BY <2>1, <3>1, <3>2 DEF CloudPace
  <2>8. ASSUME kind \in CloudFaults \cup {"tf_loss"}, nextEvent > 2 PROVE noticed'
    <3>1. CASE noticed
      BY <1>2, <3>1
    <3>2. CASE clock = FaultAt /\ cloudIn = CloudOf(Event("suppressed", FaultAt))
      <4>1. /\ ~HasInputs(Event("suppressed", FaultAt))
            /\ AtFault(Event("suppressed", FaultAt))
            /\ Event("suppressed", FaultAt).clock = FaultAt
        BY <2>8 DEF HasInputs, AtFault, Event, CloudFaults
      <4>2. \/ kind = "stale_cloud" /\ cloudIn = Cloud(1, "none")
            \/ kind # "stale_cloud" /\ cloudIn = Cloud(FaultAt, kind)
        BY <2>8, <3>2, <4>1 DEF CloudOf, CloudFaults, OdometryFaults
      <4>3. ~GateAccepts(cloudIn) \/ cloudIn.defect = "tf_loss"
        BY <2>8, <3>2, <4>2, Times, Pace DEF GateAccepts, Cloud, CloudFaults
      <4>4. QED
        BY <1>2, <4>3
    <3>3. QED
      BY <2>1, <2>8, <3>1, <3>2 DEF CloudPace
  <2>9. CloudPace'
    BY <1>1, <1>3, <2>6, <2>7, <2>8 DEF CloudPace
  <2>10. QED
    BY <2>2, <2>5, <2>9
<1>7. QED
  BY <1>1, <1>5, <1>6, GoodWhileRunning

-----------------------------------------------------------------------------
(* The adapter in a good run.                                              *)

LEMMA StillContinuous ==
  ASSUME NEW t \in Nat, NEW h \in Nat, h <= t, t - h <= MaxGap,
         previousSample = Sample(h, 0)
  PROVE  Adapter!Valid(Sample(t, 0))
<1>1. /\ Sample(t, 0).pose.x = 0 /\ Sample(t, 0).pose.heading = 0
      /\ Sample(t, 0).stamp = t /\ Sample(t, 0).finite = TRUE
      /\ Sample(h, 0).pose.x = 0 /\ Sample(h, 0).pose.heading = 0
      /\ Sample(h, 0).stamp = h
  BY SampleIsData
<1>2. ~Adapter!Jump(Sample(t, 0).pose, Sample(h, 0).pose)
  BY <1>1, ProfileAssumption DEF Adapter!Jump, Adapter!Distance, Adapter!YawDelta
<1>3. QED
  BY <1>1, <1>2, Pace DEF Adapter!Valid, Adapter!Continuous, Adapter!StampGap

LEMMA InOrder ==
  ASSUME NEW t \in Nat, NEW x \in {0, 5}, t > 0, previousTimestamp <= t
  PROVE  Adapter!ContractAccepts(Sample(t, x))
BY SampleIsData DEF Adapter!ContractAccepts

(* What handling a sample does beyond the adapter.                         *)
LEMMA Handling ==
  ASSUME HandleOdometry, conditions = "good"
  PROVE  /\ Running /\ odomIn # NoSample /\ odomIn' = NoSample
         /\ UNCHANGED <<runner, matrix, index, stage, captures, clock, nextEvent, cloudIn,
                        gatePrevious, markers, conditions, sinceCheck>>
         /\ \/ /\ Adapter!HealthySample(odomIn) \/ Adapter!RecoveredSample(odomIn)
               /\ observed' = observed \cup [stream : {"odom", "tf"}, stamp : {odomIn.stamp}]
               /\ emitted' = emitted \cup [stream : {"odom", "tf"}, stamp : {odomIn.stamp}]
               /\ noticed' = noticed
            \/ /\ \/ Adapter!RejectSample(odomIn) /\ noticed' = TRUE
                  \/ Adapter!FaultSample(odomIn) /\ noticed' = TRUE
                  \/ Adapter!PendingSample(odomIn) /\ noticed' = noticed
               /\ UNCHANGED <<observed, emitted>>
<1>1. /\ Running /\ odomIn # NoSample /\ odomIn' = NoSample
      /\ UNCHANGED <<runner, matrix, index, stage, captures, clock, nextEvent, cloudIn,
                     gatePrevious, markers, conditions>>
  BY DEF HandleOdometry, runner, fixture
<1>2. CASE /\ Adapter!HealthySample(odomIn) \/ Adapter!RecoveredSample(odomIn)
           /\ Publish({"odom", "tf"}, odomIn.stamp) /\ UNCHANGED noticed
  <2>1. sinceCheck' = sinceCheck
    BY <1>2 DEF Adapter!HealthySample, Adapter!RecoveredSample, Adapter!Receive
  <2>2. emitted' = emitted \cup [stream : {"odom", "tf"}, stamp : {odomIn.stamp}]
    BY <1>2 DEF Publish
  <2>3. QED
    BY <1>1, <1>2, <2>1, <2>2, NothingMissed
<1>3. CASE /\ \/ Adapter!RejectSample(odomIn) /\ noticed' = TRUE
              \/ Adapter!FaultSample(odomIn) /\ noticed' = TRUE
              \/ Adapter!PendingSample(odomIn) /\ UNCHANGED noticed
           /\ UNCHANGED <<observed, losses, emitted>>
  <2>1. sinceCheck' = sinceCheck
    BY <1>3 DEF Adapter!RejectSample, Adapter!FaultSample, Adapter!PendingSample,
       Adapter!Receive
  <2>2. QED
    BY <1>1, <1>3, <2>1
<1>4. QED
  BY <1>2, <1>3 DEF HandleOdometry

(* A sample of an unbroken stream goes out, as does the second of two that *)
(* end a recovery.                                                         *)
LEMMA SampleGoesOut ==
  ASSUME HandleOdometry, conditions = "good", NEW t \in Nat, odomIn = Sample(t, 0),
         clock = t, Adapter!ContractAccepts(odomIn), Adapter!Valid(odomIn),
         ~recoveryRequired \/ consecutiveValid = 1
  PROVE  /\ observed' = observed \cup [stream : {"odom", "tf"}, stamp : {t}]
         /\ emitted' = emitted \cup [stream : {"odom", "tf"}, stamp : {t}]
         /\ noticed' = noticed /\ Idle' /\ Healthy(t)' /\ ~lossReported' /\ silence' = 0
<1>1. odomIn.stamp = t /\ Sample(t, 0)' = Sample(t, 0)
  BY SampleIsData DEF Sample
<1>2. ~Adapter!RejectSample(odomIn) /\ ~Adapter!FaultSample(odomIn)
  BY DEF Adapter!RejectSample, Adapter!FaultSample
<1>3. ~Adapter!PendingSample(odomIn)
  BY Pace DEF Adapter!PendingSample
<1>4. /\ Adapter!HealthySample(odomIn) \/ Adapter!RecoveredSample(odomIn)
      /\ observed' = observed \cup [stream : {"odom", "tf"}, stamp : {t}]
      /\ emitted' = emitted \cup [stream : {"odom", "tf"}, stamp : {t}]
      /\ noticed' = noticed /\ odomIn' = NoSample /\ clock' = clock
  BY <1>1, <1>2, <1>3, Handling
<1>5. /\ previousSample' = odomIn /\ previousTimestamp' = t /\ silence' = 0
      /\ receivedOnce' = TRUE /\ lossReported' = FALSE /\ ~recoveryRequired'
  BY <1>1, <1>4 DEF Adapter!HealthySample, Adapter!RecoveredSample, Adapter!Receive,
     Adapter!Publish
<1>6. Healthy(t)'
  BY <1>1, <1>4, <1>5 DEF Healthy
<1>7. QED
  BY <1>4, <1>5, <1>6 DEF Idle

(* How far the recovery is from the baseline.                              *)
LEMMA TimeToRecovery ==
  /\ kind \notin {"odom_loss", "process_exit"} => RecoveredAt - Baseline <= MaxGap
  /\ kind = "odom_loss" => RecoveredAt - 1 - Baseline >= Adapter!MaxSilence
BY Pace, Times DEF RecoveredAt, Delay

(* The seed of a recovery is the first of them.                            *)
LEMMA SeedCounts ==
  ASSUME HandleOdometry, conditions = "good", Waits(RecoveredAt - 1, 0),
         \/ Broken /\ kind = "odom_jump"
         \/ Lost
  PROVE  Half' /\ Idle' /\ noticed' = noticed /\ UNCHANGED <<observed, emitted>>
<1>1. /\ RecoveredAt - 1 \in Nat /\ RecoveredAt - 1 > FaultAt /\ FaultAt > Baseline
      /\ FaultAt \in Nat /\ Baseline \in Nat /\ RecoveredAt \in Nat
  BY Times
<1>2. /\ odomIn = Sample(RecoveredAt - 1, 0) /\ clock = RecoveredAt - 1
      /\ odomIn.stamp = RecoveredAt - 1
  BY <1>1, SampleIsData DEF Waits
<1>3. Adapter!ContractAccepts(odomIn)
  BY <1>1, <1>2, InOrder DEF Broken, Lost
<1>4. Adapter!Valid(odomIn)
  <2>1. CASE Broken /\ kind = "odom_jump"
    BY <1>1, <1>2, <2>1, TimeToRecovery, StillContinuous, Pace DEF Broken
  <2>2. CASE Lost
    BY <2>2 DEF Lost, Adapter!Valid
  <2>3. QED
    BY <2>1, <2>2
<1>5. recoveryRequired /\ consecutiveValid = 0
  BY DEF Broken, Lost
<1>6. /\ ~Adapter!RejectSample(odomIn) /\ ~Adapter!FaultSample(odomIn)
      /\ ~Adapter!HealthySample(odomIn) /\ ~Adapter!RecoveredSample(odomIn)
  BY <1>3, <1>4, <1>5, Pace DEF Adapter!RejectSample, Adapter!FaultSample,
     Adapter!HealthySample, Adapter!RecoveredSample
<1>7. /\ Adapter!PendingSample(odomIn) /\ noticed' = noticed /\ odomIn' = NoSample
      /\ UNCHANGED <<observed, emitted, clock, matrix, index>>
  BY <1>6, Handling
<1>8. /\ previousSample' = odomIn /\ previousTimestamp' = odomIn.stamp /\ silence' = 0
      /\ recoveryRequired' = recoveryRequired /\ consecutiveValid' = 1
  BY <1>5, <1>7 DEF Adapter!PendingSample, Adapter!Receive
<1>9. RecoveredAt' = RecoveredAt /\ Sample(RecoveredAt - 1, 0)' = Sample(RecoveredAt - 1, 0)
  BY <1>7, ScenarioKept DEF Sample
<1>10. Half'
  BY <1>1, <1>2, <1>5, <1>7, <1>8, <1>9 DEF Half
<1>11. QED
  BY <1>7, <1>10 DEF Idle

(* A stamp that goes back is refused, a jump is a fault.                   *)
LEMMA RegressionRefused ==
  ASSUME HandleOdometry, conditions = "good", odomIn = Sample(Baseline - 1, 0),
         Healthy(Baseline)
  PROVE  /\ Healthy(Baseline)' /\ Idle' /\ noticed' = TRUE
         /\ UNCHANGED <<observed, emitted>>
<1>1. Baseline - 1 \in Nat /\ Baseline \in Nat
  BY Times
<1>2. ~Adapter!ContractAccepts(odomIn)
  <2>1. odomIn.stamp = Baseline - 1
    BY <1>1, SampleIsData
  <2>2. QED
    BY <1>1, <2>1 DEF Healthy, Adapter!ContractAccepts
<1>3. /\ ~Adapter!FaultSample(odomIn) /\ ~Adapter!PendingSample(odomIn)
      /\ ~Adapter!HealthySample(odomIn) /\ ~Adapter!RecoveredSample(odomIn)
  BY <1>2 DEF Adapter!FaultSample, Adapter!PendingSample, Adapter!HealthySample,
     Adapter!RecoveredSample, Adapter!Receive
<1>4. /\ Adapter!RejectSample(odomIn) /\ noticed' = TRUE /\ odomIn' = NoSample
      /\ UNCHANGED <<observed, emitted, clock>>
  BY <1>3, Handling
<1>5. UNCHANGED <<previousSample, previousTimestamp, recoveryRequired, receivedOnce, silence>>
  BY <1>4 DEF Adapter!RejectSample, Adapter!continuity
<1>6. Healthy(Baseline)'
  BY <1>4, <1>5 DEF Healthy, Sample
<1>7. QED
  BY <1>4, <1>6 DEF Idle

LEMMA JumpFaults ==
  ASSUME HandleOdometry, conditions = "good", Waits(FaultAt, 5), Healthy(Baseline)
  PROVE  /\ Broken' /\ Idle' /\ noticed' = TRUE /\ UNCHANGED <<observed, emitted>>
<1>1. /\ FaultAt \in Nat /\ Baseline \in Nat /\ FaultAt > Baseline
      /\ FaultAt - Baseline <= MaxGap
  BY Times, Pace
<1>2. /\ odomIn = Sample(FaultAt, 5) /\ odomIn.stamp = FaultAt /\ clock = FaultAt
      /\ odomIn.pose.x = 5
  BY <1>1, SampleIsData DEF Waits
<1>3. /\ Sample(Baseline, 0).stamp = Baseline /\ Sample(Baseline, 0).pose.x = 0
      /\ Sample(Baseline, 0) # NoSample /\ MaxTranslation < 5
  BY <1>1, SampleIsData, RecoveryAssumption
<1>4. Adapter!ContractAccepts(odomIn)
  BY <1>1, <1>2, InOrder DEF Healthy
<1>5. Adapter!Jump(odomIn.pose, Sample(Baseline, 0).pose)
  BY <1>3, <1>2, ProfileAssumption DEF Adapter!Jump, Adapter!Distance
<1>6. ~Adapter!Valid(odomIn)
  BY <1>3, <1>5 DEF Healthy, Adapter!Valid, Adapter!Continuous
<1>7. /\ ~Adapter!RejectSample(odomIn) /\ ~Adapter!PendingSample(odomIn)
      /\ ~Adapter!HealthySample(odomIn) /\ ~Adapter!RecoveredSample(odomIn)
  BY <1>4, <1>6 DEF Adapter!RejectSample, Adapter!PendingSample,
     Adapter!HealthySample, Adapter!RecoveredSample
<1>8. /\ Adapter!FaultSample(odomIn) /\ noticed' = TRUE /\ odomIn' = NoSample
      /\ UNCHANGED <<observed, emitted, clock>>
  BY <1>7, Handling
<1>9. ~Adapter!StampGap(odomIn, previousSample)
  BY <1>3, <1>1, <1>2, Pace DEF Healthy, Adapter!StampGap
<1>10. /\ previousSample' = previousSample /\ previousTimestamp' = FaultAt /\ silence' = 0
      /\ recoveryRequired' = TRUE /\ consecutiveValid' = 0
  BY <1>2, <1>8, <1>9 DEF Adapter!FaultSample, Adapter!Receive, Adapter!RecoveryBaseline
<1>11. Broken'
  BY <1>1, <1>2, <1>8, <1>10 DEF Broken, Healthy, Sample, FaultAt
<1>12. QED
  BY <1>8, <1>11 DEF Idle

(* A step of the adapter leaves the clock and the clouds in pace.          *)
LEMMA ClockAndCloudKept ==
  ASSUME RunnerTypes, ClockPace, CloudPace,
         UNCHANGED <<matrix, index, captures, clock, nextEvent, cloudIn, gatePrevious>>,
         sinceCheck' \in Nat, noticed => noticed', observed \subseteq observed'
  PROVE  ClockPace' /\ CloudPace'
<1>1. /\ kind' = kind /\ RecoveredAt' = RecoveredAt /\ Events' = Events /\ Due' = Due
      /\ Ended' = Ended
  BY EventsKept, ScenarioKept DEF Due, Ended
<1>2. ClockPace'
  BY <1>1 DEF ClockPace, FaultAt
<1>3. \A streams : Recovered(streams) => Recovered(streams)'
  BY <1>1 DEF Recovered
<1>4. CloudOf(Event("suppressed", FaultAt))' = CloudOf(Event("suppressed", FaultAt))
  BY <1>1 DEF CloudOf, HasInputs, AtFault, Event, FaultAt, Cloud, NoCloud
<1>5. CloudPace'
  BY <1>1, <1>3, <1>4 DEF CloudPace, FaultAt, Cloud
<1>6. QED
  BY <1>2, <1>5

(* What is published at another time than the fault's is no jump.          *)
LEMMA NoJumpOut ==
  ASSUME NEW stamp, stamp \notin FaultWindow, ~JumpOut,
         \/ emitted' = emitted
         \/ emitted' = emitted \cup [stream : {"odom", "tf"}, stamp : {stamp}]
  PROVE  ~JumpOut'
BY DEF JumpOut, OdomAt, FaultWindow, FaultAt

(* The sample of the baseline.                                             *)
LEMMA BaselineHandled ==
  ASSUME HandleOdometry, conditions = "good", sinceCheck \in Nat, BaselinePace
  PROVE  /\ BaselinePace' /\ observed \subseteq observed' /\ noticed' = noticed
         /\ emitted' = emitted \cup [stream : {"odom", "tf"}, stamp : {Baseline}]
<1>1. /\ Waits(Baseline, 0) /\ Fresh /\ clock' = clock /\ sinceCheck' = sinceCheck
      /\ Baseline \in Nat /\ Baseline > 0
  BY Handling, Times DEF BaselinePace, Idle
<1>2. odomIn = Sample(Baseline, 0) /\ clock = Baseline
  BY <1>1 DEF Waits
<1>3. Adapter!ContractAccepts(odomIn) /\ Adapter!Valid(odomIn)
  BY <1>1, <1>2, InOrder DEF Fresh, Adapter!Valid
<1>4. /\ emitted' = emitted \cup [stream : {"odom", "tf"}, stamp : {Baseline}]
      /\ observed' = observed \cup [stream : {"odom", "tf"}, stamp : {Baseline}]
      /\ noticed' = noticed /\ Idle' /\ Healthy(Baseline)' /\ ~lossReported' /\ silence' = 0
  BY <1>1, <1>2, <1>3, SampleGoesOut DEF Fresh
<1>5. Lesser(Adapter!MaxSilence, clock - Baseline)' = 0
  BY <1>1, <1>2, Pace DEF Lesser, Adapter!MaxSilence, Adapter!LossDeadline
<1>6. Awaited'
  BY <1>1, <1>4, <1>5, Pace DEF Awaited
<1>7. QED
  BY <1>4, <1>6 DEF BaselinePace

(* The sample of the fault, and the seed of the recovery.                  *)
LEMMA FaultHandled ==
  ASSUME HandleOdometry, conditions = "good", FaultPace, kind # "process_exit"
  PROVE  /\ FaultPace' /\ observed \subseteq observed' /\ (noticed => noticed')
         /\ kind = "odom_jump" => emitted' = emitted
<1>1. /\ UNCHANGED <<clock, matrix, index>> /\ kind' = kind /\ RecoveredAt' = RecoveredAt
      /\ ~Idle
      /\ Baseline \in Nat /\ FaultAt \in Nat /\ RecoveredAt \in Nat
      /\ 0 < Baseline /\ Baseline < FaultAt /\ FaultAt + 2 < RecoveredAt
  BY Handling, ScenarioKept, Times DEF Idle
<1>2. clock = FaultAt => clock' < RecoveredAt' - 1 /\ OnGrid'
  BY <1>1, GridStarts
<1>3. CASE kind \notin OdometryFaults
  <2>1. odomIn = Sample(FaultAt, 0) /\ clock = FaultAt /\ Healthy(Baseline)
    BY <1>1, <1>3 DEF FaultPace, Waits
  <2>2. Adapter!ContractAccepts(odomIn) /\ Adapter!Valid(odomIn) /\ ~recoveryRequired
    BY <1>1, <2>1, InOrder, StillContinuous, Pace DEF Healthy
  <2>3. Idle' /\ Healthy(FaultAt)' /\ observed \subseteq observed' /\ noticed' = noticed
    BY <1>1, <2>1, <2>2, SampleGoesOut
  <2>4. FaultPace'
    BY <1>1, <1>3, <2>3 DEF FaultPace, OdometryFaults, FaultAt
  <2>5. QED
    BY <1>3, <2>3, <2>4 DEF OdometryFaults
<1>4. CASE kind = "odom_regression"
  <2>1. \/ odomIn = Sample(Baseline - 1, 0) /\ clock = FaultAt /\ Healthy(Baseline)
        \/ noticed /\ Waits(RecoveredAt - 1, 0) /\ Healthy(Baseline)
    BY <1>1, <1>4 DEF FaultPace, Seeded
  <2>2. CASE odomIn = Sample(Baseline - 1, 0) /\ clock = FaultAt /\ Healthy(Baseline)
    <3>1. /\ Healthy(Baseline)' /\ Idle' /\ noticed' = TRUE
          /\ UNCHANGED <<observed, emitted>>
      BY <2>2, RegressionRefused
    <3>2. FaultPace'
      BY <1>1, <1>2, <1>4, <2>2, <3>1 DEF FaultPace, Seeded, OdometryFaults
    <3>3. QED
      BY <3>1, <3>2
  <2>3. CASE noticed /\ Waits(RecoveredAt - 1, 0) /\ Healthy(Baseline)
    <3>1. odomIn = Sample(RecoveredAt - 1, 0) /\ clock = RecoveredAt - 1
      BY <2>3 DEF Waits
    <3>2. RecoveredAt - 1 - Baseline <= MaxGap
      BY <1>1, <1>4, TimeToRecovery, Pace
    <3>3. Adapter!ContractAccepts(odomIn) /\ Adapter!Valid(odomIn) /\ ~recoveryRequired
      BY <1>1, <2>3, <3>1, <3>2, InOrder, StillContinuous DEF Healthy
    <3>4. /\ Idle' /\ Healthy(RecoveredAt - 1)' /\ observed \subseteq observed'
          /\ noticed' = noticed
      BY <1>1, <3>1, <3>3, SampleGoesOut
    <3>5. FaultPace'
      BY <1>1, <1>4, <2>3, <3>1, <3>4 DEF FaultPace, Seeded, OdometryFaults
    <3>6. QED
      BY <1>4, <3>4, <3>5
  <2>4. QED
    BY <2>1, <2>2, <2>3
<1>5. CASE kind = "odom_jump"
  <2>1. \/ Waits(FaultAt, 5) /\ Healthy(Baseline)
        \/ noticed /\ Waits(RecoveredAt - 1, 0) /\ Broken
    BY <1>1, <1>5 DEF FaultPace, Seeded
  <2>2. CASE Waits(FaultAt, 5) /\ Healthy(Baseline)
    <3>1. Broken' /\ Idle' /\ noticed' = TRUE /\ UNCHANGED <<observed, emitted>>
      BY <2>2, JumpFaults
    <3>2. clock = FaultAt
      BY <2>2 DEF Waits
    <3>3. FaultPace'
      BY <1>1, <1>2, <1>5, <3>1, <3>2 DEF FaultPace, Seeded, OdometryFaults
    <3>4. QED
      BY <3>1, <3>3
  <2>3. CASE noticed /\ Waits(RecoveredAt - 1, 0) /\ Broken
    <3>1. Half' /\ Idle' /\ noticed' = noticed /\ UNCHANGED <<observed, emitted>>
      BY <1>5, <2>3, SeedCounts
    <3>2. clock = RecoveredAt - 1
      BY <2>3 DEF Waits
    <3>3. FaultPace'
      BY <1>1, <1>5, <2>3, <3>1, <3>2 DEF FaultPace, Seeded, OdometryFaults
    <3>4. QED
      BY <3>1, <3>3
  <2>4. QED
    BY <2>1, <2>2, <2>3
<1>6. CASE kind = "odom_loss"
  <2>1. noticed /\ Waits(RecoveredAt - 1, 0) /\ Lost
    BY <1>1, <1>6 DEF FaultPace, Seeded
  <2>2. Half' /\ Idle' /\ noticed' = noticed /\ UNCHANGED <<observed, emitted>>
    BY <2>1, SeedCounts
  <2>3. clock = RecoveredAt - 1
    BY <2>1 DEF Waits
  <2>4. FaultPace'
    BY <1>1, <1>6, <2>1, <2>2, <2>3 DEF FaultPace, Seeded, OdometryFaults
  <2>5. QED
    BY <2>2, <2>4
<1>7. QED
  BY <1>3, <1>4, <1>5, <1>6 DEF OdometryFaults

(* The sample of the recovery is published, whatever the fault was.        *)
LEMMA RecoveryHandled ==
  ASSUME HandleOdometry, conditions = "good", RunnerTypes, HasRecovery,
         Waits(RecoveredAt, 0), Prepared
  PROVE  Recovered({"odom", "tf"})'
<1>1. /\ RecoveredAt' = RecoveredAt /\ kind \in Kinds
      /\ Baseline \in Nat /\ FaultAt \in Nat /\ RecoveredAt \in Nat
      /\ 0 < Baseline /\ Baseline < FaultAt /\ FaultAt + 2 < RecoveredAt
      /\ odomIn = Sample(RecoveredAt, 0) /\ clock = RecoveredAt
  BY Handling, ScenarioKept, KindKnown, Times DEF Waits
<1>2. MaxGap >= 1
  BY <1>1, Pace
<1>3. /\ Adapter!ContractAccepts(odomIn) /\ Adapter!Valid(odomIn)
      /\ ~recoveryRequired \/ consecutiveValid = 1
  <2>1. CASE kind = "process_exit"
    BY <1>1, <2>1, InOrder DEF Prepared, Fresh, Adapter!Valid
  <2>2. CASE kind = "odom_regression"
    <3>1. Healthy(RecoveredAt - 1)
      BY <2>2 DEF Prepared
    <3>2. Adapter!ContractAccepts(odomIn)
      BY <1>1, <3>1, InOrder DEF Healthy
    <3>3. Adapter!Valid(odomIn)
      BY <1>1, <1>2, <3>1, StillContinuous DEF Healthy
    <3>4. QED
      BY <3>1, <3>2, <3>3 DEF Healthy
  <2>3. CASE kind \in {"odom_jump", "odom_loss"}
    <3>1. Half
      BY <2>3 DEF Prepared
    <3>2. Adapter!ContractAccepts(odomIn)
      BY <1>1, <3>1, InOrder DEF Half
    <3>3. Adapter!Valid(odomIn)
      BY <1>1, <1>2, <3>1, StillContinuous DEF Half
    <3>4. QED
      BY <3>1, <3>2, <3>3 DEF Half
  <2>4. CASE kind \notin OdometryFaults \cup {"process_exit"}
    <3>1. Healthy(FaultAt)
      BY <2>4 DEF Prepared, OdometryFaults
    <3>2. Adapter!ContractAccepts(odomIn)
      BY <1>1, <3>1, InOrder DEF Healthy
    <3>3. RecoveredAt - FaultAt <= MaxGap
      BY <1>1, <2>4, TimeToRecovery, Pace DEF OdometryFaults
    <3>4. Adapter!Valid(odomIn)
      BY <1>1, <3>1, <3>3, StillContinuous DEF Healthy
    <3>5. QED
      BY <3>1, <3>2, <3>4 DEF Healthy
  <2>5. QED
    BY <2>1, <2>2, <2>3, <2>4 DEF OdometryFaults
<1>4. observed' = observed \cup [stream : {"odom", "tf"}, stamp : {RecoveredAt}]
  BY <1>1, <1>3, SampleGoesOut
<1>5. QED
  BY <1>1, <1>4 DEF Recovered

LEMMA HandleOdometryInPace ==
  ASSUME FaultInv, GoodInv, conditions = "good", HandleOdometry
  PROVE  GoodInv'
<1>1. /\ Running /\ odomIn # NoSample /\ RunnerTypes
      /\ UNCHANGED <<runner, matrix, index, stage, captures, clock, nextEvent, cloudIn,
                     gatePrevious, markers, conditions, sinceCheck>>
  BY Handling DEF FaultInv
<1>2. observed \subseteq observed' /\ (noticed => noticed') /\ ~Idle
  <2>1. observed \subseteq observed' /\ (noticed' = TRUE \/ noticed' = noticed)
    BY Handling
  <2>2. QED
    BY <1>1, <2>1 DEF Idle
<1>3. MarkersPace'
  BY <1>1, MarkersPaceKept DEF GoodInv
<1>4. ASSUME HasRecovery PROVE ClockPace' /\ OdometryPace' /\ CloudPace'
  <2>1. ClockPace /\ OdometryPace /\ CloudPace
    BY <1>1, <1>4 DEF GoodInv
  <2>2. ClockPace' /\ CloudPace'
    BY <1>1, <1>2, <2>1, ClockAndCloudKept DEF ClockPace
  <2>3. /\ kind' = kind /\ RecoveredAt' = RecoveredAt /\ Ended' = Ended
    BY <1>1, EventsKept, ScenarioKept DEF Ended
  <2>4. CASE Ended
    <3>1. Recovered({"odom", "tf"})'
      <4>1. CASE Recovered({"odom", "tf"})
        BY <1>2, <2>3, <4>1 DEF Recovered
      <4>2. CASE Waits(RecoveredAt, 0) /\ Prepared
        BY <1>1, <1>4, <4>2, RecoveryHandled
      <4>3. QED
        BY <2>1, <2>4, <4>1, <4>2 DEF OdometryPace
    <3>2. kind = "odom_jump" => ~JumpOut'
      <4>1. FaultInv'
        BY HandleOdometryKeeps
      <4>2. [stream |-> "odom", stamp |-> RecoveredAt'] \in emitted'
        BY <3>1, <4>1 DEF Recovered, FaultInv, OutputTypes
      <4>3. RecoveryOut'
        BY <2>3, <4>2, Times DEF RecoveryOut, OdomAt
      <4>4. QED
        BY <2>3, <4>1, <4>3 DEF FaultInv, JumpInv
    <3>3. QED
      BY <1>2, <2>1, <2>2, <2>3, <2>4, <3>1, <3>2 DEF OdometryPace
  <2>5. CASE ~Ended
    <3>1. /\ nextEvent \in {2, 3} /\ kind # "process_exit"
      BY <1>1, <1>2, <1>4, <2>1, <2>5, WhereInPlan DEF OdometryPace
    <3>2. nextEvent = 2 => /\ BaselinePace'
                           /\ emitted' = emitted \cup
                                [stream : {"odom", "tf"}, stamp : {Baseline}]
      BY <2>1, <2>5, BaselineHandled DEF OdometryPace, ClockPace
    <3>3. nextEvent = 3 => FaultPace' /\ (kind = "odom_jump" => emitted' = emitted)
      BY <2>1, <2>5, <3>1, FaultHandled DEF OdometryPace
    <3>4. kind = "odom_jump" => ~JumpOut'
      <4>1. Baseline \notin FaultWindow
        BY Times DEF FaultWindow
      <4>2. kind = "odom_jump" => ~JumpOut
        BY <2>1 DEF OdometryPace
      <4>3. nextEvent = 2 /\ kind = "odom_jump" => ~JumpOut'
        BY <3>2, <4>1, <4>2, NoJumpOut
      <4>4. nextEvent = 3 /\ kind = "odom_jump" => ~JumpOut'
        BY <3>3, <4>1, <4>2, NoJumpOut
      <4>5. QED
        BY <3>1, <4>3, <4>4
    <3>5. QED
      BY <1>1, <2>2, <2>3, <2>5, <3>1, <3>2, <3>3, <3>4 DEF OdometryPace
  <2>6. QED
    BY <2>4, <2>5
<1>5. QED
  BY <1>1, <1>3, <1>4, GoodWhileRunning

(* A loss is noticed of a lost odometry, or when there is nothing to lose. *)
LEMMA LossIsKnown ==
  ASSUME FaultInv, Running, HasRecovery, ClockPace, OdometryPace,
         receivedOnce, silence > MaxGap, ~lossReported
  PROVE  \/ Ended /\ Recovered({"odom", "tf"})
         \/ /\ ~Ended /\ nextEvent = 3 /\ kind = "odom_loss"
            /\ Idle /\ Awaited /\ clock < RecoveredAt - 1 /\ OnGrid
<1>1. /\ Baseline \in Nat /\ FaultAt \in Nat /\ RecoveredAt \in Nat /\ clock \in Nat
      /\ 0 < Baseline /\ Baseline < FaultAt /\ FaultAt + 2 < RecoveredAt
      /\ silence \in Int /\ MaxGap \in Nat /\ FaultAt - Baseline <= MaxGap
      /\ RunnerTypes /\ kind \in Kinds
  BY Times, Pace, KindKnown DEF FaultInv, FixtureInv, SampleInv
<1>2. MaxGap >= 1
  BY <1>1
<1>3. \A h \in Int : clock - h <= MaxGap => ~Healthy(h)
  BY <1>1 DEF Healthy
<1>4. ~Fresh /\ ~Lost
  BY DEF Fresh, Lost
<1>5. clock <= RecoveredAt
  <2>1. CASE Ended
    BY <1>1, <2>1 DEF ClockPace
  <2>2. CASE ~Ended
    <3>1. Due.clock <= RecoveredAt /\ clock < Due.clock
      BY <1>1, <2>2, WhereInPlan DEF Event, ClockPace
    <3>2. Due.clock \in Nat
      BY <1>1, <2>2, WhereInPlan DEF Event
    <3>3. QED
      BY <1>1, <3>1, <3>2
  <2>3. QED
    BY <2>1, <2>2
<1>6. ~Healthy(RecoveredAt - 1) /\ ~Half
  BY <1>1, <1>2, <1>3, <1>5 DEF Half
<1>7. kind \notin {"odom_loss", "process_exit"} => ~Healthy(Baseline)
  BY <1>1, <1>3, <1>5, TimeToRecovery
<1>8. kind \notin {"odom_loss", "process_exit"} => ~Healthy(FaultAt) /\ ~Broken
  BY <1>1, <1>3, <1>5, TimeToRecovery DEF Broken
<1>9. CASE Ended
  <2>1. ~Prepared
    BY <1>4, <1>6, <1>8 DEF Prepared
  <2>2. QED
    BY <1>9, <2>1 DEF OdometryPace
<1>10. CASE ~Ended
  <2>1. nextEvent # 1
    BY <1>4, <1>10 DEF OdometryPace
  <2>2. nextEvent # 2
    <3>1. ASSUME nextEvent = 2 PROVE FALSE
      <4>1. BaselinePace /\ clock < FaultAt
        BY <1>10, <3>1, WhereInPlan DEF OdometryPace, ClockPace, Event
      <4>2. ~Healthy(Baseline)
        BY <1>1, <1>3, <4>1
      <4>3. QED
        BY <1>4, <4>1, <4>2 DEF BaselinePace, Awaited
    <3>2. QED
      BY <3>1
  <2>3. nextEvent = 3 /\ FaultPace /\ kind # "process_exit"
    BY <1>10, <2>1, <2>2, WhereInPlan DEF OdometryPace
  <2>4. kind = "odom_loss"
    <3>1. kind \in OdometryFaults
      BY <1>7, <1>8, <2>3 DEF FaultPace, OdometryFaults
    <3>2. kind # "odom_regression"
      BY <1>6, <1>7, <2>3 DEF FaultPace, Seeded
    <3>3. kind # "odom_jump"
      BY <1>6, <1>7, <1>8, <2>3 DEF FaultPace, Seeded
    <3>4. QED
      BY <3>1, <3>2, <3>3 DEF OdometryFaults
  <2>5. Idle /\ Awaited /\ clock < RecoveredAt - 1 /\ OnGrid
    BY <1>4, <1>6, <2>3, <2>4 DEF FaultPace, Seeded
  <2>6. QED
    BY <1>10, <2>3, <2>4, <2>5
<1>11. QED
  BY <1>9, <1>10

LEMMA CheckLossInPace ==
  ASSUME FaultInv, GoodInv, conditions = "good", CheckLoss
  PROVE  GoodInv'
<1>1. /\ Running /\ RunnerTypes /\ sinceCheck' = 0
      /\ UNCHANGED <<runner, matrix, index, stage, captures, clock, nextEvent, cloudIn,
                     odomIn, gatePrevious, markers, observed, emitted, previousTimestamp,
                     receivedOnce, silence>>
  BY DEF CheckLoss, runner, fixture, inputs, observer, FaultInv, Adapter!CheckQuiet,
     Adapter!ReportLoss, Adapter!continuity
<1>2. \/ /\ ~(receivedOnce /\ silence > MaxGap) \/ lossReported
         /\ noticed' = noticed
         /\ UNCHANGED <<previousSample, recoveryRequired, consecutiveValid, lossReported>>
      \/ /\ receivedOnce /\ silence > MaxGap /\ ~lossReported
         /\ noticed' = TRUE /\ previousSample' = NoSample /\ recoveryRequired' = TRUE
         /\ consecutiveValid' = 0 /\ lossReported' = TRUE
  BY DEF CheckLoss, Adapter!CheckQuiet, Adapter!ReportLoss, Adapter!continuity,
     Adapter!LossExpired
<1>3. observed \subseteq observed' /\ (noticed => noticed')
  <2>1. noticed' = TRUE \/ noticed' = noticed
    BY <1>2
  <2>2. QED
    BY <1>1, <2>1
<1>4. MarkersPace'
  BY <1>1, MarkersPaceKept DEF GoodInv
<1>5. ASSUME HasRecovery PROVE ClockPace' /\ OdometryPace' /\ CloudPace'
  <2>1. ClockPace /\ OdometryPace /\ CloudPace
    BY <1>1, <1>5 DEF GoodInv
  <2>2. ClockPace' /\ CloudPace'
    BY <1>1, <1>3, <2>1, ClockAndCloudKept
  <2>3. JumpOut' => JumpOut
    BY <1>1 DEF JumpOut, OdomAt, FaultWindow, FaultAt
  <2>4. CASE /\ ~(receivedOnce /\ silence > MaxGap) \/ lossReported
             /\ noticed' = noticed
             /\ UNCHANGED <<previousSample, recoveryRequired, consecutiveValid, lossReported>>
    <3>1. ASSUME Awaited PROVE Awaited'
      <4>1. silence <= MaxGap
        BY <2>4, <3>1, Pace DEF Awaited, Healthy, FaultInv, SampleInv
      <4>2. Healthy(Baseline)' /\ ~lossReported'
        BY <1>1, <2>4, <3>1 DEF Awaited, Healthy, Sample
      <4>3. silence' >= Lesser(Adapter!MaxSilence, clock - Baseline)'
        BY <1>1, <3>1 DEF Awaited, Lesser, Adapter!MaxSilence, Adapter!LossDeadline
      <4>4. silence' - sinceCheck' <= MaxGap
        BY <1>1, <4>1 DEF FaultInv, SampleInv
      <4>5. QED
        BY <4>2, <4>3, <4>4 DEF Awaited
    <3>2. OdometryPace'
      BY <1>1, <1>3, <2>1, <2>3, <2>4, <3>1, OdometryPaceKept
    <3>3. QED
      BY <2>2, <3>2
  <2>5. CASE /\ receivedOnce /\ silence > MaxGap /\ ~lossReported
             /\ noticed' = TRUE /\ previousSample' = NoSample /\ recoveryRequired' = TRUE
             /\ consecutiveValid' = 0 /\ lossReported' = TRUE
    <3>1. /\ kind' = kind /\ RecoveredAt' = RecoveredAt /\ Ended' = Ended
      BY <1>1, EventsKept, ScenarioKept DEF Ended
    <3>2. CASE Ended /\ Recovered({"odom", "tf"})
      <4>1. Recovered({"odom", "tf"})'
        BY <1>1, <3>1, <3>2 DEF Recovered
      <4>2. OdometryPace'
        BY <2>1, <2>3, <2>5, <3>1, <3>2, <4>1 DEF OdometryPace
      <4>3. QED
        BY <2>2, <4>2
    <3>3. CASE /\ ~Ended /\ nextEvent = 3 /\ kind = "odom_loss"
               /\ Idle /\ Awaited /\ clock < RecoveredAt - 1 /\ OnGrid
      <4>1. Lost'
        BY <1>1, <2>5, <3>3 DEF Lost, Awaited, Healthy
      <4>2. Idle' /\ OnGrid' /\ clock' < RecoveredAt' - 1
        BY <1>1, <3>1, <3>3 DEF Idle, OnGrid, FaultAt
      <4>3. FaultPace'
        BY <2>5, <3>1, <3>3, <4>1, <4>2 DEF FaultPace, Seeded, OdometryFaults
      <4>4. nextEvent' = 3
        BY <1>1, <3>3
      <4>5. OdometryPace'
        BY <3>1, <3>3, <4>3, <4>4 DEF OdometryPace
      <4>6. QED
        BY <2>2, <4>5
    <3>4. QED
      BY <1>1, <1>5, <2>1, <2>5, <3>2, <3>3, LossIsKnown
  <2>6. QED
    BY <1>2, <2>4, <2>5
<1>6. QED
  BY <1>1, <1>4, <1>5, GoodWhileRunning

-----------------------------------------------------------------------------
(* The clock in a good run.                                                *)

LEMMA ClockMoves ==
  ASSUME FaultInv, conditions = "good", sinceCheck \in Nat, NEW t \in Nat, clock <= t,
         ClockTo(t), UNCHANGED <<matrix, index>>
  PROVE  /\ odomIn = NoSample /\ cloudIn = NoCloud /\ clock' = t /\ sinceCheck' \in Nat
         /\ sinceCheck + t - clock <= CheckPeriod + CheckLag
         /\ Fresh => Fresh'
         /\ Broken => Broken'
         /\ Lost => Lost'
         /\ Half => Half'
         /\ Awaited => Awaited'
         /\ \A h \in Int : Healthy(h) => Healthy(h)'
<1>1. /\ clock \in Nat /\ silence \in Int /\ MaxGap \in Nat /\ CheckPeriod \in Nat
      /\ CheckLag \in Nat
      /\ Adapter!MaxSilence = MaxGap + CheckPeriod + CheckLag + 1
      /\ FaultAt \in Nat /\ RecoveredAt \in Nat /\ Baseline \in Nat
      /\ RecoveredAt' = RecoveredAt
  BY Pace, Times, ScenarioKept DEF FaultInv, FixtureInv, SampleInv
<1>2. /\ odomIn = NoSample /\ cloudIn = NoCloud /\ clock' = t
      /\ sinceCheck + t - clock <= CheckPeriod + CheckLag
      /\ UNCHANGED <<previousTimestamp, previousSample, recoveryRequired,
                     consecutiveValid, receivedOnce, lossReported>>
  BY DEF ClockTo
<1>3. sinceCheck' = sinceCheck + t - clock
  BY <1>1, <1>2 DEF ClockTo, Lesser
<1>4. /\ silence' <= silence + t - clock /\ silence' \in Int
      /\ receivedOnce => silence' = Lesser(Adapter!MaxSilence, silence + t - clock)
  BY <1>1 DEF ClockTo, Lesser
<1>5. Fresh => Fresh'
  BY <1>2 DEF Fresh
<1>6. Broken => Broken'
  BY <1>1, <1>2, <1>4 DEF Broken, Sample, FaultAt
<1>7. Lost => Lost'
  BY <1>2 DEF Lost
<1>8. Half => Half'
  BY <1>1, <1>2, <1>4 DEF Half, Sample
<1>9. \A h \in Int : Healthy(h) => Healthy(h)'
  BY <1>1, <1>2, <1>4 DEF Healthy, Sample
<1>10. ASSUME Awaited PROVE Awaited'
  <2>1. receivedOnce /\ Healthy(Baseline)' /\ ~lossReported'
    BY <1>1, <1>2, <1>9, <1>10 DEF Awaited, Healthy
  <2>2. silence' >= Lesser(Adapter!MaxSilence, clock' - Baseline)
    <3>1. /\ silence >= Lesser(Adapter!MaxSilence, clock - Baseline)
          /\ silence' = Lesser(Adapter!MaxSilence, silence + t - clock)
      BY <1>4, <1>10, <2>1 DEF Awaited
    <3>2. QED
      BY <1>1, <1>2, <3>1 DEF Lesser
  <2>3. silence' - sinceCheck' <= MaxGap
    <3>1. silence - sinceCheck <= MaxGap
      BY <1>10 DEF Awaited
    <3>2. /\ silence \in Int /\ silence' \in Int /\ clock \in Int /\ MaxGap \in Int
          /\ sinceCheck \in Int /\ silence' <= silence + t - clock
      BY <1>1, <1>4
    <3>3. silence' - (sinceCheck + t - clock) <= MaxGap
      <4>1. \A a, b, c, d, e \in Int :
              a - c <= e /\ b <= a + t - d => b - (c + t - d) <= e
        OBVIOUS
      <4>2. QED
        BY <3>1, <3>2, <4>1
    <3>4. QED
      BY <1>3, <3>3
  <2>4. Lesser(Adapter!MaxSilence, clock - Baseline)'
          = Lesser(Adapter!MaxSilence, clock' - Baseline)
    BY DEF Lesser, Adapter!MaxSilence, Adapter!LossDeadline
  <2>5. QED
    BY <2>1, <2>2, <2>3, <2>4 DEF Awaited
<1>11. QED
  BY <1>1, <1>2, <1>3, <1>5, <1>6, <1>7, <1>8, <1>9, <1>10

(* A bad cloud was handled, and with it noticed, when the clock goes on.   *)
LEMMA BadCloudNoticed ==
  ASSUME CloudPace, cloudIn = NoCloud, kind \in CloudFaults \cup {"tf_loss"},
         nextEvent > 2
  PROVE  noticed
<1>1. /\ ~HasInputs(Event("suppressed", FaultAt)) /\ AtFault(Event("suppressed", FaultAt))
      /\ Event("suppressed", FaultAt).clock = FaultAt
  BY DEF HasInputs, AtFault, Event, CloudFaults
<1>2. \/ CloudOf(Event("suppressed", FaultAt)) = Cloud(1, "none")
      \/ CloudOf(Event("suppressed", FaultAt)) = Cloud(FaultAt, kind)
  BY <1>1 DEF CloudOf, CloudFaults, OdometryFaults
<1>3. CloudOf(Event("suppressed", FaultAt)) # NoCloud
  BY <1>2, Times DEF Cloud, NoCloud
<1>4. QED
  BY <1>3 DEF CloudPace

(* A seed that is awaited is not sent before the loss is reported: the     *)
(* timer has had the time.                                                 *)
LEMMA LossHadTime ==
  ASSUME FaultInv, kind = "odom_loss", clock <= RecoveredAt - 1, sinceCheck \in Nat,
         sinceCheck + (RecoveredAt - 1) - clock <= CheckPeriod + CheckLag
  PROVE  ~Awaited
<1>1. /\ clock \in Nat /\ silence \in Int /\ MaxGap \in Nat /\ CheckPeriod \in Nat
      /\ CheckLag \in Nat
      /\ Adapter!MaxSilence = MaxGap + CheckPeriod + CheckLag + 1
      /\ RecoveredAt \in Nat /\ Baseline \in Nat
      /\ RecoveredAt - 1 - Baseline >= Adapter!MaxSilence
  BY Pace, Times, TimeToRecovery DEF FaultInv, FixtureInv, SampleInv
<1>2. QED
  BY <1>1 DEF Awaited, Lesser

LEMMA AdvanceClockInPace ==
  ASSUME FaultInv, GoodInv, conditions = "good", AdvanceClock
  PROVE  GoodInv'
<1>1. /\ Running /\ RunnerTypes /\ clock \in Nat /\ FixtureTick \in Nat /\ FixtureTick > 1
      /\ clock + FixtureTick \in Nat /\ ClockTo(clock + FixtureTick)
      /\ nextEvent <= Len(Events) /\ Len(Events) \in Nat /\ nextEvent \in 1..4
      /\ clock + FixtureTick < Due.clock
      /\ UNCHANGED <<runner, matrix, index, stage, captures, nextEvent, cloudIn, odomIn,
                     gatePrevious, markers, observed, emitted, noticed>>
  BY Times, Pace, EventFacts
     DEF AdvanceClock, FixtureAlive, FaultInv, FixtureInv, runner, inputs, observer, history
<1>2. MarkersPace'
  BY <1>1, MarkersPaceKept DEF GoodInv
<1>3. ASSUME HasRecovery PROVE ClockPace' /\ OdometryPace' /\ CloudPace'
  <2>1. ClockPace /\ OdometryPace /\ CloudPace
    BY <1>1, <1>3 DEF GoodInv
  <2>2. /\ odomIn = NoSample /\ cloudIn = NoCloud /\ clock' = clock + FixtureTick
        /\ sinceCheck' \in Nat /\ Idle /\ Idle'
        /\ Fresh => Fresh'
        /\ Broken => Broken'
        /\ Lost => Lost'
        /\ Half => Half'
        /\ Awaited => Awaited'
        /\ \A h \in Int : Healthy(h) => Healthy(h)'
    <3>1. sinceCheck \in Nat /\ clock <= clock + FixtureTick
      BY <1>1, <2>1 DEF ClockPace
    <3>2. QED
      BY <1>1, <3>1, ClockMoves DEF Idle
  <2>3. /\ kind' = kind /\ RecoveredAt' = RecoveredAt /\ Events' = Events /\ Due' = Due
        /\ Ended' = Ended /\ ~Ended
    BY <1>1, EventsKept, ScenarioKept DEF Due, Ended
  <2>4. ClockPace'
    BY <1>1, <2>1, <2>2, <2>3, Times DEF ClockPace, FaultAt
  <2>5. CloudPace'
    <3>1. gatePrevious' <= clock' /\ cloudIn'.stamp <= clock'
      BY <1>1, <2>1, <2>2 DEF CloudPace, FaultInv, CloudInv, NoCloud
    <3>2. kind \in CloudFaults \cup {"tf_loss"} /\ nextEvent > 2 => noticed
      BY <2>1, <2>2, BadCloudNoticed
    <3>3. QED
      BY <1>1, <2>3, <3>1, <3>2 DEF CloudPace
  <2>6. JumpOut' = JumpOut
    BY <1>1 DEF JumpOut, OdomAt, FaultWindow, FaultAt
  <2>7. BaselinePace => BaselinePace'
    BY <1>1, <2>2, SampleIsData, Times DEF BaselinePace, Waits
  <2>8. ASSUME nextEvent = 3, FaultPace PROVE FaultPace'
    <3>1. kind # "process_exit" /\ Due.clock = RecoveredAt
      BY <1>1, <1>3, <2>3, <2>8, WhereInPlan DEF Event
    <3>2. /\ RecoveredAt \in Nat /\ FaultAt \in Nat /\ Baseline \in Nat
          /\ clock < RecoveredAt - 1 /\ clock' < RecoveredAt
      BY <1>1, <2>2, <3>1, Times
    <3>3. OnGrid => OnGrid' /\ clock' < RecoveredAt' - 1
      <4>1. OnGrid => OnGrid'
        BY <1>1, <2>2, GridAdvances
      <4>2. ASSUME OnGrid' PROVE clock' # RecoveredAt - 1
        <5>1. PICK n \in Nat : clock' = FaultAt + n * FixtureTick
          BY <4>2 DEF OnGrid, FaultAt
        <5>2. QED
          BY <3>1, <5>1, OffTheSeed
      <4>3. QED
        BY <1>1, <2>2, <2>3, <3>2, <4>1, <4>2
    <3>4. /\ ~Waits(FaultAt, 0) /\ ~Waits(FaultAt, 5) /\ ~Waits(RecoveredAt - 1, 0)
          /\ odomIn # Sample(Baseline - 1, 0)
      <4>1. RecoveredAt - 1 \in Nat /\ Baseline - 1 \in Nat
        BY Times
      <4>2. QED
        BY <2>2, <3>2, <4>1, SampleIsData DEF Waits
    <3>5. CASE kind \notin OdometryFaults
      BY <1>1, <2>2, <2>3, <2>8, <3>2, <3>4, <3>5 DEF FaultPace, OdometryFaults, FaultAt
    <3>6. CASE kind = "odom_regression"
      <4>1. noticed /\ Healthy(Baseline) /\ OnGrid
        BY <2>8, <3>2, <3>4, <3>6 DEF FaultPace, Seeded
      <4>2. QED
        BY <1>1, <2>2, <2>3, <3>2, <3>3, <3>6, <4>1 DEF FaultPace, Seeded, OdometryFaults
    <3>7. CASE kind = "odom_jump"
      <4>1. noticed /\ Broken /\ OnGrid
        BY <2>8, <3>2, <3>4, <3>7 DEF FaultPace, Seeded
      <4>2. QED
        BY <1>1, <2>2, <2>3, <3>3, <3>7, <4>1 DEF FaultPace, Seeded, OdometryFaults
    <3>8. CASE kind = "odom_loss"
      <4>1. OnGrid /\ (Awaited \/ (noticed /\ Lost))
        BY <2>8, <3>2, <3>4, <3>8 DEF FaultPace, Seeded
      <4>2. QED
        BY <1>1, <2>2, <2>3, <3>3, <3>8, <4>1 DEF FaultPace, Seeded, OdometryFaults
    <3>9. QED
      BY <3>5, <3>6, <3>7, <3>8 DEF OdometryFaults
  <2>9. OdometryPace'
    BY <1>1, <2>1, <2>2, <2>3, <2>6, <2>7, <2>8 DEF OdometryPace
  <2>10. QED
    BY <2>4, <2>5, <2>9
<1>4. QED
  BY <1>1, <1>2, <1>3, GoodWhileRunning

(* The seed meets an adapter that has noticed the fault.                   *)
LEMMA SeedOdometryInPace ==
  ASSUME FaultInv, GoodInv, conditions = "good", SeedOdometry
  PROVE  GoodInv'
<1>1. /\ Running /\ RunnerTypes /\ clock \in Nat
      /\ nextEvent <= Len(Events) /\ Len(Events) \in Nat /\ nextEvent \in 1..4
      /\ ClockTo(Due.clock - 1) /\ odomIn' = Sample(Due.clock - 1, 0)
      /\ Due.phase = "recovered" /\ kind \in OdometryFaults /\ clock < Due.clock - 1
      /\ UNCHANGED <<runner, matrix, index, stage, captures, nextEvent, cloudIn,
                     gatePrevious, markers, observed, emitted, noticed>>
  BY EventFacts
     DEF SeedOdometry, SeedDue, FixtureAlive, FaultInv, FixtureInv, runner, observer, history
<1>2. MarkersPace'
  BY <1>1, MarkersPaceKept DEF GoodInv
<1>3. ASSUME HasRecovery PROVE ClockPace' /\ OdometryPace' /\ CloudPace'
  <2>1. ClockPace /\ OdometryPace /\ CloudPace
    BY <1>1, <1>3 DEF GoodInv
  <2>2. ~Ended /\ nextEvent = 3 /\ Due.clock = RecoveredAt /\ kind # "process_exit"
    BY <1>1, <1>3, WhereInPlan DEF Ended, Event, OdometryFaults
  <2>3. /\ RecoveredAt \in Nat /\ FaultAt \in Nat /\ RecoveredAt - 1 \in Nat
        /\ RecoveredAt - 1 > FaultAt /\ FaultAt > 0 /\ Baseline - 1 \in Nat
        /\ Baseline \in Int
    BY Times
  <2>4. /\ odomIn = NoSample /\ cloudIn = NoCloud /\ clock' = RecoveredAt - 1
        /\ sinceCheck' \in Nat /\ Idle /\ sinceCheck \in Nat
        /\ sinceCheck + (RecoveredAt - 1) - clock <= CheckPeriod + CheckLag
        /\ Broken => Broken'
        /\ Lost => Lost'
        /\ \A h \in Int : Healthy(h) => Healthy(h)'
    <3>1. sinceCheck \in Nat /\ clock <= RecoveredAt - 1
      BY <1>1, <2>1, <2>2, <2>3 DEF ClockPace
    <3>2. QED
      BY <1>1, <2>2, <2>3, <3>1, ClockMoves DEF Idle
  <2>5. /\ kind' = kind /\ RecoveredAt' = RecoveredAt /\ Events' = Events /\ Due' = Due
        /\ Ended' = Ended
    BY <1>1, EventsKept, ScenarioKept DEF Due, Ended
  <2>6. ClockPace'
    BY <1>1, <2>2, <2>3, <2>4, <2>5 DEF ClockPace, FaultAt
  <2>7. CloudPace'
    <3>1. gatePrevious' <= clock' /\ cloudIn'.stamp <= clock'
      BY <1>1, <2>1, <2>2, <2>3, <2>4 DEF CloudPace, FaultInv, CloudInv, NoCloud
    <3>2. kind \notin CloudFaults \cup {"tf_loss"}
      BY <1>1 DEF OdometryFaults, CloudFaults
    <3>3. QED
      BY <1>1, <2>2, <2>5, <3>1, <3>2 DEF CloudPace
  <2>8. JumpOut' = JumpOut
    BY <1>1 DEF JumpOut, OdomAt, FaultWindow, FaultAt
  <2>9. Waits(RecoveredAt - 1, 0)'
    BY <1>1, <2>2, <2>4, <2>5 DEF Waits, Sample
  <2>10. FaultPace'
    <3>1. /\ ~Waits(FaultAt, 5) /\ ~Waits(RecoveredAt - 1, 0)
          /\ odomIn # Sample(Baseline - 1, 0) /\ clock < RecoveredAt - 1
          /\ clock # RecoveredAt - 1 /\ clock <= RecoveredAt - 1
      <4>1. clock < RecoveredAt - 1 /\ clock # RecoveredAt - 1 /\ clock <= RecoveredAt - 1
        BY <1>1, <2>2, <2>3
      <4>2. QED
        BY <2>3, <2>4, <4>1, SampleIsData DEF Waits
    <3>2. FaultPace
      BY <2>1, <2>2 DEF OdometryPace
    <3>3. CASE kind = "odom_regression"
      <4>1. noticed /\ Healthy(Baseline)
        BY <3>1, <3>2, <3>3 DEF FaultPace, Seeded
      <4>2. QED
        BY <1>1, <2>3, <2>4, <2>5, <2>9, <3>3, <4>1 DEF FaultPace, Seeded, OdometryFaults
    <3>4. CASE kind = "odom_jump"
      <4>1. noticed /\ Broken
        BY <3>1, <3>2, <3>4 DEF FaultPace, Seeded
      <4>2. QED
        BY <1>1, <2>4, <2>5, <2>9, <3>4, <4>1 DEF FaultPace, Seeded, OdometryFaults
    <3>5. CASE kind = "odom_loss"
      <4>1. ~Awaited
        BY <2>4, <3>1, <3>5, LossHadTime
      <4>2. noticed /\ Lost
        BY <3>1, <3>2, <3>5, <4>1 DEF FaultPace, Seeded
      <4>3. QED
        BY <1>1, <2>4, <2>5, <2>9, <3>5, <4>2 DEF FaultPace, Seeded, OdometryFaults
    <3>6. QED
      BY <1>1, <3>3, <3>4, <3>5 DEF OdometryFaults
  <2>11. OdometryPace'
    BY <1>1, <2>1, <2>2, <2>5, <2>8, <2>10 DEF OdometryPace
  <2>12. QED
    BY <2>6, <2>7, <2>11
<1>4. QED
  BY <1>1, <1>2, <1>3, GoodWhileRunning

(* What an event of a recovering attempt publishes.                        *)
LEMMA EventInputs ==
  ASSUME NEW at \in Nat
  PROVE  /\ \A phase \in {"baseline", "recovered"} :
              /\ OdometryOf(Event(phase, at)) = Sample(at, 0)
              /\ CloudOf(Event(phase, at)) = Cloud(at, "none")
         /\ kind # "process_exit" =>
              /\ kind \notin OdometryFaults =>
                   OdometryOf(Event("suppressed", at)) = Sample(at, 0)
              /\ kind = "odom_regression" =>
                   OdometryOf(Event("suppressed", at)) = Sample(Baseline - 1, 0)
              /\ kind = "odom_jump" => OdometryOf(Event("suppressed", at)) = Sample(at, 5)
              /\ kind = "odom_loss" => OdometryOf(Event("suppressed", at)) = NoSample
              /\ \E defect : CloudOf(Event("suppressed", at))
                               \in {Cloud(1, "none"), Cloud(at, defect)}
BY DEF OdometryOf, CloudOf, Event, HasInputs, AtFault, OdometryFaults

(* The marker of an event follows the markers of those before it.          *)
LEMMA MarkersGrow ==
  ASSUME FaultInv, MarkersPace, FixtureAlive, markers' = Append(markers, Due),
         nextEvent' = nextEvent + 1, UNCHANGED <<matrix, index, captures, stage>>
  PROVE  MarkersPace'
<1>1. /\ markers \in Seq(Marker) /\ Len(markers) = nextEvent - 1 /\ nextEvent \in Nat
      /\ \A i \in DOMAIN markers : markers[i] = Events[i]
      /\ Events' = Events /\ kind' = kind /\ Due = Events[nextEvent] /\ Due \in Marker
  BY EventsKept, ScenarioKept, DueFacts DEF FaultInv, FixtureInv, MarkersPace, Due
<1>2. /\ Len(markers') = nextEvent /\ DOMAIN markers' = 1..nextEvent
      /\ DOMAIN markers = 1..(nextEvent - 1)
      /\ \A i \in 1..(nextEvent - 1) : markers'[i] = markers[i]
      /\ markers'[nextEvent] = Due
  BY <1>1
<1>3. \A i \in DOMAIN markers' : markers'[i] = Events'[i]
  BY <1>1, <1>2
<1>4. ASSUME stage' = "settle" PROVE TerminalSeen'
  <2>1. TerminalSeen
    BY <1>4 DEF MarkersPace
  <2>2. \A i \in DOMAIN markers : i \in DOMAIN markers' /\ markers'[i] = markers[i]
    BY <1>1, <1>2
  <2>3. QED
    BY <1>1, <2>1, <2>2 DEF TerminalSeen, Restarted
<1>5. QED
  BY <1>1, <1>2, <1>3, <1>4 DEF MarkersPace

LEMMA EmitEventInPace ==
  ASSUME FaultInv, GoodInv, conditions = "good", EmitEvent
  PROVE  GoodInv'
<1>1. /\ Running /\ RunnerTypes /\ clock \in Nat /\ FixtureAlive
      /\ nextEvent <= Len(Events) /\ Len(Events) \in Nat /\ nextEvent \in 1..4
      /\ ClockTo(Due.clock) /\ ~SeedDue /\ nextEvent' = nextEvent + 1
      /\ cloudIn' = (IF CloudOf(Due) = NoCloud THEN cloudIn ELSE CloudOf(Due))
      /\ odomIn' = (IF OdometryOf(Due) = NoSample THEN odomIn ELSE OdometryOf(Due))
      /\ markers' = Append(markers, Due)
      /\ UNCHANGED <<runner, matrix, index, stage, captures, gatePrevious, observed,
                     emitted, noticed>>
  BY EventFacts DEF EmitEvent, MayLose, FixtureAlive, FaultInv, FixtureInv, runner, history
<1>2. MarkersPace'
  BY <1>1, MarkersGrow DEF GoodInv
<1>3. ASSUME HasRecovery PROVE ClockPace' /\ OdometryPace' /\ CloudPace'
  <2>1. ClockPace /\ OdometryPace /\ CloudPace /\ ~Ended
    BY <1>1, <1>3 DEF GoodInv, Ended
  <2>2. /\ Baseline \in Nat /\ FaultAt \in Nat /\ RecoveredAt \in Nat
        /\ 0 < Baseline /\ Baseline < FaultAt /\ FaultAt + 2 < RecoveredAt
        /\ Baseline - 1 \in Nat /\ RecoveredAt - 1 \in Nat
    BY Times
  <2>3. /\ Due.clock \in Nat /\ clock < Due.clock /\ clock <= Due.clock /\ sinceCheck \in Nat
    BY <1>1, <2>1, DueFacts DEF ClockPace, Marker, FaultInv
  <2>4. /\ odomIn = NoSample /\ cloudIn = NoCloud /\ clock' = Due.clock
        /\ sinceCheck' \in Nat /\ Idle
        /\ Fresh => Fresh'
        /\ Broken => Broken'
        /\ Lost => Lost'
        /\ Half => Half'
        /\ Awaited => Awaited'
        /\ \A h \in Int : Healthy(h) => Healthy(h)'
    BY <1>1, <2>3, ClockMoves DEF Idle
  <2>5. /\ kind' = kind /\ RecoveredAt' = RecoveredAt /\ Events' = Events
        /\ Ended' <=> nextEvent + 1 > Len(Events)
    BY <1>1, EventsKept, ScenarioKept DEF Ended
  <2>6. JumpOut' = JumpOut
    BY <1>1 DEF JumpOut, OdomAt, FaultWindow, FaultAt
  <2>7. gatePrevious' <= clock'
    BY <1>1, <2>1, <2>3, <2>4 DEF CloudPace, FaultInv, CloudInv
  <2>8. CASE Due = Event("recovered", RecoveredAt) /\ nextEvent = Len(Events)
    <3>1. /\ Due.clock = RecoveredAt /\ Due.phase = "recovered"
          /\ OdometryOf(Due) = Sample(RecoveredAt, 0)
          /\ CloudOf(Due) = Cloud(RecoveredAt, "none")
      BY <2>2, <2>8, EventInputs DEF Event
    <3>2. /\ odomIn' = Sample(RecoveredAt, 0) /\ cloudIn' = Cloud(RecoveredAt, "none")
          /\ cloudIn'.stamp = RecoveredAt /\ clock' = RecoveredAt
      BY <1>1, <2>2, <2>4, <3>1, SampleIsData DEF Cloud, NoCloud
    <3>3. Ended' /\ Waits(RecoveredAt, 0)'
      <4>1. Ended'
        BY <1>1, <2>5, <2>8
      <4>2. Waits(RecoveredAt, 0)'
        BY <2>5, <3>2 DEF Waits, Sample
      <4>3. QED
        BY <4>1, <4>2
    <3>4. ClockPace'
      BY <1>1, <2>2, <2>4, <2>5, <3>2, <3>3 DEF ClockPace, FaultAt
    <3>5. kind \in OdometryFaults => ~(clock < RecoveredAt - 1)
      BY <1>1, <3>1 DEF SeedDue
    <3>6. Prepared' /\ (kind \in OdometryFaults => noticed)
      <4>1. CASE kind = "process_exit"
        <5>1. Fresh
          BY <1>1, <1>3, <2>1, <4>1, WhereInPlan DEF OdometryPace
        <5>2. QED
          BY <2>4, <2>5, <4>1, <5>1 DEF Prepared, OdometryFaults
      <4>2. CASE kind # "process_exit"
        <5>1. nextEvent = 3
          BY <1>1, <1>3, <2>8, <4>2, PlanOfRecovery
        <5>2. FaultPace
          BY <2>1, <5>1 DEF OdometryPace
        <5>3. \A at \in Nat : \A x \in {0, 5} : odomIn # Sample(at, x) /\ ~Waits(at, x)
          BY <2>4, SampleIsData DEF Waits
        <5>4. CASE kind \notin OdometryFaults
          BY <2>2, <2>4, <2>5, <4>2, <5>2, <5>3, <5>4
             DEF FaultPace, Prepared, OdometryFaults, FaultAt
        <5>5. CASE kind \in OdometryFaults
          <6>1. ~(clock < RecoveredAt - 1)
            BY <2>2, <3>5, <5>5
          <6>2. CASE kind = "odom_regression"
            <7>1. noticed /\ Healthy(RecoveredAt - 1)
              BY <2>2, <5>2, <5>3, <6>1, <6>2 DEF FaultPace, Seeded
            <7>2. QED
              BY <2>2, <2>4, <2>5, <6>2, <7>1 DEF Prepared
          <6>3. CASE kind = "odom_jump"
            <7>1. noticed /\ Half
              BY <2>2, <5>2, <5>3, <6>1, <6>3 DEF FaultPace, Seeded
            <7>2. QED
              BY <2>4, <2>5, <6>3, <7>1 DEF Prepared
          <6>4. CASE kind = "odom_loss"
            <7>1. noticed /\ Half
              BY <2>2, <5>2, <5>3, <6>1, <6>4 DEF FaultPace, Seeded
            <7>2. QED
              BY <2>4, <2>5, <6>4, <7>1 DEF Prepared
          <6>5. QED
            BY <5>5, <6>2, <6>3, <6>4 DEF OdometryFaults
        <5>6. QED
          BY <5>4, <5>5
      <4>3. QED
        BY <4>1, <4>2
    <3>7. OdometryPace'
      BY <1>1, <2>1, <2>5, <2>6, <3>3, <3>6 DEF OdometryPace
    <3>8. kind \in CloudFaults \cup {"tf_loss"} => noticed
      <4>1. kind \in CloudFaults \cup {"tf_loss"} => nextEvent > 2
        BY <1>1, <1>3, <2>8, PlanOfRecovery DEF CloudFaults
      <4>2. QED
        BY <2>1, <2>4, <4>1, BadCloudNoticed
    <3>9. CloudPace'
      BY <1>1, <2>2, <2>5, <2>7, <3>2, <3>3, <3>8 DEF CloudPace, Cloud
    <3>10. QED
      BY <3>4, <3>7, <3>9
  <2>9. CASE Due = Event("baseline", Baseline) /\ nextEvent = 1 /\ kind # "process_exit"
    <3>1. /\ Due.clock = Baseline /\ OdometryOf(Due) = Sample(Baseline, 0)
          /\ CloudOf(Due) = Cloud(Baseline, "none")
      BY <2>2, <2>9, EventInputs DEF Event
    <3>2. /\ odomIn' = Sample(Baseline, 0) /\ cloudIn'.stamp = Baseline /\ clock' = Baseline
      BY <1>1, <2>2, <2>4, <3>1, SampleIsData DEF Cloud, NoCloud
    <3>3. ~Ended' /\ nextEvent' = 2 /\ Due'.clock = FaultAt
      <4>1. Len(Events) = 3 /\ Events[2].clock = FaultAt
        BY <1>1, <1>3, <2>9, PlanOfRecovery DEF Event
      <4>2. nextEvent' = 2
        BY <1>1, <2>9
      <4>3. QED
        BY <2>5, <2>9, <4>1, <4>2 DEF Due
    <3>4. ClockPace'
      BY <2>2, <2>4, <3>2, <3>3 DEF ClockPace
    <3>5. Fresh'
      BY <2>1, <2>4, <2>9 DEF OdometryPace
    <3>6. BaselinePace'
      BY <3>2, <3>5 DEF BaselinePace, Waits, Sample
    <3>7. OdometryPace'
      BY <2>1, <2>5, <2>6, <3>3, <3>6 DEF OdometryPace
    <3>8. CloudPace'
      BY <2>2, <2>5, <2>7, <3>2, <3>3 DEF CloudPace
    <3>9. QED
      BY <3>4, <3>7, <3>8
  <2>10. CASE Due = Event("suppressed", FaultAt) /\ nextEvent = 2 /\ kind # "process_exit"
    <3>1. /\ Due.clock = FaultAt /\ Awaited
      BY <2>1, <2>2, <2>4, <2>10, SampleIsData DEF Event, OdometryPace, BaselinePace, Waits
    <3>2. clock' = FaultAt /\ Awaited' /\ Healthy(Baseline)'
      BY <2>4, <3>1 DEF Awaited
    <3>3. ~Ended' /\ nextEvent' = 3 /\ Due'.clock = RecoveredAt
      <4>1. Len(Events) = 3 /\ Events[3].clock = RecoveredAt
        BY <1>1, <1>3, <2>10, PlanOfRecovery DEF Event
      <4>2. nextEvent' = 3
        BY <1>1, <2>10
      <4>3. QED
        BY <2>5, <2>10, <4>1, <4>2 DEF Due
    <3>4. ClockPace'
      <4>1. FaultAt' = FaultAt /\ clock' >= FaultAt
        BY <3>2, Times DEF FaultAt
      <4>2. clock' < Due'.clock
        BY <3>2, <3>3, Times
      <4>3. QED
        BY <2>2, <2>4, <3>3, <4>1, <4>2 DEF ClockPace
    <3>5. FaultPace'
      <4>1. CASE kind \notin OdometryFaults
        <5>1. odomIn' = Sample(FaultAt, 0)
          <6>1. OdometryOf(Due) = Sample(FaultAt, 0)
            BY <2>10, <4>1, Times, EventInputs, Zenon
          <6>2. OdometryOf(Due) # NoSample
            <7>1. FaultAt \in Nat
              BY Times
            <7>2. Sample(FaultAt, 0) # NoSample
              BY <7>1, SampleIsData
            <7>3. QED
              BY <6>1, <7>2
          <6>3. QED
            BY <1>1, <6>1, <6>2
        <5>2. QED
          BY <2>5, <3>2, <4>1, <5>1 DEF FaultPace, OdometryFaults, Waits, Sample, FaultAt
      <4>2. CASE kind = "odom_regression"
        <5>1. odomIn' = Sample(Baseline - 1, 0)
          <6>1. OdometryOf(Due) = Sample(Baseline - 1, 0)
            BY <2>2, <2>10, <4>2, EventInputs
          <6>2. OdometryOf(Due) # NoSample
            BY <2>2, <6>1, SampleIsData
          <6>3. QED
            BY <1>1, <6>1, <6>2
        <5>2. QED
          BY <2>5, <3>2, <4>2, <5>1 DEF FaultPace, OdometryFaults, Sample, FaultAt
      <4>3. CASE kind = "odom_jump"
        <5>1. odomIn' = Sample(FaultAt, 5)
          <6>1. OdometryOf(Due) = Sample(FaultAt, 5)
            BY <2>2, <2>10, <4>3, EventInputs
          <6>2. OdometryOf(Due) # NoSample
            BY <2>2, <6>1, SampleIsData
          <6>3. QED
            BY <1>1, <6>1, <6>2
        <5>2. QED
          BY <2>5, <3>2, <4>3, <5>1 DEF FaultPace, OdometryFaults, Waits, Sample, FaultAt
      <4>4. CASE kind = "odom_loss"
        <5>1. Idle'
          BY <1>1, <2>2, <2>4, <2>10, <4>4, EventInputs DEF Idle
        <5>2. clock' < RecoveredAt' - 1 /\ OnGrid'
          BY <2>2, <2>5, <3>2, GridStarts
        <5>3. QED
          BY <2>5, <3>2, <4>4, <5>1, <5>2 DEF FaultPace, OdometryFaults
      <4>5. QED
        BY <4>1, <4>2, <4>3, <4>4 DEF OdometryFaults
    <3>6. OdometryPace'
      BY <2>1, <2>5, <2>6, <3>3, <3>5 DEF OdometryPace
    <3>7. /\ cloudIn'.stamp <= clock' /\ cloudIn' = CloudOf(Event("suppressed", FaultAt))
      <4>1. PICK defect : CloudOf(Due) \in {Cloud(1, "none"), Cloud(FaultAt, defect)}
        BY <2>2, <2>10, EventInputs
      <4>2. CloudOf(Due) # NoCloud /\ CloudOf(Due).stamp <= FaultAt
        BY <2>2, <4>1 DEF Cloud, NoCloud
      <4>3. QED
        BY <1>1, <2>10, <3>2, <4>2
    <3>8. CloudOf(Event("suppressed", FaultAt))' = CloudOf(Event("suppressed", FaultAt))
      BY <2>5 DEF CloudOf, HasInputs, AtFault, Event, FaultAt, Cloud, NoCloud
    <3>9. CloudPace'
      BY <2>5, <2>7, <3>2, <3>3, <3>7, <3>8 DEF CloudPace, FaultAt
    <3>10. QED
      BY <3>4, <3>6, <3>9
  <2>11. CASE kind = "process_exit"
    <3>1. nextEvent = 1 /\ Due = Event("recovered", RecoveredAt)
      BY <1>3, <1>1, <2>1, <2>11, WhereInPlan
    <3>2. Len(Events) = 1
      BY <1>1, <1>3, <2>11, PlanOfRecovery
    <3>3. QED
      BY <2>8, <3>1, <3>2
  <2>12. CASE kind # "process_exit"
    <3>1. \/ nextEvent = 1 /\ Due = Event("baseline", Baseline)
          \/ nextEvent = 2 /\ Due = Event("suppressed", FaultAt)
          \/ nextEvent = 3 /\ Due = Event("recovered", RecoveredAt)
      BY <1>3, <1>1, <2>1, <2>12, WhereInPlan
    <3>2. Len(Events) = 3
      BY <1>1, <1>3, <2>12, PlanOfRecovery
    <3>3. QED
      BY <2>8, <2>9, <2>10, <2>12, <3>1, <3>2
  <2>13. QED
    BY <2>11, <2>12
<1>4. QED
  BY <1>1, <1>2, <1>3, GoodWhileRunning

-----------------------------------------------------------------------------
(* The runner in a good run.                                               *)

LEMMA PaceKept ==
  ASSUME RunnerTypes, ClockPace, OdometryPace, CloudPace,
         UNCHANGED <<matrix, index, captures, fixture, inputs, gatePrevious, observed,
                     history, adapter>>
  PROVE  ClockPace' /\ OdometryPace' /\ CloudPace'
<1>1. UNCHANGED <<clock, nextEvent, cloudIn, odomIn, gatePrevious, observed, emitted,
                  noticed, previousTimestamp, previousSample, recoveryRequired,
                  consecutiveValid, receivedOnce, silence, lossReported, sinceCheck>>
  BY DEF fixture, inputs, history, adapter
<1>2. sinceCheck' \in Nat
  BY <1>1 DEF ClockPace
<1>3. Awaited' = Awaited /\ (JumpOut' => JumpOut)
  BY <1>1 DEF Awaited, Healthy, Lesser, Sample, Adapter!MaxSilence, Adapter!LossDeadline,
     JumpOut, OdomAt, FaultWindow, FaultAt
<1>4. OdometryPace'
  BY <1>1, <1>3, OdometryPaceKept
<1>5. QED
  BY <1>1, <1>2, <1>4, ClockAndCloudKept

LEMMA SeeTerminalInPace ==
  ASSUME FaultInv, GoodInv, conditions = "good", SeeTerminal
  PROVE  GoodInv'
<1>1. /\ Running /\ RunnerTypes /\ TerminalSeen /\ stage' = "settle"
      /\ UNCHANGED <<matrix, conditions, index, captures, results, report, fixture,
                     inputs, gatePrevious, observer, history, adapter>>
  BY DEF SeeTerminal, Running, FaultInv
<1>2. MarkersPace /\ (HasRecovery => ClockPace /\ OdometryPace /\ CloudPace)
  BY <1>1 DEF GoodInv
<1>3. TerminalSeen' /\ kind' = kind /\ HasRecovery' = HasRecovery /\ Events' = Events
  BY <1>1, ScenarioKept, EventsKept DEF TerminalSeen, Restarted, observer, HasRecovery
<1>4. MarkersPace'
  BY <1>1, <1>2, <1>3 DEF MarkersPace, observer, fixture
<1>5. HasRecovery' => ClockPace' /\ OdometryPace' /\ CloudPace'
  BY <1>1, <1>2, <1>3, PaceKept DEF observer
<1>6. SafeThroughout' /\ (kind' = "process_exit" /\ captures' # <<>> => ExitCaptured')
  BY <1>1, <1>3 DEF GoodInv, SafeThroughout, ExitCaptured, FaultAt
<1>7. QED
  BY <1>1, <1>4, <1>5, <1>6 DEF GoodInv

(* An attempt begins with nothing handled and nothing published.           *)
StartsInTime ==
  /\ HasRecovery => 1 <= Len(Events) /\ Events[1].clock \in Nat
                    /\ Baseline <= Events[1].clock
  /\ Len(Events) \in Nat

LEMMA FirstInTime == RunnerTypes => StartsInTime
<1> SUFFICES ASSUME RunnerTypes PROVE StartsInTime
  OBVIOUS
<1>1. StartsLate
  BY FirstEventFacts
<1>2. HasRecovery => 1 <= Len(Events)
  <2>1. ASSUME HasRecovery, kind = "process_exit" PROVE 1 <= Len(Events)
    BY <2>1, PlanOfRecovery
  <2>2. ASSUME HasRecovery, kind # "process_exit" PROVE 1 <= Len(Events)
    <3>1. Len(Events) = 3
      BY <2>2, PlanOfRecovery
    <3>2. QED
      BY <3>1
  <2>3. QED
    BY <2>1, <2>2
<1>3. QED
  BY <1>1, <1>2 DEF StartsLate, StartsInTime

LEMMA FreshInPace ==
  ASSUME FreshPipeline, markers' = <<>>, nextEvent' = 1, stage' = "watch", clock' \in Nat,
         HasRecovery' => 1 <= Len(Events') /\ clock' < Events'[1].clock,
         Len(Events') \in Nat, kind' = "odom_jump" => emitted' = {}
  PROVE  MarkersPace' /\ (HasRecovery' => ClockPace' /\ OdometryPace' /\ CloudPace')
<1>1. MarkersPace'
  BY DEF MarkersPace
<1>2. ASSUME HasRecovery' PROVE ClockPace' /\ OdometryPace' /\ CloudPace'
  <2>1. ~Ended' /\ clock' < Due'.clock
    BY <1>2 DEF Ended, Due
  <2>2. ClockPace'
    BY <2>1 DEF FreshPipeline, ClockPace
  <2>3. Fresh' /\ Idle'
    BY DEF FreshPipeline, Fresh, Idle
  <2>4. kind' = "odom_jump" => ~JumpOut'
    BY DEF JumpOut, OdomAt
  <2>5. OdometryPace'
    BY <2>1, <2>3, <2>4 DEF OdometryPace
  <2>6. CloudPace'
    BY <2>1 DEF FreshPipeline, CloudPace, NoCloud
  <2>7. QED
    BY <2>2, <2>5, <2>6
<1>3. QED
  BY <1>1, <1>2

LEMMA LaunchFirstInPace ==
  ASSUME FaultInv, GoodInv, conditions = "good", LaunchFirst
  PROVE  GoodInv'
<1>1. /\ captures' = <<>> /\ emitted' = {} /\ markers' = <<>> /\ stage' = "watch"
      /\ clock' = Baseline - StartupTicks * FixtureTick /\ nextEvent' = 1
      /\ UNCHANGED <<conditions, results, report>> /\ FreshPipeline
  BY DEF LaunchFirst, StartFixture, FreshObserver
<1>2. StartsInTime'
  <2>1. FaultInv'
    BY LaunchFirstKeeps
  <2>2. RunnerTypes'
    BY <2>1 DEF FaultInv
  <2>3. QED
    BY <2>2, FirstInTime, PTL
<1>3. /\ Len(Events') \in Nat /\ clock' \in Nat
      /\ HasRecovery' => 1 <= Len(Events') /\ clock' < Events'[1].clock
  BY <1>1, <1>2, Times DEF StartsInTime
<1>4. MarkersPace' /\ (HasRecovery' => ClockPace' /\ OdometryPace' /\ CloudPace')
  BY <1>1, <1>3, FreshInPace
<1>5. SafeThroughout'
  BY <1>1 DEF SafeThroughout
<1>6. QED
  BY <1>1, <1>4, <1>5 DEF GoodInv

LEMMA LaunchRestartInPace ==
  ASSUME FaultInv, GoodInv, conditions = "good", LaunchRestart
  PROVE  GoodInv'
<1>1. /\ markers' = <<>> /\ stage' = "watch" /\ stage = "restart"
      /\ clock' = FaultAt /\ nextEvent' = 1 /\ FreshPipeline /\ kind = "process_exit"
      /\ UNCHANGED <<matrix, index, captures, conditions, results, report, emitted>>
      /\ Len(captures) = 1 /\ RunnerTypes
  BY DEF LaunchRestart, StartFixture, FreshObserver, FaultInv, Attempts, history
<1>2. captures # <<>>
  BY <1>1
<1>3. kind' = kind /\ Events' = Events /\ HasRecovery' /\ HasRecovery
  BY <1>1, <1>2, ScenarioKept, EventsKept DEF HasRecovery, Restarted
<1>4. Len(Events) = 1 /\ Events[1].clock = RecoveredAt
  BY <1>1, <1>3, PlanOfRecovery DEF Event
<1>5. MarkersPace' /\ (HasRecovery' => ClockPace' /\ OdometryPace' /\ CloudPace')
  BY <1>1, <1>3, <1>4, Times, FreshInPace
<1>6. SafeThroughout' /\ (kind' = "process_exit" /\ captures' # <<>> => ExitCaptured')
  BY <1>1, <1>3 DEF GoodInv, SafeThroughout, ExitCaptured, FaultAt
<1>7. QED
  BY <1>1, <1>5, <1>6 DEF GoodInv

LEMMA FirstIs ==
  ASSUME NEW events, NEW phase, NEW i \in DOMAIN events, events[i].phase = phase,
         \A k \in 1..(i - 1) : events[k].phase # phase
  PROVE  events[i] \in FirstEvent(events, phase)
BY DEF FirstEvent

(* All four streams of the recovery were observed when the runner has seen *)
(* its marker and the nodes have handled their inputs.                     *)
LEMMA RecoveryObserved ==
  ASSUME FaultInv, GoodInv, conditions = "good", stage = "settle", HasRecovery,
         cloudIn = NoCloud, odomIn = NoSample
  PROVE  /\ Ended /\ DOMAIN markers = 1..Len(Events)
         /\ \A i \in DOMAIN markers : markers[i] = Events[i]
         /\ Recovered(Streams)
<1>1. Running /\ MarkersPace /\ ClockPace /\ OdometryPace /\ CloudPace /\ RunnerTypes
  BY DEF GoodInv, Running, FaultInv
<1>2. /\ markers \in Seq(Marker) /\ Len(markers) = nextEvent - 1 /\ nextEvent \in 1..4
      /\ DOMAIN markers = 1..Len(markers) /\ Len(markers) \in Nat
      /\ \A i \in DOMAIN markers : markers[i] = Events[i]
  BY <1>1 DEF MarkersPace, FaultInv, FixtureInv
<1>3. PICK i \in DOMAIN markers : markers[i].phase = "recovered"
  <2>1. TerminalSeen
    BY <1>1 DEF MarkersPace
  <2>2. QED
    BY <2>1 DEF TerminalSeen, HasRecovery
<1>4. Events[i].phase = "recovered" /\ i \in 1..(nextEvent - 1)
  BY <1>2, <1>3
<1>5. Ended
  <2>1. CASE kind = "process_exit"
    <3>1. Len(Events) = 1
      BY <1>1, <2>1, PlanOfRecovery
    <3>2. QED
      BY <1>2, <1>4, <3>1 DEF Ended
  <2>2. CASE kind # "process_exit"
    <3>1. /\ Len(Events) = 3 /\ Events[1].phase = "baseline"
          /\ Events[2].phase = "suppressed"
      BY <1>1, <2>2, PlanOfRecovery DEF Event
    <3>2. i # 1 /\ i # 2
      BY <1>4, <3>1
    <3>3. QED
      BY <1>2, <1>4, <3>1, <3>2 DEF Ended
  <2>3. QED
    BY <2>1, <2>2
<1>6. DOMAIN markers = 1..Len(Events)
  BY <1>1, <1>2, <1>5, WhereInPlan
<1>7. Recovered({"odom", "tf"})
  <2>1. ~Waits(RecoveredAt, 0)
    BY SampleIsData, Times DEF Waits
  <2>2. QED
    BY <1>1, <1>5, <2>1 DEF OdometryPace
<1>8. Recovered({"validated_cloud", "scan"})
  <2>1. cloudIn # Cloud(RecoveredAt, "none")
    BY DEF Cloud, NoCloud
  <2>2. QED
    BY <1>1, <1>5, <2>1 DEF CloudPace
<1>9. Recovered(Streams)
  BY <1>7, <1>8 DEF Recovered, Streams
<1>10. QED
  BY <1>2, <1>5, <1>6, <1>9

(* The row of the recovery has all streams.                                *)
LEMMA RecoveryRow ==
  ASSUME FaultInv, Recovered(Streams), NEW i \in DOMAIN markers,
         markers[i] = Event("recovered", RecoveredAt)
  PROVE  /\ Correlated[i].phase = "recovered" /\ Correlated[i].clock = RecoveredAt
         /\ Correlated[i].streams = Streams
<1>1. /\ markers[i].phase = "recovered" /\ markers[i].clock = RecoveredAt
      /\ RecoveredAt \in Nat
  BY Times DEF Event
<1>2. ASSUME NEW s \in Streams PROVE Seen(markers[i], s, observed)
  <2>1. [stream |-> s, stamp |-> RecoveredAt] \in observed
    BY DEF Recovered
  <2>2. QED
    BY <1>1, <2>1 DEF Seen
<1>3. QED
  BY <1>1, <1>2, CorrelatedFacts

(* The row of the fault lacks a stream, and the fault was noticed.         *)
LEMMA FaultRow ==
  ASSUME FaultInv, GoodInv, conditions = "good", stage = "settle", HasRecovery,
         kind # "process_exit", cloudIn = NoCloud, odomIn = NoSample
  PROVE  /\ 2 \in DOMAIN Correlated /\ Correlated[2].phase = "suppressed"
         /\ Correlated[2].clock = FaultAt /\ Correlated[2].streams # Streams
         /\ noticed
<1>1. RunnerTypes /\ kind \in Kinds /\ OdometryPace /\ CloudPace
  BY KindKnown DEF FaultInv, GoodInv, Running
<1>2. Ended /\ DOMAIN markers = 1..3 /\ markers[2] = Event("suppressed", FaultAt)
  <2>1. Len(Events) = 3 /\ Events[2] = Event("suppressed", FaultAt)
    BY <1>1, PlanOfRecovery
  <2>2. /\ Ended /\ DOMAIN markers = 1..Len(Events)
        /\ \A i \in DOMAIN markers : markers[i] = Events[i]
    BY RecoveryObserved
  <2>3. QED
    BY <2>1, <2>2
<1>3. /\ 2 \in DOMAIN markers /\ markers[2].phase = "suppressed"
      /\ markers[2].clock = FaultAt
  BY <1>2 DEF Event
<1>4. PICK w : w \in Withheld /\ w \in Streams /\ (kind = "odom_jump" => w = "odom")
  <2>1. CASE kind \in CloudFaults
    BY <2>1 DEF Withheld, Streams, CloudFaults
  <2>2. CASE kind = "tf_loss"
    BY <2>2 DEF Withheld, Streams, CloudFaults
  <2>3. CASE kind \in OdometryFaults
    BY <2>3 DEF Withheld, Streams, CloudFaults, OdometryFaults
  <2>4. QED
    BY <1>1, <2>1, <2>2, <2>3 DEF Kinds, HasRecovery
<1>5. ~Seen(markers[2], w, observed)
  <2>1. SUFFICES ASSUME Seen(markers[2], w, observed) PROVE FALSE
    OBVIOUS
  <2>2. PICK o \in emitted : o.stream = w /\ o.stamp \in FaultWindow
    <3>1. PICK o \in observed : o.stream = w /\ o.stamp - FaultAt \in 0..1
      BY <1>3, <2>1 DEF Seen
    <3>2. o \in emitted /\ o.stamp \in Nat
      BY <3>1 DEF FaultInv, OutputTypes
    <3>3. QED
      BY <3>1, <3>2, Times DEF FaultWindow
  <2>3. CASE kind # "odom_jump"
    BY <1>4, <2>2, <2>3 DEF FaultInv, WithheldInv
  <2>4. CASE kind = "odom_jump"
    BY <1>1, <1>4, <2>2, <2>4 DEF OdometryPace, JumpOut, OdomAt
  <2>5. QED
    BY <2>3, <2>4
<1>6. noticed
  <2>1. CASE kind \in OdometryFaults
    BY <1>1, <1>2, <2>1 DEF OdometryPace
  <2>2. CASE kind \in CloudFaults \cup {"tf_loss"}
    <3>1. nextEvent > 2
      <4>1. nextEvent = Len(Events) + 1 /\ Len(Events) = 3
        BY <1>1, <1>2, WhereInPlan, PlanOfRecovery DEF Running
      <4>2. QED
        BY <4>1
    <3>2. QED
      BY <1>1, <1>2, <2>2, <3>1 DEF CloudPace
  <2>3. QED
    BY <1>1, <2>1, <2>2 DEF Kinds, HasRecovery
<1>7. QED
  BY <1>3, <1>4, <1>5, <1>6, CorrelatedFacts

(* A capture with a fault and a recovery passes.                           *)
LEMMA OneAttemptPasses ==
  ASSUME FaultInv, GoodInv, conditions = "good", stage = "settle", HasRecovery,
         kind # "process_exit", cloudIn = NoCloud, odomIn = NoSample,
         captures' = <<[exit |-> CapturedExit, events |-> Correlated, clean |-> TRUE]>>,
         kind' = kind
  PROVE  Passes'
<1>1. RunnerTypes /\ Running /\ Correlated \in Seq(Row)
  BY CorrelatedFacts DEF FaultInv, Running
<1>2. /\ Len(Events) = 3 /\ Events[1].phase = "baseline" /\ Events[2].phase = "suppressed"
      /\ Events[3] = Event("recovered", RecoveredAt)
  BY <1>1, PlanOfRecovery DEF Event
<1>3. /\ DOMAIN markers = 1..3 /\ \A i \in 1..3 : markers[i] = Events[i]
      /\ Recovered(Streams)
  BY <1>2, RecoveryObserved
<1>4. /\ DOMAIN Correlated = 1..3 /\ \A i \in 1..3 : Correlated[i].phase = markers[i].phase
  BY <1>3, CorrelatedFacts
<1>5. /\ Correlated[3].phase = "recovered" /\ Correlated[3].clock = RecoveredAt
      /\ Correlated[3].streams = Streams
  BY <1>2, <1>3, RecoveryRow
<1>6. /\ Correlated[2].phase = "suppressed" /\ Correlated[2].clock = FaultAt
      /\ Correlated[2].streams # Streams
  BY FaultRow
<1>7. Correlated[1].phase = "baseline"
  BY <1>2, <1>3, <1>4
<1>8. Correlated[2] \in FirstEvent(Correlated, "suppressed")
  BY <1>4, <1>6, <1>7, FirstIs
<1>9. Correlated[3] \in FirstEvent(Correlated, "recovered")
  BY <1>4, <1>5, <1>6, <1>7, FirstIs
<1>10. RecoveredAt - FaultAt < Deadline
  BY Pace, Times DEF RecoveredAt
<1>11. RecoveryPasses(Correlated, Correlated[2])
  BY <1>5, <1>6, <1>9, <1>10 DEF RecoveryPasses
<1>12. CapturedExit = 0
  <2>1. \A i \in DOMAIN markers : markers[i].phase # "owned_child_exit"
    BY <1>2, <1>3 DEF Event
  <2>2. QED
    BY <2>1 DEF CapturedExit, HasRecovery
<1>13. /\ Len(captures') = 1 /\ DOMAIN captures' = 1..1 /\ captures'[1].clean = TRUE
       /\ captures'[1].exit = 0 /\ captures'[1].events = Correlated
  BY <1>12
<1>14. AllEvents' = Correlated
  <2>1. AllEvents' = Correlated \o <<>>
    BY <1>13 DEF AllEvents
  <2>2. QED
    BY <1>1, <2>1
<1>15. SafeThroughout'
  BY <1>13 DEF SafeThroughout
<1>16. QED
  BY <1>6, <1>8, <1>11, <1>13, <1>14, <1>15
     DEF Passes, HasRecovery, RecoveryPasses, FirstEvent

(* What an exit and a restart must show.                                   *)
ShowsRestart(events) ==
  /\ FirstEvent(events, "owned_child_exit") # {}
  /\ \E suppressed \in FirstEvent(events, "suppressed") :
       RecoveryPasses(events, suppressed)

RestartShown ==
  /\ kind = "process_exit" /\ SafeThroughout
  /\ captures[1].exit = 75 /\ captures[2].exit = 0
  /\ ShowsRestart(AllEvents)

LEMMA RestartIsPassed == RestartShown => Passes
BY DEF RestartShown, ShowsRestart, Passes, RestartPasses, ExpectedExit

(* So do the captures of an exit and of the restart after it.              *)
LEMMA TwoAttemptsPass ==
  ASSUME FaultInv, GoodInv, conditions = "good", stage = "settle", HasRecovery,
         kind = "process_exit", cloudIn = NoCloud, odomIn = NoSample,
         captures' = Append(captures,
           [exit |-> CapturedExit, events |-> Correlated, clean |-> TRUE]),
         kind' = kind
  PROVE  Passes' /\ ExitCaptured'
<1>1. /\ RunnerTypes /\ Running /\ Correlated \in Seq(Row) /\ captures \in Seq(Capture)
      /\ Len(captures) = 1 /\ captures # <<>> /\ ExitCaptured /\ SafeThroughout
  BY CorrelatedFacts
     DEF FaultInv, RunnerTypes, Attempts, Running, HasRecovery, Restarted, GoodInv
<1>2. captures[1] \in Capture /\ captures[1].events \in Seq(Row) /\ captures[1].clean
  <2>1. 1 \in DOMAIN captures /\ captures[1] \in Capture
    BY <1>1
  <2>2. captures[1].clean
    BY <1>1, <2>1 DEF SafeThroughout
  <2>3. QED
    BY <2>1, <2>2 DEF Capture
<1>3. Len(Events) = 1 /\ Events[1] = Event("recovered", RecoveredAt)
  BY <1>1, PlanOfRecovery
<1>4. DOMAIN markers = 1..1 /\ markers[1] = Events[1] /\ Recovered(Streams)
  BY <1>3, RecoveryObserved
<1>5. /\ DOMAIN Correlated = 1..1 /\ Correlated[1].phase = "recovered"
      /\ Correlated[1].clock = RecoveredAt /\ Correlated[1].streams = Streams
  BY <1>3, <1>4, RecoveryRow, CorrelatedFacts
<1>6. CapturedExit = 0
  <2>1. \A i \in DOMAIN markers : markers[i].phase # "owned_child_exit"
    BY <1>3, <1>4 DEF Event
  <2>2. QED
    BY <2>1 DEF CapturedExit, HasRecovery
<1>7. /\ Len(captures') = 2 /\ DOMAIN captures' = 1..2 /\ captures'[1] = captures[1]
      /\ captures'[2].exit = 0 /\ captures'[2].events = Correlated
      /\ captures'[2].clean = TRUE
  <2> DEFINE row == [exit |-> CapturedExit, events |-> Correlated, clean |-> TRUE]
  <2>1. captures' = Append(captures, row)
    OBVIOUS
  <2>2. /\ row.exit = 0 /\ row.events = Correlated /\ row.clean = TRUE
        /\ row \in Capture
    BY <1>1, <1>6 DEF Capture
  <2> HIDE DEF row
  <2>3. /\ captures' \in Seq(Capture) /\ Len(captures') = Len(captures) + 1
        /\ captures'[Len(captures) + 1] = row
        /\ \A k \in DOMAIN captures : captures'[k] = captures[k]
        /\ DOMAIN captures' = DOMAIN captures \cup {Len(captures) + 1}
    <3>1. captures \in Seq(Capture) /\ Len(captures) \in Nat
      BY <1>1
    <3>2. row \in Capture
      BY <2>2
    <3>3. QED
      BY <2>1, <3>1, <3>2
  <2>4. /\ Len(captures') = 2 /\ DOMAIN captures = 1..1
        /\ captures'[2] = row /\ captures'[1] = captures[1]
    BY <1>1, <2>3
  <2>5. DOMAIN captures' = 1..2
    BY <2>3, <2>4
  <2>6. QED
    BY <2>2, <2>4, <2>5
<1> DEFINE first == captures[1].events
           all == first \o Correlated
<1>8. /\ first \in Seq(Row) /\ Len(first) = 3 /\ first[1].phase = "baseline"
      /\ first[2].phase = "suppressed" /\ first[2].clock = FaultAt
      /\ first[3].phase = "owned_child_exit" /\ captures[1].exit = 75
  <2>1. /\ first[1].phase = "baseline" /\ first[2].phase = "suppressed"
        /\ first[2].clock = FaultAt /\ first[3].phase = "owned_child_exit"
        /\ captures[1].exit = 75 /\ DOMAIN first = 1..3
    BY <1>1 DEF ExitCaptured
  <2>2. first \in Seq(Row)
    BY <1>2
  <2> HIDE DEF first
  <2>3. Len(first) = 3
    BY <2>1, <2>2
  <2>4. QED
    BY <2>1, <2>2, <2>3
<1>9. AllEvents' = all
  BY <1>7 DEF AllEvents
<1>10. /\ DOMAIN all = 1..4 /\ all[1] = first[1] /\ all[2] = first[2] /\ all[3] = first[3]
       /\ all[4] = Correlated[1]
  <2>1. Len(Correlated) = 1
    BY <1>1, <1>5
  <2>2. first \in Seq(Row) /\ Len(first) = 3 /\ Correlated \in Seq(Row)
    BY <1>1, <1>8
  <2>3. all = first \o Correlated
    OBVIOUS
  <2> HIDE DEF first, all
  <2>4. /\ all \in Seq(Row) /\ Len(all) = Len(first) + Len(Correlated)
        /\ \A i \in 1..(Len(first) + Len(Correlated)) :
             all[i] = IF i <= Len(first) THEN first[i] ELSE Correlated[i - Len(first)]
    BY <2>2, <2>3, ConcatProperties
  <2>5. /\ Len(all) = 4 /\ all[1] = first[1] /\ all[2] = first[2] /\ all[3] = first[3]
        /\ all[4] = Correlated[1]
    BY <2>1, <2>2, <2>4
  <2>6. DOMAIN all = 1..Len(all)
    BY <2>4
  <2>7. QED
    BY <2>5, <2>6
<1> HIDE DEF first, all
<1>11. all[2] \in FirstEvent(all, "suppressed")
  <2>1. \A k \in 1..(2 - 1) : all[k].phase # "suppressed"
    BY <1>8, <1>10
  <2>2. QED
    BY <1>8, <1>10, <2>1, FirstIs
<1>12. all[3] \in FirstEvent(all, "owned_child_exit")
  <2>1. \A k \in 1..(3 - 1) : all[k].phase # "owned_child_exit"
    BY <1>8, <1>10
  <2>2. 3 \in DOMAIN all /\ all[3].phase = "owned_child_exit"
    BY <1>8, <1>10
  <2>3. QED
    BY <2>1, <2>2, FirstIs, Zenon
<1>13. all[4] \in FirstEvent(all, "recovered")
  <2>1. \A k \in 1..(4 - 1) : all[k].phase # "recovered"
    BY <1>8, <1>10
  <2>2. QED
    BY <1>5, <1>10, <2>1, FirstIs
<1>14. RecoveredAt - FaultAt < Deadline
  BY Pace, Times DEF RecoveredAt
<1>15. RecoveryPasses(all, all[2])
  BY <1>5, <1>8, <1>10, <1>13, <1>14 DEF RecoveryPasses
<1>16. SafeThroughout'
  BY <1>2, <1>7 DEF SafeThroughout
<1>17. ExitCaptured'
  BY <1>1, <1>7 DEF ExitCaptured, FaultAt
<1>18. RestartShown'
  <2>1. /\ kind' = "process_exit" /\ captures'[1].exit = 75 /\ captures'[2].exit = 0
        /\ SafeThroughout'
    BY <1>7, <1>8, <1>16
  <2>2. ShowsRestart(all)
    BY <1>11, <1>12, <1>15 DEF ShowsRestart
  <2>3. QED
    BY <1>9, <2>1, <2>2 DEF RestartShown
<1>19. Passes'
  BY <1>18, RestartIsPassed, PTL
<1>20. QED
  BY <1>17, <1>19

(* The exit of the child is what its attempt shows.                        *)
LEMMA ExitIsCaptured ==
  ASSUME FaultInv, GoodInv, conditions = "good", stage = "settle",
         kind = "process_exit", captures = <<>>,
         captures' = <<[exit |-> CapturedExit, events |-> Correlated, clean |-> TRUE]>>
  PROVE  ExitCaptured'
<1>1. RunnerTypes /\ Running /\ MarkersPace /\ TerminalSeen /\ ~Restarted
  BY DEF FaultInv, Running, GoodInv, MarkersPace, Restarted
<1>2. /\ Len(Events) = 3 /\ Events[1].phase = "baseline" /\ Events[2].phase = "suppressed"
      /\ Events[2].clock = FaultAt /\ Events[3].phase = "owned_child_exit"
  BY <1>1, PlanOfExit DEF Event
<1>3. /\ markers \in Seq(Marker) /\ Len(markers) \in Nat /\ Len(markers) <= 3
      /\ DOMAIN markers = 1..Len(markers)
      /\ \A i \in DOMAIN markers : markers[i] = Events[i]
  <2>1. markers \in Seq(Marker) /\ nextEvent \in 1..4 /\ Len(markers) = nextEvent - 1
    BY <1>1 DEF FaultInv, FixtureInv, MarkersPace
  <2>2. QED
    BY <1>1, <2>1 DEF MarkersPace
<1>4. PICK i \in DOMAIN markers : markers[i].phase = "owned_child_exit"
  BY <1>1 DEF TerminalSeen
<1>5. i = 3
  <2>1. Events[i].phase = "owned_child_exit" /\ i \in 1..3
    BY <1>3, <1>4
  <2>2. i # 1 /\ i # 2
    BY <1>2, <2>1
  <2>3. QED
    BY <2>1, <2>2
<1>6. DOMAIN markers = 1..3
  BY <1>3, <1>4, <1>5
<1>7. /\ DOMAIN Correlated = 1..3
      /\ \A j \in 1..3 : /\ Correlated[j].phase = Events[j].phase
                         /\ Correlated[j].clock = Events[j].clock
  BY <1>3, <1>6, CorrelatedFacts
<1>8. CapturedExit = 75
  BY <1>4 DEF CapturedExit, ExpectedExit
<1>9. captures'[1].exit = 75 /\ captures'[1].events = Correlated
  BY <1>8
<1>10. QED
  BY <1>2, <1>7, <1>9 DEF ExitCaptured, FaultAt

(* A launch that fails as it must passes.                                  *)
LEMMA FailedLaunchPasses ==
  ASSUME kind = "launch_failure", kind' = kind,
         captures' = <<[exit |-> CapturedExit, events |-> Correlated, clean |-> TRUE]>>
  PROVE  Passes' /\ SafeThroughout'
<1>1. CapturedExit = 23
  BY DEF CapturedExit, ExpectedExit
<1>2. /\ Len(captures') = 1 /\ DOMAIN captures' = 1..1 /\ captures'[1].clean = TRUE
      /\ captures'[1].exit = 23
  BY <1>1
<1>3. SafeThroughout'
  BY <1>2 DEF SafeThroughout
<1>4. QED
  BY <1>2, <1>3 DEF Passes, ExpectedExit

LEMMA StopAndCaptureInPace ==
  ASSUME FaultInv, GoodInv, conditions = "good", StopAndCapture
  PROVE  GoodInv'
<1> DEFINE row == [exit |-> CapturedExit, events |-> Correlated, clean |-> TRUE]
<1>1. /\ stage = "settle" /\ cloudIn = NoCloud /\ odomIn = NoSample
      /\ captures' = Append(captures, row)
      /\ stage' = IF kind = "process_exit" /\ ~Restarted THEN "restart" ELSE "captured"
      /\ UNCHANGED <<matrix, conditions, index, results, report>> /\ noticed' = noticed
  BY DEF StopAndCapture, OtherExits, history
<1>2. ~Running' /\ Running /\ RunnerTypes /\ kind' = kind /\ ReachesNodes' = ReachesNodes
  BY <1>1, ScenarioKept DEF Running, FaultInv
<1>3. kind # "process_exit" => captures = <<>>
  BY <1>2 DEF FaultInv, Attempts
<1>4. captures = <<>> => captures' = <<row>>
  BY <1>1
<1> HIDE DEF row
<1>5. CASE kind = "launch_failure"
  <2>1. captures' = <<row>>
    BY <1>3, <1>4, <1>5
  <2>2. Passes' /\ SafeThroughout'
    BY <1>2, <1>5, <2>1, FailedLaunchPasses DEF row
  <2>3. ~ReachesNodes
    BY <1>5 DEF ReachesNodes
  <2>4. QED
    BY <1>1, <1>2, <1>5, <2>2, <2>3 DEF GoodInv
<1>6. CASE kind = "process_exit" /\ captures = <<>>
  <2>1. stage' = "restart" /\ captures' = <<row>>
    BY <1>1, <1>4, <1>6 DEF Restarted
  <2>2. ExitCaptured'
    BY <1>1, <1>6, <2>1, ExitIsCaptured DEF row
  <2>3. SafeThroughout'
    <3>1. DOMAIN captures' = 1..1 /\ captures'[1] = row
      BY <2>1
    <3>2. QED
      BY <3>1 DEF row, SafeThroughout
  <2>4. QED
    BY <1>1, <1>2, <2>1, <2>2, <2>3 DEF GoodInv
<1>7. CASE kind = "process_exit" /\ captures # <<>>
  <2>1. HasRecovery
    BY <1>7 DEF HasRecovery, Restarted
  <2>2. Passes' /\ ExitCaptured'
    BY <1>1, <1>2, <1>7, <2>1, TwoAttemptsPass DEF row
  <2>3. SafeThroughout'
    BY <2>2 DEF Passes
  <2>4. ~ReachesNodes
    BY <1>7 DEF ReachesNodes
  <2>5. QED
    BY <1>1, <1>2, <2>2, <2>3, <2>4 DEF GoodInv
<1>8. CASE kind \notin {"launch_failure", "process_exit"}
  <2>1. HasRecovery /\ captures' = <<row>>
    BY <1>3, <1>4, <1>8 DEF HasRecovery
  <2>2. Passes'
    BY <1>1, <1>2, <1>8, <2>1, OneAttemptPasses DEF row
  <2>3. SafeThroughout'
    BY <2>2 DEF Passes
  <2>4. noticed
    BY <1>1, <1>8, <2>1, FaultRow
  <2>5. QED
    BY <1>1, <1>2, <1>8, <2>2, <2>3, <2>4 DEF GoodInv
<1>9. QED
  BY <1>5, <1>6, <1>7, <1>8

(* The steps that leave the scenario and its captures alone.               *)
LEMMA ScenarioInPace ==
  ASSUME GoodInv, conditions = "good", ~Running',
         UNCHANGED <<matrix, conditions, index, captures, history>>,
         \A i \in DOMAIN results' : results'[i], report' \in {"none", "passed"},
         stage' \in {"captured", "judged"} => stage \in {"captured", "judged"}
  PROVE  GoodInv'
<1>1. /\ kind' = kind /\ ReachesNodes' = ReachesNodes /\ Passes' = Passes
      /\ noticed' = noticed
      /\ captures' = captures
  BY ScenarioKept, PassesKept DEF history
<1>2. SafeThroughout' /\ (kind' = "process_exit" /\ captures' # <<>> => ExitCaptured')
  BY <1>1 DEF GoodInv, SafeThroughout, ExitCaptured, FaultAt
<1>3. stage' \in {"captured", "judged"} => Passes' /\ (ReachesNodes' => noticed')
  BY <1>1 DEF GoodInv
<1>4. QED
  BY <1>2, <1>3 DEF GoodInv

LEMMA JudgeInPace ==
  ASSUME FaultInv, GoodInv, conditions = "good", Judge
  PROVE  GoodInv'
<1>1. /\ stage = "captured" /\ stage' = "judged" /\ results' = Append(results, Passes)
      /\ UNCHANGED <<matrix, conditions, index, captures, report, history>>
  BY DEF Judge
<1>2. Passes = TRUE /\ (\A i \in DOMAIN results : results[i]) /\ report \in {"none", "passed"}
  BY <1>1, PassesBoolean DEF GoodInv
<1>3. \A i \in DOMAIN results' : results'[i]
  <2>1. results \in Seq(BOOLEAN) /\ results' = Append(results, TRUE)
    BY <1>1, <1>2 DEF FaultInv, RunnerTypes
  <2>2. QED
    BY <1>2, <2>1
<1>4. ~Running'
  BY <1>1 DEF Running
<1>5. QED
  BY <1>1, <1>2, <1>3, <1>4, ScenarioInPace

LEMMA WriteReportInPace ==
  ASSUME GoodInv, conditions = "good", WriteReport
  PROVE  GoodInv'
<1>1. /\ stage' = "over" /\ report' = IF \A i \in DOMAIN results : results[i]
                                      THEN "passed" ELSE "failed"
      /\ UNCHANGED <<matrix, conditions, index, captures, results, history>>
  BY DEF WriteReport
<1>2. \A i \in DOMAIN results : results[i]
  BY DEF GoodInv
<1>3. QED
  BY <1>1, <1>2, ScenarioInPace DEF Running

LEMMA StutterInPace ==
  ASSUME FaultInv, GoodInv, conditions = "good", UNCHANGED vars
  PROVE  GoodInv'
<1>1. /\ UNCHANGED <<matrix, conditions, index, stage, captures, results, report>>
      /\ UNCHANGED <<fixture, inputs, gatePrevious, observer, history, adapter>>
      /\ UNCHANGED <<matrix, index, captures, stage, nextEvent, markers, observed>>
      /\ RunnerTypes
  BY DEF vars, runner, observer, fixture, FaultInv
<1>2. CASE Running
  <2>1. MarkersPace'
    BY <1>1, <1>2, MarkersPaceKept DEF GoodInv
  <2>2. HasRecovery => ClockPace' /\ OdometryPace' /\ CloudPace'
    BY <1>1, <1>2, PaceKept DEF GoodInv
  <2>3. QED
    BY <1>1, <1>2, <2>1, <2>2, GoodWhileRunning DEF runner
<1>3. CASE ~Running
  <2>1. ~Running'
    BY <1>1, <1>3 DEF Running
  <2>2. /\ \A i \in DOMAIN results' : results'[i]
        /\ report' \in {"none", "passed"}
    BY <1>1 DEF GoodInv
  <2>3. QED
    BY <1>1, <2>1, <2>2, ScenarioInPace
<1>4. QED
  BY <1>2, <1>3

LEMMA StartsGood ==
  ASSUME Init
  PROVE  GoodInv
<1>1. results = <<>> /\ captures = <<>> /\ report = "none" /\ stage = "ready"
  BY DEF Init
<1>2. SafeThroughout
  BY <1>1 DEF SafeThroughout
<1>3. QED
  BY <1>1, <1>2 DEF GoodInv, Running

(* A good run passes every scenario, and none without a node having        *)
(* noticed its fault, whatever the fault and the numbers of the profile:   *)
(* the recovery comes when gate and adapter can take it, and not before.   *)
THEOREM GoodRuns == Spec => []GoodRunsPass
<1>1. Init => GoodInv
  BY StartsGood
<1>2. FaultInv /\ GoodInv /\ [Next]_vars => GoodInv'
  <2> SUFFICES ASSUME FaultInv, GoodInv, [Next]_vars PROVE GoodInv'
    OBVIOUS
  <2>1. CASE conditions # "good"
    <3>1. conditions' = conditions
      BY DEF Next, Fixture, Pipeline, Runner, AdvanceClock, SeedOdometry, EmitEvent,
         HandleCloud, HandleOdometry, CheckLoss, LaunchFirst, LaunchRestart, SeeTerminal,
         GiveUp, StopAndCapture, Judge, WriteReport, vars, runner
    <3>2. QED
      BY <2>1, <3>1 DEF GoodInv
  <2>2. CASE conditions = "good"
    <3>1. ~GiveUp
      BY <2>2 DEF GiveUp, DeadlineMayPass
    <3>2. QED
      BY <2>2, <3>1, AdvanceClockInPace, SeedOdometryInPace, EmitEventInPace,
         HandleCloudInPace, HandleOdometryInPace, CheckLossInPace, LaunchFirstInPace,
         LaunchRestartInPace, SeeTerminalInPace, StopAndCaptureInPace, JudgeInPace,
         WriteReportInPace, StutterInPace
         DEF Next, Fixture, Pipeline, Runner
  <2>3. QED
    BY <2>1, <2>2
<1>3. GoodInv => GoodRunsPass
  BY DEF GoodInv, GoodRunsPass
<1>4. QED
  BY <1>1, <1>2, <1>3, FaultInvariant, PTL DEF Spec
=============================================================================
