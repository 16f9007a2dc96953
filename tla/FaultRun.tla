------------------------------ MODULE FaultRun ------------------------------
(***************************************************************************)
(* The fault acceptance of go2_validation.  For every scenario of a matrix *)
(* a runner launches a fixture and the mapping inputs it feeds: the cloud  *)
(* gate, the scan converter and the odometry adapter.  The fixture owns    *)
(* the clock and publishes a baseline, a fault and a recovery, each with a *)
(* marker.  An observer collects the markers and the stamps of the four    *)
(* derived streams.  When the runner has seen the last marker it lets the  *)
(* outputs settle, stops the launch and judges the scenario from what was  *)
(* observed; a fixture that must exit is launched a second time.           *)
(*                                                                         *)
(* A tick of the fixture is FixtureTick units of the clock, one unit is    *)
(* the nanosecond the code adds and subtracts.  Subscriptions of the gate  *)
(* and the adapter keep one message.  Three kinds of runs are told apart:  *)
(* in a `good' run every node keeps pace with the fixture and nothing is   *)
(* lost; in a `slow' run a node may come late, or be stopped, before it    *)
(* handles what it was sent; in a `bad' run the observer may also miss     *)
(* markers and outputs, and something foreign may be found in the graph.   *)
(* Scenario name and reason code travel unchanged through the launch       *)
(* arguments and the markers and are left out.                             *)
(***************************************************************************)
EXTENDS Integers, Sequences, FiniteSetsExt, SequencesExt

CONSTANTS
  Matrices,        (* Sequences of fault kinds to run.                     *)
  NoSample,        (* The adapter has no previous sample.                  *)
  FixtureTick,     (* TICK_NANOSECONDS                                     *)
  StartupTicks,    (* STARTUP_TICKS                                        *)
  Baseline,        (* BASELINE_CLOCK_NANOSECONDS                           *)
  FaultOffset,     (* FAULT_OFFSET_NANOSECONDS                             *)
  RecoveryDelay,   (* DEFAULT_RECOVERY_DELAY_NANOSECONDS                   *)
  LossDelay,       (* ODOMETRY_LOSS_RECOVERY_DELAY_NANOSECONDS             *)
  Deadline,        (* Recovery deadline of a scenario, and age limit of a  *)
                   (* cloud: both a second.                                *)
  MaxGap, MaxTranslation, RecoverySamples, CheckPeriod, CheckLag,
                   (* The adapter's profile replay_enforce.                *)
  MaxLosses        (* Bound: outputs and markers the observer misses.      *)

CloudFaults == {"malformed_layout", "empty_cloud", "nan_cloud", "stale_cloud"}
OdometryFaults == {"odom_regression", "odom_jump", "odom_loss"}
Kinds == CloudFaults \cup OdometryFaults
         \cup {"tf_loss", "process_exit", "launch_failure"}
Streams == {"validated_cloud", "scan", "odom", "tf"}
NoCloud == [stamp |-> 0, defect |-> "absent"]

ASSUME MatrixAssumption == Matrices \subseteq Seq(Kinds) \ {<<>>}
ASSUME TimeAssumption ==
  /\ {FixtureTick, StartupTicks, Baseline, FaultOffset, RecoveryDelay, LossDelay,
      Deadline} \subseteq Nat \ {0}
  /\ StartupTicks * FixtureTick <= Baseline
ASSUME ProfileAssumption ==
  /\ {MaxGap, MaxTranslation, RecoverySamples, CheckPeriod, CheckLag, MaxLosses}
     \subseteq Nat
  /\ NoSample \notin [stamp : Nat, pose : [x : Int, heading : Int],
                      framesMatch : BOOLEAN, finite : BOOLEAN]
(* The seed of a recovery is out of the window of the fault's marker, the  *)
(* adapter takes the jump for one and the time to the recovery for no gap, *)
(* and a recovery needs more than one sample.                              *)
ASSUME RecoveryAssumption ==
  /\ RecoveryDelay > 2 /\ LossDelay > 2 /\ RecoveryDelay <= MaxGap
  /\ MaxTranslation < 5 /\ RecoverySamples > 1
(* What a good run needs to pass: delays of whole ticks below the deadline *)
(* of the recovery, baseline and recovery within the gap of the adapter, a *)
(* loss longer than its timer needs, and a seed that is half a recovery.   *)
ASSUME PaceAssumption ==
  /\ RecoveryDelay < Deadline /\ LossDelay < Deadline /\ Deadline < Baseline
  /\ FixtureTick > 1
  /\ \A delay \in {RecoveryDelay, LossDelay} :
       \E ticks \in 1..delay : delay = ticks * FixtureTick
  /\ FaultOffset + RecoveryDelay <= MaxGap
  /\ MaxGap + CheckPeriod + CheckLag + 1 < FaultOffset + LossDelay
  /\ RecoverySamples = 2

VARIABLES
  matrix,        (* The scenarios, by kind of fault.                       *)
  conditions,    (* good, slow or bad.                                     *)
  index,         (* Scenario in hand.                                      *)
  stage,         (* Where the runner is.                                   *)
  captures,      (* What it captured of the scenario's attempts.           *)
  results,       (* Whether each scenario judged so far passed.            *)
  report,        (* The document of the matrix.                            *)
  clock,         (* The fixture's clock, and with it that of all nodes.    *)
  nextEvent,     (* _event_index; one past the last when done.             *)
  cloudIn,       (* The cloud waiting for the gate.                        *)
  odomIn,        (* The odometry sample waiting for the adapter.           *)
  gatePrevious,  (* _previous_stamp_nanoseconds of the gate; 0 for None.   *)
  markers,       (* Markers the observer received.                         *)
  observed,      (* Outputs the observer received.                         *)
  losses,        (* Markers and outputs it missed in a bad run.            *)
  emitted,       (* History: outputs published in the scenario.            *)
  noticed,       (* History: a node refused an input or reported a loss.   *)
  enforce, previousTimestamp, previousSample, recoveryRequired,
  consecutiveValid, receivedOnce, silence, lossReported, published,
  sinceCheck, run, rejectedInRun   (* The odometry adapter.                *)

Adapter == INSTANCE OdometryAdapter WITH
  Stamps <- 1..(Baseline + Deadline), Poses <- [x : {0, 5}, heading : {0}],
  MaxYaw <- 0, Turn <- 1

fixture == <<clock, nextEvent>>
inputs == <<cloudIn, odomIn>>
observer == <<markers, observed, losses>>
history == <<emitted, noticed>>
runner == <<matrix, conditions, index, stage, captures, results, report>>
adapter == <<enforce, previousTimestamp, previousSample, recoveryRequired,
             consecutiveValid, receivedOnce, silence, lossReported, published,
             sinceCheck, run, rejectedInRun>>
vars == <<runner, fixture, inputs, gatePrevious, observer, history, adapter>>

kind == matrix[index]
Restarted == captures # <<>>

-----------------------------------------------------------------------------
(* The fixture: what it will publish, and when.                            *)

FaultAt == Baseline + FaultOffset

(* Mutant: a lost odometry recovers as soon as every other fault.          *)
OneDelay == RecoveryDelay

Delay == IF kind = "odom_loss" THEN LossDelay ELSE RecoveryDelay

(* An event, and the marker read back from its JSON text.                  *)
Event(phase, at) == [phase |-> phase, clock |-> at]

ProcessExitEvents ==
  <<Event("baseline", Baseline), Event("suppressed", FaultAt),
    Event("owned_child_exit", FaultAt)>>
RecoveringEvents ==
  <<Event("baseline", Baseline), Event("suppressed", FaultAt),
    Event("recovered", FaultAt + Delay)>>

(* build_attempt_events; a delay beyond the deadline is refused.           *)
Events ==
  IF Delay > Deadline \/ kind = "launch_failure" THEN <<>>
  ELSE IF kind # "process_exit" THEN RecoveringEvents
  ELSE IF Restarted THEN <<Event("recovered", FaultAt + LossDelay)>>
  ELSE ProcessExitEvents

ExpectedExit ==
  CASE kind = "launch_failure" -> 23
    [] kind = "process_exit" -> 75
    [] OTHER -> 0

Cloud(stamp, defect) == [stamp |-> stamp, defect |-> defect]
Sample(at, x) == [stamp |-> at, pose |-> [x |-> x, heading |-> 0],
                  framesMatch |-> TRUE, finite |-> TRUE]

HasInputs(event) == event.phase \in {"baseline", "recovered"}
AtFault(event) == event.phase = "suppressed" /\ kind # "process_exit"

(* The cloud published with an event, or none.                             *)
CloudOf(event) ==
  IF HasInputs(event) THEN Cloud(event.clock, "none")
  ELSE IF ~AtFault(event) THEN NoCloud
  ELSE CASE kind = "stale_cloud" -> Cloud(1, "none")
         [] kind \in OdometryFaults -> Cloud(event.clock, "none")
         [] OTHER -> Cloud(event.clock, kind)

(* The odometry sample published with an event, or none.                   *)
OdometryOf(event) ==
  IF HasInputs(event) THEN Sample(event.clock, 0)
  ELSE IF ~AtFault(event) \/ kind = "odom_loss" THEN NoSample
  ELSE CASE kind = "odom_regression" -> Sample(Baseline - 1, 0)
         [] kind = "odom_jump" -> Sample(event.clock, 5)
         [] OTHER -> Sample(event.clock, 0)

Lesser(a, b) == IF a < b THEN a ELSE b

MayLose == conditions = "bad" /\ losses < MaxLosses

(* The fixture publishes the clock.  In a good run every node has handled  *)
(* its inputs and served its timer by then.                                *)
ClockTo(t) ==
  /\ clock' = t
  /\ silence' = IF receivedOnce
                THEN Lesser(Adapter!MaxSilence, silence + t - clock) ELSE silence
  /\ sinceCheck' = Lesser(CheckPeriod + CheckLag, sinceCheck + t - clock)
  /\ conditions = "good" =>
       /\ cloudIn = NoCloud /\ odomIn = NoSample
       /\ sinceCheck + t - clock <= CheckPeriod + CheckLag
  /\ UNCHANGED <<enforce, previousTimestamp, previousSample, recoveryRequired,
                 consecutiveValid, receivedOnce, lossReported, published, run,
                 rejectedInRun>>

Running == stage \in {"watch", "settle"}
Due == Events[nextEvent]
FixtureAlive == Running /\ nextEvent <= Len(Events)

(* Mutant: only a jump is followed by a seed.                              *)
SeedOnlyAfterJump ==
  /\ Due.phase = "recovered" /\ kind = "odom_jump" /\ clock < Due.clock - 1

(* A recovery of the odometry is preceded by one sample to start it from.  *)
SeedDue ==
  /\ Due.phase = "recovered" /\ kind \in OdometryFaults /\ clock < Due.clock - 1

(* _tick before the next event.                                            *)
AdvanceClock ==
  /\ FixtureAlive
  /\ clock + FixtureTick < Due.clock
  /\ ClockTo(clock + FixtureTick)
  /\ UNCHANGED <<runner, nextEvent, inputs, gatePrevious, observer, history>>

SeedOdometry ==
  /\ FixtureAlive
  /\ clock + FixtureTick >= Due.clock
  /\ SeedDue
  /\ ClockTo(Due.clock - 1)
  /\ odomIn' = Sample(Due.clock - 1, 0)
  /\ UNCHANGED <<runner, nextEvent, cloudIn, gatePrevious, observer, history>>

(* Mutant: the fixture is not done with its last event.                    *)
EmitEventTwice ==
  /\ FixtureAlive
  /\ clock + FixtureTick >= Due.clock /\ ~SeedDue
  /\ ClockTo(Due.clock)
  /\ cloudIn' = IF CloudOf(Due) = NoCloud THEN cloudIn ELSE CloudOf(Due)
  /\ odomIn' = IF OdometryOf(Due) = NoSample THEN odomIn ELSE OdometryOf(Due)
  /\ markers' = Append(markers, Due) /\ UNCHANGED losses
  /\ nextEvent' = Lesser(nextEvent + 1, Len(Events))
  /\ UNCHANGED <<runner, gatePrevious, observed, history>>

(* _tick at an event: clock, inputs, marker.  A subscription keeps the     *)
(* last message only; the marker may not reach the observer.               *)
EmitEvent ==
  /\ FixtureAlive
  /\ clock + FixtureTick >= Due.clock /\ ~SeedDue
  /\ ClockTo(Due.clock)
  /\ cloudIn' = IF CloudOf(Due) = NoCloud THEN cloudIn ELSE CloudOf(Due)
  /\ odomIn' = IF OdometryOf(Due) = NoSample THEN odomIn ELSE OdometryOf(Due)
  /\ \/ markers' = Append(markers, Due) /\ UNCHANGED losses
     \/ MayLose /\ losses' = losses + 1 /\ UNCHANGED markers
  /\ nextEvent' = nextEvent + 1
  /\ UNCHANGED <<runner, gatePrevious, observed, history>>

-----------------------------------------------------------------------------
(* The nodes the fixture feeds.                                            *)

(* Outputs are published and, but for a bad run, observed.                 *)
Publish(streams, stamp) ==
  LET outputs == [stream : streams, stamp : {stamp}] IN
  /\ emitted' = emitted \cup outputs
  /\ \/ observed' = observed \cup outputs /\ UNCHANGED losses
     \/ /\ MayLose /\ losses' = losses + 1
        /\ \E missed \in outputs : observed' = observed \cup (outputs \ {missed})

(* assess_mapping_cloud                                                    *)
GateAccepts(cloud) ==
  /\ cloud.defect \notin {"empty_cloud", "malformed_layout", "nan_cloud"}
  /\ cloud.stamp > 0 /\ cloud.stamp >= gatePrevious
  /\ clock - cloud.stamp <= Deadline

(* _on_cloud of the gate, then the converter: it makes a scan of every     *)
(* cloud whose frame it can transform.                                     *)
HandleCloud ==
  /\ Running /\ cloudIn # NoCloud
  /\ cloudIn' = NoCloud
  /\ IF GateAccepts(cloudIn)
     THEN /\ gatePrevious' = cloudIn.stamp
          /\ Publish({"validated_cloud"} \cup
                     IF cloudIn.defect = "tf_loss" THEN {} ELSE {"scan"},
                     cloudIn.stamp)
     ELSE UNCHANGED <<gatePrevious, observed, losses, emitted>>
  /\ noticed' = (noticed \/ ~GateAccepts(cloudIn) \/ cloudIn.defect = "tf_loss")
  /\ UNCHANGED <<runner, fixture, odomIn, markers, adapter>>

(* _on_odometry of the adapter: only a healthy or recovered sample is      *)
(* published, on /odom and as the transform odom->base.                    *)
HandleOdometry ==
  /\ Running /\ odomIn # NoSample
  /\ odomIn' = NoSample
  /\ \/ /\ Adapter!HealthySample(odomIn) \/ Adapter!RecoveredSample(odomIn)
        /\ Publish({"odom", "tf"}, odomIn.stamp) /\ UNCHANGED noticed
     \/ /\ \/ Adapter!RejectSample(odomIn) /\ noticed' = TRUE
           \/ Adapter!FaultSample(odomIn) /\ noticed' = TRUE
           \/ Adapter!PendingSample(odomIn) /\ UNCHANGED noticed
        /\ UNCHANGED <<observed, losses, emitted>>
  /\ UNCHANGED <<runner, fixture, cloudIn, gatePrevious, markers>>

CheckLoss ==
  /\ Running /\ sinceCheck >= CheckPeriod
  /\ \/ Adapter!CheckQuiet /\ UNCHANGED noticed
     \/ Adapter!ReportLoss /\ noticed' = TRUE
  /\ UNCHANGED <<runner, fixture, inputs, gatePrevious, observer, emitted>>

-----------------------------------------------------------------------------
(* The runner: fault_runtime_execution.py, fault_acceptance_runtime.py.    *)

(* The launch starts every node anew.                                      *)
FreshPipeline ==
  /\ cloudIn' = NoCloud /\ odomIn' = NoSample /\ gatePrevious' = 0
  /\ enforce' = TRUE /\ previousTimestamp' = 0 /\ previousSample' = NoSample
  /\ recoveryRequired' = FALSE /\ consecutiveValid' = 0
  /\ receivedOnce' = FALSE /\ silence' = 0 /\ lossReported' = FALSE
  /\ published' = NoSample /\ sinceCheck' = 0
  /\ run' = 0 /\ rejectedInRun' = FALSE

(* A fixture starts before the baseline, a restarted one at the fault.     *)
StartFixture(at) == clock' = at /\ nextEvent' = 1

FreshObserver == markers' = <<>> /\ observed' = {} /\ UNCHANGED losses

(* The marker that ends an attempt, or the exit the launch logs, which is  *)
(* there as soon as the launch has logged it.                              *)
TerminalSeen ==
  IF kind = "launch_failure" THEN TRUE
  ELSE \E i \in DOMAIN markers : markers[i].phase =
         IF kind = "process_exit" /\ ~Restarted
         THEN "owned_child_exit" ELSE "recovered"

(* Mutant: the window of a marker is open below.                           *)
SeenBefore(marker, stream, outputs) ==
  \E o \in outputs : o.stream = stream /\ o.stamp <= marker.clock + 1

(* _seen                                                                   *)
Seen(marker, stream, outputs) ==
  \E o \in outputs : o.stream = stream /\ o.stamp - marker.clock \in 0..1

(* correlate_fixture_events                                                *)
Correlated ==
  [i \in DOMAIN markers |->
     [phase |-> markers[i].phase, clock |-> markers[i].clock,
      streams |-> {s \in Streams : Seen(markers[i], s, observed)}]]

(* _child_exit_code: of the log, of the marker, or none.                   *)
CapturedExit ==
  IF kind = "launch_failure"
     \/ (\E i \in DOMAIN markers : markers[i].phase = "owned_child_exit")
  THEN ExpectedExit ELSE 0

LaunchFirst ==
  /\ stage = "ready" \/ (stage = "judged" /\ index < Len(matrix))
  /\ index' = IF stage = "ready" THEN index ELSE index + 1
  /\ captures' = <<>>
  /\ emitted' = {} /\ noticed' = FALSE
  /\ stage' = "watch"
  /\ StartFixture(Baseline - StartupTicks * FixtureTick)
  /\ FreshPipeline /\ FreshObserver
  /\ UNCHANGED <<matrix, conditions, results, report>>

LaunchRestart ==
  /\ stage = "restart"
  /\ stage' = "watch"
  /\ StartFixture(FaultAt)
  /\ FreshPipeline /\ FreshObserver
  /\ UNCHANGED <<matrix, conditions, index, captures, results, report, history>>

SeeTerminal ==
  /\ stage = "watch" /\ TerminalSeen
  /\ stage' = "settle"
  /\ UNCHANGED <<matrix, conditions, index, captures, results, report, fixture,
                 inputs, gatePrevious, observer, history, adapter>>

(* Mutant: the runner waits for the marker without a deadline.             *)
NoDeadline == FALSE

(* A good run ends well before its deadline, another may not.              *)
DeadlineMayPass == conditions # "good"

(* No terminal marker and no logged exit in time, or the launch has exited *)
(* before: the attempt is an error, and with it the whole matrix.          *)
GiveUp ==
  /\ stage = "watch" /\ DeadlineMayPass
  /\ kind = "launch_failure" \/ ~TerminalSeen
  /\ stage' = "over" /\ report' = "aborted"
  /\ UNCHANGED <<matrix, conditions, index, captures, results, fixture, inputs,
                 gatePrevious, observer, history, adapter>>

(* A child that must fail may fail of something else in a bad run.         *)
OtherExits == IF kind = "launch_failure" /\ conditions = "bad" THEN {1} ELSE {}

(* The outputs have settled, or not; the launch is stopped and what was    *)
(* observed becomes the capture.                                           *)
StopAndCapture ==
  /\ stage = "settle"
  /\ conditions = "good" => cloudIn = NoCloud /\ odomIn = NoSample
  /\ \E clean \in BOOLEAN, exit \in {CapturedExit} \cup OtherExits :
       /\ clean \/ conditions = "bad"
       /\ captures' = Append(captures,
            [exit |-> exit, events |-> Correlated, clean |-> clean])
  /\ stage' = IF kind = "process_exit" /\ ~Restarted THEN "restart" ELSE "captured"
  /\ UNCHANGED <<matrix, conditions, index, results, report, fixture, inputs,
                 gatePrevious, observer, history, adapter>>

(* The first event of a phase, or none.                                    *)
FirstEvent(events, phase) ==
  {events[i] : i \in {j \in DOMAIN events :
     /\ events[j].phase = phase
     /\ \A k \in 1..(j - 1) : events[k].phase # phase}}

(* _common_failure, seen in any attempt.                                   *)
SafeThroughout == \A i \in DOMAIN captures : captures[i].clean

(* _evaluate_recovery                                                      *)
RecoveryPasses(events, suppressed) ==
  \E recovered \in FirstEvent(events, "recovered") :
    /\ recovered.streams = Streams
    /\ recovered.clock - suppressed.clock < Deadline

(* _evaluate_restart                                                       *)
RestartPasses(events, suppressed) ==
  /\ FirstEvent(events, "owned_child_exit") # {}
  /\ captures[1].exit = ExpectedExit /\ captures[2].exit = 0
  /\ RecoveryPasses(events, suppressed)

(* The events of both attempts.                                            *)
AllEvents ==
  captures[1].events \o (IF Len(captures) = 2 THEN captures[2].events ELSE <<>>)

(* evaluate_fault_acceptance                                               *)
Passes ==
  /\ SafeThroughout
  /\ \/ kind = "launch_failure" /\ captures[1].exit = ExpectedExit
     \/ /\ kind = "process_exit"
        /\ \E suppressed \in FirstEvent(AllEvents, "suppressed") :
             RestartPasses(AllEvents, suppressed)
     \/ /\ kind \notin {"launch_failure", "process_exit"}
        /\ captures[1].exit = 0
        /\ \E suppressed \in FirstEvent(AllEvents, "suppressed") :
             /\ suppressed.streams # Streams
             /\ RecoveryPasses(AllEvents, suppressed)

(* _execute_scenario: the row of one scenario.                             *)
Judge ==
  /\ stage = "captured"
  /\ results' = Append(results, Passes)
  /\ stage' = "judged"
  /\ UNCHANGED <<matrix, conditions, index, captures, report, fixture, inputs,
                 gatePrevious, observer, history, adapter>>

(* execute_fault_matrix: the report once every row is there.               *)
WriteReport ==
  /\ stage = "judged" /\ index = Len(matrix)
  /\ report' = IF \A i \in DOMAIN results : results[i] THEN "passed" ELSE "failed"
  /\ stage' = "over"
  /\ UNCHANGED <<matrix, conditions, index, captures, results, fixture, inputs,
                 gatePrevious, observer, history, adapter>>

-----------------------------------------------------------------------------
Init ==
  /\ matrix \in Matrices /\ conditions \in {"good", "slow", "bad"}
  /\ index = 1 /\ stage = "ready" /\ captures = <<>> /\ results = <<>>
  /\ report = "none"
  /\ clock = 0 /\ nextEvent = 1
  /\ cloudIn = NoCloud /\ odomIn = NoSample /\ gatePrevious = 0
  /\ markers = <<>> /\ observed = {} /\ losses = 0
  /\ emitted = {} /\ noticed = FALSE
  /\ Adapter!Init /\ enforce

Fixture == AdvanceClock \/ SeedOdometry \/ EmitEvent
Pipeline == HandleCloud \/ HandleOdometry \/ CheckLoss
Runner ==
  LaunchFirst \/ LaunchRestart \/ SeeTerminal \/ GiveUp \/ StopAndCapture
    \/ Judge \/ WriteReport

Next == Fixture \/ Pipeline \/ Runner

Spec == Init /\ [][Next]_vars

(* The runner's loop is bounded in time; fixture and nodes are spun.       *)
FairSpec ==
  /\ Spec
  /\ WF_vars(Runner) /\ WF_vars(Fixture)
  /\ WF_vars(HandleCloud) /\ WF_vars(HandleOdometry) /\ WF_vars(CheckLoss)

-----------------------------------------------------------------------------
(* Properties.                                                             *)

(* The types of the variables; the fixture publishes no event beyond its   *)
(* last, and there is one marker at most for each.                         *)
TypeOK ==
  /\ matrix \in Matrices /\ conditions \in {"good", "slow", "bad"}
  /\ index \in DOMAIN matrix
  /\ stage \in {"ready", "watch", "settle", "restart", "captured", "judged", "over"}
  /\ Len(captures) <= 2 /\ results \in Seq(BOOLEAN)
  /\ report \in {"none", "passed", "failed", "aborted"}
  /\ clock \in Nat /\ nextEvent \in 1..4
  /\ Len(markers) < nextEvent
  /\ gatePrevious \in Nat
  /\ observed \subseteq emitted /\ losses \in 0..MaxLosses
  /\ noticed \in BOOLEAN

(* The outputs the fault matrix says a fault of each kind suppresses.      *)
Withheld ==
  CASE kind = "tf_loss" -> {"scan"}
    [] kind \in OdometryFaults -> {"odom"}
    [] OTHER -> {"validated_cloud", "scan"}

(* The fault reaches a node, by what it sends or fails to send: a child    *)
(* that has exited sends nothing that a node could notice.                 *)
ReachesNodes == kind \notin {"process_exit", "launch_failure"}

(* A scenario that passed has recovered: all four streams were published   *)
(* for the recovery of the attempt that had to recover, nothing foreign    *)
(* was seen in any attempt, and what the fault must suppress was not       *)
(* published for it, although the runner asks only that something was not, *)
(* and whatever the observer missed                                        *)
(* (fault_acceptance_runner.py:66, fault_runtime_capture.py:93).           *)
PassedIsTrue ==
  stage = "judged" /\ Last(results) =>
    /\ SafeThroughout
    /\ kind # "launch_failure" =>
         \A s \in Streams : Seen(Last(Events), s, emitted)
    /\ \A s \in Withheld : ~Seen(Event("suppressed", FaultAt), s, emitted)

(* A good run passes every scenario, and none without a node having        *)
(* noticed the fault: the fixture's clock leaves the loss timer, the gate  *)
(* and the recovery of the adapter the time they need                      *)
(* (fault_fixture_model.py:96, fault_fixture_node.py:91).                  *)
GoodRunsPass ==
  conditions = "good" =>
    /\ \A i \in DOMAIN results : results[i]
    /\ report \in {"none", "passed"}
    /\ stage = "judged" /\ ReachesNodes => noticed

(* Whatever is lost or late, the matrix ends with a report                 *)
(* (fault_runtime_execution.py:93, fault_acceptance_runtime.py:168).       *)
MatrixReports == <>(report # "none")
=============================================================================
