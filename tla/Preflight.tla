----------------------------- MODULE Preflight -----------------------------
(***************************************************************************)
(* The integrated preflight.  A runner starts the telemetry and a launch,  *)
(* which starts the stack and an observer.  The observer watches the graph *)
(* of nodes once a second, asks the motion adapter for its two gates, and  *)
(* accumulates the messages of the topics; after its time it writes a      *)
(* report and exits, which shuts the launch down.  The runner waits for    *)
(* the launch, or stops it, looks for what is left, adds its own checks to *)
(* the report and writes the result.                                       *)
(*                                                                         *)
(* Time is in seconds, the period of the graph timer.  The stack is the    *)
(* motion adapter and the odometry adapter; the other nodes are watched    *)
(* alike.  One topic stands for the seven: the one whose poses are also    *)
(* judged, with a position on a line.  Static transforms and the           *)
(* environment of the process are one Boolean each; the files of the run   *)
(* have a directory of their own and are never old.                        *)
(***************************************************************************)
EXTENDS Integers, Sequences, FiniteSets

CONSTANTS
  Duration,       (* duration_sec                                          *)
  Grace,          (* STARTUP_GRACE_SECONDS                                 *)
  MissingLimit,   (* Checks in a row without a node that make it lost.     *)
  MaxGap,         (* maximum_gap_seconds of the topic.                     *)
  RatePeriod,     (* Seconds a message may take at the minimum rate.       *)
  DriftWarning,   (* DRIFT_WARNING_TRANSLATION_M                           *)
  StepFailure,    (* STEP_FAILURE_TRANSLATION_M                            *)
  Positions,      (* Positions of the standing robot.                      *)
  MaxOdd          (* Bound: odd events of nodes, messages and processes.   *)

ASSUME TimeAssumption ==
  /\ {Duration, MissingLimit, MaxGap, RatePeriod} \subseteq Nat \ {0}
  /\ Grace \in 0..Duration /\ MaxOdd \in Nat
ASSUME PositionAssumption ==
  0 \in Positions /\ Positions \subseteq Int /\ {DriftWarning, StepFailure} \subseteq Nat

Nodes == {"motion", "odometry"}   (* EXPECTED_NODES                        *)
Unknown == <<>>                   (* No answer about the gates yet.        *)

VARIABLES
  stage,        (* Where the runner is.                                    *)
  telemetry,    (* The tegrastats process.                                 *)
  launch,       (* The launch process.                                     *)
  clean,        (* The launch returned 0 without a time-out.               *)
  result,       (* Status in result.json, or none.                         *)
  exit,         (* Exit code of the runner.                                *)
  time,         (* Seconds since the launch.                               *)
  gates,        (* output_enabled and physical_validation_approved.        *)
  present,      (* Nodes of the stack that run.                            *)
  everUp,       (* Nodes that ran at some time.                            *)
  observer,     (* The observer process.                                   *)
  checkDue,     (* The graph timer of this second has not been served.     *)
  graph,        (* What the observer has seen of the graph and the gates.  *)
  topic,        (* TopicAccumulator                                        *)
  report,       (* Status in observer.json, or none.                       *)
  odd,          (* Odd events so far.                                      *)
  absent,       (* History: seconds since each node was last there.        *)
  longest,      (* History: the most of them.                              *)
  heard,        (* History: the second of the last message.                *)
  commanded     (* History: a command publisher was there at a full second.*)

processes == <<stage, telemetry, launch, clean, result, exit>>
stack == <<present, everUp>>
watching == <<observer, checkDue, graph, topic, report>>
history == <<absent, longest, heard, commanded>>
vars == <<processes, time, gates, stack, watching, odd, history>>

Odd == odd < MaxOdd /\ odd' = odd + 1
Later(a, b) == IF a > b THEN a ELSE b
Distance(a, b) == IF a > b THEN a - b ELSE b - a

-----------------------------------------------------------------------------
(* The observer: preflight_observer_node.py, preflight_accumulator.py.     *)

NoTopic ==
  [received |-> 0, published |-> FALSE, invalid |-> FALSE, regressed |-> FALSE,
   otherFrame |-> FALSE, first |-> 0, last |-> 0, gap |-> 0, stamp |-> 0,
   firstX |-> 0, lastX |-> 0, step |-> 0]
NoGraph ==
  [seen |-> {}, lost |-> {}, streak |-> [n \in Nodes |-> 0],
   commanders |-> 0, future |-> "none", gates |-> Unknown]

(* A message as it is sampled, with one thing wrong at most: an old stamp, *)
(* a value that is not finite, another frame, a step aside.                *)
Plain == [stamp |-> time + 1, finite |-> TRUE, frame |-> TRUE, x |-> 0]
Messages ==
  {[Plain EXCEPT !.x = x] : x \in Positions} \cup
  {[Plain EXCEPT !.stamp = time - 1], [Plain EXCEPT !.finite = FALSE],
   [Plain EXCEPT !.frame = FALSE]}
IsValid(m) == m.stamp > 0 /\ m.finite

(* _observe_stamp: the last stamp that did not go back.                    *)
Stamped(t, m) ==
  IF m.stamp <= 0 THEN t
  ELSE IF m.stamp < t.stamp THEN [t EXCEPT !.regressed = TRUE]
  ELSE [t EXCEPT !.stamp = m.stamp]

(* _observe_pose                                                           *)
Posed(t, m) ==
  [t EXCEPT !.firstX = IF t.received = 0 THEN m.x ELSE @,
            !.step = IF t.received = 0 THEN 0 ELSE Later(@, Distance(t.lastX, m.x)),
            !.lastX = m.x]

(* observe                                                                 *)
Observed(t, m) ==
  LET timed == [t EXCEPT !.invalid = @ \/ ~IsValid(m),
                         !.otherFrame = @ \/ ~m.frame,
                         !.first = IF t.received = 0 THEN time ELSE @,
                         !.gap = IF t.received = 0 THEN 0 ELSE Later(@, time - t.last),
                         !.last = time]
  IN  [Posed(Stamped(timed, m), m) EXCEPT !.received = @ + 1]

(* The command publishers of the project: the motion adapter has one when  *)
(* both its gates are open.                                                *)
Commanders == IF "motion" \in present /\ gates = <<TRUE, TRUE>> THEN 1 ELSE 0

(* Mutant: a node that is lost is noticed a check too late.                *)
LostAfter(streak) == {n \in Nodes : streak[n] > MissingLimit}

LostBy(streak) == {n \in Nodes : streak[n] >= MissingLimit}

(* Mutant: the gates are taken from a query that is done, whatever came.   *)
GateOfAnyQuery(g) ==
  IF g.gates # Unknown THEN g
  ELSE IF g.future = "none" /\ "motion" \in present THEN [g EXCEPT !.future = "asked"]
  ELSE IF g.future \in {"answered", "failed"} THEN [g EXCEPT !.gates = gates]
  ELSE g

(* _observe_gate: asked once; an answer is kept, a failed query too.       *)
GateObserved(g) ==
  IF g.gates # Unknown THEN g
  ELSE IF g.future = "none" /\ "motion" \in present THEN [g EXCEPT !.future = "asked"]
  ELSE IF g.future = "answered" THEN [g EXCEPT !.gates = gates]
  ELSE g

(* _observe_graph; absence counts after the start-up grace only.           *)
GraphObserved ==
  LET streak == IF time < Grace THEN graph.streak
                ELSE [n \in Nodes |-> IF n \in present THEN 0 ELSE graph.streak[n] + 1]
  IN  GateObserved([graph EXCEPT !.seen = @ \cup present,
                                 !.streak = streak,
                                 !.lost = @ \cup LostBy(streak),
                                 !.commanders = Later(@, Commanders)])

TopicPublished == [topic EXCEPT !.published = @ \/ "odometry" \in present]

ServeTimer ==
  /\ observer = "observing" /\ checkDue
  /\ checkDue' = FALSE
  /\ graph' = GraphObserved /\ topic' = TopicPublished
  /\ UNCHANGED <<processes, time, gates, stack, observer, report, odd, history>>

(* The answer of the motion adapter, or an exception; one that never comes *)
(* is this step not taken.                                                 *)
AnswerGate ==
  /\ observer = "observing" /\ graph.future = "asked" /\ "motion" \in present
  /\ \/ graph' = [graph EXCEPT !.future = "answered"] /\ UNCHANGED odd
     \/ graph' = [graph EXCEPT !.future = "failed"] /\ Odd
  /\ UNCHANGED <<processes, time, gates, stack, observer, checkDue, topic, report,
                 history>>

(* A message a second at most, after the graph timer of its second: the    *)
(* two commute.  The observer takes none after its time.                   *)
ReceiveMessage ==
  /\ observer = "observing" /\ ~checkDue /\ "odometry" \in present
  /\ time <= Duration
  /\ topic.received = 0 \/ topic.last < time
  /\ \E m \in Messages :
       /\ topic' = Observed(topic, m)
       /\ IF m = Plain THEN UNCHANGED odd ELSE Odd
  /\ heard' = time
  /\ UNCHANGED <<processes, time, gates, stack, observer, checkDue, graph, report,
                 absent, longest, commanded>>

-----------------------------------------------------------------------------
(* Assessments: preflight_metrics.py, preflight_assessments.py.            *)

Status(passed) == IF passed THEN "PASS" ELSE "FAIL"

(* overall_status of the statuses of all checks.                           *)
Overall(statuses) ==
  IF "FAIL" \in statuses THEN "FAIL"
  ELSE IF "WARN" \in statuses THEN "WARN" ELSE "PASS"

(* assess_topic: graph, receive, schema, timing.  The rate is that between *)
(* the first and the last message.                                         *)
TopicChecks(t) ==
  {Status(t.published),
   Status(t.received > 1 /\ (t.received - 1) * RatePeriod >= t.last - t.first),
   Status(~t.invalid /\ ~t.otherFrame /\ t.received > 0),
   Status(t.received > 1 /\ ~t.regressed /\ t.gap <= MaxGap)}

(* assess_stationary_pose                                                  *)
PoseCheck(t) ==
  IF t.received = 0 \/ t.step > StepFailure THEN "FAIL"
  ELSE IF Distance(t.firstX, t.lastX) > DriftWarning THEN "WARN" ELSE "PASS"

(* assess_graph                                                            *)
GraphCheck(g) == Status(g.seen = Nodes /\ g.lost = {})

(* assess_safety                                                           *)
SafetyChecks(g) == {Status(g.gates = <<FALSE, FALSE>>), Status(g.commanders = 0)}

(* assess_transforms: odom->base arrives with the odometry.                *)
TransformCheck(t) == Status(t.received > 0)

(* The statuses of the report of what was seen of the graph and the topic. *)
ReportStatuses(g, t, environment) ==
  {Status(environment), GraphCheck(g), TransformCheck(t), PoseCheck(t)}
  \cup SafetyChecks(g) \cup TopicChecks(t)

(* What the observer knows ends with its process.                          *)
ObserverEnds ==
  /\ observer' = "ended" /\ checkDue' = FALSE
  /\ graph' = NoGraph /\ topic' = NoTopic

(* finalize: a last look at the graph, then the report, atomically; the    *)
(* environment is right or not.                                            *)
Finalize ==
  /\ observer = "observing" /\ time >= Duration
  /\ \E environment \in BOOLEAN :
       /\ IF environment THEN UNCHANGED odd ELSE Odd
       /\ report' = Overall(ReportStatuses(GraphObserved, TopicPublished, environment))
  /\ ObserverEnds
  /\ UNCHANGED <<processes, time, gates, stack, history>>

-----------------------------------------------------------------------------
(* The stack and the launch.                                               *)

(* A second passes; the graph timer is served in every second.             *)
Second ==
  /\ launch = "running" \/ observer = "observing"
  /\ time <= Duration
  /\ ~checkDue \/ observer # "observing"
  /\ time' = time + 1 /\ checkDue' = (observer = "observing")
  /\ absent' = [n \in Nodes |-> IF n \in present \/ time < Grace THEN 0 ELSE absent[n] + 1]
  /\ longest' = IF observer # "observing" THEN longest
                ELSE CHOOSE k \in {longest} \cup {absent'[n] : n \in Nodes} :
                       \A n \in Nodes : k >= longest /\ k >= absent'[n]
  /\ commanded' = (commanded \/ (Commanders > 0 /\ observer = "observing"))
  /\ UNCHANGED <<processes, gates, stack, observer, graph, topic, report, heard, odd>>

(* A node comes up within the grace, or late, or again.                    *)
NodeUp(n) ==
  /\ launch = "running" /\ n \notin present
  /\ IF n \in everUp \/ time > Grace THEN Odd ELSE UNCHANGED odd
  /\ present' = present \cup {n} /\ everUp' = everUp \cup {n}
  /\ absent' = [absent EXCEPT ![n] = 0]
  /\ UNCHANGED <<processes, time, gates, watching, longest, heard, commanded>>

NodeDown(n) ==
  /\ n \in present /\ Odd
  /\ present' = present \ {n}
  /\ UNCHANGED <<processes, time, gates, everUp, watching, history>>

ObserverDies ==
  /\ observer = "observing" /\ Odd
  /\ ObserverEnds
  /\ UNCHANGED <<processes, time, gates, stack, report, history>>

(* What survives its launch: nothing, or nodes that got away.              *)
NodesLeft ==
  \/ present' = {} /\ UNCHANGED odd
  \/ present' \in SUBSET present \ {{}} /\ Odd

(* The exit of the observer shuts the launch down, with its nodes; after a *)
(* signal of the runner it has timed out all the same.                     *)
LaunchEnds ==
  /\ launch = "running" /\ observer = "ended"
  /\ launch' = "ended" /\ clean' = (stage = "waiting")
  /\ NodesLeft
  /\ UNCHANGED <<stage, telemetry, result, exit, time, gates, everUp, watching, history>>

(* The launch itself dies and leaves its nodes and the observer, which may *)
(* go on and write its report.                                             *)
LaunchDies ==
  /\ launch = "running" /\ Odd
  /\ launch' = "ended"
  /\ UNCHANGED <<stage, telemetry, clean, result, exit, time, gates, stack, watching,
                 history>>

-----------------------------------------------------------------------------
(* The runner: preflight_runner_node.py, preflight_host.py.                *)

notRunner == <<time, gates, history>>
Over(code) == stage' = "over" /\ exit' = code

(* The parameters are refused, or tegrastats cannot be started.            *)
Refuse ==
  /\ stage = "idle" /\ Odd /\ Over(2)
  /\ UNCHANGED <<telemetry, launch, clean, result, notRunner, stack, watching>>

StartTelemetry ==
  /\ stage = "idle"
  /\ stage' = "starting" /\ telemetry' = "running"
  /\ UNCHANGED <<launch, clean, result, exit, notRunner, stack, watching, odd>>

StartLaunch ==
  /\ stage = "starting"
  /\ stage' = "waiting" /\ launch' = "running" /\ observer' = "observing"
  /\ UNCHANGED <<telemetry, clean, result, exit, notRunner, stack, checkDue, graph,
                 topic, report, odd>>

(* Nothing stops the telemetry when the launch cannot be started.          *)
StartLaunchFails ==
  /\ stage = "starting" /\ Odd /\ Over(2)
  /\ UNCHANGED <<telemetry, launch, clean, result, notRunner, stack, watching>>

AwaitLaunch ==
  /\ stage \in {"waiting", "sigint", "sigterm"} /\ launch = "ended"
  /\ stage' = "stopping"
  /\ UNCHANGED <<telemetry, launch, clean, result, exit, notRunner, stack, watching, odd>>

(* Mutant: there is no limit to the wait for the launch.                   *)
NeverLate == FALSE

Late == time > Duration

(* duration + 120 s have passed: SIGINT to the group of the launch.        *)
WaitTimeout ==
  /\ stage = "waiting" /\ launch = "running" /\ Late
  /\ stage' = "sigint"
  /\ UNCHANGED <<telemetry, launch, clean, result, exit, notRunner, stack, watching, odd>>

(* The launch obeys the signal to its group.                               *)
GroupEnds ==
  /\ stage \in {"sigint", "sigterm"} /\ launch = "running"
  /\ launch' = "ended" /\ ObserverEnds
  /\ NodesLeft
  /\ UNCHANGED <<stage, telemetry, clean, result, exit, notRunner, everUp, report>>

SigintTimeout ==
  /\ stage = "sigint" /\ launch = "running"
  /\ stage' = "sigterm"
  /\ UNCHANGED <<telemetry, launch, clean, result, exit, notRunner, stack, watching, odd>>

(* The last resort kills the launch alone, not its group: its nodes and    *)
(* the observer, which ignored both signals with it, run on.               *)
SigtermTimeout ==
  /\ stage = "sigterm" /\ launch = "running"
  /\ launch' = "ended" /\ stage' = "stopping"
  /\ UNCHANGED <<telemetry, clean, result, exit, notRunner, stack, watching, odd>>

StopTelemetry ==
  /\ stage = "stopping"
  /\ stage' = "assessing" /\ telemetry' = "ended"
  /\ UNCHANGED <<launch, clean, result, exit, notRunner, stack, watching, odd>>

(* Ctrl-C while the runner waits: the telemetry is stopped, not the launch.*)
Interrupt ==
  /\ stage \in {"waiting", "sigint", "sigterm"} /\ Odd /\ Over(130)
  /\ telemetry' = "ended"
  /\ UNCHANGED <<launch, clean, result, notRunner, stack, watching>>

(* parse_tegrastats: how many samples, the hottest and the fullest.        *)
Parsed(lines) ==
  [samples |-> Cardinality({i \in DOMAIN lines : lines[i] # "garbage"}),
   hot |-> \E i \in DOMAIN lines : lines[i] = "hot",
   full |-> \E i \in DOMAIN lines : lines[i] = "full"]

(* assess_resources                                                        *)
ResourceChecks(summary, kernel) ==
  {Status(summary.samples > 0), Status(summary.samples >= 2), Status(~summary.hot),
   IF summary.full THEN "WARN" ELSE "PASS",
   CASE kernel = "unavailable" -> "WARN"
     [] kernel = "events" -> "FAIL"
     [] kernel = "quiet" -> "PASS"}

(* Mutant: what the launch left running is not looked for.                 *)
LaunchCheckOnly == {Status(clean), Status(Commanders = 0)}

(* launch_check, residual_check, command_check; the observer's process is  *)
(* one of those that must be gone.                                         *)
TeardownChecks ==
  {Status(clean), Status(present = {} /\ observer # "observing"), Status(Commanders = 0)}

TelemetryLogs ==
  {<<>>, <<"cool">>, <<"cool", "cool">>, <<"garbage", "cool">>, <<"cool", "hot">>,
   <<"full", "cool">>}

(* The rest of _execute: the checks of the host, then the report of the    *)
(* observer, whose absence is an error.                                    *)
WriteResult ==
  /\ stage = "assessing"
  /\ \E lines \in TelemetryLogs, kernel \in {"quiet", "events", "unavailable"},
        trip \in {"PASS", "WARN"} :
       IF report = "none" THEN Over(2) /\ UNCHANGED result
       ELSE /\ result' = Overall({report, trip} \cup TeardownChecks
                                 \cup ResourceChecks(Parsed(lines), kernel))
            /\ Over(IF result' = "FAIL" THEN 1 ELSE 0)
  /\ UNCHANGED <<telemetry, launch, clean, notRunner, stack, watching, odd>>

(* journalctl takes longer than its limit: no handler, no result.          *)
JournalHangs ==
  /\ stage = "assessing" /\ Odd /\ Over(1)
  /\ UNCHANGED <<telemetry, launch, clean, result, notRunner, stack, watching>>

-----------------------------------------------------------------------------
Init ==
  /\ stage = "idle" /\ telemetry = "none" /\ launch = "none" /\ clean = FALSE
  /\ result = "none" /\ exit = 2
  /\ time = 0 /\ gates \in BOOLEAN \X BOOLEAN
  /\ present = {} /\ everUp = {}
  /\ observer = "none" /\ checkDue = FALSE
  /\ graph = NoGraph /\ topic = NoTopic /\ report = "none"
  /\ odd = 0
  /\ absent = [n \in Nodes |-> 0] /\ longest = 0 /\ heard = 0 /\ commanded = FALSE

Observer == ServeTimer \/ ReceiveMessage \/ Finalize
World ==
  \/ Second \/ AnswerGate \/ ObserverDies \/ LaunchEnds \/ LaunchDies \/ GroupEnds
  \/ \E n \in Nodes : NodeUp(n) \/ NodeDown(n)
RunnerStep ==
  \/ Refuse \/ StartTelemetry \/ StartLaunch \/ StartLaunchFails \/ AwaitLaunch
  \/ WaitTimeout \/ SigintTimeout \/ SigtermTimeout \/ StopTelemetry \/ Interrupt
  \/ WriteResult \/ JournalHangs

Next == Observer \/ World \/ RunnerStep

Spec == Init /\ [][Next]_vars

(* The runner goes on and time passes; the launch need not end by itself.  *)
FairSpec ==
  Spec /\ WF_vars(RunnerStep) /\ WF_vars(Second) /\ WF_vars(ServeTimer)

-----------------------------------------------------------------------------
(* Properties.                                                             *)

(* The types of the variables; a streak shows how long a node was away,    *)
(* and the gates are known only after their query was answered.            *)
TypeOK ==
  /\ stage \in {"idle", "starting", "waiting", "sigint", "sigterm", "stopping",
                "assessing", "over"}
  /\ telemetry \in {"none", "running", "ended"}
  /\ launch \in {"none", "running", "ended"} /\ clean \in BOOLEAN
  /\ result \in {"none", "PASS", "WARN", "FAIL"} /\ exit \in {0, 1, 2, 130}
  /\ report \in {"none", "PASS", "WARN", "FAIL"}
  /\ time \in 0..(Duration + 1) /\ odd \in 0..MaxOdd
  /\ present \subseteq everUp /\ graph.seen \subseteq everUp /\ everUp \subseteq Nodes
  /\ \A n \in Nodes : graph.streak[n] \in 0..(Duration + 2)
  /\ graph.gates # Unknown => graph.gates = gates /\ graph.future = "answered"
  /\ topic.received \in 0..(Duration + 2) /\ topic.first <= topic.last
  /\ {absent[n] : n \in Nodes} \cup {longest, heard} \subseteq 0..(Duration + 1)
  /\ commanded \in BOOLEAN

Passed == result \in {"PASS", "WARN"}

(* A result that is not a failure is true of the run: both gates of the    *)
(* motion adapter are closed and no command publisher was there for a      *)
(* second, every node came up and none was away for more than the missing  *)
(* limit after the grace, and nothing of the launch still runs             *)
(* (preflight_observer_node.py:104, preflight_runner_node.py:99).          *)
ResultTruthful ==
  Passed =>
    /\ gates = <<FALSE, FALSE>> /\ ~commanded
    /\ everUp = Nodes /\ longest <= MissingLimit
    /\ launch = "ended" /\ telemetry = "ended"
    /\ present = {} /\ observer # "observing"
    /\ report \in {"PASS", "WARN"} /\ exit = 0

(* The runner ends, whatever hangs (preflight_runner_node.py:88,           *)
(* preflight_host.py:115).                                                 *)
RunnerEnds == <>(stage = "over")

(* What preflight_metrics.py:1 says is judged, "topic continuity": in a    *)
(* run that passed the topic was never silent for longer than its gap,     *)
(* until the observation ended.                                            *)
TopicStaysAlive ==
  Passed => Duration - heard <= MaxGap
=============================================================================
