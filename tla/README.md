# Formal models of go2-local-navigation

TLA+ models, TLC configurations and TLAPS proofs for the ROS 2 packages under
`src/`. Paths below are relative to the repository; line numbers of every
modelled definition are in `PROJECT.json` (`map`).

## 1. The system and its components

The repository is a non-actuating local navigation stack for a Unitree Go2:
sensor gates, a state estimate, mapping, a motion adapter with a double
approval gate, and a large validation layer that starts the stack, observes it
and writes a verdict.

```
 robot odometry --> odometry adapter --> /odom, odom->base --+--> SLAM / Nav2 --> /go2_control/cmd_vel_candidate
 LiDAR cloud --> cloud gate --> cloud accumulator --> scan --+                         |
                                   ^ TF buffer                                  motion adapter --> preview topic
                                                                                       `--(two approvals)--> /api/sport/request
 validation: preflight observer + runner, fault fixture + acceptance, mapping runtime +
             acceptance, A/B and sweep runners, external replay acquisition + conversion
```

| Component | State | Operations | Hard behaviour | What makes it correct |
|---|---|---|---|---|
| **Motion adapter** `go2_control/motion_adapter_node.py`, `motion_contract.py`, `sport_request.py` | previous command, time of last command, stop latch, two approvals | candidate callback, 50 ms watchdog, emit | silence, floods of non-finite candidates, timer lag, stop latch, boundary of the timeout | stop in time, once and not early; bounded velocity and change of velocity; gate |
| **Odometry adapter** `go2_state_estimation/odometry_adapter_node.py`, `odometry_contract.py`, `continuity_profiles.py` | last accepted stamp, baseline, recovery flag and count, time of last reception, loss latch | sample callback (two gates), 100 ms loss timer | two clocks, faults during a recovery, loss during a recovery, late but continuous samples | nothing discontinuous is released, recovery is earned, loss is noticed, recovery is possible |
| **Mapping cloud accumulator** `go2_perception/mapping_cloud_accumulator*.py` | bounded retry queue, largest stamp, window, eight counters, TF buffer | cloud callback, TF listener, 10 ms retry loop, terminal accounting | head of line waits for TF, capacity, interruption in mid-callback, two cadences | conservation of clouds, order and content of the output, drain |
| **Mapping cloud gate** `mapping_cloud_gate_node.py`, `mapping_cloud_contract.py` | last stamp passed | cloud callback | stale, malformed and repeated clouds; a future stamp becomes the reference | what the fault matrix says is withheld is withheld, and the next good cloud passes |
| LiDAR acceptance, odometry probe | last stamp, counts | sample callback, final report | stamp taken from invalid samples too | counts match what was seen |
| Obstacle candidate, scan profiles | none to speak of | cloud callback, table look-up | - | - |
| Trial recorder `trial_record*.py` | bounded records | two subscriptions, write at exit | write in `finally` | record bounded, written once |
| **Preflight observer** `bringup/preflight_*` | metrics, node streaks, gate query future, finalised flag | subscriptions, 1 Hz graph timer, finalise | start-up grace, missing streaks, failed query, late samples, a topic that falls silent | a report that is no failure is true of the run |
| **Preflight runner and host** `preflight_runner_node.py`, `preflight_host.py` | two processes | start, wait, escalate, residual scan | last resort kills the leader alone, second start fails, a check that hangs | no process left behind a result that passes; the runner ends |
| **Fault fixture and acceptance** `fault_*` | event plan, owned child, markers, captures | publish plan, observe, correlate, evaluate | launch exit against marker, deadline boundary, restart attempt, slow nodes | a scenario that passes has recovered; a good run passes; the matrix ends |
| **Mapping runtime** `mapping_runtime_*`, `offline_process.py`, `mapping_player_services.py`, `mapping_slam_services.py`, `mapping_artifacts.py` | launch and player process, clock watch, partial and promoted artifacts | start, synchronise, play, save/serialize/reload, promote, stop | partial failure at each step, time-outs, teardown that raises | artifacts only of runs that got there, processes stopped on every path |
| **Mapping acceptance** `mapping_acceptance*.py`, `mapping_cloud_accounting.py` | results, summary | two variants in order, verdict, documents | what is left of one variant when the next starts, exceptions and interrupts | the summary claims only what was mapped to the end; its accounting equations hold of the accumulator |
| **Map correction** `mapping_pose_continuity.py`, and TF continuity `mapping_tf_continuity.py` | last stamp, previous pose, odometry buffer | callbacks of odometry and transforms | three queues in any order, stamps in the future, lost odometry, regressions | a run that passed had a smooth map |
| Mapping input acceptance, A/B and sweep runners | processes, per-variant results | sequential runs | partial failure | a comparison has both sides |
| **External replay acquisition, conversion** `external_replay_*` | staged, promoted, extracted and derived files, two result documents | download, verify, promote, extract, scan, convert, check | crash and restart between any two steps, conflict, partial download, documents of another bundle | what is promoted was verified; an accepted bundle comes from its source; a rerun completes |
| Mode, static TF and TF owner audit | owners seen | one look at the graph | - | - |

Components in bold have a module (section 2).

The modelled nodes run in single-threaded executors: a callback is not
interleaved with another one of the same node. What interleaves is the order
of messages, timers and the passing of time, and, in the accumulator, a
shutdown in the middle of a callback.

## 2. Modules

| Module | Role |
|---|---|
| `SafeMotion` | abstract specification: a stream of requests that are renewed or stopped in time |
| `MotionAdapter` | the motion adapter; `MotionAdapterMC` gives TLC its candidates |
| `MotionAdapterProofs` | theorems about it, and that it implements `SafeMotion` |
| `OdometryAdapter` | the odometry adapter; `OdometryAdapterMC` gives TLC its poses |
| `OdometryAdapterProofs` | theorems about it |
| `CloudAccumulator` | the accumulator with its queue, window, node loop and TF buffer |
| `CloudAccumulatorProofs` | theorems about it |
| `MappingRun` | the mapping acceptance: both variants with their processes, slam_toolbox, files and documents |
| `MappingRunProofs` | theorems about it |
| `MappingObserver` | the node that watches a mapping run, and its measure of the map correction; `MappingObserverMC` gives TLC its drives and corrections |
| `MappingObserverProofs` | theorems about it |
| `FaultRun` | the fault matrix: runner, fixture and observer, composed with the cloud gate, the scan converter and an instance of `OdometryAdapter`; `FaultRunMC` gives TLC its matrices |
| `FaultRunProofs` | theorems about it |
| `Preflight` | the integrated preflight: runner, two processes, stack and observer; `PreflightMC` gives TLC its positions |
| `PreflightProofs` | theorems about it |
| `ExternalReplay` | acquisition and conversion of the external replay over one cache; `ExternalReplayMC` gives TLC its recordings |
| `ExternalReplayProofs` | theorems about it |

### MotionAdapter

`pending` is the queue of the candidate subscription, `previousCommand`,
`stopSent` are the fields of the node, `commanded` says that
`_last_command_time_ns` is set and `age` is the time since. `preview` and
`control` hold the last request on the two topics. `sinceRequest` is a history
variable; only properties read it. `sinceWatchdog` drives the timer.

| Action | Code |
|---|---|
| `ReceiveTwist` | the middleware's keep-last queue (external) |
| `AcceptTwist`, `RejectTwist` | `_on_twist` with a finite, a non-finite candidate: clamp, rate limit, `_emit_request`, latch reset |
| `WatchdogQuiet`, `WatchdogStop` | `_on_watchdog` |
| `Tick` | the monotonic clock; the timer may be served late by `WatchdogLag` |

Velocities are integers in units of the smallest change the acceleration
limits allow per 50 ms; with the defaults of `motion_contract.yaml` the
envelope is then 12 (forward), 8 (reverse), 6 (lateral), 8 (yaw), and the
acceleration is one unit per tick on every axis. Ages saturate at `MaxAge`;
`AgeAssumption` states why that is exact: over `MaxAge` ticks the limit allows
any change inside the envelope, and every time threshold is smaller.

### OdometryAdapter

A sample is a stamp, a pose (a position on a line, a heading on a circle of
`Turn` units) and two flags: whether its frames match and whether its values
are finite. `previousTimestamp` is what the source contract remembers,
`previousSample`, `recoveryRequired`, `consecutiveValid`, `receivedOnce` and
`silence` are `ContinuityState`, `lossReported` is the latch of the timer,
`published` is the last sample on `/odom`. `run` and `rejectedInRun` are
history. `Near` and `Follows` define continuity for the properties without the
code's formulas: they ask for a move and a turn within the limits that lead from
one pose to the other, so a slip in the computed distance or in the wrap of the
heading does not change what is asked.

| Action | Code |
|---|---|
| `RejectSample` | `_on_odometry`, source contract fails: returns before continuity |
| `FaultSample` | `advance_continuity`, first branch: gap, jump; new baseline; count reset |
| `HealthySample` | second branch |
| `PendingSample`, `RecoveredSample` | third branch, below and at the required count |
| `CheckQuiet`, `ReportLoss` | `_check_loss` |
| `Tick` | the node's clock |

Stamps and `silence` belong to different clocks and are not related by any
action. The position is one coordinate because the code only compares the
Euclidean distance with a limit. The diagnostic counters are left out.

### CloudAccumulator

One step per statement of `_on_cloud` and `_process_pending_clouds` that changes
the queue, the window, a counter or the output topic. rclpy's SIGINT raises
`KeyboardInterrupt` between any two bytecodes and `main`'s `finally` prints the
accounting from the state it finds, so `Shutdown` may fall before every one of
them. `pc` names the statement to run next; `hand` is the cloud a callback holds
outside the queue: the argument of `enqueue`, or the head it popped.

| Action | Code |
|---|---|
| `Arrive`, then `RefuseOldStamp`, `RefuseOverflow`, or `Enqueue` and `NoteStamp` | `enqueue`: `_received` first, then the queue or a drop counter, then the largest stamp |
| `StartRetry` | the 10 ms timer with something queued |
| `HeadStillWaits`, or `HeadWaits` and `CountWait` | "extrapolation into the future": `mark_head_future_waited` |
| `HeadLost`, `CountLost` | `drop_head_unrecoverable` |
| `HeadAdded`, `ClearWindow` | transformation and `MappingCloudWindow.add` |
| `TakeHead`, `CountProcessed`, `CountRecovered` | `take_head_for_processing` |
| `Publish`, `NoteOutput`, `CountOutput` | `publish`, `record_output_publish` |
| `Shutdown` | SIGINT or shutdown, `_emit_terminal_accounting` |
| `ReceiveTransform` | TF listener and tf2's buffer (external) |

An interrupted operation prints an accounting that does not add up: a popped
head is neither pending nor counted, a published output is not yet counted.
The repository claims nothing else. `AccountingConserved`
says exactly by how much the sums may be off, and where; `BalancedIsTrue`
says that the two sums the mapping acceptance tests
(`mapping_acceptance.py:244` to 259) never balance by accident. Reading a
counter and writing it back is one step: an interrupt within `+= 1` leaves the
same state as one before it.

The buffer forgets transforms older than `CacheTime`, interpolates between
those it has, and answers "extrapolation into the future" only when it holds at
least two. A cloud is a stamp and whether it can be used at all (layout, fields,
transformation).

### MappingRun

`pc` is the place of the runner in `main`, `execute_mapping_acceptance` and
`_run_owned_mapping`; `error` is the exception in flight. `Raise` leads to the
innermost `finally`: the removal of the partial directory, else the teardown,
else `main`'s handler (`report`), which an interrupt passes by. `leader` is the
state of the two `Popen` objects of each variant, `nodes` what the launch
started in its group. `Popen` starts a process and assigns its object in one
step: an interrupt inside `subprocess.Popen` after the fork would leak the
process, and `NothingLeft` does not speak of that window. `request` and `reply` are the open service call and its
answer. `partial` and `artifacts` hold the files of the two directories; an
occupancy document that still names its image by a path is `yaml`, a normalised
one `portableYaml`. `signalled` and `cut` are history.

| Action | Code |
|---|---|
| `Prepare`, `Launch`, `GraphReady`, `ServicesReady`, `StartPlayer`, `PlayerReady`, `Resumed` | `_run_owned_mapping` up to the resumed player, `synchronize_start` |
| `Fail` | any of its waits that times out, any call that raises |
| `Played` | the playback loop and the check of the exit code |
| `Save`, `Saved`, `Serialized`, `Check`, `Reloaded` | `save_serialize_reload`, with `normalize_occupancy_image_reference` and `validate_saved_mapping_artifacts` |
| `Promote`, `Discard` | `os.replace`, and the `finally` with `rmtree` |
| `Stopped`, `SendInt`, `SendTerm`, `SendKill` | `stop_owned_process` of player, then launch |
| `Assess`, `AfterVariant`, `Summarize`, `Report` | `assess_mapping`, the order of the variants, `main` |
| `Interrupt` | KeyboardInterrupt at any step |
| `NodesStart`, `NodesEnd`, `LeaderEnds`, `SlamServes` | ros2 launch, ros2 bag play, slam_toolbox (external) |

A wait may time out in any state, so no clock is needed. slam_toolbox carries a
call out at any later time, even when nobody waits for it. `Verdict` abstracts
the checks of streams and TF graph to one Boolean; the exits and the residue it
reads are modelled; `MappingObserver` takes one of those checks apart. Residue is any live node: every executable of the launch
this runner uses has a marker in `PROCESS_MARKERS`; the player starts no other
process. The run starts with an output directory of its own: documents of
earlier runs are not modelled.

### MappingObserver

`transforms` is the queue of `/tf`, `odometryAt` the next sample of the queue of
`/odom`, `odometry` the ticks kept in `_odometry`, `correction` the fields of
`MapCorrectionContinuityAccumulator`, `edges` `_global_edges`, `clock` and
`quiet` the clock fields with the wall time since the last message, `owners`
`_global_owner_nodes_seen`. `track` is where the robot really is; only the
interpolated odometry and the property read it. `received`, `rough`, `silence`,
`stay`, `longStay` are history.

| Action | Code |
|---|---|
| `Play`, `Publish`, `LoseTransform`, `Wall`, `SecondOwner` | bag player, slam_toolbox, best-effort transport, time, graph (external) |
| `HandleOdometry` | `_on_odom` |
| `HandleOtherEdge`, `HandleDuplicate`, `RefuseRegressive`, `KeepFirst`, `LeaveUnaligned`, `Measure`, `MeasureRaises` | `_on_tf` with the accumulator's `observe`, one action per way through it |
| `HandleClock` | `_on_clock` |
| `Poll`, `Played`, `Judge` | the playback loop with `observe_graph` and the stall check, its end, `assess_mapping` |

The pose of a correction is an offset and a turn; to the first order it moves
the robot sideways by the offset plus the turn times the way driven, which is
what makes the odometry of the right instant matter. The published stamp is
the stamp of the scan plus `Timeout`, which the observer takes off. Lost
clock messages are messages that come late. A correction that is not finite has
no cosine: `math.cos` raises in the callback and the run ends without a result
(`MeasureRaises`). A lost correction is measured over two steps, which the code
means. Half of what the robot drives within the alignment tolerance is uncertain,
and `PassedIsSmooth` allows the turn times that much. The raw steps of
`mapping_tf_continuity.py` are reported and decide nothing; stream counts and
the quality of the scans are the Boolean `others` of `Judge`.

### FaultRun

`matrix`, `index`, `stage`, `captures`, `results`, `report` belong to the runner;
`clock` and `nextEvent` to the fixture, whose plan `Events` is a function of the
scenario and the attempt; `cloudIn` and `odomIn` are the subscriptions of gate
and adapter; `markers` and `observed` are what the observer received. `emitted`
and `noticed` are history. The adapter is `OdometryAdapter` itself, instantiated
over the fixture's clock: its timer and its callbacks are the ones the module
`OdometryAdapter` checks on its own.

| Action | Code |
|---|---|
| `AdvanceClock`, `SeedOdometry`, `EmitEvent` | the tick of `fault_fixture_node.py`: clock, seed of the last odometry, event with clouds, samples, transforms and marker |
| `HandleCloud` | gate (`mapping_cloud_contract.py`) and scan converter |
| `HandleOdometry`, `CheckLoss` | odometry adapter |
| `LaunchFirst`, `LaunchRestart`, `SeeTerminal`, `GiveUp`, `StopAndCapture` | the attempt loop of `fault_runtime_execution.py`: terminal marker, launch exit, deadline |
| `Judge`, `WriteReport` | `fault_acceptance_runner.py`, the matrix document |

`conditions` is chosen at the start: in a `good` run every node keeps pace with
the fixture; in a `slow` run it may come late or be stopped first; in a `bad` run
the observer may also miss markers and outputs and may find foreign endpoints.
`GoodRunsPass` speaks of the first, `PassedIsTrue` of all. `Withheld` lists for
every kind the streams `fault_scenarios.yaml` wants suppressed; `ReachesNodes` is false
of a process exit and a failed launch, whose fault no gate or adapter sees. An attempt
of a failed launch may also time out before its exit is logged (`GiveUp`), and in a
bad run the log may hold another exit code (`OtherExits`). Reading the code for this model showed:

* a delay of the recovery as short as that of the other faults would let the
  odometry come back before the loss timer of the adapter has run; the plan uses
  a longer one, and the mutant `OneDelay` shows that `GoodRunsPass` would notice;
* the seeds before a jump and a loss are necessary: without them the adapter has
  no baseline and takes the fault for a first sample;
* a stale cloud is refused as a regression of the stamp, not for its age;
* the verdict does not compare the outputs of the baseline, so a slow run of
  `odom_regression` may pass without the adapter having seen a regression;
* `suppressed_outputs` and `reason_code` of a result are copied from the
  configuration, not observed;
* an attempt that is given up aborts the whole matrix.

A recovery at exactly its deadline cannot happen with the delays of the code.

### Preflight

`stage`, `telemetry`, `launch`, `clean`, `result`, `exit` are the runner and its
two processes; `observer`, `checkDue`, `graph`, `topic`, `report` the observer
with its timer, `_missing_streaks`, lost nodes, gate future and
`TopicAccumulator`; `gates`, `present`, `everUp` the stack. `absent`, `longest`,
`heard`, `commanded` are history.

| Action | Code |
|---|---|
| `ServeTimer`, `AnswerGate`, `ReceiveMessage`, `Finalize` | the 1 Hz timer with graph and gate query, the answer to the query, the subscriptions, the end of the observation with the assessments and the report |
| `Second`, `NodeUp`, `NodeDown`, `ObserverDies`, `LaunchEnds`, `LaunchDies`, `GroupEnds` | time, the stack, ros2 launch (external) |
| `Refuse`, `StartTelemetry`, `StartLaunch`, `StartLaunchFails`, `AwaitLaunch` | `main` of the runner up to the wait |
| `WaitTimeout`, `SigintTimeout`, `SigtermTimeout`, `StopTelemetry` | `stop_owned_process` of `preflight_host.py` with its escalation, and of the telemetry |
| `Interrupt`, `WriteResult`, `JournalHangs` | Ctrl-C, host checks and result, the check without a caught time-out |

A launch that ends after a stop signal is not `clean`, because the runner has
recorded a time-out before it signals. When the launch dies, or the last resort
of the stop kills its leader alone, the observer goes on as an orphan and may still
write its report (`LaunchDies`, `SigtermTimeout`); it counts as residue, its name is among the
`PROCESS_MARKERS`. A node may go down whether or not the launch runs.

One topic stands for the seven, two nodes for the seven, a message has at most
one odd trait. Nodes of the stack may outlive the launch. An interrupt leaves the
launch running; a launch that cannot be started leaves the telemetry running; a
journal that does not answer in time ends the runner without a result; a missing
report ends it with exit code 2.

### ExternalReplay

`archive`, `extracted`, `derived` are the places of the cache, `acqDoc` and
`convDoc` the result documents; `acq` and `conv` say where the two commands are,
with their staged files and the results they are about to write. `CrashAcquisition`
and `CrashConversion` stop a command between any two steps: staged files are lost,
the cache stays. `Owner` exchanges or removes files between runs.

| Action | Code |
|---|---|
| `Acquire` | the steps of `external_replay_acquisition_runner.py`: space, cached archive, download with its attempts, verification and promotion, extraction and promotion, result |
| `ConvertReplay` (`StartConversion` to `WriteConversion`) | `external_replay_conversion.py`: validation of the acquisition, scan, three conversions, checks, promotion, result |
| `TakeFullReplay` | the mapping acceptance reads the conversion result and the full bag |

The checksum of a file is its content, its size its length, a position one
number. One acquisition and one conversion may overlap. Temporary directories
are never read again and are left out. The look for an existing bundle and
`os.replace` are one step (`PromoteBundle`): one conversion runs at a time, and
nothing else makes or removes the directory meanwhile. Once `derived` exists every rerun of the
conversion ends in the conflict `derived_destination_already_exists`, and says
that its artifacts are absent, also after a run that passed.

## 3. Runs

| Run | Bounds | States | What it shows |
|---|---|---|---|
| `motion` | default limits and timeout (5 ticks), 2 candidates + non-finite, queue 1, first elapsed 20 ticks | 102,336 | stop deadline, smooth moves, implements `SafeMotion`, silence ends in a stop |
| `motion_afterstop` | the same | - | **violated**: the first Move after a StopMove is not bounded by the time since the StopMove |
| `odometry` | stamps {0,1,3,6,7,13}, 4 poses, gap 5, recovery 2, both profiles | 40,236 | loss noticed, the two gates agree, faults are the real discontinuities, output continuous under ENFORCE, the baseline never jumps, recovery earned, stream recovers |
| `odometry_consecutive` | the same | - | **violated**: a rejected sample does not interrupt a recovery |
| `odometry_secondloss` | the same | - | **violated**: a second loss during a recovery does not restart it |
| `mapping` | 2 interrupts; every status of the conversion document, every subset of refused variants | 73,364 | what is promoted, what the summary claims, clean start of the second variant, what is left behind, termination |
| `cloud` | stamps 1..5, capacity 2, frame limit 2, cache 2, 5 clouds, both cadences | 1,054,428 | what the counters say at every statement, a printed accounting that balances is true, order, content, single count of waits, disjoint batches, drain |
| `mapping_observer` | bag of 2 ticks, 2 drives, 2 corrections, 3 transforms, queue 2, 1 odd event | 3,507,096 | a run that passed had a smooth map, and was watched |
| `fault` | each of the ten kinds of fault, two matrices of two scenarios, 1 missed message | 1,060,405 | what a pass means, good runs pass, the matrix ends |
| `preflight` | 4 seconds, grace 1, missing limit 2, 3 positions, 2 odd events | 1,724,726 | a result that is no failure is true; the runner ends |
| `preflight_silence` | the same | - | **violated**: a topic that falls silent passes the check of its continuity |
| `replay` | 4 recordings, 2 attempts, 3 faults | 190,742 | only whole files are promoted, accepted bundles come from their source, the acquisition recovers |

Why the bounds are enough.

* `motion`: the candidates exceed the envelope on every axis in both
  directions and pull in opposite directions, so clamping, limiting,
  acceleration and deceleration all happen; the timeout is the real one, and
  `MaxAge` is beyond the deadline. A larger queue only delays candidates.
* `odometry`: the stamps contain an invalid one, a gap that is allowed, a gap
  of exactly the limit, one beyond it and neighbours; the poses contain a
  position jump, a yaw jump, and a step across the wrap of the heading that is
  no jump. With two samples to recover there is a pending one between fault
  and release. `NoSample` is a model value.
* `cloud`: five clouds with capacity 2 and batches of 2 fill the queue,
  overflow it, complete two batches and leave a partial one; a cache of 2
  among 5 stamps makes a transform expire while its cloud waits.
  `CHECK_DEADLOCK FALSE`, because after `Shutdown` the process is gone.
* `mapping`: nothing in the runner counts, so both variants, every outcome of
  every wait, every subset of files a call may write and two interrupts (one to
  start the teardown, one to cut it) are all there is. `CHECK_DEADLOCK FALSE`,
  because the runner ends.
* `mapping_observer`: three transforms are a first one, one left unaligned or
  measured, and one measured behind it; two of them wait in the queue while
  odometry, clock and poll come in any order. One odd event is a lost sample, a
  lost, repeated, older, foreign or non-finite transform, a second owner or a
  player that fails; one drive starts late, so that the turn of the map shows
  only at the right instant. `CHECK_DEADLOCK FALSE`: the run ends.
* `fault`: an attempt has at most three events; one tick of the fixture is
  four units, so that the nanoseconds by which seeds and outputs differ are
  not the ticks. The delays have the proportions of the code. A matrix of two
  scenarios shows what one leaves to the next. `CHECK_DEADLOCK FALSE`: it ends.
* `preflight`: four seconds are as long as a grace, a loss of two seconds that is
  noticed, one of a second that is not, and a silence of the topic at the end.
  Two odd events allow, for instance, a node that dies and a check that hangs.
  `CHECK_DEADLOCK FALSE`: the runner ends.
* `replay`: three faults are a crash in each command and one of the network, the disk or the
  owner, or three of one of them; the recordings differ in which window is best,
  in poses that share a second or a time, and in counts that do not match.

`MaxReceived`, `MaxInterrupts`, `MaxPublished`, `MaxQueued`, `MaxLosses`,
`MaxOdd` and `MaxFaults` are the bounds on behaviour that the code does not
have; the other constants are parameters of the code, of its data, of tf2 or of
the middleware.

Each property of a passing run has a mutant (some have two), a definition of the same module
marked `Mutant:` that changes one definition the way a slip in the code would;
under the mutant the run finds the property violated. None of them is part of a
specification.

### Fairness

Weak fairness is assumed of the clock, of the timer (its quiet and its acting
call together) and of the callbacks that serve what has been queued: a
single-threaded executor serves every ready callback.

* `mapping`, `fault`, `preflight`: the runner goes on, because every wait of it
  has a deadline. In the fault run fixture, gate and adapter are spun as well; in the
  preflight the seconds pass and the observer's graph timer is served, which makes
  the deadline of the runner come.
* `replay`: the acquisition goes on, and the command is repeated.
* `mapping_observer` checks safety only, without fairness.

Nothing is assumed of processes, of slam_toolbox or of the sources: candidates,
samples, clouds and transforms may stop at any time, a launch need not end.
`StreamRecovers`, `QueueDrains` and `AcquisitionRecovers` therefore state what
the source, or the owner of the cache, must do as a premise.

### Where code and documents disagree

1. `motion_afterstop`. After the watchdog's stop the base of the rate limit is
   zero but its time is that of the candidate before the silence
   (`motion_adapter_node.py:181`), so the first Move may jump by the limit times
   the silence. The test `test_fast_change_is_bounded_by_acceleration_envelope`
   speaks of a bound on every fast change. `SmoothMoves` shows that between
   Moves the bound holds.
2. `odometry_consecutive`. "A recovered stream requires consecutive valid
   samples before release"
   (`go2_state_estimation/test/test_odometry_contract.py:132`), but samples that
   the source contract rejects in between do not count against it.
3. `odometry_secondloss`. A loss "turns the stream into waiting for a
   consecutive recovery" (`odometry_contract.py:195`), but while the latch of
   the first loss is set the second one is not marked. `LossNoticed` shows that
   the stream is at least never taken for healthy.
4. `preflight_silence`. The preflight judges "topic continuity"
   (`bringup/preflight_metrics.py:1`), but a gap is measured only when a message
   comes and the rate only up to the last one
   (`bringup/preflight_accumulator.py:57`): a topic that falls silent during the
   observation keeps both and passes. `ResultTruthful` shows what a pass does say.

## 4. Proofs

All theorems hold for every value of the constants that satisfies the named
assumptions of the component's module; the assumptions say that limits and
periods are natural numbers, positive where zero would be refused or senseless,
that the age saturates beyond every threshold, and that sentinels are no data.
`FaultRun` asks more, because its properties are about the numbers of the fixture:
`RecoveryAssumption` (the seed lies outside the window of the fault's marker, a
jump is one for the adapter, a recovery needs more than one sample) and, for good
runs, `PaceAssumption` (delays are whole ticks below the deadline of the
recovery; baseline and recovery are within the adapter's gap; a loss lasts longer than gap,
timer and lag; a recovery takes two samples). The constants of the code meet them:
ticks of 50 ms, the fault after 100 ms, recovery 400 ms behind it, or 700 ms
after a loss, a deadline of 1 s, and for the adapter a gap of 500 ms, a timer of
100 ms and two samples. The gap is met exactly, by 100 + 400 ms, and the timer of
a loss may be served up to 100 ms late.

| Module | Theorems | Inductive invariant |
|---|---|---|
| `MotionAdapterProofs` | `MotionInvariant`, `TypeCorrect`, `EnvelopeKept`, `GateKept`, `StopInTime`, `AgesAgree`, `StopOnce`, `MovesAreSmooth`, `Implements` | `MotionInv` |
| `OdometryAdapterProofs` | `AdapterInvariant`, `TypeCorrect`, `BaselineTrusted`, `GatesConsistent`, `LossInTime`, `OutputIsContinuous`, `BaselineIsSteady`, `RecoveryEarned`, `OutputMovesForward` | `AdapterInv` |
| `MappingRunProofs` | `MappingInvariant`, `TypeCorrect`, `PromotedIsComplete`, `SummaryIsTruthful`, `ExternalStartsClean`, `NothingIsLeft` | `MappingInv` |
| `PreflightProofs` | `PreflightInvariant`, `TypeCorrect`, `ResultIsTruthful`, `AbsenceIsNoticed` | `PreflightInv` |
| `MappingObserverProofs` | `ObserverInvariant`, `TypeCorrect`, `RunWasWatched`, `RunIsSmooth` | `ObserverInv` |
| `CloudAccumulatorProofs` | `CloudInvariant`, `TypeCorrect`, `AccountingIsConserved`, `BalancedAccountingIsTrue`, `SourceOrderKept`, `OutputJoinsLatest`, `WaitsAccountedFor`, `OutputsAdvance`, `BatchesAreDisjoint` | `CloudInv` |
| `FaultRunProofs` | `FaultInvariant`, `TypeCorrect`, `PassedTruthful`, `GoodRuns` | `FaultInv`, `GoodInv` |
| `ExternalReplayProofs` | `ReplayInvariant`, `TypeCorrect`, `TakenIsTruthful`, `PromotesWholeFiles` | `ReplayInv` |

* **MotionInv** adds to the properties that the previous command is the command
  of the last request and inside the envelope (clamping the target alone does not bound
  a rate-limited command), that the latch is set exactly while the last request
  is a StopMove, and that an age beyond the timeout without a stop is covered
  by the time since the watchdog last ran. `StopDeadline` is not inductive
  without the last part: nothing else ties the age to the timer. It speaks of
  the time since the Move was published, not of the node's own age, which a
  slip could refresh; `AgesAgree` proves the two equal while a Move is in
  force. The refinement maps the last request to the preview and the silence to
  that time; a tick maps to `SafeElapse` or to a stutter.
* **AdapterInv** adds that a healthy stream's baseline is the sample published
  last, that it is not newer than the stamp the contract remembers and not older
  by more than the gap, that the output is not newer either (so the
  contract's order carries over to it), that the count never exceeds
  the run of continuous samples, and the same tie between silence and timer.
  `TurnFacts`, `JumpFacts` and `FollowsFacts` show that the formulas of the code compute what `Near`
  and `Follows` ask for, for any turn and limits; `EnforcedContinuity` and
  `BaselineNeverJumps` rest on them.
* **CloudInv** says for each statement what queue, hand, window and
  `ready` hold (`QueuePhase`, `FramePhase`), that the counted outputs are those that went
  out but for the one between `Publish` and `CountOutput` (`OutputsCounted`),
  the order of queue and used stamps, and that the window is a suffix of the
  used stamps. `AccountingConserved` and `BatchesDisjoint` rest on the last two. An accounting
  that balances leaves no cloud uncounted and as many frames owed as heads untaken; where
  an output is out and not counted, at least one frame is owed and no head is untaken, so
  `BalancedIsTrue` follows.
* **MappingInv** says for each place of the runner what earlier steps
  established: where an exception may be in flight, what the two directories
  hold and which call may still write, that the player was not signalled before
  the teardown, that both leaders are dead behind it, and that a result stays
  true. `PromotedComplete` is not inductive without the part that an answer ends
  its call (`reply # "none" => request = "none"`): a save still open could write
  after the validation. The bound on interrupts is an arbitrary natural number.
* **PreflightInv** ties what the observer counts to what really happened: the
  streak of a node is never shorter than its absence when the timer of the second
  has been served and one second shorter when it is due (`StreakFollows`), a
  report that is no failure was written with both gates closed, after every node had
  come up and none had been away too long (`ReportTruthful`), and each place of the runner says which processes still
  run (`Places`). `ResultTruthful` is one of its parts; it is not inductive without
  the streaks, because nothing else relates an absence to the list of lost nodes.
* **ObserverInv** adds to the types that every measured sample has a published
  transform of its own, and two ties (`SilenceSeen`, `OwnerSeen`): a silence beyond the
  limit that no message has ended is still to be polled, one that has ended left
  its gap, and an owner seen at two ticks of the wall was polled in between. The gap alone
  misses a clock that never comes back, the poll alone one that does.
  That an interpolated position is a whole number needs the maximum of
  a set of naturals to exist; `MinExists` gets that from the well-foundedness of
  `<` on the naturals.
* **RoughSeen** (with `ObserverInv`) carries `PassedIsSmooth`: a correction that
  moved the robot too far has left its trace in `step`, `yaw` or `unaligned`, or is
  not finite, so that the run cannot pass. The step from the measured to the true
  displacement is arithmetic over the interpolation: the position used is off by half of what is
  driven within the alignment tolerance at most, before a drive, in it and behind it.
* **FaultInv** relates the captures of a scenario to what was published for it:
  markers and rows carry the time of their event, a stream of a row was published
  in the window of its marker, and what waits for gate or adapter at the time of
  the fault bears the fault (`CloudInv`, `SampleInv`, `WithheldInv`). The verdict asks only that
  some stream is missing at the fault; `PassedIsTrue` is about the streams the
  fault must withhold. For a jump that needs an order (`JumpInv`): an adapter that
  came late may publish the jump as its first sample, and then the seed and the
  recovery are compared with it and are not published, so the scenario does not pass.
* **GoodInv** is the course of a good run. For each event it names the state of the
  adapter (`Fresh` before the first sample, `Healthy`, `Awaited` for a loss that
  will come, `Broken` by a jump, `Lost`, `Half` recovered) and whether its input
  waits or was handled; between fault and recovery the clock stays on the grid of
  its ticks and so never where the seed is (`OffTheSeed`); the timer of the loss has
  run before the clock comes to the seed (`LossHadTime`); gate and markers
  follow the plan. `GoodRunsPass` is not inductive without all of that, because a
  verdict of the end depends on every step before. It needs
  `FaultInv` too: that nothing withheld was published decides that the
  row of the fault lacks a stream.
* **ReplayInv** says for each place of the two commands what their staged files
  hold (the download is the pinned archive, the bundle made of the recording that
  is extracted now), that a bundle in the cache carries the short bag of its
  full one, and that every result that passed names the source of its bundle.
  `AcceptedTruthful` is not inductive without the same for the results not yet
  written and for the documents on the disk, which outlive a crash and the next bundle.

Proved without a run of their own: that the robot receives exactly the previewed
requests with both approvals and nothing otherwise (`GateKept`), and that the stamps
on `/odom` never go back (`OutputMovesForward`). The bounds of a small instance would add nothing.

Model-checked only:

* the liveness properties `SilenceStops`, `StreamRecovers`, `QueueDrains`,
  `Terminates`, `MatrixReports`, `RunnerEnds`, `AcquisitionRecovers`: liveness under fairness is
  out of the prover's reach;
* the last part of `PromotesWhole`, that the short bag is the earliest window of
  the longest path: the windows are computed by selecting, sorting and summing
  over the recording, which is induction over data. `PromotesWholeFiles` proves the rest of it;
* the four violated properties.

## 5. Plan

Done: motion adapter with its abstract specification, odometry adapter, cloud
accumulator, mapping run, mapping observer, fault run with cloud gate, preflight,
external replay; proofs of every safety invariant and action property the passing
runs check, but for the part of `PromotesWhole` named above.

Left, most important first:

1. A cloud stamped in the future in front of the gate, with LiDAR acceptance beside it.
2. Mapping input acceptance over the pieces of `MappingRun`; A/B and sweep runners,
   which run it in turn.
3. Trial recorder; TF owner audit.
4. Proofs: an abstract specification of a file that is promoted at most once,
   implemented by `MappingRun` and by `ExternalReplay`.

## 6. Not modelled

* LiDAR acceptance, odometry probe, trial recorder: diagnostics whose output no
  other part reads. Obstacle candidate: stateless geometry over the points of one cloud.
* Mapping input acceptance, A/B and sweep runners: the pattern of start, wait,
  stop and verdict that `MappingRun` checks, with other processes.
* TF owner audit, mode observer, static TF and scan profiles: one look at the
  graph, and tables.
* Of modelled components: the counts of the streams and the quality of the scans
  in the mapping verdict, the raw step of `map->odom`, the texts of markers, arguments and reports,
  the decoding of CDR and the storage format of bags, all but one of the topics
  and all but two of the nodes the preflight watches.
* Geometry of points, quaternions and transforms, and decoding of messages:
  abstracted to whether a value is finite, usable, near or far.
* Message formats, logs, launch files and configuration: declarations.
* Thread safety inside rclpy and tf2: the nodes are single-threaded.
