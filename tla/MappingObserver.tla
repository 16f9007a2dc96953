-------------------------- MODULE MappingObserver --------------------------
(***************************************************************************)
(* What MappingRun leaves in one Boolean: the node that watches a mapping  *)
(* run, mapping_runtime_observer.py, with its measure of the corrections   *)
(* of the map, mapping_pose_continuity.py, and the checks of               *)
(* assess_mapping that its observations decide.                            *)
(*                                                                         *)
(* slam_toolbox publishes map->odom at the stamp of the scan it belongs to *)
(* plus its transform timeout.  The observer takes that off again, looks   *)
(* for the odometry of the instant, and measures how far the correction    *)
(* moves the robot there.  Odometry, transforms and the clock have queues  *)
(* of their own, which the executor serves in any order.  Between two      *)
(* callbacks the runner polls the graph and the silence of the clock.      *)
(*                                                                         *)
(* Bag time is in ticks, one odometry sample a tick; wall time is in ticks *)
(* of its own.  The robot drives along the x axis of odom, and a           *)
(* correction is its offset and its turn: to the first order it moves the  *)
(* robot sideways by the offset plus the turn times the way driven.        *)
(***************************************************************************)
EXTENDS Integers, Sequences, FiniteSetsExt

CONSTANTS
  Horizon,        (* Last tick of the bag.                                 *)
  Tracks,         (* The ways the robot may drive: its position per tick.  *)
  HalfStep,       (* Half of what it drives in a tick at most.             *)
  Poses,          (* Corrections slam_toolbox may publish.                 *)
  Timeout,        (* SLAM_TRANSFORM_TIMEOUT_NS                             *)
  Tolerance,      (* ODOMETRY_ALIGNMENT_TOLERANCE_NS                       *)
  TranslationLimit, (* MAXIMUM_TRANSLATION_STEP_M                          *)
  YawLimit,       (* MAXIMUM_YAW_STEP_RAD                                  *)
  MinimumSamples, (* MINIMUM_MAP_CORRECTION_SAMPLES                        *)
  Stall,          (* CLOCK_STALL_SECONDS, in ticks of the wall.            *)
  MaxPublished,   (* Bound: transforms slam_toolbox publishes.             *)
  MaxQueued,      (* Bound: transforms waiting at a time.                  *)
  MaxOdd          (* Bound: lost messages, odd transforms, second owners.  *)

ASSUME BoundAssumption ==
  /\ {Horizon, Timeout, Tolerance, Stall, MinimumSamples, MaxPublished, MaxQueued}
     \subseteq Nat \ {0}
  /\ {HalfStep, TranslationLimit, YawLimit, MaxOdd} \subseteq Nat
ASSUME TrackAssumption ==
  /\ Tracks \subseteq [0..Horizon -> Int]
  /\ \A track \in Tracks, t \in 1..Horizon : track[t] - track[t - 1] \in 0..(2 * HalfStep)

NotFinite == [y |-> 0, yaw |-> 1000]    (* _planar_pose of a value that is *)
                                        (* not finite.                     *)
NoPose == [y |-> 0, yaw |-> -1000]
ASSUME PoseAssumption == Poses \subseteq [y : Int, yaw : Int] \ {NotFinite, NoPose}

Edge == <<"map", "odom">>
OtherEdge == <<"world", "odom">>

VARIABLES
  track,       (* Where the robot really is, per tick.                     *)
  phase,       (* playing, settling, then a verdict: passed or failed.     *)
  bag,         (* Tick the player has reached.                             *)
  published,   (* Transforms published so far.                             *)
  slam,        (* Stamp of the last of them.                               *)
  transforms,  (* Queue of /tf.                                            *)
  odometryAt,  (* Next sample in the queue of /odom.                       *)
  odometry,    (* _odometry: ticks of the samples kept.                    *)
  correction,  (* MapCorrectionContinuityAccumulator                       *)
  edges,       (* _global_edges                                            *)
  clock,       (* _clock_first, _clock_last, and a gap beyond the limit.   *)
  quiet,       (* Wall ticks since the last clock callback.                *)
  polled,      (* The loop has polled since the last wall tick.            *)
  second,      (* Another global owner publishes on /tf.                   *)
  owners,      (* _global_owner_nodes_seen has another one.                *)
  odd,         (* Odd events so far.                                       *)
  received,    (* History: the last correction received in order.          *)
  rough,       (* History: a correction received in order moved the robot  *)
               (* too far, or was not finite.                              *)
  silence,     (* History: the clock was silent for too long in playback.  *)
  stay,        (* History: it has been there since the last wall tick.     *)
  longStay     (* History: it was there for more than a whole tick.        *)

player == <<bag, published, slam>>
measure == <<odometry, correction, edges>>
clocks == <<clock, quiet>>
graph == <<second, owners, stay, longStay>>
moved == <<received, rough>>
vars == <<track, phase, player, transforms, odometryAt, measure, clocks, polled, graph,
          odd, moved, silence>>

Odd == odd < MaxOdd /\ odd' = odd + 1
Later(a, b) == IF a > b THEN a ELSE b
Distance(a, b) == IF a > b THEN a - b ELSE b - a
Spinning == phase \in {"playing", "settling"}

-----------------------------------------------------------------------------
(* The player, slam_toolbox and the wall.                                  *)

Play ==
  /\ phase = "playing" /\ bag < Horizon
  /\ bag' = bag + 1
  /\ UNCHANGED <<track, phase, published, slam, transforms, odometryAt, measure, clocks,
                 polled, graph, odd, moved, silence>>

(* A transform of a scan of the bag: a new one, the last one again, one of *)
(* an earlier scan, one that is not finite, or that of another parent.     *)
Publish ==
  /\ phase = "playing" /\ published < MaxPublished /\ Len(transforms) < MaxQueued
  /\ \E stamp \in 0..bag, pose \in Poses \cup {NotFinite}, edge \in {Edge, OtherEdge} :
       LET transform == [stamp |-> stamp + Timeout, pose |-> pose, edge |-> edge]
       IN  /\ slam' = transform.stamp /\ transforms' = Append(transforms, transform)
           /\ IF stamp + Timeout >= slam /\ pose \in Poses /\ edge = Edge
              THEN UNCHANGED odd ELSE Odd
  /\ published' = published + 1
  /\ UNCHANGED <<track, phase, bag, odometryAt, measure, clocks, polled, graph, moved,
                 silence>>

LoseTransform ==
  /\ Spinning /\ transforms # <<>> /\ Odd
  /\ transforms' = Tail(transforms)
  /\ UNCHANGED <<track, phase, player, odometryAt, measure, clocks, polled, graph, moved,
                 silence>>

(* A tick of the wall; in each the loop of the playback comes round.       *)
Wall ==
  /\ phase = "playing" /\ polled
  /\ polled' = FALSE
  /\ quiet' = IF clock.first < 0 THEN quiet ELSE quiet + 1
  /\ silence' = (silence \/ quiet' > Stall)
  /\ stay' = second /\ longStay' = (longStay \/ (second /\ stay))
  /\ UNCHANGED <<track, phase, player, transforms, odometryAt, measure, clock, second, owners, odd, moved>>

SecondOwner ==
  /\ Spinning
  /\ IF second THEN UNCHANGED odd ELSE Odd
  /\ second' = ~second /\ stay' = FALSE
  /\ UNCHANGED <<track, phase, player, transforms, odometryAt, measure, clocks, polled,
                 owners, longStay, moved, silence>>

-----------------------------------------------------------------------------
(* The callbacks of odometry and transforms.                               *)

(* _on_odom: the sample is kept in the order of the stamps, or was lost.   *)
HandleOdometry ==
  /\ Spinning /\ odometryAt <= bag
  /\ \/ odometry' = odometry \cup {odometryAt} /\ UNCHANGED odd
     \/ UNCHANGED odometry /\ Odd
  /\ odometryAt' = odometryAt + 1
  /\ UNCHANGED <<track, phase, player, transforms, correction, edges, clocks, polled,
                 graph, moved, silence>>

(* Mutant: the last sample before the instant will do.                     *)
AlignedToLast(t) ==
  IF \E s \in odometry : s <= t THEN {track[Max({s \in odometry : s <= t})]} ELSE {}

(* _interpolated_odometry: the way driven at an instant, from a sample of  *)
(* it or from the neighbours, unless one is missing or too far away.       *)
Aligned(t) ==
  LET before == Max({s \in odometry : s < t})
      after == Min({s \in odometry : s > t})
      between == track[before]
                 + ((track[after] - track[before]) * (t - before)) \div (after - before)
      enclosed == /\ \E s \in odometry : s < t
                  /\ \E s \in odometry : s > t
                  /\ t - before <= Tolerance /\ after - t <= Tolerance
  IN  IF t \in odometry THEN {track[t]} ELSE IF enclosed THEN {between} ELSE {}

(* _compose to the first order: where a correction puts the robot.         *)
Lateral(pose, way) == pose.y + pose.yaw * way

(* Mutant: the transform is taken at the stamp it was published with.      *)
PublishedStamp(stamp) == stamp

Effective(stamp) == stamp - Timeout

First == Head(transforms)
HeadAt == Effective(First.stamp)
Duplicate == correction.last = HeadAt /\ correction.previous = First.pose
Regressive == HeadAt < correction.last

(* Whether the head moves the robot, where it really is, further than the  *)
(* limits; half of what it drives in the tolerance is uncertain.           *)
MovesTooFar ==
  LET way == track[First.stamp - Timeout]
      turn == Distance(First.pose.yaw, received.yaw)
  IN  \/ turn > YawLimit
      \/ Distance(Lateral(First.pose, way), Lateral(received, way))
         > TranslationLimit + turn * HalfStep * Tolerance

(* The callback of the head ends with the accumulator c.                   *)
Handled(c) ==
  /\ correction' = c
  /\ transforms' = Tail(transforms) /\ edges' = edges \cup {First.edge}
  /\ UNCHANGED <<track, player, odometryAt, odometry, clocks, polled, graph, odd, silence>>

Callback == Spinning /\ transforms # <<>> /\ First.edge = Edge
InOrder ==
  /\ Callback /\ ~Duplicate /\ ~Regressive
  /\ received' = First.pose
  /\ rough' = (\/ rough \/ NotFinite \in {First.pose, received}
               \/ received # NoPose /\ MovesTooFar)

HandleOtherEdge ==
  /\ Spinning /\ transforms # <<>> /\ First.edge # Edge
  /\ Handled(correction) /\ UNCHANGED <<phase, moved>>

HandleDuplicate == Callback /\ Duplicate /\ Handled(correction) /\ UNCHANGED <<phase, moved>>

RefuseRegressive ==
  /\ Callback /\ ~Duplicate /\ Regressive
  /\ Handled([correction EXCEPT !.regressive = TRUE])
  /\ UNCHANGED <<phase, moved>>

KeepFirst ==
  /\ InOrder /\ correction.previous = NoPose
  /\ Handled([correction EXCEPT !.last = HeadAt, !.previous = First.pose])
  /\ UNCHANGED phase

(* Nothing to compare at: the previous correction stays the one before.    *)
LeaveUnaligned ==
  /\ InOrder /\ correction.previous # NoPose /\ Aligned(HeadAt) = {}
  /\ Handled([correction EXCEPT !.last = HeadAt, !.unaligned = TRUE])
  /\ UNCHANGED phase

(* _observe_correction                                                     *)
Measure ==
  /\ InOrder /\ correction.previous # NoPose
  /\ NotFinite \notin {First.pose, correction.previous}
  /\ \E way \in Aligned(HeadAt) :
       Handled([correction EXCEPT
         !.last = HeadAt, !.previous = First.pose, !.samples = @ + 1,
         !.step = Later(@, Distance(Lateral(First.pose, way), Lateral(correction.previous, way))),
         !.yaw = Later(@, Distance(First.pose.yaw, correction.previous.yaw))])
  /\ UNCHANGED phase

(* A pose that is not finite has no cosine: the exception ends the run.    *)
MeasureRaises ==
  /\ InOrder /\ correction.previous # NoPose
  /\ NotFinite \in {First.pose, correction.previous}
  /\ Aligned(HeadAt) # {}
  /\ Handled([correction EXCEPT !.last = HeadAt])
  /\ phase' = "failed"

HandleTransform ==
  HandleOtherEdge \/ HandleDuplicate \/ RefuseRegressive \/ KeepFirst \/ LeaveUnaligned
  \/ Measure \/ MeasureRaises

-----------------------------------------------------------------------------
(* The clock, the loop of the playback and the verdict.                    *)

(* _on_clock, of the newest message; a lost one is one that comes late.    *)
HandleClock ==
  /\ Spinning /\ clock.last < bag
  /\ clock' = [first |-> IF clock.first < 0 THEN bag ELSE clock.first,
               last |-> bag, stalled |-> clock.stalled \/ quiet > Stall]
  /\ quiet' = 0
  /\ UNCHANGED <<track, phase, player, transforms, odometryAt, measure, polled, graph,
                 odd, moved, silence>>

(* Mutant: a stall is only what two clock messages enclose.                *)
StalledBetween == clock.stalled

(* clock_stalled_during_playback                                           *)
Stalled == quiet > Stall

(* observe_graph and the stall check of the loop.                          *)
Poll ==
  /\ phase = "playing" /\ ~polled
  /\ polled' = TRUE /\ owners' = (owners \/ second)
  /\ phase' = IF Stalled THEN "failed" ELSE phase
  /\ UNCHANGED <<track, player, transforms, odometryAt, measure, clocks, second, stay,
                 longStay, odd, moved, silence>>

(* The player ends with the bag; or it fails, or takes too long.           *)
Played ==
  /\ phase = "playing" /\ polled
  /\ \/ phase' = "settling" /\ bag = Horizon /\ UNCHANGED odd
     \/ phase' = "failed" /\ Odd
  /\ UNCHANGED <<track, player, transforms, odometryAt, measure, clocks, polled, graph,
                 moved, silence>>

(* The checks of assess_mapping on these observations.                     *)
Passes ==
  /\ clock.last > clock.first /\ ~clock.stalled
  /\ edges = {Edge} /\ ~owners
  /\ correction.samples >= MinimumSamples
  /\ correction.step <= TranslationLimit /\ correction.yaw <= YawLimit
  /\ ~correction.unaligned /\ ~correction.regressive

(* A last look at the graph, and the verdict; the other checks of it pass, *)
(* or do not.                                                              *)
Judge ==
  /\ phase = "settling"
  /\ owners' = (owners \/ second)
  /\ \E others \in BOOLEAN : phase' = IF others /\ Passes /\ ~second THEN "passed" ELSE "failed"
  /\ UNCHANGED <<track, player, transforms, odometryAt, measure, clocks, polled, second,
                 stay, longStay, odd, moved, silence>>

-----------------------------------------------------------------------------
Init ==
  /\ track \in Tracks /\ phase = "playing" /\ bag = 0
  /\ published = 0 /\ slam = 0
  /\ transforms = <<>>
  /\ odometryAt = 0 /\ odometry = {}
  /\ correction = [previous |-> NoPose, last |-> -1, samples |-> 0, step |-> 0, yaw |-> 0,
                   unaligned |-> FALSE, regressive |-> FALSE]
  /\ edges = {}
  /\ clock = [first |-> -1, last |-> -1, stalled |-> FALSE] /\ quiet = 0
  /\ polled = FALSE /\ second = FALSE /\ owners = FALSE /\ odd = 0
  /\ received = NoPose /\ rough = FALSE
  /\ silence = FALSE /\ stay = FALSE /\ longStay = FALSE

World == Play \/ Publish \/ LoseTransform \/ Wall \/ SecondOwner
Observer == HandleOdometry \/ HandleTransform \/ HandleClock
Runner == Poll \/ Played \/ Judge
Next == World \/ Observer \/ Runner

Spec == Init /\ [][Next]_vars

-----------------------------------------------------------------------------
(* Properties.                                                             *)

(* The types of the variables; the previous correction is the last one     *)
(* received in order as long as none was left unaligned, and every sample  *)
(* measured was published.                                                 *)
TypeOK ==
  /\ track \in Tracks /\ phase \in {"playing", "settling", "passed", "failed"}
  /\ bag \in 0..Horizon /\ published \in 0..MaxPublished /\ odd \in 0..MaxOdd
  /\ Len(transforms) <= MaxQueued
  /\ odometryAt \in 0..(bag + 1) /\ odometry \subseteq 0..(odometryAt - 1)
  /\ correction.previous \in Poses \cup {NotFinite, NoPose}
  /\ correction.last \in -1..bag /\ correction.samples < MaxPublished
  /\ correction.step \in Nat /\ correction.yaw \in Nat
  /\ {correction.unaligned, correction.regressive} \subseteq BOOLEAN
  /\ ~correction.unaligned /\ phase # "failed" => correction.previous = received
  /\ edges \subseteq {Edge, OtherEdge}
  /\ clock.first <= clock.last /\ clock.last <= bag
  /\ quiet \in Nat /\ clock.stalled \in BOOLEAN
  /\ {polled, second, owners, rough, silence, stay, longStay} \subseteq BOOLEAN

(* A run that passed had a smooth map: every correction it received in     *)
(* order moved the robot, where it really was, by no more than the limits  *)
(* (mapping_acceptance.py:172), in spite of lost odometry, of the order of *)
(* the callbacks and of the stamp in the future.                           *)
PassedIsSmooth == phase = "passed" => ~rough

(* In a run that passed the clock was never silent for longer than allowed *)
(* while the player ran, to its last moment, and no other global owner was *)
(* there for more than a tick (mapping_runtime_observer.py:189).           *)
PassedWasWatched == phase = "passed" => ~silence /\ ~longStay
=============================================================================
