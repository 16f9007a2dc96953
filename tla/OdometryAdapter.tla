-------------------------- MODULE OdometryAdapter --------------------------
(***************************************************************************)
(* The odometry adapter of go2_state_estimation.  A sample of the source   *)
(* passes two gates.  The source contract rejects wrong frames, a stamp    *)
(* that is not positive or goes back, and values that are not finite.  The *)
(* continuity machine then compares the sample with its baseline: a gap in *)
(* the stamps, a translation jump or a yaw jump is a fault, after which a  *)
(* number of valid samples in a row is required.  A 100 ms timer marks the *)
(* stream as lost when no sample was received for too long.  The profile   *)
(* of the launch decides whether a continuity violation suppresses the     *)
(* output (ENFORCE) or is only recorded (OBSERVE_ONLY).                    *)
(*                                                                         *)
(* Stamps come from the source's clock and `silence' from the node's: the  *)
(* two advance independently, as a sample may be handled at any time       *)
(* after it was stamped.  A pose is a position on a line and a heading on  *)
(* a circle of Turn units.  The four counters of the node only feed its    *)
(* log and are left out.                                                   *)
(***************************************************************************)
EXTENDS Integers

CONSTANTS
  Stamps,          (* Stamps a sample may carry; 0 is not a valid stamp.   *)
  Poses,           (* Poses a sample may carry.                            *)
  NoSample,        (* previous_sample is None.                             *)
  MaxGap,          (* max_timestamp_gap_nanoseconds.                       *)
  MaxTranslation,  (* max_translation_delta_m.                             *)
  MaxYaw,          (* max_yaw_delta_rad.                                   *)
  Turn,            (* A full turn of the heading.                          *)
  RecoverySamples, (* recovery_consecutive_valid_samples.                  *)
  CheckPeriod,     (* Period of the loss timer, in ticks.                  *)
  CheckLag         (* How late the executor may call it, in ticks.         *)

Samples ==
  [stamp : Stamps, pose : Poses, framesMatch : BOOLEAN, finite : BOOLEAN]

ASSUME DataAssumption ==
  /\ Stamps \subseteq Nat
  /\ Turn \in Nat \ {0}
  /\ Poses \subseteq [x : Int, heading : 0..(Turn - 1)]
  /\ NoSample \notin Samples
ASSUME ProfileAssumption ==
  /\ MaxGap \in Nat \ {0}
  /\ MaxTranslation \in Nat /\ MaxYaw \in Nat
  /\ RecoverySamples \in Nat \ {0}
ASSUME TimerAssumption == CheckPeriod \in Nat \ {0} /\ CheckLag \in Nat

(* Silence after which the timer must have noticed; silence saturates      *)
(* beyond it, where only "longer" matters.                                 *)
LossDeadline == MaxGap + CheckPeriod + CheckLag
MaxSilence == LossDeadline + 1

VARIABLES
  enforce,             (* The profile's action; read once, at start.       *)
  previousTimestamp,   (* Last stamp the contract accepted; 0 for None.    *)
  previousSample,      (* Baseline of the continuity machine.              *)
  recoveryRequired,    (* recovery_required.                               *)
  consecutiveValid,    (* consecutive_valid_samples.                       *)
  receivedOnce,        (* last_received_at_nanoseconds is not None.        *)
  silence,             (* now - last_received_at_nanoseconds, then.        *)
  lossReported,        (* _loss_reported.                                  *)
  published,           (* Last sample on /odom and odom->base, or none.    *)
  sinceCheck,          (* Ticks since the loss timer was last served.      *)
  run,                 (* History: samples in a row, each continuous with  *)
                       (* the one before, since a fault or reported loss.  *)
  rejectedInRun        (* History: the contract rejected one of them.      *)

continuity == <<previousSample, recoveryRequired, consecutiveValid,
                receivedOnce, silence>>
vars == <<enforce, previousTimestamp, previousSample, recoveryRequired,
          consecutiveValid, receivedOnce, silence, lossReported, published,
          sinceCheck, run, rejectedInRun>>

-----------------------------------------------------------------------------
(* The contract and the continuity rules: odometry_contract.py.            *)

(* Mutant: the order of the stamps is not checked.                         *)
ContractAcceptsAnyOrder(sample) ==
  sample.framesMatch /\ sample.stamp > 0 /\ sample.finite

ContractAccepts(sample) ==
  /\ sample.framesMatch
  /\ sample.stamp > 0
  /\ sample.stamp >= previousTimestamp
  /\ sample.finite

Distance(i, j) == IF i >= j THEN i - j ELSE j - i

(* Mutant: the turn is not taken around the wrap of the heading.           *)
YawDeltaUnwrapped(h, k) == Distance(h, k)

YawDelta(h, k) ==
  LET d == Distance(h, k) IN IF d <= Turn - d THEN d ELSE Turn - d

Jump(p, q) ==
  \/ Distance(p.x, q.x) > MaxTranslation
  \/ YawDelta(p.heading, q.heading) > MaxYaw

StampGap(sample, previous) == sample.stamp - previous.stamp > MaxGap

Continuous(sample, previous) ==
  /\ sample.finite
  /\ sample.stamp >= previous.stamp
  /\ ~StampGap(sample, previous)
  /\ ~Jump(sample.pose, previous.pose)

(* Mutants: the baseline moves to every faulty sample, or to none.         *)
BaselineOfSample(sample) == sample
BaselineKept(sample) == previousSample

(* The baseline moves to a sample that is late, never to one that jumps or *)
(* goes back.                                                              *)
RecoveryBaseline(sample) ==
  IF sample.finite /\ sample.stamp >= previousSample.stamp
     /\ StampGap(sample, previousSample)
  THEN sample
  ELSE previousSample

Valid(sample) ==
  previousSample # NoSample => Continuous(sample, previousSample)

LossExpired == receivedOnce /\ silence > MaxGap

-----------------------------------------------------------------------------
(* The node: odometry_adapter_node.py.                                     *)

Init ==
  /\ enforce \in BOOLEAN
  /\ previousTimestamp = 0
  /\ previousSample = NoSample
  /\ recoveryRequired = FALSE
  /\ consecutiveValid = 0
  /\ receivedOnce = FALSE
  /\ silence = 0
  /\ lossReported = FALSE
  /\ published = NoSample
  /\ sinceCheck = 0
  /\ run = 0
  /\ rejectedInRun = FALSE

(* A sample the contract rejects leaves the continuity machine alone.      *)
RejectSample(sample) ==
  /\ ~ContractAccepts(sample)
  /\ rejectedInRun' = (run > 0)
  /\ UNCHANGED <<enforce, previousTimestamp, continuity, lossReported,
                 published, sinceCheck, run>>

Receive(sample) ==
  /\ ContractAccepts(sample)
  /\ previousTimestamp' = sample.stamp
  /\ receivedOnce' = TRUE
  /\ silence' = 0
  /\ UNCHANGED <<enforce, sinceCheck>>

(* Mutant: a published sample does not end a reported loss.                *)
PublishKeepingLoss(sample) == published' = sample /\ UNCHANGED lossReported

Publish(sample) == published' = sample /\ lossReported' = FALSE

(* Mutant: a violation is recorded but never suppressed.                   *)
ViolationPublished(sample) == Publish(sample)

(* The rest of the callback after a violation: recorded, and suppressed    *)
(* unless the profile only observes.                                       *)
Violation(sample) ==
  IF enforce THEN UNCHANGED <<published, lossReported>> ELSE Publish(sample)

ExtendRun ==
  /\ run' = IF run < RecoverySamples THEN run + 1 ELSE run
  /\ rejectedInRun' = (rejectedInRun /\ run > 0)

EndRun == run' = 0 /\ rejectedInRun' = FALSE

(* Mutant: a fault during a recovery does not restart the count.           *)
FaultSampleKeepingCount(sample) ==
  /\ Receive(sample)
  /\ ~Valid(sample)
  /\ previousSample' = RecoveryBaseline(sample)
  /\ recoveryRequired' = TRUE
  /\ Violation(sample)
  /\ EndRun
  /\ UNCHANGED consecutiveValid

(* A fault: gap or jump against the baseline.                              *)
FaultSample(sample) ==
  /\ Receive(sample)
  /\ ~Valid(sample)
  /\ previousSample' = RecoveryBaseline(sample)
  /\ recoveryRequired' = TRUE
  /\ consecutiveValid' = 0
  /\ Violation(sample)
  /\ EndRun

(* A valid sample of a healthy stream.                                     *)
HealthySample(sample) ==
  /\ Receive(sample)
  /\ Valid(sample)
  /\ ~recoveryRequired
  /\ previousSample' = sample
  /\ consecutiveValid' = 0
  /\ Publish(sample)
  /\ ExtendRun
  /\ UNCHANGED recoveryRequired

(* Mutant: the count is compared before the sample is added.               *)
PendingSampleOffByOne(sample) ==
  /\ Receive(sample)
  /\ Valid(sample)
  /\ recoveryRequired
  /\ consecutiveValid < RecoverySamples
  /\ previousSample' = sample
  /\ consecutiveValid' = consecutiveValid + 1
  /\ Violation(sample)
  /\ ExtendRun
  /\ UNCHANGED recoveryRequired

(* A valid sample that is one too few to end the recovery.                 *)
PendingSample(sample) ==
  /\ Receive(sample)
  /\ Valid(sample)
  /\ recoveryRequired
  /\ consecutiveValid + 1 < RecoverySamples
  /\ previousSample' = sample
  /\ consecutiveValid' = consecutiveValid + 1
  /\ Violation(sample)
  /\ ExtendRun
  /\ UNCHANGED recoveryRequired

(* Mutant: the flag of the recovery is not cleared.                        *)
RecoveredSampleUncleared(sample) ==
  /\ Receive(sample)
  /\ Valid(sample)
  /\ recoveryRequired
  /\ consecutiveValid + 1 >= RecoverySamples
  /\ previousSample' = sample
  /\ consecutiveValid' = 0
  /\ Publish(sample)
  /\ ExtendRun
  /\ UNCHANGED recoveryRequired

(* The valid sample that ends the recovery.                                *)
RecoveredSample(sample) ==
  /\ Receive(sample)
  /\ Valid(sample)
  /\ recoveryRequired
  /\ consecutiveValid + 1 >= RecoverySamples
  /\ previousSample' = sample
  /\ recoveryRequired' = FALSE
  /\ consecutiveValid' = 0
  /\ Publish(sample)
  /\ ExtendRun

(* _check_loss with nothing to report, or with a loss reported before.     *)
CheckQuiet ==
  /\ sinceCheck > 0
  /\ ~LossExpired \/ lossReported
  /\ sinceCheck' = 0
  /\ UNCHANGED <<enforce, previousTimestamp, continuity, lossReported,
                 published, run, rejectedInRun>>

(* _check_loss reports a loss and sets the machine back.                   *)
ReportLoss ==
  /\ sinceCheck > 0
  /\ LossExpired /\ ~lossReported
  /\ previousSample' = NoSample
  /\ recoveryRequired' = TRUE
  /\ consecutiveValid' = 0
  /\ lossReported' = TRUE
  /\ sinceCheck' = 0
  /\ EndRun
  /\ UNCHANGED <<enforce, previousTimestamp, receivedOnce, silence, published>>

(* The node's clock advances; the executor serves its timer within a lag.  *)
Tick ==
  /\ sinceCheck < CheckPeriod + CheckLag
  /\ sinceCheck' = sinceCheck + 1
  /\ silence' = IF receivedOnce /\ silence < MaxSilence
                THEN silence + 1 ELSE silence
  /\ UNCHANGED <<enforce, previousTimestamp, previousSample, recoveryRequired,
                 consecutiveValid, receivedOnce, lossReported, published,
                 run, rejectedInRun>>

Next ==
  \/ \E sample \in Samples :
       \/ RejectSample(sample)
       \/ FaultSample(sample)
       \/ HealthySample(sample)
       \/ PendingSample(sample)
       \/ RecoveredSample(sample)
  \/ CheckQuiet
  \/ ReportLoss
  \/ Tick

Spec == Init /\ [][Next]_vars

(* Time passes and the executor serves the timer; the source owes nothing. *)
FairSpec ==
  Spec /\ WF_vars(Tick) /\ WF_vars(CheckQuiet \/ ReportLoss)

-----------------------------------------------------------------------------
(* Properties.                                                             *)

(* The type of every variable; a count of valid samples stays below the    *)
(* number that ends a recovery.                                            *)
TypeOK ==
  /\ enforce \in BOOLEAN
  /\ previousTimestamp \in Stamps \cup {0}
  /\ previousSample \in Samples \cup {NoSample}
  /\ recoveryRequired \in BOOLEAN
  /\ consecutiveValid \in 0..(RecoverySamples - 1)
  /\ receivedOnce \in BOOLEAN
  /\ silence \in 0..MaxSilence
  /\ lossReported \in BOOLEAN
  /\ published \in Samples \cup {NoSample}
  /\ sinceCheck \in 0..(CheckPeriod + CheckLag)
  /\ run \in 0..RecoverySamples
  /\ rejectedInRun \in BOOLEAN

(* While the stream is healthy, the baseline that decides on the next      *)
(* sample is exactly the sample the consumers of /odom saw last.           *)
BaselineIsPublished ==
  ~recoveryRequired => previousSample = published

(* The two gates remember stamps that belong together, through any faults, *)
(* rejections and losses: a sample the contract let through is never a     *)
(* regression for continuity, and the baseline a recovery is measured      *)
(* against never stays behind the stream by more than the gap, where no    *)
(* later sample could be continuous with it.                               *)
GatesAgree ==
  previousSample # NoSample =>
    previousTimestamp - previousSample.stamp \in 0..MaxGap

(* A stream that fell silent for longer than the gap, a timer period and   *)
(* the executor's lag is known to be broken, whatever came before and      *)
(* however many samples the contract rejects meanwhile.                    *)
LossNoticed == silence > LossDeadline => recoveryRequired

(* What continuity means, whatever the code computes: the robot moved by   *)
(* no more than the limit, and some turn within the limit, over the wrap   *)
(* or not, leads from one heading to the other.                            *)
Near(q, p) ==
  /\ \E move \in -MaxTranslation..MaxTranslation : q.x = p.x + move
  /\ \E turn \in -MaxYaw..MaxYaw :
       q.heading - p.heading \in {turn, turn + Turn, turn - Turn}

Follows(sample, previous) ==
  /\ sample.stamp - previous.stamp \in 0..MaxGap
  /\ Near(sample.pose, previous.pose)

(* Outside a recovery, ENFORCE publishes only what follows the sample the  *)
(* consumers of /odom saw last, and in either profile a published sample   *)
(* is taken for a fault exactly when it does not follow it.                *)
NoPublishedJump ==
  ~recoveryRequired /\ published # NoSample /\ published' # published =>
    /\ enforce => Follows(published', published)
    /\ recoveryRequired' <=> ~Follows(published', published)
EnforcedContinuity == [][NoPublishedJump]_vars

(* Until a loss forgets it, the baseline never jumps: during a recovery,   *)
(* too, it only moves to a sample near it or to one beyond the gap, so a   *)
(* stream earns no recovery where it jumped to before the gap has passed.  *)
NoHiddenJump ==
  previousSample # NoSample /\ previousSample' \notin {NoSample, previousSample} =>
    \/ Near(previousSample'.pose, previousSample.pose)
    \/ previousSample'.stamp - previousSample.stamp > MaxGap
BaselineNeverJumps == [][NoHiddenJump]_vars

(* ENFORCE: what ends a recovery is a run of continuous samples as long as *)
(* the profile requires; a fault or a reported loss restarts the run.      *)
EarnedRecovery ==
  enforce /\ recoveryRequired /\ published' # published => run' >= RecoverySamples
RecoveryIsEarned == [][EarnedRecovery]_vars

(* The stamps on /odom never go back, in either profile.                   *)
ForwardStep ==
  published # NoSample /\ published' # published =>
    published'.stamp >= published.stamp
ForwardStamps == [][ForwardStep]_vars

(* "A recovered stream requires consecutive valid samples before release." *)
ConsecutiveRecovery ==
  [][enforce /\ recoveryRequired /\ ~recoveryRequired' => ~rejectedInRun]_vars

(* "A stream on which a loss occurred is turned into waiting for a         *)
(* consecutive recovery": no valid sample from before a loss counts.       *)
LossRestartsRecovery == silence > LossDeadline => consecutiveValid = 0

Accepted == \E sample \in Samples : Receive(sample)

Disturbed == ReportLoss \/ \E sample \in Samples : FaultSample(sample)

(* A stream that keeps delivering valid samples without a further fault    *)
(* recovers for good.                                                      *)
StreamRecovers ==
  []<><<Accepted>>_vars /\ <>[][~Disturbed]_vars => <>[](~recoveryRequired)
=============================================================================
