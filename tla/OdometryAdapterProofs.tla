----------------------- MODULE OdometryAdapterProofs -----------------------
(* Proofs about OdometryAdapter for every set of stamps and poses, every   *)
(* continuity limit, recovery length, timer period and executor lag.       *)
EXTENDS OdometryAdapter, TLAPS

(* What consumers saw last is not newer than what the contract accepted.   *)
PublishedBehind ==
  published # NoSample => published.stamp <= previousTimestamp

(* A healthy stream has no loss on report, and has been silent beyond the  *)
(* gap only since the timer was last served.                               *)
LossTracked ==
  /\ ~receivedOnce => silence = 0
  /\ ~recoveryRequired => ~lossReported /\ silence <= MaxGap + sinceCheck

(* During a recovery the machine counts no sample outside the run.         *)
CountIsRun == recoveryRequired => consecutiveValid <= run

AdapterInv ==
  /\ TypeOK
  /\ BaselineIsPublished
  /\ GatesAgree
  /\ PublishedBehind
  /\ LossTracked
  /\ CountIsRun

(* Arithmetic facts about the constants.                                   *)
LEMMA ConstantTypes ==
  /\ MaxGap \in Nat \ {0} /\ RecoverySamples \in Nat \ {0}
  /\ CheckPeriod \in Nat \ {0} /\ CheckLag \in Nat
  /\ LossDeadline \in Nat /\ MaxSilence \in Nat
  /\ MaxSilence = LossDeadline + 1
  /\ LossDeadline = MaxGap + CheckPeriod + CheckLag
  BY ProfileAssumption, TimerAssumption DEF LossDeadline, MaxSilence

(* A sample has a natural stamp and is not the absent sample.              *)
LEMMA SampleFacts ==
  ASSUME NEW sample \in Samples
  PROVE  sample # NoSample /\ sample.stamp \in Stamps /\ sample.stamp \in Nat
  BY DataAssumption DEF Samples

(* The least difference of two headings is within the limit exactly when   *)
(* some turn within the limit leads from one to the other.                 *)
LEMMA TurnFacts ==
  ASSUME NEW h \in 0..(Turn - 1), NEW k \in 0..(Turn - 1)
  PROVE  YawDelta(h, k) <= MaxYaw
         <=> \E turn \in -MaxYaw..MaxYaw :
               h - k \in {turn, turn + Turn, turn - Turn}
<1> Turn \in Nat \ {0} /\ MaxYaw \in Nat
  BY DataAssumption, ProfileAssumption
<1>1. ASSUME YawDelta(h, k) <= MaxYaw
      PROVE  \E turn \in -MaxYaw..MaxYaw :
               h - k \in {turn, turn + Turn, turn - Turn}
  <2>1. CASE h - k \in -MaxYaw..MaxYaw
    BY <2>1
  <2>2. CASE h - k \notin -MaxYaw..MaxYaw /\ h >= k
    <3>1. h - k - Turn \in -MaxYaw..MaxYaw
      BY <1>1, <2>2 DEF YawDelta, Distance
    <3>2. h - k = (h - k - Turn) + Turn
      OBVIOUS
    <3>3. QED BY <3>1, <3>2
  <2>3. CASE h - k \notin -MaxYaw..MaxYaw /\ ~(h >= k)
    <3>1. h - k + Turn \in -MaxYaw..MaxYaw
      BY <1>1, <2>3 DEF YawDelta, Distance
    <3>2. h - k = (h - k + Turn) - Turn
      OBVIOUS
    <3>3. QED BY <3>1, <3>2
  <2>4. QED BY <2>1, <2>2, <2>3
<1>2. ASSUME NEW turn \in -MaxYaw..MaxYaw,
             h - k \in {turn, turn + Turn, turn - Turn}
      PROVE  YawDelta(h, k) <= MaxYaw
  <2>1. CASE h - k = turn
    BY <2>1 DEF YawDelta, Distance
  <2>2. CASE h - k = turn + Turn
    BY <2>2 DEF YawDelta, Distance
  <2>3. CASE h - k = turn - Turn
    BY <2>3 DEF YawDelta, Distance
  <2>4. QED BY <1>2, <2>1, <2>2, <2>3
<1>3. QED BY <1>1, <1>2

(* So a pose is no jump away from another exactly when it is near it.      *)
LEMMA JumpFacts ==
  ASSUME NEW q \in Poses, NEW p \in Poses
  PROVE  Near(q, p) <=> ~Jump(q, p)
<1>1. /\ q.x \in Int /\ p.x \in Int
      /\ q.heading \in 0..(Turn - 1) /\ p.heading \in 0..(Turn - 1)
  BY DataAssumption
<1>2. Distance(q.x, p.x) <= MaxTranslation
      <=> \E move \in -MaxTranslation..MaxTranslation : q.x = p.x + move
  <2>1. MaxTranslation \in Nat
    BY ProfileAssumption
  <2>2. ASSUME Distance(q.x, p.x) <= MaxTranslation
        PROVE  q.x - p.x \in -MaxTranslation..MaxTranslation /\ q.x = p.x + (q.x - p.x)
    BY <1>1, <2>1, <2>2 DEF Distance
  <2>3. ASSUME NEW move \in -MaxTranslation..MaxTranslation, q.x = p.x + move
        PROVE  Distance(q.x, p.x) <= MaxTranslation
    BY <1>1, <2>1, <2>3 DEF Distance
  <2>4. QED BY <2>2, <2>3
<1>3. Distance(q.x, p.x) \in Int /\ YawDelta(q.heading, p.heading) \in Int
  <2>1. Turn \in Nat
    BY DataAssumption
  <2>2. QED BY <1>1, <2>1 DEF Distance, YawDelta
<1>4. MaxTranslation \in Int /\ MaxYaw \in Int
  BY ProfileAssumption
<1>5. YawDelta(q.heading, p.heading) <= MaxYaw
      <=> \E turn \in -MaxYaw..MaxYaw :
            q.heading - p.heading \in {turn, turn + Turn, turn - Turn}
  BY <1>1, TurnFacts
<1>6. ~Jump(q, p) <=> /\ Distance(q.x, p.x) <= MaxTranslation
                      /\ YawDelta(q.heading, p.heading) <= MaxYaw
  BY <1>3, <1>4 DEF Jump
<1>7. QED BY <1>2, <1>5, <1>6 DEF Near

(* A sample the contract accepts is continuous with a sample not newer     *)
(* than the stamp it remembers exactly when it follows it.                 *)
LEMMA FollowsFacts ==
  ASSUME NEW sample \in Samples, NEW previous \in Samples, sample.finite,
         previous.stamp <= sample.stamp
  PROVE  Continuous(sample, previous) <=> Follows(sample, previous)
<1>1. sample.stamp \in Nat /\ previous.stamp \in Nat
  BY SampleFacts
<1>2. sample.pose \in Poses /\ previous.pose \in Poses
  BY DEF Samples
<1>3. Near(sample.pose, previous.pose) <=> ~Jump(sample.pose, previous.pose)
  BY <1>2, JumpFacts
<1>4. sample.stamp - previous.stamp \in 0..MaxGap
      <=> ~StampGap(sample, previous)
  BY <1>1, ProfileAssumption DEF StampGap
<1>5. sample.stamp >= previous.stamp
  BY <1>1
<1>6. QED BY <1>3, <1>4, <1>5 DEF Continuous, Follows

(* The invariant holds at the start.                                       *)
LEMMA InitAdapterInv == Init => AdapterInv
<1> SUFFICES ASSUME Init PROVE AdapterInv
  OBVIOUS
<1>1. TypeOK
  <2>1. /\ enforce \in BOOLEAN /\ recoveryRequired \in BOOLEAN
        /\ receivedOnce \in BOOLEAN /\ lossReported \in BOOLEAN
        /\ rejectedInRun \in BOOLEAN
    BY Zenon DEF Init
  <2>2. /\ previousTimestamp \in Stamps \cup {0}
        /\ previousSample \in Samples \cup {NoSample}
        /\ published \in Samples \cup {NoSample}
    BY DEF Init
  <2>3. /\ consecutiveValid \in 0..(RecoverySamples - 1)
        /\ silence \in 0..MaxSilence
        /\ sinceCheck \in 0..(CheckPeriod + CheckLag)
        /\ run \in 0..RecoverySamples
    BY ConstantTypes DEF Init
  <2>4. QED BY <2>1, <2>2, <2>3 DEF TypeOK
<1>2. BaselineIsPublished /\ GatesAgree /\ PublishedBehind
  BY DEF Init, BaselineIsPublished, GatesAgree, PublishedBehind
<1>3. LossTracked /\ CountIsRun
  BY ConstantTypes DEF Init, LossTracked, CountIsRun
<1>4. QED BY <1>1, <1>2, <1>3 DEF AdapterInv

(* A rejected sample and a quiet check leave everything the invariant      *)
(* relates in place, but for the timer.                                    *)
LEMMA RejectStep ==
  ASSUME AdapterInv, NEW sample \in Samples, RejectSample(sample)
  PROVE  AdapterInv'
<1>1. rejectedInRun' \in BOOLEAN
  BY DEF RejectSample
<1>2. UNCHANGED <<enforce, previousTimestamp, previousSample, recoveryRequired,
                  consecutiveValid, receivedOnce, silence, lossReported,
                  published, sinceCheck, run>>
  BY DEF RejectSample, continuity
<1>3. QED
  BY <1>1, <1>2 DEF AdapterInv, TypeOK, BaselineIsPublished, GatesAgree,
                    PublishedBehind, LossTracked, CountIsRun

(* A quiet check finds a healthy stream within the gap.                    *)
LEMMA QuietStep ==
  ASSUME AdapterInv, CheckQuiet
  PROVE  AdapterInv'
<1>1. /\ sinceCheck' = 0
      /\ UNCHANGED <<enforce, previousTimestamp, previousSample,
                     recoveryRequired, consecutiveValid, receivedOnce, silence,
                     lossReported, published, run, rejectedInRun>>
  BY DEF CheckQuiet, continuity
<1>2. TypeOK'
  BY <1>1, ConstantTypes DEF AdapterInv, TypeOK
<1>3. LossTracked'
  <2>1. silence \in Nat /\ MaxGap \in Nat
    BY ConstantTypes DEF AdapterInv, TypeOK
  <2>2. ~recoveryRequired => ~lossReported /\ silence <= MaxGap
    BY <2>1 DEF AdapterInv, LossTracked, CheckQuiet, LossExpired
  <2>3. QED BY <1>1, <2>1, <2>2 DEF AdapterInv, LossTracked
<1>4. QED
  BY <1>1, <1>2, <1>3 DEF AdapterInv, BaselineIsPublished, GatesAgree,
                          PublishedBehind, CountIsRun

(* A reported loss starts a recovery with nothing counted.                 *)
LEMMA LossStep ==
  ASSUME AdapterInv, ReportLoss
  PROVE  AdapterInv'
<1>1. /\ previousSample' = NoSample /\ recoveryRequired' = TRUE
      /\ consecutiveValid' = 0 /\ lossReported' = TRUE /\ sinceCheck' = 0
      /\ run' = 0 /\ rejectedInRun' = FALSE
      /\ UNCHANGED <<enforce, previousTimestamp, receivedOnce, silence, published>>
      /\ receivedOnce
  BY DEF ReportLoss, EndRun, LossExpired
<1>2. TypeOK'
  <2>1. /\ enforce' \in BOOLEAN /\ recoveryRequired' \in BOOLEAN
        /\ receivedOnce' \in BOOLEAN /\ lossReported' \in BOOLEAN
        /\ rejectedInRun' \in BOOLEAN
    BY <1>1, Zenon DEF AdapterInv, TypeOK
  <2>2. /\ previousTimestamp' \in Stamps \cup {0}
        /\ previousSample' \in Samples \cup {NoSample}
        /\ published' \in Samples \cup {NoSample}
        /\ silence' \in 0..MaxSilence
    BY <1>1 DEF AdapterInv, TypeOK
  <2>3. /\ consecutiveValid' \in 0..(RecoverySamples - 1)
        /\ sinceCheck' \in 0..(CheckPeriod + CheckLag)
        /\ run' \in 0..RecoverySamples
    BY <1>1, ConstantTypes
  <2>4. QED BY <2>1, <2>2, <2>3 DEF TypeOK
<1>3. QED
  BY <1>1, <1>2 DEF AdapterInv, BaselineIsPublished, GatesAgree,
                    PublishedBehind, LossTracked, CountIsRun

(* A tick adds one to the silence and one to the time since the check.     *)
LEMMA TickStep ==
  ASSUME AdapterInv, Tick
  PROVE  AdapterInv'
<1>1. /\ sinceCheck' = sinceCheck + 1
      /\ sinceCheck < CheckPeriod + CheckLag
      /\ silence' = IF receivedOnce /\ silence < MaxSilence
                    THEN silence + 1 ELSE silence
      /\ UNCHANGED <<enforce, previousTimestamp, previousSample,
                     recoveryRequired, consecutiveValid, receivedOnce,
                     lossReported, published, run, rejectedInRun>>
  BY DEF Tick
<1>2. sinceCheck \in 0..(CheckPeriod + CheckLag) /\ silence \in 0..MaxSilence
  BY DEF AdapterInv, TypeOK
<1>3. /\ sinceCheck' \in 0..(CheckPeriod + CheckLag)
      /\ silence' \in 0..MaxSilence /\ silence' <= silence + 1
      /\ ~receivedOnce => silence' = silence
  BY <1>1, <1>2, ConstantTypes
<1>4. TypeOK'
  BY <1>1, <1>3 DEF AdapterInv, TypeOK
<1>5. LossTracked'
  BY <1>1, <1>2, <1>3, ConstantTypes DEF AdapterInv, LossTracked
<1>6. QED
  BY <1>1, <1>4, <1>5 DEF AdapterInv, BaselineIsPublished, GatesAgree,
                          PublishedBehind, CountIsRun

(* What every accepted sample does to the clocks of the two gates.         *)
LEMMA ReceiveFacts ==
  ASSUME AdapterInv, NEW sample \in Samples, Receive(sample)
  PROVE  /\ previousTimestamp' = sample.stamp
         /\ previousTimestamp \in Nat /\ sample.stamp \in Nat
         /\ previousTimestamp <= sample.stamp
         /\ enforce' = enforce
         /\ previousTimestamp' \in Stamps \cup {0}
         /\ receivedOnce' = TRUE
         /\ silence' = 0 /\ silence' \in 0..MaxSilence
         /\ sinceCheck' = sinceCheck
         /\ sinceCheck' \in 0..(CheckPeriod + CheckLag)
<1>1. sample.stamp \in Stamps /\ sample.stamp \in Nat
  BY SampleFacts
<1>2. previousTimestamp \in Nat
  BY DataAssumption DEF AdapterInv, TypeOK
<1>3. sample.stamp >= previousTimestamp
  BY DEF Receive, ContractAccepts
<1>4. /\ previousTimestamp' = sample.stamp /\ receivedOnce' = TRUE
      /\ silence' = 0 /\ enforce' = enforce /\ sinceCheck' = sinceCheck
  BY DEF Receive
<1>5. silence' \in 0..MaxSilence
  BY <1>4, ConstantTypes
<1>6. sinceCheck' \in 0..(CheckPeriod + CheckLag)
  BY <1>4 DEF AdapterInv, TypeOK
<1>7. previousTimestamp <= sample.stamp
  BY <1>1, <1>2, <1>3
<1>8. QED BY <1>1, <1>2, <1>4, <1>5, <1>6, <1>7

(* A sample that reaches /odom is the newest the contract accepted.        *)
LEMMA PublishFacts ==
  ASSUME AdapterInv, NEW sample \in Samples, Receive(sample), Publish(sample)
  PROVE  /\ published' = sample /\ lossReported' = FALSE
         /\ published' \in Samples \cup {NoSample}
         /\ PublishedBehind'
<1>1. published' = sample /\ lossReported' = FALSE
  BY DEF Publish
<1>2. previousTimestamp' = sample.stamp /\ sample.stamp \in Nat
  BY ReceiveFacts
<1>3. PublishedBehind'
  BY <1>1, <1>2 DEF PublishedBehind
<1>4. QED BY <1>1, <1>3

(* A violation publishes the sample or leaves the output alone.            *)
LEMMA ViolationFacts ==
  ASSUME AdapterInv, NEW sample \in Samples, Receive(sample), Violation(sample)
  PROVE  /\ published' \in Samples \cup {NoSample}
         /\ lossReported' \in BOOLEAN
         /\ PublishedBehind'
<1>1. CASE enforce
  <2>1. UNCHANGED <<published, lossReported>>
    BY <1>1 DEF Violation
  <2>2. lossReported' \in BOOLEAN
    BY <2>1, Zenon DEF AdapterInv, TypeOK
  <2>3. published' \in Samples \cup {NoSample}
    BY <2>1 DEF AdapterInv, TypeOK
  <2>4. PublishedBehind'
    <3>1. published # NoSample => published.stamp \in Nat
      BY SampleFacts DEF AdapterInv, TypeOK
    <3>2. /\ previousTimestamp' = sample.stamp /\ sample.stamp \in Nat
          /\ previousTimestamp \in Nat /\ previousTimestamp <= sample.stamp
      BY ReceiveFacts
    <3>3. QED BY <2>1, <3>1, <3>2 DEF AdapterInv, PublishedBehind
  <2>5. QED BY <2>2, <2>3, <2>4
<1>2. CASE ~enforce
  <2>1. Publish(sample)
    BY <1>2 DEF Violation
  <2>2. QED BY <2>1, PublishFacts
<1>3. QED BY <1>1, <1>2

(* The run grows by one until it is as long as a recovery asks for.        *)
LEMMA RunFacts ==
  ASSUME TypeOK, ExtendRun
  PROVE  /\ run' \in 0..RecoverySamples
         /\ rejectedInRun' \in BOOLEAN
         /\ run' >= run + 1 \/ run' = RecoverySamples
<1>1. run \in 0..RecoverySamples
  BY DEF TypeOK
<1>2. run' = IF run < RecoverySamples THEN run + 1 ELSE run
  BY DEF ExtendRun
<1>3. rejectedInRun' \in BOOLEAN
  BY DEF ExtendRun
<1>4. run' \in 0..RecoverySamples /\ (run' >= run + 1 \/ run' = RecoverySamples)
  BY <1>1, <1>2, ConstantTypes
<1>5. QED BY <1>3, <1>4

(* Types of the rest after an accepted sample, from those of its effects.  *)
LEMMA SampleTypes ==
  ASSUME AdapterInv, NEW sample \in Samples, Receive(sample),
         previousSample' \in Samples \cup {NoSample},
         recoveryRequired' \in BOOLEAN,
         consecutiveValid' \in 0..(RecoverySamples - 1),
         published' \in Samples \cup {NoSample},
         lossReported' \in BOOLEAN,
         run' \in 0..RecoverySamples,
         rejectedInRun' \in BOOLEAN
  PROVE  TypeOK'
<1>1. enforce' \in BOOLEAN
  <2>1. enforce' = enforce
    BY ReceiveFacts
  <2>2. enforce \in BOOLEAN
    BY Zenon DEF AdapterInv, TypeOK
  <2>3. QED BY <2>1, <2>2
<1>2. /\ previousTimestamp' \in Stamps \cup {0}
      /\ silence' \in 0..MaxSilence
      /\ sinceCheck' \in 0..(CheckPeriod + CheckLag)
  BY ReceiveFacts
<1>3. receivedOnce' \in BOOLEAN
  BY ReceiveFacts
<1>4. QED BY <1>1, <1>2, <1>3, Zenon DEF TypeOK

(* A fault starts a recovery; its baseline is the sample or the one before. *)
LEMMA FaultStep ==
  ASSUME AdapterInv, NEW sample \in Samples, FaultSample(sample)
  PROVE  AdapterInv'
<1>1. Receive(sample) /\ Violation(sample)
  BY DEF FaultSample
<1>2. /\ previousSample' = RecoveryBaseline(sample)
      /\ recoveryRequired' = TRUE /\ consecutiveValid' = 0
      /\ run' = 0 /\ rejectedInRun' = FALSE
  BY DEF FaultSample, EndRun
<1>3. previousSample' = sample \/ previousSample' = previousSample
  BY <1>2 DEF RecoveryBaseline
<1>4. previousSample' \in Samples \cup {NoSample}
  BY <1>3 DEF AdapterInv, TypeOK
<1>5. consecutiveValid' \in 0..(RecoverySamples - 1) /\ run' \in 0..RecoverySamples
  BY <1>2, ConstantTypes
<1>6. TypeOK'
  BY <1>1, <1>2, <1>4, <1>5, ViolationFacts, SampleTypes
<1>7. GatesAgree'
  <2>1. /\ previousSample # NoSample /\ previousSample \in Samples
        /\ sample.finite /\ previousSample.stamp \in Nat
    BY SampleFacts DEF FaultSample, Valid, Receive, ContractAccepts, AdapterInv, TypeOK
  <2>2. /\ previousTimestamp' = sample.stamp /\ sample.stamp \in Nat
        /\ previousTimestamp \in Nat /\ previousTimestamp <= sample.stamp
    BY <1>1, ReceiveFacts
  <2>3. previousSample.stamp <= previousTimestamp
    BY <2>1, <2>2, ConstantTypes DEF AdapterInv, GatesAgree
  <2>4. CASE StampGap(sample, previousSample)
    <3>1. previousSample' = sample
      BY <1>2, <2>1, <2>2, <2>3, <2>4 DEF RecoveryBaseline
    <3>2. QED BY <2>2, <3>1, ConstantTypes DEF GatesAgree
  <2>5. CASE ~StampGap(sample, previousSample)
    <3>1. previousSample' = previousSample
      BY <1>2, <2>5 DEF RecoveryBaseline
    <3>2. sample.stamp - previousSample.stamp \in 0..MaxGap
      BY <2>1, <2>2, <2>3, <2>5, ConstantTypes DEF StampGap
    <3>3. QED BY <2>2, <3>1, <3>2 DEF GatesAgree
  <2>6. QED BY <2>4, <2>5
<1>8. PublishedBehind'
  BY <1>1, ViolationFacts
<1>9. BaselineIsPublished' /\ LossTracked' /\ CountIsRun'
  <2>1. receivedOnce' = TRUE
    BY <1>1, ReceiveFacts
  <2>2. QED BY <1>2, <2>1 DEF BaselineIsPublished, LossTracked, CountIsRun
<1>10. QED BY <1>6, <1>7, <1>8, <1>9 DEF AdapterInv

(* A published valid sample becomes the baseline.                          *)
LEMMA BaselineStep ==
  ASSUME AdapterInv, NEW sample \in Samples, Receive(sample),
         Publish(sample), previousSample' = sample, ExtendRun,
         recoveryRequired' = FALSE, consecutiveValid' = 0
  PROVE  AdapterInv'
<1>1. /\ published' = sample /\ lossReported' = FALSE
      /\ published' \in Samples \cup {NoSample}
      /\ PublishedBehind'
  BY PublishFacts
<1>2. previousTimestamp' = sample.stamp /\ sample.stamp \in Nat
      /\ receivedOnce' = TRUE /\ silence' = 0 /\ sinceCheck' = sinceCheck
  BY ReceiveFacts
<1>3. consecutiveValid' \in 0..(RecoverySamples - 1)
  BY ConstantTypes
<1>4. run' \in 0..RecoverySamples /\ rejectedInRun' \in BOOLEAN
  BY RunFacts DEF AdapterInv
<1>5. TypeOK'
  BY <1>1, <1>3, <1>4, SampleTypes
<1>6. BaselineIsPublished' /\ GatesAgree'
  BY <1>1, <1>2, ConstantTypes DEF BaselineIsPublished, GatesAgree
<1>7. LossTracked' /\ CountIsRun'
  <2>1. sinceCheck \in Nat
    BY ConstantTypes DEF AdapterInv, TypeOK
  <2>2. QED BY <1>1, <1>2, <2>1, ConstantTypes DEF LossTracked, CountIsRun
<1>8. QED BY <1>1, <1>5, <1>6, <1>7 DEF AdapterInv

(* A valid sample of a healthy stream.                                     *)
LEMMA HealthyStep ==
  ASSUME AdapterInv, NEW sample \in Samples, HealthySample(sample)
  PROVE  AdapterInv'
<1>1. /\ Receive(sample) /\ Publish(sample) /\ ExtendRun
      /\ previousSample' = sample /\ consecutiveValid' = 0
      /\ ~recoveryRequired /\ recoveryRequired' = recoveryRequired
  BY DEF HealthySample
<1>2. recoveryRequired' = FALSE
  BY <1>1
<1>3. QED BY <1>1, <1>2, BaselineStep

(* The valid sample that ends the recovery.                                *)
LEMMA RecoveredStep ==
  ASSUME AdapterInv, NEW sample \in Samples, RecoveredSample(sample)
  PROVE  AdapterInv'
<1>1. /\ Receive(sample) /\ Publish(sample) /\ ExtendRun
      /\ previousSample' = sample /\ consecutiveValid' = 0
      /\ recoveryRequired' = FALSE
  BY DEF RecoveredSample
<1>2. QED BY <1>1, BaselineStep

(* A valid sample within the recovery is counted, and so is the run.       *)
LEMMA PendingStep ==
  ASSUME AdapterInv, NEW sample \in Samples, PendingSample(sample)
  PROVE  AdapterInv'
<1>1. /\ Receive(sample) /\ Violation(sample) /\ ExtendRun
      /\ previousSample' = sample /\ recoveryRequired
      /\ consecutiveValid + 1 < RecoverySamples
      /\ consecutiveValid' = consecutiveValid + 1
      /\ recoveryRequired' = recoveryRequired
  BY DEF PendingSample
<1>2. /\ published' \in Samples \cup {NoSample} /\ lossReported' \in BOOLEAN
      /\ PublishedBehind'
  BY <1>1, ViolationFacts
<1>3. previousTimestamp' = sample.stamp /\ sample.stamp \in Nat
      /\ receivedOnce' = TRUE
  BY <1>1, ReceiveFacts
<1>4. consecutiveValid \in 0..(RecoverySamples - 1) /\ run \in 0..RecoverySamples
  BY DEF AdapterInv, TypeOK
<1>5. /\ run' \in 0..RecoverySamples /\ rejectedInRun' \in BOOLEAN
      /\ run' >= run + 1 \/ run' = RecoverySamples
  BY <1>1, RunFacts DEF AdapterInv
<1>6. consecutiveValid' \in 0..(RecoverySamples - 1)
  BY <1>1, <1>4, ConstantTypes
<1>7. TypeOK'
  <2>1. recoveryRequired' \in BOOLEAN
    BY <1>1
  <2>2. previousSample' \in Samples \cup {NoSample}
    BY <1>1
  <2>3. QED BY <1>1, <1>2, <1>5, <1>6, <2>1, <2>2, SampleTypes
<1>8. BaselineIsPublished' /\ GatesAgree' /\ LossTracked'
  BY <1>1, <1>3, ConstantTypes DEF BaselineIsPublished, GatesAgree, LossTracked
<1>9. CountIsRun'
  BY <1>1, <1>4, <1>5, ConstantTypes DEF AdapterInv, CountIsRun
<1>10. QED BY <1>2, <1>7, <1>8, <1>9 DEF AdapterInv

(* Every step preserves the invariant.                                     *)
LEMMA NextAdapterInv == AdapterInv /\ [Next]_vars => AdapterInv'
<1> SUFFICES ASSUME AdapterInv, [Next]_vars PROVE AdapterInv'
  OBVIOUS
<1>1. ASSUME NEW sample \in Samples, RejectSample(sample) PROVE AdapterInv'
  BY <1>1, RejectStep
<1>2. ASSUME NEW sample \in Samples, FaultSample(sample) PROVE AdapterInv'
  BY <1>2, FaultStep
<1>3. ASSUME NEW sample \in Samples, HealthySample(sample) PROVE AdapterInv'
  BY <1>3, HealthyStep
<1>4. ASSUME NEW sample \in Samples, PendingSample(sample) PROVE AdapterInv'
  BY <1>4, PendingStep
<1>5. ASSUME NEW sample \in Samples, RecoveredSample(sample) PROVE AdapterInv'
  BY <1>5, RecoveredStep
<1>6. CASE CheckQuiet
  BY <1>6, QuietStep
<1>7. CASE ReportLoss
  BY <1>7, LossStep
<1>8. CASE Tick
  BY <1>8, TickStep
<1>9. CASE UNCHANGED vars
  BY <1>9 DEF vars, AdapterInv, TypeOK, BaselineIsPublished, GatesAgree,
              PublishedBehind, LossTracked, CountIsRun
<1>10. QED
  BY <1>1, <1>2, <1>3, <1>4, <1>5, <1>6, <1>7, <1>8, <1>9 DEF Next

(* The inductive invariant holds in every behaviour.                       *)
THEOREM AdapterInvariant == Spec => []AdapterInv
  BY InitAdapterInv, NextAdapterInv, PTL DEF Spec

(* Every variable keeps its type, the count of valid samples included.     *)
THEOREM TypeCorrect == Spec => []TypeOK
<1>1. AdapterInv => TypeOK
  BY DEF AdapterInv
<1>2. QED BY AdapterInvariant, <1>1, PTL

(* A healthy stream is judged against what its consumers saw last.         *)
THEOREM BaselineTrusted == Spec => []BaselineIsPublished
<1>1. AdapterInv => BaselineIsPublished
  BY DEF AdapterInv
<1>2. QED BY AdapterInvariant, <1>1, PTL

(* The baseline is never newer than the stamp of the contract, and never   *)
(* older than it by more than the gap.                                     *)
THEOREM GatesConsistent == Spec => []GatesAgree
<1>1. AdapterInv => GatesAgree
  BY DEF AdapterInv
<1>2. QED BY AdapterInvariant, <1>1, PTL

(* Silence beyond gap, timer period and lag is known to be a loss.         *)
THEOREM LossInTime == Spec => []LossNoticed
<1>1. AdapterInv => LossNoticed
  <2>1. SUFFICES ASSUME AdapterInv, ~recoveryRequired
                 PROVE  ~(silence > LossDeadline)
    BY DEF LossNoticed
  <2>2. silence <= MaxGap + sinceCheck
    BY <2>1 DEF AdapterInv, LossTracked
  <2>3. silence \in 0..MaxSilence /\ sinceCheck \in 0..(CheckPeriod + CheckLag)
    BY <2>1 DEF AdapterInv, TypeOK
  <2>4. QED BY <2>2, <2>3, ConstantTypes
<1>2. QED BY AdapterInvariant, <1>1, PTL

(* Only these steps move the output.                                       *)
LEMMA OutputSteps ==
  ASSUME AdapterInv, [Next]_vars, published' # published
  PROVE  \E sample \in Samples :
           /\ Receive(sample) /\ published' = sample
           /\ \/ ~enforce /\ (FaultSample(sample) \/ PendingSample(sample))
              \/ HealthySample(sample)
              \/ RecoveredSample(sample)
<1>1. ASSUME NEW sample \in Samples, RejectSample(sample) PROVE FALSE
  BY <1>1 DEF RejectSample
<1>2. ~CheckQuiet /\ ~ReportLoss /\ ~Tick /\ ~UNCHANGED vars
  BY DEF CheckQuiet, ReportLoss, Tick, vars
<1>3. ASSUME NEW sample \in Samples,
             FaultSample(sample) \/ PendingSample(sample)
      PROVE  Receive(sample) /\ published' = sample /\ ~enforce
  BY <1>3 DEF FaultSample, PendingSample, Violation, Publish
<1>4. ASSUME NEW sample \in Samples,
             HealthySample(sample) \/ RecoveredSample(sample)
      PROVE  Receive(sample) /\ published' = sample
  BY <1>4 DEF HealthySample, RecoveredSample, Publish
<1>5. QED BY <1>1, <1>2, <1>3, <1>4 DEF Next

(* Outside a recovery, ENFORCE publishes what follows the sample published *)
(* last, and a published sample is a fault exactly when it does not.       *)
THEOREM OutputIsContinuous == Spec => EnforcedContinuity
<1>1. AdapterInv /\ [Next]_vars => NoPublishedJump
  <2>1. SUFFICES ASSUME AdapterInv, [Next]_vars, ~recoveryRequired,
                        published # NoSample, published' # published
                 PROVE  /\ enforce => Follows(published', published)
                        /\ recoveryRequired' <=> ~Follows(published', published)
    BY DEF NoPublishedJump
  <2>2. PICK sample \in Samples :
          /\ Receive(sample) /\ published' = sample
          /\ \/ ~enforce /\ (FaultSample(sample) \/ PendingSample(sample))
             \/ HealthySample(sample)
             \/ RecoveredSample(sample)
    BY <2>1, OutputSteps
  <2>3. previousSample = published /\ published \in Samples
    BY <2>1 DEF AdapterInv, BaselineIsPublished, TypeOK
  <2>4. sample.finite /\ published.stamp <= sample.stamp
    <3>1. published.stamp <= previousTimestamp /\ published.stamp \in Nat
      BY <2>1, <2>3, SampleFacts DEF AdapterInv, PublishedBehind
    <3>2. /\ previousTimestamp \in Nat /\ sample.stamp \in Nat
          /\ previousTimestamp <= sample.stamp
      BY <2>1, <2>2, ReceiveFacts
    <3>3. sample.finite
      BY <2>2 DEF Receive, ContractAccepts
    <3>4. QED BY <3>1, <3>2, <3>3
  <2>5. Valid(sample) <=> Follows(sample, published)
    BY <2>1, <2>3, <2>4, FollowsFacts DEF Valid
  <2>6. CASE FaultSample(sample) /\ ~enforce
    BY <2>2, <2>5, <2>6 DEF FaultSample
  <2>7. CASE HealthySample(sample)
    BY <2>1, <2>2, <2>5, <2>7 DEF HealthySample
  <2>8. ~PendingSample(sample) /\ ~RecoveredSample(sample)
    BY <2>1 DEF PendingSample, RecoveredSample
  <2>9. QED BY <2>2, <2>6, <2>7, <2>8
<1>2. QED
  BY AdapterInvariant, <1>1, PTL DEF Spec, EnforcedContinuity

(* Until a loss forgets it, the baseline moves to a sample near it or to   *)
(* one beyond the gap, never to a jump.                                    *)
THEOREM BaselineIsSteady == Spec => BaselineNeverJumps
<1>1. AdapterInv /\ [Next]_vars => NoHiddenJump
  <2>1. SUFFICES ASSUME AdapterInv, [Next]_vars, previousSample # NoSample,
                        previousSample' \notin {NoSample, previousSample}
                 PROVE  \/ Near(previousSample'.pose, previousSample.pose)
                        \/ previousSample'.stamp - previousSample.stamp > MaxGap
    BY DEF NoHiddenJump
  <2>2. previousSample \in Samples
    BY <2>1 DEF AdapterInv, TypeOK
  <2>3. ASSUME NEW sample \in Samples, Valid(sample), previousSample' = sample
        PROVE  Near(previousSample'.pose, previousSample.pose)
    <3>1. ~Jump(sample.pose, previousSample.pose)
      BY <2>1, <2>3 DEF Valid, Continuous
    <3>2. sample.pose \in Poses /\ previousSample.pose \in Poses
      BY <2>2 DEF Samples
    <3>3. QED BY <2>3, <3>1, <3>2, JumpFacts
  <2>4. ASSUME NEW sample \in Samples, FaultSample(sample)
        PROVE  previousSample'.stamp - previousSample.stamp > MaxGap
    BY <2>1, <2>4 DEF FaultSample, RecoveryBaseline, StampGap
  <2>5. ASSUME NEW sample \in Samples,
               HealthySample(sample) \/ PendingSample(sample) \/ RecoveredSample(sample)
        PROVE  Near(previousSample'.pose, previousSample.pose)
    BY <2>3, <2>5 DEF HealthySample, PendingSample, RecoveredSample
  <2>6. ASSUME NEW sample \in Samples, RejectSample(sample) PROVE FALSE
    BY <2>1, <2>6 DEF RejectSample, continuity
  <2>7. ~CheckQuiet /\ ~ReportLoss /\ ~Tick /\ ~UNCHANGED vars
    BY <2>1 DEF CheckQuiet, ReportLoss, Tick, vars, continuity
  <2>8. QED BY <2>1, <2>4, <2>5, <2>6, <2>7 DEF Next
<1>2. QED
  BY AdapterInvariant, <1>1, PTL DEF Spec, BaselineNeverJumps

(* ENFORCE ends a recovery only after a full run of continuous samples.    *)
THEOREM RecoveryEarned == Spec => RecoveryIsEarned
<1>1. AdapterInv /\ [Next]_vars => EarnedRecovery
  <2>1. SUFFICES ASSUME AdapterInv, [Next]_vars, enforce, recoveryRequired,
                        published' # published
                 PROVE  run' >= RecoverySamples
    BY DEF EarnedRecovery
  <2>2. PICK sample \in Samples : HealthySample(sample) \/ RecoveredSample(sample)
    BY <2>1, OutputSteps
  <2>3. ExtendRun /\ consecutiveValid + 1 >= RecoverySamples
    BY <2>1, <2>2 DEF HealthySample, RecoveredSample
  <2>4. /\ run' \in 0..RecoverySamples
        /\ run' >= run + 1 \/ run' = RecoverySamples
    BY <2>1, <2>3, RunFacts DEF AdapterInv
  <2>5. consecutiveValid <= run
    BY <2>1 DEF AdapterInv, CountIsRun
  <2>6. consecutiveValid \in 0..(RecoverySamples - 1) /\ run \in 0..RecoverySamples
    BY <2>1 DEF AdapterInv, TypeOK
  <2>7. QED BY <2>3, <2>4, <2>5, <2>6, ConstantTypes
<1>2. QED
  BY AdapterInvariant, <1>1, PTL DEF Spec, RecoveryIsEarned

(* The stamps on /odom never go back.                                      *)
THEOREM OutputMovesForward == Spec => ForwardStamps
<1>1. AdapterInv /\ [Next]_vars => ForwardStep
  <2>1. SUFFICES ASSUME AdapterInv, [Next]_vars, published # NoSample,
                        published' # published
                 PROVE  published'.stamp >= published.stamp
    BY DEF ForwardStep
  <2>2. PICK sample \in Samples : Receive(sample) /\ published' = sample
    BY <2>1, OutputSteps
  <2>3. /\ previousTimestamp \in Nat /\ sample.stamp \in Nat
        /\ previousTimestamp <= sample.stamp
    BY <2>1, <2>2, ReceiveFacts
  <2>4. published.stamp <= previousTimestamp /\ published.stamp \in Nat
    BY <2>1, SampleFacts DEF AdapterInv, TypeOK, PublishedBehind
  <2>5. QED BY <2>2, <2>3, <2>4
<1>2. QED
  BY AdapterInvariant, <1>1, PTL DEF Spec, ForwardStamps
=============================================================================
