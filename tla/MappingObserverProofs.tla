----------------------- MODULE MappingObserverProofs -----------------------
(***************************************************************************)
(* Theorems about the observer of a mapping run, for every bag, every way  *)
(* the robot drives and every limit: its types, that a run that passed was *)
(* watched, and that the map of a run that passed was smooth.              *)
(***************************************************************************)
EXTENDS MappingObserver, WellFoundedInduction, TLAPS

-----------------------------------------------------------------------------
(* The maximum and the minimum of a set of natural numbers.                *)

LEMMA MinExists ==
  ASSUME NEW S \in SUBSET Nat, S # {}
  PROVE  \E x \in S : \A y \in S : x <= y
<1> DEFINE R == OpToRel(<, Nat)
<1>1. IsWellFoundedOn(R, Nat)
  BY NatLessThanWellFounded
<1>2. PICK x \in S : \A y \in S : ~(<<y, x>> \in R)
  BY <1>1, WFMin
<1>3. \A y \in S : ~(y < x)
  BY <1>2 DEF OpToRel
<1>4. QED BY <1>3

LEMMA MinFacts ==
  ASSUME NEW S \in SUBSET Nat, S # {}
  PROVE  Min(S) \in S
BY MinExists DEF Min

LEMMA MaxFacts ==
  ASSUME NEW n \in Nat, NEW S \in SUBSET (0..n), S # {}
  PROVE  Max(S) \in S
<1> DEFINE T == {n - s : s \in S}
<1>1. T \in SUBSET Nat /\ T # {}
  <2>1. \A s \in S : n - s \in Nat
    OBVIOUS
  <2>2. T \subseteq Nat
    BY <2>1
  <2>3. PICK s \in S : TRUE
    OBVIOUS
  <2>4. n - s \in T
    BY <2>3
  <2>5. QED BY <2>2, <2>4
<1>2. PICK x \in T : \A y \in T : x <= y
  BY <1>1, MinExists
<1>3. PICK m \in S : x = n - m
  BY <1>2
<1>4. \A s \in S : n - s \in T
  OBVIOUS
<1>5. \A s \in S : n - m <= n - s
  BY <1>2, <1>3, <1>4
<1>6. \A s \in S : m >= s
  BY <1>5
<1>7. QED BY <1>3, <1>6 DEF Max

-----------------------------------------------------------------------------
(* The way interpolated between two samples and the way driven.            *)

(* The robot drives forward, by two half steps a tick at most.             *)
LEMMA TrackGrows ==
  ASSUME NEW f \in Tracks, NEW s \in 0..Horizon, NEW t \in 0..Horizon, s <= t
  PROVE  f[s] \in Int /\ f[t] - f[s] \in 0..(2 * HalfStep * (t - s))
<1> DEFINE Bounded(u) == f[u] - f[s] \in 0..(2 * HalfStep * (u - s))
           Odd1 == {u \in s..Horizon : ~Bounded(u)}
<1>1. /\ Horizon \in Nat /\ HalfStep \in Nat /\ s \in Nat
      /\ f \in [0..Horizon -> Int]
      /\ \A u \in 1..Horizon : f[u] - f[u - 1] \in 0..(2 * HalfStep)
  BY BoundAssumption, TrackAssumption
<1>2. SUFFICES Odd1 = {}
  <2>1. t \in s..Horizon /\ f[s] \in Int
    BY <1>1
  <2>2. QED BY <1>2, <2>1
<1>3. SUFFICES ASSUME Odd1 # {} PROVE FALSE
  OBVIOUS
<1>4. Odd1 \in SUBSET Nat
  BY <1>1
<1>5. PICK u \in Odd1 : \A v \in Odd1 : u <= v
  BY <1>3, <1>4, MinExists
<1>6. u \in s..Horizon /\ ~Bounded(u)
  BY <1>5
<1>7. CASE u = s
  <2>1. 2 * HalfStep * (s - s) = 0 /\ f[s] - f[s] = 0
    BY <1>1
  <2>2. QED BY <1>6, <1>7, <2>1
<1>8. CASE u # s
  <2>1. u - 1 \in s..Horizon /\ u \in 1..Horizon
    BY <1>1, <1>6, <1>8
  <2>2. Bounded(u - 1)
    <3>1. u - 1 \notin Odd1
      BY <1>1, <1>5, <1>6
    <3>2. QED BY <2>1, <3>1
  <2>3. /\ f[u] \in Int /\ f[u - 1] \in Int /\ f[s] \in Int
        /\ f[u] - f[u - 1] \in 0..(2 * HalfStep)
    BY <1>1, <2>1
  <2>4. 2 * HalfStep * (u - s) = 2 * HalfStep * ((u - 1) - s) + 2 * HalfStep
    BY <1>1, <2>1
  <2>5. 2 * HalfStep * ((u - 1) - s) \in Int /\ 2 * HalfStep \in Int
    BY <1>1, <2>1
  <2>6. QED BY <1>6, <2>2, <2>3, <2>4, <2>5
<1>9. QED BY <1>7, <1>8

(* A product over a common factor.                                         *)
LEMMA Cancels ==
  ASSUME NEW a \in Int, NEW b \in Int, NEW d \in Nat \ {0}
  PROVE  /\ a * d <= b * d => a <= b
         /\ a * d < b * d => a < b
OBVIOUS

(* Between two instants the interpolation is off by half of what may be    *)
(* driven to the farther one.                                              *)
LEMMA InterpolationIsNear ==
  ASSUME NEW h \in Nat, NEW far \in Nat, NEW d \in Nat \ {0}, NEW e \in Nat \ {0},
         d <= far, e <= far,
         NEW u \in Nat, u <= 2 * h * d, NEW v \in Nat, v <= 2 * h * e
  PROVE  (((u + v) * d) \div (d + e)) - u \in (-(h * far))..(h * far)
<1> DEFINE q == ((u + v) * d) \div (d + e)
<1>1. /\ d + e \in Nat \ {0} /\ (u + v) * d \in Nat
  OBVIOUS
<1>2. /\ q \in Int /\ q * (d + e) <= (u + v) * d /\ (u + v) * d < (q + 1) * (d + e)
  <2>1. \A n \in Nat, m \in Nat \ {0} :
          n \div m \in Int /\ (n \div m) * m <= n /\ n < (n \div m + 1) * m
    BY Z3
  <2>2. QED BY <1>1, <2>1
<1> HIDE DEF q
<1>3. (q - u) * (d + e) <= v * d - u * e
  BY <1>2
<1>4. v * d - u * e < (q + 1 - u) * (d + e)
  BY <1>2
<1>5. v * d <= (2 * h * e) * d /\ u * e <= (2 * h * d) * e
  OBVIOUS
<1>6. 2 * (d * e) <= far * (d + e)
  <2>1. d * e <= far * e /\ d * e <= far * d
    OBVIOUS
  <2>2. QED BY <2>1
<1>7. h * (2 * (d * e)) <= h * (far * (d + e))
  BY <1>6
<1>8. (2 * h * e) * d = h * (2 * (d * e)) /\ (2 * h * d) * e = h * (2 * (d * e))
  OBVIOUS
<1>9. h * (far * (d + e)) = (h * far) * (d + e)
  OBVIOUS
<1>10. (q - u) * (d + e) <= (h * far) * (d + e)
  BY <1>2, <1>3, <1>5, <1>7, <1>8, <1>9
<1>11. (-(h * far)) * (d + e) < (q + 1 - u) * (d + e)
  BY <1>2, <1>4, <1>5, <1>7, <1>8, <1>9
<1>12. q - u <= h * far /\ -(h * far) < q + 1 - u
  BY <1>1, <1>2, <1>10, <1>11, Cancels
<1>13. QED BY <1>2, <1>12 DEF q

-----------------------------------------------------------------------------
(* The inductive invariant.                                                *)

Transform == [stamp : Timeout..(bag + Timeout), pose : Poses \cup {NotFinite},
              edge : {Edge, OtherEdge}]

SourceTypes ==
  /\ track \in Tracks /\ phase \in {"playing", "settling", "passed", "failed"}
  /\ bag \in 0..Horizon /\ published \in 0..MaxPublished /\ odd \in 0..MaxOdd
  /\ slam \in Nat
  /\ transforms \in Seq(Transform) /\ Len(transforms) <= MaxQueued
  /\ odometryAt \in 0..(bag + 1) /\ odometry \subseteq 0..(odometryAt - 1)

(* Every sample has a transform of its own, and the first of them none.    *)
CorrectionTypes ==
  /\ correction \in [previous : Poses \cup {NotFinite, NoPose}, last : -1..bag,
                     samples : Nat, step : Nat, yaw : Nat,
                     unaligned : BOOLEAN, regressive : BOOLEAN]
  /\ correction.samples + Len(transforms) <= published
  /\ correction.previous # NoPose => correction.samples + 1 + Len(transforms) <= published
  /\ correction.previous = NoPose => correction.samples = 0
  /\ ~correction.unaligned /\ phase # "failed" => correction.previous = received
  /\ edges \subseteq {Edge, OtherEdge}

WatchTypes ==
  /\ clock \in [first : -1..Horizon, last : -1..Horizon, stalled : BOOLEAN]
  /\ clock.first <= clock.last /\ clock.last <= bag
  /\ quiet \in Nat
  /\ {polled, second, owners, rough, silence, stay, longStay} \subseteq BOOLEAN

(* A silence the clock has not ended yet is still to be polled, or was the *)
(* reason to fail; one that has ended left its gap.                        *)
SilenceSeen ==
  /\ silence /\ phase # "failed" => clock.stalled \/ quiet > Stall
  /\ phase # "failed" /\ (polled \/ phase # "playing") => quiet <= Stall

(* An owner that was there at the last tick of the wall is known once the  *)
(* loop has polled.                                                        *)
OwnerSeen ==
  /\ stay => second
  /\ stay /\ polled => owners
  /\ longStay => owners
  /\ phase = "settling" => polled

Seen == phase = "passed" => ~clock.stalled /\ ~owners

ObserverInv ==
  SourceTypes /\ CorrectionTypes /\ WatchTypes /\ SilenceSeen /\ OwnerSeen /\ Seen

LEMMA PoseIsData ==
  ASSUME NEW pose \in Poses
  PROVE  pose.yaw \in Int /\ pose.y \in Int
<1>1. pose \in [y : Int, yaw : Int]
  BY PoseAssumption
<1>2. QED BY <1>1

LEMMA ConstantFacts ==
  /\ {Horizon, Timeout, Tolerance, Stall, MinimumSamples, MaxPublished, MaxQueued}
     \subseteq Nat \ {0}
  /\ {HalfStep, TranslationLimit, YawLimit, MaxOdd} \subseteq Nat
  /\ NotFinite # NoPose
  /\ NoPose \notin Poses /\ NotFinite \notin Poses
<1>1. NotFinite.yaw = 1000 /\ NoPose.yaw = -1000
  BY DEF NotFinite, NoPose
<1>2. NotFinite # NoPose
  BY <1>1
<1>3. QED BY <1>2, BoundAssumption, PoseAssumption

LEMMA TypesFollow == ObserverInv => TypeOK
<1> SUFFICES ASSUME ObserverInv PROVE TypeOK
  OBVIOUS
<1>1. correction.samples < MaxPublished
  <2>1. Len(transforms) \in Nat
    BY DEF ObserverInv, SourceTypes
  <2>2. /\ MaxPublished \in Nat \ {0} /\ published \in Nat /\ published <= MaxPublished
        /\ correction.samples \in Nat
    BY ConstantFacts DEF ObserverInv, SourceTypes, CorrectionTypes
  <2>3. CASE correction.previous = NoPose
    BY <2>2, <2>3 DEF ObserverInv, CorrectionTypes
  <2>4. CASE correction.previous # NoPose
    <3>1. correction.samples + 1 + Len(transforms) <= published
      BY <2>4 DEF ObserverInv, CorrectionTypes
    <3>2. QED BY <2>1, <2>2, <3>1
  <2>5. QED BY <2>3, <2>4
<1>2. /\ track \in Tracks /\ phase \in {"playing", "settling", "passed", "failed"}
      /\ bag \in 0..Horizon /\ published \in 0..MaxPublished /\ odd \in 0..MaxOdd
      /\ Len(transforms) <= MaxQueued
      /\ odometryAt \in 0..(bag + 1) /\ odometry \subseteq 0..(odometryAt - 1)
  BY DEF ObserverInv, SourceTypes
<1>3. /\ correction.previous \in Poses \cup {NotFinite, NoPose}
      /\ correction.last \in -1..bag
      /\ correction.step \in Nat /\ correction.yaw \in Nat
      /\ correction.unaligned \in BOOLEAN /\ correction.regressive \in BOOLEAN
      /\ ~correction.unaligned /\ phase # "failed" => correction.previous = received
      /\ edges \subseteq {Edge, OtherEdge}
  BY DEF ObserverInv, CorrectionTypes
<1>4. /\ clock.first <= clock.last /\ clock.last <= bag
      /\ quiet \in Nat /\ clock.stalled \in BOOLEAN
      /\ {polled, second, owners, rough, silence, stay, longStay} \subseteq BOOLEAN
  BY DEF ObserverInv, WatchTypes
<1>5. {correction.unaligned, correction.regressive} \subseteq BOOLEAN
  BY <1>3
<1>6. QED BY <1>1, <1>2, <1>3, <1>4, <1>5 DEF TypeOK

LEMMA InitObserverInv == Init => ObserverInv
<1> SUFFICES ASSUME Init PROVE ObserverInv
  OBVIOUS
<1>1. SourceTypes
  BY ConstantFacts DEF Init, SourceTypes
<1>2. CorrectionTypes
  BY ConstantFacts DEF Init, CorrectionTypes
<1>3. WatchTypes
  <2>1. /\ clock \in [first : -1..Horizon, last : -1..Horizon, stalled : BOOLEAN]
        /\ clock.first <= clock.last /\ clock.last <= bag /\ quiet \in Nat
    BY ConstantFacts DEF Init
  <2>2. {polled, second, owners, rough, silence, stay, longStay} \subseteq BOOLEAN
    BY Zenon DEF Init
  <2>3. QED BY <2>1, <2>2, Zenon DEF WatchTypes
<1>4. SilenceSeen /\ OwnerSeen /\ Seen
  BY ConstantFacts DEF Init, SilenceSeen, OwnerSeen, Seen
<1>5. QED BY <1>1, <1>2, <1>3, <1>4 DEF ObserverInv

-----------------------------------------------------------------------------
(* What a step leaves alone stays true.                                    *)

LEMMA SourceKept ==
  ASSUME SourceTypes,
         UNCHANGED <<track, bag, published, slam, transforms, odometryAt, odometry>>,
         phase' \in {"playing", "settling", "passed", "failed"}, odd' \in 0..MaxOdd
  PROVE  SourceTypes'
BY DEF SourceTypes, Transform

LEMMA CorrectionKept ==
  ASSUME CorrectionTypes,
         UNCHANGED <<bag, published, transforms, correction, edges, received>>,
         phase' = "failed" \/ phase # "failed"
  PROVE  CorrectionTypes'
BY DEF CorrectionTypes

LEMMA WatchKept ==
  ASSUME WatchTypes, SilenceSeen, OwnerSeen, Seen, bag' >= bag, bag \in Int, bag' \in Int,
         UNCHANGED <<phase, clocks, polled, graph, silence>>, rough' \in BOOLEAN
  PROVE  WatchTypes' /\ SilenceSeen' /\ OwnerSeen' /\ Seen'
<1>1. WatchTypes'
  BY DEF WatchTypes, clocks, graph
<1>2. SilenceSeen' /\ OwnerSeen' /\ Seen'
  BY DEF SilenceSeen, OwnerSeen, Seen, clocks, graph
<1>3. QED BY <1>1, <1>2

LEMMA OddFacts ==
  ASSUME SourceTypes, Odd
  PROVE  odd' \in 0..MaxOdd
BY ConstantFacts DEF SourceTypes, Odd

-----------------------------------------------------------------------------
(* The player, slam_toolbox and the wall.                                  *)

LEMMA PlayStep ==
  ASSUME ObserverInv, Play
  PROVE  ObserverInv'
<1>1. /\ bag \in 0..Horizon /\ bag < Horizon /\ bag' = bag + 1
      /\ UNCHANGED <<track, phase, published, slam, transforms, odometryAt, measure, clocks,
                     polled, graph, odd, moved, silence>>
  BY DEF Play, ObserverInv, SourceTypes
<1>2. bag' \in 0..Horizon /\ bag' >= bag
  BY <1>1, ConstantFacts
<1>3. Transform \subseteq Transform'
  BY <1>1, <1>2, ConstantFacts DEF Transform
<1>4. transforms' \in Seq(Transform')
  <2>1. transforms \in Seq(Transform) /\ transforms' = transforms
    BY <1>1 DEF ObserverInv, SourceTypes
  <2>2. QED BY <1>3, <2>1
<1>5. SourceTypes'
  <2>1. odometryAt' \in 0..(bag' + 1)
    BY <1>1 DEF ObserverInv, SourceTypes
  <2>2. QED BY <1>1, <1>2, <1>4, <2>1 DEF ObserverInv, SourceTypes, measure
<1>6. CorrectionTypes'
  BY <1>1, <1>2 DEF ObserverInv, CorrectionTypes, measure, moved
<1>7. WatchTypes' /\ SilenceSeen' /\ OwnerSeen' /\ Seen'
  BY <1>1, <1>2, WatchKept DEF ObserverInv, moved, WatchTypes
<1>8. QED BY <1>5, <1>6, <1>7 DEF ObserverInv

LEMMA PublishStep ==
  ASSUME ObserverInv, Publish
  PROVE  ObserverInv'
<1>1. PICK stamp \in 0..bag, pose \in Poses \cup {NotFinite}, edge \in {Edge, OtherEdge} :
        /\ slam' = stamp + Timeout
        /\ transforms' = Append(transforms, [stamp |-> stamp + Timeout, pose |-> pose,
                                             edge |-> edge])
        /\ odd' = odd \/ Odd
  BY DEF Publish
<1>2. /\ Len(transforms) < MaxQueued /\ published < MaxPublished /\ published' = published + 1
      /\ UNCHANGED <<track, phase, bag, odometryAt, measure, clocks, polled, graph, moved,
                     silence>>
  BY DEF Publish
<1>3. odd' \in 0..MaxOdd
  BY <1>1, OddFacts DEF ObserverInv, SourceTypes
<1>4. [stamp |-> stamp + Timeout, pose |-> pose, edge |-> edge] \in Transform
  <2>1. bag \in Nat /\ Timeout \in Nat
    BY ConstantFacts DEF ObserverInv, SourceTypes
  <2>2. stamp + Timeout \in Timeout..(bag + Timeout)
    BY <2>1
  <2>3. QED BY <2>2 DEF Transform
<1>5. transforms' \in Seq(Transform) /\ Len(transforms') = Len(transforms) + 1
  <2>1. transforms \in Seq(Transform)
    BY DEF ObserverInv, SourceTypes
  <2>2. QED BY <1>1, <1>4, <2>1
<1>6. Transform' = Transform
  BY <1>2 DEF Transform
<1>7. SourceTypes'
  <2>1. published' \in 0..MaxPublished
    BY <1>2, ConstantFacts DEF ObserverInv, SourceTypes
  <2>2. bag \in Nat /\ stamp \in Nat /\ Timeout \in Nat
    BY ConstantFacts DEF ObserverInv, SourceTypes
  <2>3. slam' \in Nat
    BY <1>1, <2>2
  <2>4. Len(transforms') <= MaxQueued
    BY <1>2, <1>5, ConstantFacts DEF ObserverInv, SourceTypes
  <2>5. QED
    BY <1>2, <1>3, <1>5, <1>6, <2>1, <2>3, <2>4 DEF ObserverInv, SourceTypes, measure
<1>8. CorrectionTypes'
  BY <1>2, <1>5 DEF ObserverInv, SourceTypes, CorrectionTypes, measure, moved
<1>9. WatchTypes' /\ SilenceSeen' /\ OwnerSeen' /\ Seen'
  BY <1>2, WatchKept DEF ObserverInv, SourceTypes, moved, WatchTypes
<1>10. QED BY <1>7, <1>8, <1>9 DEF ObserverInv

(* The head leaves the queue.                                              *)
LEMMA TailFacts ==
  ASSUME SourceTypes, transforms # <<>>
  PROVE  /\ First \in Transform
         /\ Tail(transforms) \in Seq(Transform)
         /\ Len(Tail(transforms)) = Len(transforms) - 1 /\ Len(transforms) \in Nat \ {0}
         /\ HeadAt \in 0..bag /\ First.pose \in Poses \cup {NotFinite}
         /\ First.stamp - Timeout \in 0..bag
<1>1. /\ First \in Transform
      /\ Tail(transforms) \in Seq(Transform)
      /\ Len(Tail(transforms)) = Len(transforms) - 1 /\ Len(transforms) \in Nat \ {0}
  BY DEF SourceTypes, First
<1>2. /\ HeadAt \in 0..bag /\ First.pose \in Poses \cup {NotFinite}
      /\ First.stamp - Timeout \in 0..bag
  <2>1. First.stamp \in Timeout..(bag + Timeout) /\ First.pose \in Poses \cup {NotFinite}
    BY <1>1 DEF Transform
  <2>2. bag \in Nat /\ Timeout \in Nat
    BY ConstantFacts DEF SourceTypes
  <2>3. QED BY <2>1, <2>2 DEF HeadAt, Effective
<1>3. QED BY <1>1, <1>2

LEMMA LoseTransformStep ==
  ASSUME ObserverInv, LoseTransform
  PROVE  ObserverInv'
<1>1. /\ transforms # <<>> /\ transforms' = Tail(transforms)
      /\ UNCHANGED <<track, phase, player, odometryAt, measure, clocks, polled, graph, moved,
                     silence>>
  BY DEF LoseTransform
<1>2. odd' \in 0..MaxOdd
  BY OddFacts DEF LoseTransform, ObserverInv
<1>3. Transform' = Transform /\ UNCHANGED <<bag, published, slam>>
  BY <1>1 DEF Transform, player
<1>4. transforms' \in Seq(Transform) /\ Len(transforms') = Len(transforms) - 1
      /\ Len(transforms) \in Nat \ {0}
  BY <1>1, TailFacts DEF ObserverInv
<1>5. SourceTypes'
  BY <1>1, <1>2, <1>3, <1>4, ConstantFacts DEF ObserverInv, SourceTypes, measure
<1>6. CorrectionTypes'
  BY <1>1, <1>3, <1>4 DEF ObserverInv, SourceTypes, CorrectionTypes, measure, moved
<1>7. WatchTypes' /\ SilenceSeen' /\ OwnerSeen' /\ Seen'
  BY <1>1, <1>3, WatchKept DEF ObserverInv, SourceTypes, moved, WatchTypes
<1>8. QED BY <1>5, <1>6, <1>7 DEF ObserverInv

LEMMA WallStep ==
  ASSUME ObserverInv, Wall
  PROVE  ObserverInv'
<1>1. /\ phase = "playing" /\ polled /\ polled' = FALSE
      /\ quiet' = IF clock.first < 0 THEN quiet ELSE quiet + 1
      /\ silence' = (silence \/ quiet' > Stall)
      /\ stay' = second /\ longStay' = (longStay \/ (second /\ stay))
      /\ UNCHANGED <<track, phase, bag, published, slam, transforms, odometryAt, odometry,
                     correction, edges, clock, second, owners, odd, received, rough>>
  BY DEF Wall, player, measure, moved
<1>2. quiet' \in Nat /\ quiet' >= quiet
  BY <1>1 DEF ObserverInv, WatchTypes
<1>3. SourceTypes'
  BY <1>1, SourceKept DEF ObserverInv, SourceTypes
<1>4. CorrectionTypes'
  BY <1>1, CorrectionKept DEF ObserverInv
<1>5. WatchTypes'
  BY <1>1, <1>2 DEF ObserverInv, WatchTypes
<1>6. SilenceSeen'
  BY <1>1, <1>2, ConstantFacts DEF ObserverInv, WatchTypes, SilenceSeen
<1>7. OwnerSeen' /\ Seen'
  BY <1>1 DEF ObserverInv, OwnerSeen, Seen
<1>8. QED BY <1>3, <1>4, <1>5, <1>6, <1>7 DEF ObserverInv

LEMMA SecondOwnerStep ==
  ASSUME ObserverInv, SecondOwner
  PROVE  ObserverInv'
<1>1. /\ Spinning /\ second' = ~second /\ stay' = FALSE /\ (odd' = odd \/ Odd)
      /\ UNCHANGED <<track, phase, bag, published, slam, transforms, odometryAt, odometry,
                     correction, edges, clock, quiet, polled, owners, longStay, received,
                     rough, silence>>
  BY DEF SecondOwner, player, measure, clocks, moved
<1>2. odd' \in 0..MaxOdd
  BY <1>1, OddFacts DEF ObserverInv, SourceTypes
<1>3. SourceTypes'
  BY <1>1, <1>2, SourceKept DEF ObserverInv, SourceTypes
<1>4. CorrectionTypes'
  BY <1>1, CorrectionKept DEF ObserverInv, Spinning
<1>5. WatchTypes'
  BY <1>1 DEF ObserverInv, WatchTypes
<1>6. SilenceSeen' /\ OwnerSeen' /\ Seen'
  BY <1>1 DEF ObserverInv, SilenceSeen, OwnerSeen, Seen
<1>7. QED BY <1>3, <1>4, <1>5, <1>6 DEF ObserverInv

-----------------------------------------------------------------------------
(* The callbacks of odometry and transforms.                               *)

LEMMA HandleOdometryStep ==
  ASSUME ObserverInv, HandleOdometry
  PROVE  ObserverInv'
<1>1. /\ Spinning /\ odometryAt <= bag /\ odometryAt' = odometryAt + 1
      /\ odometry' \subseteq odometry \cup {odometryAt}
      /\ odd' = odd \/ Odd
      /\ UNCHANGED <<track, phase, bag, published, slam, transforms, correction, edges, clocks,
                     polled, graph, received, rough, silence>>
  BY DEF HandleOdometry, player, moved
<1>2. odd' \in 0..MaxOdd
  BY <1>1, OddFacts DEF ObserverInv, SourceTypes
<1>3. odometryAt' \in 0..(bag + 1) /\ odometry' \subseteq 0..(odometryAt' - 1)
  BY <1>1, ConstantFacts DEF ObserverInv, SourceTypes
<1>4. Transform' = Transform
  BY <1>1 DEF Transform
<1>5. SourceTypes'
  BY <1>1, <1>2, <1>3, <1>4 DEF ObserverInv, SourceTypes
<1>6. CorrectionTypes'
  BY <1>1, CorrectionKept DEF ObserverInv, Spinning
<1>7. WatchTypes' /\ SilenceSeen' /\ OwnerSeen' /\ Seen'
  <2>1. bag \in Int /\ bag' = bag
    BY <1>1, ConstantFacts DEF ObserverInv, SourceTypes
  <2>2. rough' \in BOOLEAN
    BY <1>1 DEF ObserverInv, WatchTypes
  <2>3. QED BY <1>1, <2>1, <2>2, WatchKept DEF ObserverInv
<1>8. QED BY <1>5, <1>6, <1>7 DEF ObserverInv

(* The way driven, as it is aligned, is a whole number, and off by no more *)
(* than what may be driven in half the tolerance.                          *)
LEMMA AlignedFacts ==
  ASSUME SourceTypes, NEW t \in 0..bag, NEW way \in Aligned(t)
  PROVE  /\ way \in Int /\ track[t] \in Int
         /\ way - track[t] \in (-(HalfStep * Tolerance))..(HalfStep * Tolerance)
<1> DEFINE B == {s \in odometry : s < t}
           A == {s \in odometry : s > t}
           before == Max(B)
           after == Min(A)
<1>1. /\ bag \in Nat /\ bag <= Horizon /\ Horizon \in Nat
      /\ odometry \subseteq 0..bag /\ track \in [0..Horizon -> Int] /\ track \in Tracks
      /\ HalfStep \in Nat /\ Tolerance \in Nat
  <2>1. bag \in Nat /\ bag <= Horizon /\ Horizon \in Nat
    BY ConstantFacts DEF SourceTypes
  <2>2. odometry \subseteq 0..bag
    BY <2>1 DEF SourceTypes
  <2>3. track \in [0..Horizon -> Int] /\ track \in Tracks
    BY TrackAssumption DEF SourceTypes
  <2>4. HalfStep \in Nat /\ Tolerance \in Nat
    BY ConstantFacts
  <2>5. QED BY <2>1, <2>2, <2>3, <2>4
<1>2. track[t] \in Int
  BY <1>1
<1>3. HalfStep * Tolerance \in Nat
  BY <1>1
<1>4. CASE t \in odometry
  <2>1. way = track[t]
    BY <1>4 DEF Aligned
  <2>2. QED BY <1>2, <1>3, <2>1
<1>5. CASE t \notin odometry
  <2>1. /\ B # {} /\ A # {}
        /\ t - before <= Tolerance /\ after - t <= Tolerance
        /\ way = track[before]
                 + (((track[after] - track[before]) * (t - before)) \div (after - before))
    BY <1>5 DEF Aligned
  <2>2. before \in B
    <3>1. B \in SUBSET (0..bag)
      BY <1>1
    <3>2. QED BY <1>1, <2>1, <3>1, MaxFacts
  <2>3. after \in A
    <3>1. A \subseteq odometry /\ odometry \subseteq Nat
      BY <1>1
    <3>2. QED BY <2>1, <3>1, MinFacts
  <2>4. /\ before \in odometry /\ before < t /\ after \in odometry /\ after > t
    BY <2>2, <2>3
  <2> HIDE DEF before, after, A, B
  <2>5. /\ before \in 0..Horizon /\ after \in 0..Horizon /\ t \in 0..Horizon
        /\ before < t /\ t < after
    BY <1>1, <2>4
  <2> DEFINE d == t - before
             e == after - t
             u == track[t] - track[before]
             v == track[after] - track[t]
  <2>6. /\ d \in Nat \ {0} /\ e \in Nat \ {0} /\ d <= Tolerance /\ e <= Tolerance
        /\ after - before = d + e
    BY <1>1, <2>1, <2>5
  <2>7. /\ track[before] \in Int /\ track[after] \in Int
    BY <1>1, <2>5
  <2>8. u \in Nat /\ u <= 2 * HalfStep * d
    <3>1. before <= t
      BY <2>5
    <3>2. track[t] - track[before] \in 0..(2 * HalfStep * (t - before))
      BY <1>1, <2>5, <3>1, TrackGrows
    <3>3. 2 * HalfStep * (t - before) \in Int
      BY <1>1, <2>5
    <3>4. QED BY <3>2, <3>3
  <2>9. v \in Nat /\ v <= 2 * HalfStep * e
    <3>1. t <= after
      BY <2>5
    <3>2. track[after] - track[t] \in 0..(2 * HalfStep * (after - t))
      BY <1>1, <2>5, <3>1, TrackGrows
    <3>3. 2 * HalfStep * (after - t) \in Int
      BY <1>1, <2>5
    <3>4. QED BY <3>2, <3>3
  <2>10. track[after] - track[before] = u + v
    BY <1>2, <2>7
  <2>11. way = track[before] + (((u + v) * d) \div (d + e))
    BY <2>1, <2>6, <2>10
  <2>12. track[before] = track[t] - u
    BY <1>2, <2>7
  <2> HIDE DEF d, e, u, v
  <2>13. (((u + v) * d) \div (d + e)) - u
           \in (-(HalfStep * Tolerance))..(HalfStep * Tolerance)
    BY <1>1, <2>6, <2>8, <2>9, InterpolationIsNear
  <2>14. (((u + v) * d) \div (d + e)) \in Int
    BY <2>6, <2>8, <2>9
  <2>15. way - track[t] = (((u + v) * d) \div (d + e)) - u
    BY <1>2, <2>8, <2>11, <2>12, <2>14
  <2>16. way \in Int
    BY <2>7, <2>11, <2>14
  <2>17. QED BY <1>2, <2>13, <2>15, <2>16
<1>6. QED BY <1>4, <1>5

LEMMA PoseFacts ==
  ASSUME NEW p, p \in Poses \cup {NotFinite, NoPose}, NEW way \in Int
  PROVE  p.yaw \in Int /\ Lateral(p, way) \in Int
<1>1. p.yaw \in Int /\ p.y \in Int
  BY PoseIsData DEF NotFinite, NoPose
<1>2. p.yaw * way \in Int
  BY <1>1
<1>3. QED BY <1>1, <1>2 DEF Lateral

LEMMA DistanceFacts ==
  ASSUME NEW a \in Int, NEW b \in Int
  PROVE  /\ Distance(a, b) \in Nat
         /\ a - b <= Distance(a, b) /\ b - a <= Distance(a, b)
         /\ Distance(a, b) \in {a - b, b - a}
BY DEF Distance

LEMMA ProductBound ==
  ASSUME NEW turn \in Int, NEW size \in Nat, turn <= size, -turn <= size,
         NEW off \in Int, NEW near \in Nat, off <= near, -near <= off
  PROVE  turn * off <= size * near /\ -(turn * off) <= size * near
<1>1. size * off \in Int /\ size * near \in Int /\ turn * off \in Int
  OBVIOUS
<1>2. CASE off >= 0
  <2>1. turn * off <= size * off /\ (-turn) * off <= size * off
    BY <1>2
  <2>2. size * off <= size * near
    BY <1>2
  <2>3. (-turn) * off = -(turn * off)
    OBVIOUS
  <2>4. QED BY <1>1, <2>1, <2>2, <2>3
<1>3. CASE off < 0
  <2>1. turn * (-off) <= size * (-off) /\ (-turn) * (-off) <= size * (-off)
    BY <1>3
  <2>2. size * (-off) <= size * near
    BY <1>3
  <2>3. (-turn) * (-off) = turn * off /\ turn * (-off) = -(turn * off)
    OBVIOUS
  <2>4. size * (-off) \in Int
    OBVIOUS
  <2>5. QED BY <1>1, <2>1, <2>2, <2>3, <2>4
<1>4. QED BY <1>2, <1>3

(* Two corrections put the robot no farther apart than they do at another  *)
(* place, plus their turn times the way to it.                             *)
LEMMA ShiftIsBounded ==
  ASSUME NEW p \in Poses, NEW r \in Poses, NEW w \in Int, NEW place \in Int,
         NEW near \in Nat, w - place \in (-near)..near
  PROVE  Distance(Lateral(p, place), Lateral(r, place))
           <= Distance(Lateral(p, w), Lateral(r, w)) + Distance(p.yaw, r.yaw) * near
<1> DEFINE turn == p.yaw - r.yaw
           size == Distance(p.yaw, r.yaw)
           there == Lateral(p, place) - Lateral(r, place)
           here == Lateral(p, w) - Lateral(r, w)
           off == place - w
<1>1. /\ p.yaw \in Int /\ p.y \in Int /\ r.yaw \in Int /\ r.y \in Int
  BY PoseIsData
<1>2. there = here + turn * off
  BY <1>1 DEF Lateral
<1>3. /\ Lateral(p, place) \in Int /\ Lateral(r, place) \in Int
      /\ Lateral(p, w) \in Int /\ Lateral(r, w) \in Int
  BY <1>1, PoseFacts
<1>4. /\ size \in Nat /\ turn <= size /\ -turn <= size /\ turn \in Int
  <2>1. /\ size \in Nat /\ p.yaw - r.yaw <= size /\ r.yaw - p.yaw <= size
    BY <1>1, DistanceFacts
  <2>2. -(p.yaw - r.yaw) = r.yaw - p.yaw /\ p.yaw - r.yaw \in Int
    BY <1>1
  <2> HIDE DEF size
  <2>3. QED BY <2>1, <2>2
<1>5. off \in Int /\ off <= near /\ -near <= off
  OBVIOUS
<1>6. turn * off <= size * near /\ -(turn * off) <= size * near
  BY <1>4, <1>5, ProductBound
<1>7. turn * off \in Int /\ size * near \in Int
  BY <1>4, <1>5
<1>8. /\ Distance(Lateral(p, place), Lateral(r, place)) \in {there, -there}
      /\ here <= Distance(Lateral(p, w), Lateral(r, w))
      /\ -here <= Distance(Lateral(p, w), Lateral(r, w))
      /\ Distance(Lateral(p, w), Lateral(r, w)) \in Nat
      /\ here \in Int /\ there \in Int
  <2> DEFINE a == Lateral(p, place)
             b == Lateral(r, place)
             c == Lateral(p, w)
             f == Lateral(r, w)
  <2>1. a \in Int /\ b \in Int /\ c \in Int /\ f \in Int
    BY <1>3
  <2>2. there = a - b /\ here = c - f
    OBVIOUS
  <2> HIDE DEF a, b, c, f, there, here
  <2>3. /\ Distance(a, b) \in {a - b, b - a}
        /\ c - f <= Distance(c, f) /\ f - c <= Distance(c, f) /\ Distance(c, f) \in Nat
    BY <2>1, DistanceFacts
  <2>4. /\ Distance(a, b) \in {there, -there}
        /\ here <= Distance(c, f) /\ -here <= Distance(c, f)
        /\ here \in Int /\ there \in Int
    BY <2>1, <2>2, <2>3
  <2>5. QED BY <2>3, <2>4 DEF a, b, c, f
<1> HIDE DEF turn, size, there, here, off
<1>9. QED BY <1>2, <1>6, <1>7, <1>8 DEF size

(* What a callback does to the accumulator is enough for the invariant.    *)
LEMMA HandledStep ==
  ASSUME ObserverInv, Spinning, transforms # <<>>,
         NEW c, Handled(c),
         c \in [previous : Poses \cup {NotFinite, NoPose}, last : -1..bag,
                samples : Nat, step : Nat, yaw : Nat,
                unaligned : BOOLEAN, regressive : BOOLEAN],
         \/ c.samples <= correction.samples
         \/ c.samples = correction.samples + 1 /\ correction.previous # NoPose,
         c.previous # NoPose => c.samples + Len(transforms) <= published,
         c.previous = NoPose => c.samples = 0,
         ~c.unaligned /\ phase' # "failed" => c.previous = received',
         rough' \in BOOLEAN,
         phase' = phase \/ phase' = "failed"
  PROVE  ObserverInv'
<1>1. /\ correction' = c /\ transforms' = Tail(transforms) /\ edges' = edges \cup {First.edge}
      /\ UNCHANGED <<track, bag, published, slam, odometryAt, odometry, clocks, polled, graph,
                     odd, silence>>
  BY DEF Handled, player
<1>2. /\ First \in Transform /\ transforms' \in Seq(Transform)
      /\ Len(transforms') = Len(transforms) - 1 /\ Len(transforms) \in Nat \ {0}
  BY <1>1, TailFacts DEF ObserverInv
<1>3. Transform' = Transform
  BY <1>1 DEF Transform
<1>4. SourceTypes'
  <2>1. Len(transforms') <= MaxQueued
    <3>1. Len(transforms) <= MaxQueued /\ MaxQueued \in Nat
      BY ConstantFacts DEF ObserverInv, SourceTypes
    <3>2. QED BY <1>2, <3>1
  <2>2. phase' \in {"playing", "settling", "passed", "failed"}
    BY DEF ObserverInv, SourceTypes
  <2>3. QED BY <1>1, <1>2, <1>3, <2>1, <2>2 DEF ObserverInv, SourceTypes
<1>5. CorrectionTypes'
  <2>1. First.edge \in {Edge, OtherEdge}
    BY <1>2 DEF Transform
  <2>2. /\ published \in Nat /\ correction.samples \in Nat /\ c.samples \in Nat
        /\ correction.samples + Len(transforms) <= published
        /\ correction.previous # NoPose => correction.samples + 1 + Len(transforms) <= published
    BY ConstantFacts DEF ObserverInv, SourceTypes, CorrectionTypes
  <2>3. c.samples + Len(transforms') <= published
    BY <1>2, <2>2
  <2>4. c.previous # NoPose => c.samples + 1 + Len(transforms') <= published
    BY <1>2, <2>2
  <2>5. edges' \subseteq {Edge, OtherEdge}
    BY <1>1, <2>1 DEF ObserverInv, CorrectionTypes
  <2>6. QED BY <1>1, <2>3, <2>4, <2>5 DEF CorrectionTypes
<1>6. WatchTypes'
  BY <1>1 DEF ObserverInv, WatchTypes, clocks, graph
<1>7. SilenceSeen' /\ OwnerSeen' /\ Seen'
  BY <1>1 DEF ObserverInv, SilenceSeen, OwnerSeen, Seen, clocks, graph, Spinning
<1>8. QED BY <1>4, <1>5, <1>6, <1>7 DEF ObserverInv

LEMMA CorrectionFacts ==
  ASSUME ObserverInv
  PROVE  /\ correction.previous \in Poses \cup {NotFinite, NoPose}
         /\ correction.last \in -1..bag
         /\ correction.samples \in Nat /\ correction.step \in Nat /\ correction.yaw \in Nat
         /\ correction.unaligned \in BOOLEAN /\ correction.regressive \in BOOLEAN
         /\ correction.samples + Len(transforms) <= published
         /\ correction.previous # NoPose => correction.samples + 1 + Len(transforms) <= published
         /\ correction.previous = NoPose => correction.samples = 0
         /\ ~correction.unaligned /\ phase # "failed" => correction.previous = received
BY DEF ObserverInv, CorrectionTypes

LEMMA HandleTransformStep ==
  ASSUME ObserverInv, HandleTransform
  PROVE  ObserverInv'
<1> USE CorrectionFacts
<1>1. ASSUME Spinning, transforms # <<>>, Handled(correction), UNCHANGED <<phase, moved>>
      PROVE  ObserverInv'
  <2>1. rough' \in BOOLEAN /\ received' = received
    BY <1>1 DEF ObserverInv, WatchTypes, moved
  <2>2. correction \in [previous : Poses \cup {NotFinite, NoPose}, last : -1..bag,
                        samples : Nat, step : Nat, yaw : Nat,
                        unaligned : BOOLEAN, regressive : BOOLEAN]
    BY DEF ObserverInv, CorrectionTypes
  <2>3. correction.previous # NoPose => correction.samples + Len(transforms) <= published
    OBVIOUS
  <2>4. QED BY <1>1, <2>1, <2>2, <2>3, HandledStep
<1>2. CASE HandleOtherEdge
  <2>1. Spinning /\ transforms # <<>> /\ Handled(correction) /\ UNCHANGED <<phase, moved>>
    BY <1>2 DEF HandleOtherEdge
  <2>2. QED BY <1>1, <2>1
<1>3. CASE HandleDuplicate
  <2>1. Spinning /\ transforms # <<>> /\ Handled(correction) /\ UNCHANGED <<phase, moved>>
    BY <1>3 DEF HandleDuplicate, Callback
  <2>2. QED BY <1>1, <2>1
<1>4. ASSUME Callback PROVE Spinning /\ transforms # <<>> /\ HeadAt \in 0..bag
                            /\ First.pose \in Poses \cup {NotFinite} /\ HeadAt \in -1..bag
  <2>1. Spinning /\ transforms # <<>> /\ SourceTypes
    BY <1>4 DEF Callback, ObserverInv
  <2>2. HeadAt \in 0..bag /\ First.pose \in Poses \cup {NotFinite}
    BY <2>1, TailFacts
  <2>3. HeadAt \in -1..bag
    BY <2>2
  <2>4. QED BY <2>1, <2>2, <2>3
<1>5. ASSUME InOrder
      PROVE  /\ Spinning /\ transforms # <<>> /\ HeadAt \in 0..bag /\ HeadAt \in -1..bag
             /\ First.pose \in Poses \cup {NotFinite} /\ First.pose # NoPose
             /\ received' = First.pose /\ rough' \in BOOLEAN
             /\ Len(transforms) \in Nat \ {0} /\ published \in Nat
  <2>1. received' = First.pose /\ Callback
    BY <1>5 DEF InOrder
  <2>2. rough' \in BOOLEAN
    BY <1>5, Zenon DEF InOrder
  <2>3. First.pose # NoPose
    BY <1>4, <2>1, ConstantFacts
  <2>4. Len(transforms) \in Nat \ {0} /\ published \in Nat
    BY <1>4, <2>1, TailFacts, ConstantFacts DEF ObserverInv, SourceTypes
  <2>5. QED BY <1>4, <2>1, <2>2, <2>3, <2>4
<1>6. CASE RefuseRegressive
  <2> DEFINE c == [correction EXCEPT !.regressive = TRUE]
  <2>1. Handled(c) /\ Callback /\ UNCHANGED <<phase, moved>>
    BY <1>6 DEF RefuseRegressive
  <2>2. c \in [previous : Poses \cup {NotFinite, NoPose}, last : -1..bag,
               samples : Nat, step : Nat, yaw : Nat,
               unaligned : BOOLEAN, regressive : BOOLEAN]
    BY DEF ObserverInv, CorrectionTypes
  <2>3. /\ c.samples = correction.samples /\ c.previous = correction.previous
        /\ c.unaligned = correction.unaligned
    BY DEF ObserverInv, CorrectionTypes
  <2>4. rough' \in BOOLEAN /\ received' = received
    BY <2>1 DEF ObserverInv, WatchTypes, moved
  <2> HIDE DEF c
  <2>5. /\ c.samples <= correction.samples
        /\ c.previous # NoPose => c.samples + Len(transforms) <= published
        /\ c.previous = NoPose => c.samples = 0
        /\ ~c.unaligned /\ phase' # "failed" => c.previous = received'
    BY <2>1, <2>3, <2>4
  <2>6. QED BY <1>4, <2>1, <2>2, <2>4, <2>5, HandledStep
<1>7. CASE KeepFirst
  <2> DEFINE c == [correction EXCEPT !.last = HeadAt, !.previous = First.pose]
  <2>1. Handled(c) /\ InOrder /\ correction.previous = NoPose /\ UNCHANGED phase
    BY <1>7 DEF KeepFirst
  <2>2. c \in [previous : Poses \cup {NotFinite, NoPose}, last : -1..bag,
               samples : Nat, step : Nat, yaw : Nat,
               unaligned : BOOLEAN, regressive : BOOLEAN]
    BY <1>5, <2>1 DEF ObserverInv, CorrectionTypes
  <2>3. c.samples = correction.samples /\ c.previous = First.pose
    BY DEF ObserverInv, CorrectionTypes
  <2> HIDE DEF c
  <2>4. /\ c.samples <= correction.samples
        /\ c.previous # NoPose => c.samples + Len(transforms) <= published
        /\ c.previous = NoPose => c.samples = 0
        /\ ~c.unaligned /\ phase' # "failed" => c.previous = received'
    BY <1>5, <2>1, <2>3
  <2>5. QED BY <1>5, <2>1, <2>2, <2>4, HandledStep
<1>8. CASE LeaveUnaligned
  <2> DEFINE c == [correction EXCEPT !.last = HeadAt, !.unaligned = TRUE]
  <2>1. Handled(c) /\ InOrder /\ correction.previous # NoPose /\ UNCHANGED phase
    BY <1>8 DEF LeaveUnaligned
  <2>2. c \in [previous : Poses \cup {NotFinite, NoPose}, last : -1..bag,
               samples : Nat, step : Nat, yaw : Nat,
               unaligned : BOOLEAN, regressive : BOOLEAN]
    BY <1>5, <2>1 DEF ObserverInv, CorrectionTypes
  <2>3. c.samples = correction.samples /\ c.previous = correction.previous /\ c.unaligned = TRUE
    BY DEF ObserverInv, CorrectionTypes
  <2> HIDE DEF c
  <2>4. /\ c.samples <= correction.samples
        /\ c.previous # NoPose => c.samples + Len(transforms) <= published
        /\ c.previous = NoPose => c.samples = 0
        /\ ~c.unaligned /\ phase' # "failed" => c.previous = received'
    BY <2>1, <2>3
  <2>5. QED BY <1>5, <2>1, <2>2, <2>4, HandledStep
<1>9. CASE Measure
  <2>1. PICK way \in Aligned(HeadAt) :
          Handled([correction EXCEPT
            !.last = HeadAt, !.previous = First.pose, !.samples = @ + 1,
            !.step = Later(@, Distance(Lateral(First.pose, way),
                                       Lateral(correction.previous, way))),
            !.yaw = Later(@, Distance(First.pose.yaw, correction.previous.yaw))])
    BY <1>9 DEF Measure
  <2>2. InOrder /\ correction.previous # NoPose /\ UNCHANGED phase
    BY <1>9 DEF Measure
  <2> DEFINE step == Later(correction.step, Distance(Lateral(First.pose, way),
                                                     Lateral(correction.previous, way)))
             yaw == Later(correction.yaw, Distance(First.pose.yaw, correction.previous.yaw))
             c == [correction EXCEPT !.last = HeadAt, !.previous = First.pose,
                                     !.samples = correction.samples + 1,
                                     !.step = step, !.yaw = yaw]
  <2>3. Handled(c)
    BY <2>1
  <2>4. way \in Int
    <3>1. HeadAt \in 0..bag /\ SourceTypes
      BY <1>5, <2>2 DEF ObserverInv
    <3>2. QED BY <2>1, <3>1, AlignedFacts
  <2>5. \A a, b \in Int : Distance(a, b) \in Nat
    BY DEF Distance
  <2>6. \A a, b \in Nat : Later(a, b) \in Nat
    BY DEF Later
  <2>7. step \in Nat
    <3>1. Lateral(First.pose, way) \in Int /\ Lateral(correction.previous, way) \in Int
      BY <1>5, <2>2, <2>4, PoseFacts
    <3>2. QED BY <2>5, <2>6, <3>1
  <2>8. yaw \in Nat
    <3>1. First.pose.yaw \in Int /\ correction.previous.yaw \in Int
      BY <1>5, <2>2, <2>4, PoseFacts
    <3>2. QED BY <2>5, <2>6, <3>1
  <2> HIDE DEF step, yaw
  <2>9. c \in [previous : Poses \cup {NotFinite, NoPose}, last : -1..bag,
               samples : Nat, step : Nat, yaw : Nat,
               unaligned : BOOLEAN, regressive : BOOLEAN]
    <3>1. /\ c = [k \in DOMAIN c |-> c[k]]
          /\ DOMAIN c = {"previous", "last", "samples", "step", "yaw", "unaligned",
                         "regressive"}
          /\ c.previous = First.pose /\ c.last = HeadAt
          /\ c.samples = correction.samples + 1 /\ c.step = step /\ c.yaw = yaw
          /\ c.unaligned = correction.unaligned /\ c.regressive = correction.regressive
      BY DEF ObserverInv, CorrectionTypes
    <3>2. HeadAt \in -1..bag /\ correction.samples + 1 \in Nat
      BY <1>5, <2>2
    <3> HIDE DEF c
    <3>3. QED BY <1>5, <2>2, <2>7, <2>8, <3>1, <3>2
  <2>10. c.samples = correction.samples + 1 /\ c.previous = First.pose
    BY DEF ObserverInv, CorrectionTypes
  <2> HIDE DEF c
  <2>11. /\ c.samples = correction.samples + 1 /\ correction.previous # NoPose
         /\ c.previous # NoPose => c.samples + Len(transforms) <= published
         /\ c.previous = NoPose => c.samples = 0
         /\ ~c.unaligned /\ phase' # "failed" => c.previous = received'
    BY <1>5, <2>2, <2>10
  <2>12. QED BY <1>5, <2>2, <2>3, <2>9, <2>11, HandledStep
<1>10. CASE MeasureRaises
  <2> DEFINE c == [correction EXCEPT !.last = HeadAt]
  <2>1. Handled(c) /\ InOrder /\ correction.previous # NoPose /\ phase' = "failed"
    BY <1>10 DEF MeasureRaises
  <2>2. c \in [previous : Poses \cup {NotFinite, NoPose}, last : -1..bag,
               samples : Nat, step : Nat, yaw : Nat,
               unaligned : BOOLEAN, regressive : BOOLEAN]
    BY <1>5, <2>1 DEF ObserverInv, CorrectionTypes
  <2>3. c.samples = correction.samples /\ c.previous = correction.previous
    BY DEF ObserverInv, CorrectionTypes
  <2> HIDE DEF c
  <2>4. /\ c.samples <= correction.samples
        /\ c.previous # NoPose => c.samples + Len(transforms) <= published
        /\ c.previous = NoPose => c.samples = 0
        /\ ~c.unaligned /\ phase' # "failed" => c.previous = received'
    BY <2>1, <2>3
  <2>5. QED BY <1>5, <2>1, <2>2, <2>4, HandledStep
<1>11. QED
  BY <1>2, <1>3, <1>6, <1>7, <1>8, <1>9, <1>10 DEF HandleTransform

-----------------------------------------------------------------------------
(* The clock, the loop of the playback and the verdict.                    *)

LEMMA HandleClockStep ==
  ASSUME ObserverInv, HandleClock
  PROVE  ObserverInv'
<1>1. /\ Spinning /\ clock.last < bag /\ quiet' = 0
      /\ clock' = [first |-> IF clock.first < 0 THEN bag ELSE clock.first,
                   last |-> bag, stalled |-> clock.stalled \/ quiet > Stall]
      /\ UNCHANGED <<track, phase, bag, published, slam, transforms, odometryAt, odometry,
                     correction, edges, polled, graph, odd, received, rough, silence>>
  BY DEF HandleClock, player, measure, moved
<1>2. bag \in 0..Horizon /\ Horizon \in Nat
  BY ConstantFacts DEF ObserverInv, SourceTypes
<1>3. SourceTypes'
  BY <1>1, SourceKept DEF ObserverInv, SourceTypes
<1>4. CorrectionTypes'
  BY <1>1, CorrectionKept DEF ObserverInv, Spinning
<1>5. WatchTypes'
  <2>1. /\ clock.first \in -1..Horizon /\ clock.first <= clock.last /\ clock.last \in -1..Horizon
        /\ clock.stalled \in BOOLEAN
    BY DEF ObserverInv, WatchTypes
  <2>2. /\ (IF clock.first < 0 THEN bag ELSE clock.first) \in -1..Horizon
        /\ (IF clock.first < 0 THEN bag ELSE clock.first) <= bag
        /\ bag \in -1..Horizon
    BY <1>1, <1>2, <2>1
  <2>3. clock' \in [first : -1..Horizon, last : -1..Horizon, stalled : BOOLEAN]
    BY <1>1, <2>1, <2>2
  <2>4. clock'.first <= clock'.last /\ clock'.last <= bag'
    BY <1>1, <1>2, <2>2
  <2>5. {polled, second, owners, rough, silence, stay, longStay}' \subseteq BOOLEAN
    BY <1>1 DEF ObserverInv, WatchTypes, graph
  <2>6. QED BY <1>1, <2>3, <2>4, <2>5 DEF WatchTypes
<1>6. SilenceSeen'
  <2>1. quiet' <= Stall
    BY <1>1, ConstantFacts
  <2>2. clock'.stalled = (clock.stalled \/ quiet > Stall)
    BY <1>1
  <2>3. silence /\ phase # "failed" => clock'.stalled
    BY <2>2 DEF ObserverInv, SilenceSeen
  <2>4. QED BY <1>1, <2>1, <2>3 DEF SilenceSeen
<1>7. OwnerSeen' /\ Seen'
  BY <1>1 DEF ObserverInv, OwnerSeen, Seen, graph, Spinning
<1>8. QED BY <1>3, <1>4, <1>5, <1>6, <1>7 DEF ObserverInv

LEMMA PollStep ==
  ASSUME ObserverInv, Poll
  PROVE  ObserverInv'
<1>1. /\ phase = "playing" /\ polled' = TRUE /\ owners' = (owners \/ second)
      /\ phase' = IF quiet > Stall THEN "failed" ELSE phase
      /\ UNCHANGED <<track, bag, published, slam, transforms, odometryAt, odometry,
                     correction, edges, clock, quiet, second, stay, longStay, odd, received,
                     rough, silence>>
  BY DEF Poll, Stalled, player, measure, clocks, moved
<1>2. SourceTypes'
  BY <1>1, SourceKept DEF ObserverInv, SourceTypes
<1>3. CorrectionTypes'
  BY <1>1, CorrectionKept DEF ObserverInv
<1>4. WatchTypes'
  BY <1>1 DEF ObserverInv, WatchTypes
<1>5. SilenceSeen'
  <2>1. quiet \in Nat /\ Stall \in Nat
    BY ConstantFacts DEF ObserverInv, WatchTypes
  <2>2. QED BY <1>1, <2>1 DEF ObserverInv, SilenceSeen
<1>6. OwnerSeen' /\ Seen'
  BY <1>1 DEF ObserverInv, OwnerSeen, Seen
<1>7. QED BY <1>2, <1>3, <1>4, <1>5, <1>6 DEF ObserverInv

LEMMA PlayedStep ==
  ASSUME ObserverInv, Played
  PROVE  ObserverInv'
<1>1. /\ phase = "playing" /\ polled /\ phase' \in {"settling", "failed"}
      /\ (odd' = odd \/ Odd)
      /\ UNCHANGED <<track, bag, published, slam, transforms, odometryAt, odometry,
                     correction, edges, clock, quiet, polled, second, owners, stay, longStay,
                     received, rough, silence>>
  BY DEF Played, player, measure, clocks, graph, moved
<1>2. odd' \in 0..MaxOdd
  BY <1>1, OddFacts DEF ObserverInv, SourceTypes
<1>3. SourceTypes'
  BY <1>1, <1>2, SourceKept DEF ObserverInv
<1>4. CorrectionTypes'
  BY <1>1, CorrectionKept DEF ObserverInv
<1>5. WatchTypes'
  BY <1>1 DEF ObserverInv, WatchTypes
<1>6. SilenceSeen' /\ OwnerSeen' /\ Seen'
  BY <1>1 DEF ObserverInv, SilenceSeen, OwnerSeen, Seen
<1>7. QED BY <1>3, <1>4, <1>5, <1>6 DEF ObserverInv

LEMMA JudgeStep ==
  ASSUME ObserverInv, Judge
  PROVE  ObserverInv'
<1>1. /\ phase = "settling" /\ owners' = (owners \/ second)
      /\ phase' \in {"passed", "failed"}
      /\ phase' = "passed" => Passes /\ ~second
      /\ UNCHANGED <<track, bag, published, slam, transforms, odometryAt, odometry,
                     correction, edges, clock, quiet, polled, second, stay, longStay, odd,
                     received, rough, silence>>
  BY DEF Judge, player, measure, clocks, moved
<1>2. SourceTypes'
  BY <1>1, SourceKept DEF ObserverInv, SourceTypes
<1>3. CorrectionTypes'
  BY <1>1, CorrectionKept DEF ObserverInv
<1>4. WatchTypes'
  BY <1>1 DEF ObserverInv, WatchTypes
<1>5. SilenceSeen' /\ OwnerSeen'
  BY <1>1 DEF ObserverInv, SilenceSeen, OwnerSeen
<1>6. Seen'
  BY <1>1 DEF Seen, Passes
<1>7. QED BY <1>2, <1>3, <1>4, <1>5, <1>6 DEF ObserverInv

LEMMA StutterStep ==
  ASSUME ObserverInv, UNCHANGED vars
  PROVE  ObserverInv'
<1>1. UNCHANGED <<track, phase, bag, published, slam, transforms, odometryAt, odometry,
                  correction, edges, clock, quiet, polled, second, owners, stay, longStay, odd,
                  received, rough, silence>>
  BY DEF vars, player, measure, clocks, graph, moved
<1>2. SourceTypes'
  BY <1>1, SourceKept DEF ObserverInv, SourceTypes
<1>3. CorrectionTypes'
  BY <1>1 DEF ObserverInv, CorrectionTypes
<1>4. WatchTypes'
  BY <1>1 DEF ObserverInv, WatchTypes
<1>5. SilenceSeen' /\ OwnerSeen' /\ Seen'
  BY <1>1 DEF ObserverInv, SilenceSeen, OwnerSeen, Seen
<1>6. QED BY <1>2, <1>3, <1>4, <1>5 DEF ObserverInv

-----------------------------------------------------------------------------
(* The corrections that moved the robot too far.                           *)

(* A rough correction left a trace: a step measured beyond a limit, or an  *)
(* instant without odometry.  One that is not finite is the pose measured  *)
(* from next, unless it ended the run.                                     *)
Trace ==
  \/ phase = "failed" \/ correction.unaligned
  \/ correction.step > TranslationLimit \/ correction.yaw > YawLimit
  \/ correction.previous = NotFinite

RoughSeen ==
  /\ correction.previous = NotFinite => correction.samples = 0
  /\ rough => Trace
  /\ phase = "passed" => ~rough

LEMMA RoughKept ==
  ASSUME RoughSeen, UNCHANGED <<correction, rough>>,
         phase' = phase \/ phase' = "failed" \/ (phase = "playing" /\ phase' = "settling")
  PROVE  RoughSeen'
BY DEF RoughSeen, Trace

LEMMA JudgeKeepsRough ==
  ASSUME ObserverInv, RoughSeen, Judge
  PROVE  RoughSeen'
<1>1. /\ phase = "settling" /\ UNCHANGED <<correction, rough>>
      /\ phase' \in {"passed", "failed"} /\ (phase' = "passed" => Passes)
  BY DEF Judge, moved, measure
<1>2. CASE phase' = "failed"
  BY <1>1, <1>2, RoughKept
<1>3. CASE phase' = "passed"
  <2>1. /\ MinimumSamples \in Nat \ {0} /\ TranslationLimit \in Nat /\ YawLimit \in Nat
        /\ correction.samples \in Nat /\ correction.step \in Nat /\ correction.yaw \in Nat
    BY ConstantFacts, CorrectionFacts
  <2>2. /\ correction.samples >= MinimumSamples
        /\ correction.step <= TranslationLimit /\ correction.yaw <= YawLimit
        /\ ~correction.unaligned
    BY <1>1, <1>3 DEF Passes
  <2>3. correction.previous # NotFinite
    BY <2>1, <2>2 DEF RoughSeen
  <2>4. ~Trace
    BY <1>1, <2>1, <2>2, <2>3 DEF Trace
  <2>5. ~rough
    BY <2>4 DEF RoughSeen
  <2>6. QED BY <1>1, <1>3, <2>3, <2>5 DEF RoughSeen
<1>4. QED BY <1>1, <1>2, <1>3

(* A step measured at the aligned way is beyond a limit whenever the robot *)
(* was moved too far where it really is.                                   *)
LEMMA RoughIsMeasured ==
  ASSUME ObserverInv, transforms # <<>>, MovesTooFar,
         First.pose \in Poses, received \in Poses, NEW way \in Aligned(HeadAt)
  PROVE  \/ Distance(Lateral(First.pose, way), Lateral(received, way)) > TranslationLimit
         \/ Distance(First.pose.yaw, received.yaw) > YawLimit
<1> DEFINE place == track[HeadAt]
           near == HalfStep * Tolerance
           turn == Distance(First.pose.yaw, received.yaw)
           there == Distance(Lateral(First.pose, place), Lateral(received, place))
           here == Distance(Lateral(First.pose, way), Lateral(received, way))
<1>1. /\ HeadAt \in 0..bag /\ way \in Int /\ place \in Int /\ way - place \in (-near)..near
  BY TailFacts, AlignedFacts DEF ObserverInv
<1>2. near \in Nat /\ TranslationLimit \in Nat /\ HalfStep \in Nat /\ Tolerance \in Nat
  BY ConstantFacts
<1>3. there <= here + turn * near
  BY <1>1, <1>2, ShiftIsBounded
<1>4. turn > YawLimit \/ there > TranslationLimit + turn * HalfStep * Tolerance
  BY DEF MovesTooFar, HeadAt, Effective
<1>5. turn \in Nat /\ there \in Nat /\ here \in Nat
  <2>1. /\ Lateral(First.pose, place) \in Int /\ Lateral(received, place) \in Int
        /\ Lateral(First.pose, way) \in Int /\ Lateral(received, way) \in Int
        /\ First.pose.yaw \in Int /\ received.yaw \in Int
    BY <1>1, PoseFacts
  <2>2. QED BY <2>1, DistanceFacts
<1>6. turn * HalfStep * Tolerance = turn * near /\ turn * near \in Int
  BY <1>2, <1>5
<1> HIDE DEF place, near, turn, there, here
<1>7. turn > YawLimit \/ here > TranslationLimit
  BY <1>2, <1>3, <1>4, <1>5, <1>6
<1>8. QED BY <1>7 DEF turn, here

LEMMA LaterFacts ==
  ASSUME NEW a \in Nat, NEW b \in Nat
  PROVE  Later(a, b) \in Nat /\ Later(a, b) >= a /\ Later(a, b) >= b
BY DEF Later

LEMMA MeasureKeepsRough ==
  ASSUME ObserverInv, RoughSeen, Measure
  PROVE  RoughSeen'
<1>1. PICK way \in Aligned(HeadAt) :
        Handled([correction EXCEPT
          !.last = HeadAt, !.previous = First.pose, !.samples = @ + 1,
          !.step = Later(@, Distance(Lateral(First.pose, way),
                                     Lateral(correction.previous, way))),
          !.yaw = Later(@, Distance(First.pose.yaw, correction.previous.yaw))])
  BY DEF Measure
<1> DEFINE step == Distance(Lateral(First.pose, way), Lateral(correction.previous, way))
           yaw == Distance(First.pose.yaw, correction.previous.yaw)
<1>2. /\ transforms # <<>> /\ Spinning /\ phase' = phase
      /\ correction.previous # NoPose
      /\ First.pose # NotFinite /\ correction.previous # NotFinite
      /\ rough' = (\/ rough \/ NotFinite \in {First.pose, received}
                   \/ received # NoPose /\ MovesTooFar)
  BY DEF Measure, InOrder, Callback
<1>3. /\ HeadAt \in 0..bag /\ First.pose \in Poses /\ correction.previous \in Poses
      /\ correction.step \in Nat /\ correction.yaw \in Nat
  BY <1>2, TailFacts, CorrectionFacts DEF ObserverInv
<1>4. way \in Int
  BY <1>3, AlignedFacts DEF ObserverInv
<1>5. step \in Nat /\ yaw \in Nat
  <2>1. /\ Lateral(First.pose, way) \in Int /\ Lateral(correction.previous, way) \in Int
        /\ First.pose.yaw \in Int /\ correction.previous.yaw \in Int
    BY <1>3, <1>4, PoseFacts
  <2>2. QED BY <2>1, DistanceFacts
<1>6. /\ correction'.previous = First.pose /\ correction'.unaligned = correction.unaligned
      /\ correction'.step = Later(correction.step, step)
      /\ correction'.yaw = Later(correction.yaw, yaw)
  BY <1>1 DEF Handled, ObserverInv, CorrectionTypes
<1>7. TranslationLimit \in Nat /\ YawLimit \in Nat
  BY ConstantFacts
<1>8. /\ correction'.step \in Nat /\ correction'.step >= correction.step
      /\ correction'.step >= step
      /\ correction'.yaw \in Nat /\ correction'.yaw >= correction.yaw /\ correction'.yaw >= yaw
  BY <1>3, <1>5, <1>6, LaterFacts
<1>9. ASSUME rough', phase # "failed", ~correction.unaligned
      PROVE  Trace'
  <2>1. received = correction.previous
    BY <1>9, CorrectionFacts
  <2>2. CASE rough
    <3>1. correction.step > TranslationLimit \/ correction.yaw > YawLimit
      BY <1>2, <1>9, <2>2 DEF RoughSeen, Trace
    <3>2. correction'.step > TranslationLimit \/ correction'.yaw > YawLimit
      BY <1>3, <1>7, <1>8, <3>1
    <3>3. QED BY <3>2 DEF Trace
  <2>3. CASE ~rough
    <3>1. MovesTooFar
      BY <1>2, <1>9, <2>1, <2>3
    <3>2. step > TranslationLimit \/ yaw > YawLimit
      BY <1>2, <1>3, <2>1, <3>1, RoughIsMeasured
    <3> HIDE DEF step, yaw
    <3>3. correction'.step > TranslationLimit \/ correction'.yaw > YawLimit
      BY <1>5, <1>7, <1>8, <3>2
    <3>4. QED BY <3>3 DEF Trace
  <2>4. QED BY <2>2, <2>3
<1>10. QED
  <2>1. phase' # "passed"
    BY <1>2 DEF Spinning
  <2>2. rough' => Trace'
    <3>1. CASE phase = "failed" \/ correction.unaligned
      BY <1>2, <1>6, <3>1 DEF Trace
    <3>2. QED BY <1>9, <3>1
  <2>3. correction'.previous # NotFinite
    BY <1>2, <1>6
  <2>4. QED BY <2>1, <2>2, <2>3 DEF RoughSeen

LEMMA HandleTransformKeepsRough ==
  ASSUME ObserverInv, RoughSeen, HandleTransform
  PROVE  RoughSeen'
<1>1. correction.samples \in Nat /\ (correction.previous = NoPose => correction.samples = 0)
  BY CorrectionFacts
<1>2. CASE HandleOtherEdge \/ HandleDuplicate
  BY <1>2, RoughKept DEF HandleOtherEdge, HandleDuplicate, Handled, moved
<1>3. CASE RefuseRegressive
  <2>1. /\ correction' = [correction EXCEPT !.regressive = TRUE]
        /\ rough' = rough /\ phase' = phase
    BY <1>3 DEF RefuseRegressive, Handled, moved
  <2>2. /\ correction'.previous = correction.previous /\ correction'.samples = correction.samples
        /\ correction'.step = correction.step /\ correction'.yaw = correction.yaw
        /\ correction'.unaligned = correction.unaligned
    BY <2>1 DEF ObserverInv, CorrectionTypes
  <2>3. QED BY <2>1, <2>2 DEF RoughSeen, Trace
<1>4. ASSUME InOrder
      PROVE  /\ Spinning
             /\ rough' = (\/ rough \/ NotFinite \in {First.pose, received}
                          \/ received # NoPose /\ MovesTooFar)
  BY <1>4 DEF InOrder, Callback
<1>5. CASE KeepFirst
  <2>1. /\ correction' = [correction EXCEPT !.last = HeadAt, !.previous = First.pose]
        /\ correction.previous = NoPose /\ InOrder /\ phase' = phase
    BY <1>5 DEF KeepFirst, Handled
  <2>2. /\ correction'.previous = First.pose /\ correction'.samples = 0
        /\ correction'.step = correction.step /\ correction'.yaw = correction.yaw
        /\ correction'.unaligned = correction.unaligned
    BY <1>1, <2>1 DEF ObserverInv, CorrectionTypes
  <2>3. ASSUME rough', phase # "failed", ~correction.unaligned
        PROVE  Trace'
    <3>1. received = NoPose
      BY <2>1, <2>3, CorrectionFacts
    <3>2. CASE rough
      <4>1. correction.previous # NotFinite
        BY <2>1, ConstantFacts
      <4>2. QED BY <2>2, <2>3, <3>2, <4>1 DEF RoughSeen, Trace
    <3>3. CASE ~rough
      <4>1. First.pose = NotFinite
        BY <1>4, <2>1, <2>3, <3>1, <3>3, ConstantFacts
      <4>2. QED BY <2>2, <4>1 DEF Trace
    <3>4. QED BY <3>2, <3>3
  <2>4. phase' # "passed"
    BY <1>4, <2>1 DEF Spinning
  <2>5. phase = "failed" \/ correction.unaligned => Trace'
    BY <2>1, <2>2 DEF Trace
  <2>6. QED BY <2>2, <2>3, <2>4, <2>5 DEF RoughSeen
<1>6. CASE LeaveUnaligned
  <2>1. /\ correction' = [correction EXCEPT !.last = HeadAt, !.unaligned = TRUE]
        /\ InOrder /\ phase' = phase
    BY <1>6 DEF LeaveUnaligned, Handled
  <2>2. /\ correction'.previous = correction.previous /\ correction'.samples = correction.samples
        /\ correction'.unaligned
    BY <2>1 DEF ObserverInv, CorrectionTypes
  <2>3. phase' # "passed"
    BY <1>4, <2>1 DEF Spinning
  <2>4. QED BY <2>2, <2>3 DEF RoughSeen, Trace
<1>7. CASE MeasureRaises
  <2>1. correction' = [correction EXCEPT !.last = HeadAt] /\ phase' = "failed"
    BY <1>7 DEF MeasureRaises, Handled
  <2>2. /\ correction'.previous = correction.previous /\ correction'.samples = correction.samples
    BY <2>1 DEF ObserverInv, CorrectionTypes
  <2>3. QED BY <2>1, <2>2 DEF RoughSeen, Trace
<1>8. QED BY <1>2, <1>3, <1>5, <1>6, <1>7, MeasureKeepsRough DEF HandleTransform

LEMMA RoughStep ==
  ASSUME ObserverInv, RoughSeen, [Next]_vars
  PROVE  RoughSeen'
<1>1. CASE UNCHANGED vars
  BY <1>1, RoughKept DEF vars, measure, moved
<1>2. CASE World
  BY <1>2, RoughKept
     DEF World, Play, Publish, LoseTransform, Wall, SecondOwner, measure, moved
<1>3. CASE HandleOdometry \/ HandleClock
  BY <1>3, RoughKept DEF HandleOdometry, HandleClock, measure, moved
<1>4. CASE Poll \/ Played
  <2>1. UNCHANGED <<correction, rough>>
    BY <1>4 DEF Poll, Played, measure, moved
  <2>2. phase' = phase \/ phase' = "failed" \/ (phase = "playing" /\ phase' = "settling")
    BY <1>4 DEF Poll, Played
  <2>3. QED BY <2>1, <2>2, RoughKept
<1>5. QED
  BY <1>1, <1>2, <1>3, <1>4, HandleTransformKeepsRough, JudgeKeepsRough
     DEF Next, Observer, Runner

-----------------------------------------------------------------------------
(* The theorems.                                                           *)

(* What the observer, its queues and the loop agree on always holds.       *)
THEOREM ObserverInvariant == Spec => []ObserverInv
<1>1. Init => ObserverInv
  BY InitObserverInv
<1>2. ObserverInv /\ [Next]_vars => ObserverInv'
  <2> SUFFICES ASSUME ObserverInv, [Next]_vars
               PROVE  ObserverInv'
    OBVIOUS
  <2>1. CASE World
    BY <2>1, PlayStep, PublishStep, LoseTransformStep, WallStep, SecondOwnerStep DEF World
  <2>2. CASE Observer
    BY <2>2, HandleOdometryStep, HandleTransformStep, HandleClockStep DEF Observer
  <2>3. CASE Runner
    BY <2>3, PollStep, PlayedStep, JudgeStep DEF Runner
  <2>4. CASE UNCHANGED vars
    BY <2>4, StutterStep
  <2>5. QED BY <2>1, <2>2, <2>3, <2>4 DEF Next
<1>3. QED BY <1>1, <1>2, PTL DEF Spec

(* Every variable of the observer keeps its type; fewer steps are measured *)
(* than transforms were published, and the pose a step is measured from is *)
(* the last one received in order unless one was left unaligned            *)
(* (mapping_pose_continuity.py:112).                                       *)
THEOREM TypeCorrect == Spec => []TypeOK
BY ObserverInvariant, TypesFollow, PTL

(* A run that passed was watched: no silence of the clock longer than      *)
(* allowed escaped both its gaps and the poll, and no second owner that    *)
(* stayed for a tick escaped the polls (mapping_runtime_observer.py:189).  *)
THEOREM RunWasWatched == Spec => []PassedWasWatched
<1>1. ObserverInv => PassedWasWatched
  <2> SUFFICES ASSUME ObserverInv, phase = "passed"
               PROVE  ~silence /\ ~longStay
    BY DEF PassedWasWatched
  <2>1. quiet \in Nat /\ Stall \in Nat /\ quiet <= Stall
    BY ConstantFacts DEF ObserverInv, WatchTypes, SilenceSeen
  <2>2. ~clock.stalled /\ ~owners
    BY DEF ObserverInv, Seen
  <2>3. QED BY <2>1, <2>2 DEF ObserverInv, SilenceSeen, OwnerSeen
<1>2. QED BY <1>1, ObserverInvariant, PTL

(* A run that passed had a smooth map: every correction it received in     *)
(* order moved the robot, where it really was, by no more than the limits, *)
(* for every way it drives and every sample of the odometry that was lost: *)
(* the interpolation is off by half of what is driven in the tolerance     *)
(* (mapping_pose_continuity.py:112, mapping_acceptance.py:172).            *)
THEOREM RunIsSmooth == Spec => []PassedIsSmooth
<1>1. Init => RoughSeen
  BY ConstantFacts DEF Init, RoughSeen
<1>2. ObserverInv /\ RoughSeen /\ [Next]_vars => RoughSeen'
  BY RoughStep
<1>3. RoughSeen => PassedIsSmooth
  BY DEF RoughSeen, PassedIsSmooth
<1>4. QED BY <1>1, <1>2, <1>3, ObserverInvariant, PTL DEF Spec

=============================================================================
