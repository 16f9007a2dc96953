----------------------- MODULE CloudAccumulatorProofs -----------------------
(* Proofs about CloudAccumulator for every set of stamps, every capacity,  *)
(* frame limit and cache time, both cadences, and a source of any length.  *)
EXTENDS CloudAccumulator, SequenceTheorems, TLAPS

(* While one of these statements is next, no output is under way.          *)
NoOutput == {"idle", "arrived", "appended", "head", "waiting", "lost"}

(* What the next statement may rely on: a queue, a cloud in hand ...       *)
QueuePhase ==
  /\ pc \in {"appended", "head", "waiting", "joined", "added"} => pending # <<>>
  /\ hand # <<>> <=> pc \in {"arrived", "lost", "popped", "processed"}
  /\ pc = "arrived" => ~hand[1].waited
  /\ pc = "processed" => hand[1].waited

(* ... an output under way, and what was delivered last.                   *)
FramePhase ==
  /\ pc \in NoOutput => ready = <<>>
  /\ pc \in {"joined", "taken", "published", "noted"} => ready # <<>>
  /\ delivered # <<>> =>
       IF pc = "published" THEN delivered = ready ELSE LastOf(delivered) = lastOutput

(* An output is counted two statements after it went out.                  *)
OutputsCounted ==
  outputs = published + (IF pc \in {"published", "noted"} THEN 1 ELSE 0)

(* In batches, the window is full only until it is cleared.                *)
WindowInv ==
  /\ pc = "joined" => emitEvery > 1 /\ Len(window) = emitEvery
  /\ pc # "joined" /\ emitEvery > 1 => Len(window) < emitEvery
  /\ pc # "joined" /\ emitEvery > 1 /\ ready # <<>> => window = <<>>

(* The queue is sorted and nothing exceeds the largest stamp queued.       *)
QueueOrder ==
  /\ \A i, j \in 1..Len(pending) : i < j => pending[i].stamp < pending[j].stamp
  /\ \A i \in 1..Len(pending) : pending[i].stamp <= Newest
  /\ Newest = 0 => pending = <<>> /\ used = <<>>
  /\ \A j \in 1..Len(used) : used[j] <= Newest

(* Used stamps increase and lie before the queue; an added head is both.   *)
UsedOrder ==
  /\ \A i, j \in 1..Len(used) : i < j => used[i] < used[j]
  /\ \A i \in 1..Len(pending), j \in 1..Len(used) :
       pc \notin {"joined", "added"} \/ i # 1 => used[j] < pending[i].stamp

(* The last output was used before anything that is ready.                 *)
OutputOrder ==
  /\ lastOutput # 0 => used # <<>> /\ lastOutput <= LastOf(used)
  /\ ready # <<>> /\ pc # "noted" => lastOutput < LastOf(used)
  /\ regressions = 0

(* The window holds the latest used stamps.                                *)
WindowIsSuffix ==
  /\ Len(window) <= Len(used)
  /\ \A i \in 1..Len(window) : window[i] = used[Len(used) - Len(window) + i]

(* In batches, nothing that was published is in the window or ready.       *)
BatchInv ==
  /\ emitEvery > 1 =>
       /\ \A i \in 1..Len(window) : window[i] > lastOutput
       /\ pc # "noted" => \A i \in 1..Len(ready) : ready[i] > lastOutput
  /\ \A i \in 1..Len(delivered) : delivered[i] <= LastOf(delivered)

QueueInv ==
  QueuePhase /\ InputConserved /\ QueueOrder /\ UsedOrder /\ WaitsAccounted
FrameInv ==
  /\ FramePhase /\ OutputConserved /\ OutputsCounted /\ WindowInv
  /\ OutputOrder /\ WindowIsSuffix /\ JoinsLatest /\ BatchInv
CloudInv == TypeOK /\ QueueInv /\ FrameInv

-----------------------------------------------------------------------------
(* What the head and the tail of a queue of entries are.                   *)
LEMMA HeadFacts ==
  ASSUME NEW q \in Seq(Entries), q # <<>>
  PROVE  /\ q[1] \in Entries /\ q[1].stamp \in Stamps /\ q[1].stamp \in Nat \ {0}
         /\ Tail(q) \in Seq(Entries) /\ Len(q) \in Nat \ {0}
         /\ Len(Tail(q)) = Len(q) - 1
         /\ \A i \in 1..Len(Tail(q)) : Tail(q)[i] = q[i + 1]
<1>1. /\ Len(q) \in Nat \ {0} /\ Tail(q) \in Seq(Entries)
      /\ Len(Tail(q)) = Len(q) - 1
      /\ \A i \in 1..Len(Tail(q)) : Tail(q)[i] = q[i + 1]
  OBVIOUS
<1>2. q[1] \in Entries
  BY <1>1
<1>3. QED BY <1>1, <1>2, QueueAssumption DEF Entries

(* The members of a sequence of stamps, and what appending one does.       *)
LEMMA StampSeqFacts ==
  ASSUME NEW s \in Seq(Stamps)
  PROVE  /\ Len(s) \in Nat
         /\ \A i \in 1..Len(s) : s[i] \in Stamps /\ s[i] \in Nat
         /\ s # <<>> => Len(s) \in 1..Len(s) /\ LastOf(s) \in Stamps
<1>1. Len(s) \in Nat /\ (s # <<>> => Len(s) \in 1..Len(s))
  OBVIOUS
<1>2. \A i \in 1..Len(s) : s[i] \in Stamps
  OBVIOUS
<1>3. Stamps \subseteq Nat
  BY QueueAssumption
<1>4. QED BY <1>1, <1>2, <1>3 DEF LastOf

(* Stamps of an entry, of a used frame and of the output are numbers.      *)
LEMMA StampTypes ==
  ASSUME TypeOK
  PROVE  /\ \A i \in 1..Len(pending) : pending[i] \in Entries
                                       /\ pending[i].stamp \in Nat
         /\ \A i \in 1..Len(used) : used[i] \in Nat
         /\ \A i \in 1..Len(window) : window[i] \in Nat
         /\ \A i \in 1..Len(ready) : ready[i] \in Nat
         /\ largest \in Nat /\ lastOutput \in Nat
         /\ Len(pending) \in Nat /\ Len(used) \in Nat /\ Len(window) \in Nat
         /\ Len(ready) \in Nat
<1>1. pending \in Seq(Entries) /\ used \in Seq(Stamps) /\ window \in Seq(Stamps)
      /\ ready \in Seq(Stamps) /\ Stamps \subseteq Nat
      /\ largest \in Stamps \cup {0} /\ lastOutput \in Stamps \cup {0}
  BY QueueAssumption DEF TypeOK
<1>2. \A i \in 1..Len(pending) : pending[i] \in Entries
  BY <1>1
<1>3. \A i \in 1..Len(pending) : pending[i].stamp \in Nat
  BY <1>1, <1>2 DEF Entries
<1>4. \A i \in 1..Len(used) : used[i] \in Nat
  BY <1>1, StampSeqFacts
<1>5. \A i \in 1..Len(window) : window[i] \in Nat
  BY <1>1, StampSeqFacts
<1>6. \A i \in 1..Len(ready) : ready[i] \in Nat
  BY <1>1, StampSeqFacts
<1>7. largest \in Nat /\ lastOutput \in Nat
  BY <1>1
<1>8. /\ Len(pending) \in Nat /\ Len(used) \in Nat /\ Len(window) \in Nat
      /\ Len(ready) \in Nat
  BY <1>1
<1>9. QED BY <1>2, <1>3, <1>4, <1>5, <1>6, <1>7, <1>8

(* The cadence is one of the two a window allows.                          *)
LEMMA CadenceTypes ==
  ASSUME TypeOK
  PROVE  emitEvery \in Nat \ {0} /\ emitEvery \in {1, FrameLimit}
  BY WindowAssumption DEF TypeOK

(* The counters are numbers, and what Balance arithmetic needs of frames.  *)
LEMMA CountTypes ==
  ASSUME TypeOK
  PROVE  /\ received \in Nat /\ unrecoverable \in Nat /\ overflow \in Nat
         /\ futureWaited \in Nat /\ recovered \in Nat
         /\ processed \in Nat /\ published \in Nat /\ outputs \in Nat
         /\ published * emitEvery \in Nat /\ PartialFrames \in Nat
         /\ Owed \in Nat /\ Len(pending) \in Nat
         /\ Uncounted \in {0, 1} /\ Untaken \in {0, 1}
         /\ HeadWaiting \in {0, 1} /\ HandWaiting \in {0, 1}
         /\ Counting \in {0, 1}
<1>1. /\ received \in Nat /\ unrecoverable \in Nat /\ overflow \in Nat
      /\ futureWaited \in Nat /\ recovered \in Nat
      /\ processed \in Nat /\ published \in Nat /\ outputs \in Nat
  BY QueueAssumption DEF TypeOK
<1>2. published * emitEvery \in Nat /\ PartialFrames \in Nat /\ Owed \in Nat
      /\ Len(pending) \in Nat
  BY <1>1, CadenceTypes, StampTypes DEF PartialFrames, Owed
<1>3. /\ Uncounted \in {0, 1} /\ Untaken \in {0, 1}
      /\ HeadWaiting \in {0, 1} /\ HandWaiting \in {0, 1}
      /\ Counting \in {0, 1}
  BY DEF Uncounted, Untaken, HeadWaiting, HandWaiting, Counting
<1>4. QED BY <1>1, <1>2, <1>3

(* The invariant holds at the start.                                       *)
LEMMA InitCloudInv == Init => CloudInv
<1> SUFFICES ASSUME Init PROVE CloudInv
  OBVIOUS
<1> USE DEF Init
<1>1. TypeOK
  <2>1. /\ received \in 0..MaxReceived
        /\ unrecoverable \in Nat /\ overflow \in Nat
        /\ futureWaited \in Nat /\ recovered \in Nat /\ outputs \in Nat
        /\ processed \in Nat /\ published \in Nat /\ regressions \in Nat
    BY QueueAssumption
  <2>2. Len(pending) <= Capacity /\ Len(window) <= FrameLimit /\ Len(hand) <= 1
    BY QueueAssumption, WindowAssumption
  <2>3. /\ pending \in Seq(Entries) /\ window \in Seq(Stamps)
        /\ ready \in Seq(Stamps) /\ delivered \in Seq(Stamps)
        /\ used \in Seq(Stamps) /\ hand \in Seq(Entries)
    OBVIOUS
  <2>4. /\ largest \in Stamps \cup {0} /\ lastOutput \in Stamps \cup {0}
        /\ transforms \subseteq Stamps /\ pc \in Statements
    BY DEF Statements
  <2>5. stopped \in BOOLEAN
    OBVIOUS
  <2>6. QED BY <2>1, <2>2, <2>3, <2>4, <2>5, Zenon DEF TypeOK
<1>2. InputConserved /\ WaitsAccounted
  BY DEF InputConserved, Uncounted, WaitsAccounted, Waiting, Counting,
         HeadWaiting, HandWaiting
<1>3. QueuePhase /\ QueueOrder /\ UsedOrder
  BY DEF QueuePhase, QueueOrder, Newest, UsedOrder
<1>4. FramePhase /\ OutputsCounted /\ WindowIsSuffix
  BY DEF FramePhase, OutputsCounted, WindowIsSuffix
<1>5. OutputConserved /\ WindowInv
  BY WindowAssumption DEF OutputConserved, Owed, Untaken, PartialFrames, WindowInv
<1>6. OutputOrder /\ BatchInv
  BY DEF OutputOrder, BatchInv
<1>7. JoinsLatest
  BY WindowAssumption DEF JoinsLatest
<1>8. QED
  BY <1>1, <1>2, <1>3, <1>4, <1>5, <1>6, <1>7 DEF CloudInv, QueueInv, FrameInv

-----------------------------------------------------------------------------
(* What a step that leaves the frames alone keeps of them.                 *)
LEMMA FramesKept ==
  ASSUME CloudInv, pc \in NoOutput, pc' \in NoOutput,
         UNCHANGED <<output, frames, outputCounts, emitEvery>>
  PROVE  FrameInv'
<1>1. /\ UNCHANGED <<lastOutput, delivered, outputs, window, ready, used,
                     processed, published, regressions, emitEvery>>
      /\ ready = <<>>
  BY DEF output, frames, outputCounts, CloudInv, FrameInv, FramePhase
<1>2. FramePhase' /\ OutputsCounted'
  BY <1>1 DEF CloudInv, FrameInv, FramePhase, OutputsCounted, NoOutput, LastOf
<1>3. OutputConserved'
  BY <1>1 DEF CloudInv, FrameInv, OutputConserved, Owed, Untaken, PartialFrames,
              NoOutput
<1>4. WindowInv' /\ OutputOrder'
  BY <1>1 DEF CloudInv, FrameInv, WindowInv, OutputOrder, NoOutput, LastOf
<1>5. WindowIsSuffix' /\ JoinsLatest'
  BY <1>1 DEF CloudInv, FrameInv, WindowIsSuffix, JoinsLatest
<1>6. BatchInv'
  BY <1>1 DEF CloudInv, FrameInv, BatchInv, NoOutput, LastOf
<1>7. QED BY <1>2, <1>3, <1>4, <1>5, <1>6 DEF FrameInv

(* What a step that leaves queue and used frames alone keeps of the order. *)
LEMMA OrderKept ==
  ASSUME CloudInv, UNCHANGED <<pending, largest, used>>,
         pc # "appended", pc' # "appended",
         pc \in {"joined", "added"} => pc' \in {"joined", "added"}
  PROVE  QueueOrder' /\ UsedOrder'
<1>1. Newest' = Newest
  BY DEF Newest
<1>2. QueueOrder'
  BY <1>1 DEF CloudInv, QueueInv, QueueOrder
<1>3. UsedOrder'
  BY DEF CloudInv, QueueInv, UsedOrder
<1>4. QED BY <1>2, <1>3

(* After the head the queue is empty, or its next cloud is the head.       *)
LEMMA AfterHeadFacts ==
  /\ AfterHead \in {"idle", "head"}
  /\ AfterHead = "head" => pending # <<>>
  BY DEF AfterHead

(* A cloud that arrives is counted as received and is in hand.             *)
LEMMA ArriveStep ==
  ASSUME CloudInv, NEW cloud \in Clouds, Arrive(cloud)
  PROVE  CloudInv'
<1> DEFINE e == [stamp |-> cloud.stamp, usable |-> cloud.usable, waited |-> FALSE]
<1>1. /\ pc = "idle" /\ pc' = "arrived" /\ hand' = <<e>>
      /\ received' = received + 1 /\ received < MaxReceived
      /\ UNCHANGED <<pending, largest, unrecoverable, overflow, futureWaited,
                     recovered, transforms, stopped>>
      /\ UNCHANGED <<output, frames, outputCounts, emitEvery>>
  BY DEF Arrive, At, waitCounts
<1>2. UNCHANGED <<lastOutput, delivered, outputs, window, ready, used, processed,
                  published, regressions>>
  BY <1>1 DEF output, frames, outputCounts
<1>3. TypeOK /\ QueueInv
  BY DEF CloudInv
<1>4. e \in Entries /\ ~e.waited
  BY DEF Clouds, Entries
<1> HIDE DEF e
<1>5. hand' \in Seq(Entries) /\ Len(hand') = 1 /\ hand' # <<>> /\ hand'[1] = e
  BY <1>1, <1>4
<1>6. TypeOK'
  <2>1. received' \in 0..MaxReceived
    BY <1>1, <1>3, QueueAssumption DEF TypeOK
  <2>2. pc' \in Statements /\ Len(hand') <= 1
    BY <1>1, <1>5 DEF Statements
  <2>3. QED BY <1>1, <1>2, <1>3, <1>5, <2>1, <2>2, Zenon DEF TypeOK
<1>7. FrameInv'
  BY <1>1, FramesKept DEF NoOutput
<1>8. QueueOrder' /\ UsedOrder'
  BY <1>1, <1>2, OrderKept
<1>9. QueuePhase'
  BY <1>1, <1>4, <1>5 DEF QueuePhase
<1>10. InputConserved'
  BY <1>1, <1>2, <1>3, CountTypes DEF QueueInv, InputConserved, Uncounted
<1>11. WaitsAccounted'
  <2>1. HandWaiting = 0 /\ HandWaiting' = 0 /\ HeadWaiting' = HeadWaiting
        /\ Counting = 0 /\ Counting' = 0
    BY <1>1, <1>3, <1>4, <1>5 DEF QueueInv, QueuePhase, HandWaiting, HeadWaiting,
                                  Head0, Counting
  <2>2. QED BY <1>1, <1>3, <2>1 DEF QueueInv, WaitsAccounted, Waiting
<1>12. QED
  BY <1>6, <1>7, <1>8, <1>9, <1>10, <1>11 DEF CloudInv, QueueInv

(* A refused cloud is counted as dropped, and leaves the hand.             *)
LEMMA RefuseStep ==
  ASSUME CloudInv, RefuseOldStamp \/ RefuseOverflow
  PROVE  CloudInv'
<1>1. /\ pc = "arrived" /\ pc' = "idle" /\ hand' = <<>>
      /\ UNCHANGED <<pending, largest, received, futureWaited, recovered,
                     transforms, stopped>>
      /\ UNCHANGED <<output, frames, outputCounts, emitEvery>>
      /\ \/ unrecoverable' = unrecoverable + 1 /\ overflow' = overflow
         \/ overflow' = overflow + 1 /\ unrecoverable' = unrecoverable
  BY DEF RefuseOldStamp, RefuseOverflow, At, waitCounts
<1>2. UNCHANGED <<lastOutput, delivered, outputs, window, ready, used, processed,
                  published, regressions>>
  BY <1>1 DEF output, frames, outputCounts
<1>3. TypeOK /\ QueueInv
  BY DEF CloudInv
<1>4. TypeOK'
  <2>1. unrecoverable' \in Nat /\ overflow' \in Nat
    BY <1>1, <1>3, CountTypes
  <2>2. pc' \in Statements /\ Len(hand') <= 1 /\ hand' \in Seq(Entries)
    BY <1>1 DEF Statements
  <2>3. QED BY <1>1, <1>2, <1>3, <2>1, <2>2, Zenon DEF TypeOK
<1>5. FrameInv'
  BY <1>1, FramesKept DEF NoOutput
<1>6. QueueOrder' /\ UsedOrder'
  BY <1>1, <1>2, OrderKept
<1>7. QueuePhase'
  BY <1>1 DEF QueuePhase
<1>8. InputConserved'
  <2>1. Uncounted = 1 /\ Uncounted' = 0
    BY <1>1 DEF Uncounted
  <2>2. PICK n : n = Len(pending) /\ n = Len(pending')
    BY <1>1
  <2>3. /\ n \in Nat /\ processed \in Nat /\ unrecoverable \in Nat
        /\ overflow \in Nat /\ received \in Nat
    BY <1>3, <2>2, CountTypes
  <2>4. processed + unrecoverable + overflow + n + 1 = received
    BY <1>3, <2>1, <2>2 DEF QueueInv, InputConserved
  <2>5. processed' + unrecoverable' + overflow' + n + 0 = received'
    BY <1>1, <1>2, <2>3, <2>4, SMTT(30)
  <2>6. QED BY <2>1, <2>2, <2>5 DEF InputConserved
<1>9. WaitsAccounted'
  <2>1. HandWaiting = 0 /\ HandWaiting' = 0 /\ HeadWaiting' = HeadWaiting
        /\ Counting = 0 /\ Counting' = 0
    BY <1>1, <1>3 DEF QueueInv, QueuePhase, HandWaiting, HeadWaiting, Head0,
                      Counting
  <2>2. \A i \in 2..Len(pending') : ~pending'[i].waited
    BY <1>1, <1>3 DEF QueueInv, WaitsAccounted
  <2>3. /\ recovered' + Waiting' <= futureWaited' + Counting'
        /\ futureWaited' + Counting' <= recovered' + Waiting' + unrecoverable'
    BY <1>1, <1>3, <2>1, CountTypes DEF QueueInv, WaitsAccounted, Waiting
  <2>4. QED BY <2>2, <2>3 DEF WaitsAccounted
<1>10. QED
  BY <1>4, <1>5, <1>6, <1>7, <1>8, <1>9 DEF CloudInv, QueueInv

(* Transforms, a shutdown and a stutter change no count and no frame.      *)
LEMMA QuietStep ==
  ASSUME CloudInv,
         transforms' \subseteq Stamps, stopped' \in BOOLEAN,
         UNCHANGED <<queue, output, frames, counts, pc, emitEvery>>
  PROVE  CloudInv'
<1>1. UNCHANGED <<pending, largest, hand, lastOutput, delivered, outputs, window,
                  ready, used, received, unrecoverable, overflow, futureWaited,
                  recovered, processed, published, regressions, pc, emitEvery>>
  BY DEF queue, output, frames, counts, inputCounts, waitCounts, outputCounts
<1>2. TypeOK'
  BY <1>1, Zenon DEF CloudInv, TypeOK
<1>3. InputConserved' /\ QueuePhase' /\ WaitsAccounted'
  BY <1>1 DEF CloudInv, QueueInv, InputConserved, Uncounted, QueuePhase,
              WaitsAccounted, Waiting, HeadWaiting, HandWaiting, Counting, Head0
<1>4. QueueOrder' /\ UsedOrder'
  BY <1>1 DEF CloudInv, QueueInv, QueueOrder, UsedOrder, Newest, LastOf
<1>5. FramePhase' /\ OutputsCounted' /\ WindowInv' /\ OutputOrder'
  BY <1>1 DEF CloudInv, FrameInv, FramePhase, OutputsCounted, WindowInv,
              OutputOrder, LastOf
<1>6. OutputConserved'
  BY <1>1 DEF CloudInv, FrameInv, OutputConserved, Owed, Untaken, PartialFrames
<1>7. WindowIsSuffix' /\ JoinsLatest' /\ BatchInv'
  BY <1>1 DEF CloudInv, FrameInv, WindowIsSuffix, JoinsLatest, BatchInv, LastOf
<1>8. QED
  BY <1>2, <1>3, <1>4, <1>5, <1>6, <1>7 DEF CloudInv, QueueInv, FrameInv

(* A queued cloud is the newest of all.                                    *)
LEMMA EnqueueStamps ==
  ASSUME CloudInv, Enqueue
  PROVE  CloudInv'
<1>a. PICK e : e = hand[1]
  OBVIOUS
<1>1. /\ pc = "arrived" /\ pc' = "appended" /\ hand' = <<>>
      /\ pending' = Append(pending, e)
      /\ largest = 0 \/ e.stamp > largest
      /\ Len(pending) < Capacity
      /\ UNCHANGED <<largest, received, unrecoverable, overflow, futureWaited,
                     recovered, transforms, stopped>>
      /\ UNCHANGED <<output, frames, outputCounts, emitEvery>>
  BY <1>a DEF Enqueue, At, IsNewer, counts, inputCounts, waitCounts
<1>2. UNCHANGED <<lastOutput, delivered, outputs, window, ready, used, processed,
                  published, regressions>>
  BY <1>1 DEF output, frames, outputCounts
<1>3. TypeOK /\ QueueInv /\ Newest = largest
  BY <1>1 DEF CloudInv, Newest
<1>4. e \in Entries /\ ~e.waited /\ e.stamp \in Stamps /\ e.stamp \in Nat \ {0}
  <2>1. hand \in Seq(Entries) /\ hand # <<>> /\ ~hand[1].waited
    BY <1>1, <1>3 DEF TypeOK, QueueInv, QueuePhase
  <2>2. QED BY <2>1, <1>a, HeadFacts
<1>5. /\ pending \in Seq(Entries) /\ Len(pending) \in Nat
      /\ pending' \in Seq(Entries) /\ Len(pending') = Len(pending) + 1
      /\ \A i \in 1..Len(pending) : pending'[i] = pending[i]
      /\ pending'[Len(pending) + 1] = e /\ pending' # <<>>
  <2>1. pending \in Seq(Entries)
    BY <1>3 DEF TypeOK
  <2>2. QED BY <1>1, <1>4, <2>1
<1>6. TypeOK'
  <2>1. Len(pending') <= Capacity
    BY <1>1, <1>5, QueueAssumption
  <2>2. pc' \in Statements /\ hand' \in Seq(Entries) /\ Len(hand') <= 1
    BY <1>1 DEF Statements
  <2>3. QED BY <1>1, <1>2, <1>3, <1>5, <2>1, <2>2, Zenon DEF TypeOK
<1>7. FrameInv'
  BY <1>1, FramesKept DEF NoOutput
<1>8. QueuePhase'
  BY <1>1, <1>5 DEF QueuePhase
<1>9. InputConserved'
  <2>1. Uncounted = 1 /\ Uncounted' = 0
    BY <1>1 DEF Uncounted
  <2>2. PICK n : n = Len(pending)
    OBVIOUS
  <2>3. processed + unrecoverable + overflow + n + 1 = received /\ n \in Nat
    BY <1>3, <1>5, <2>1, <2>2 DEF QueueInv, InputConserved
  <2>a. /\ processed \in Nat /\ unrecoverable \in Nat
        /\ overflow \in Nat /\ received \in Nat
    BY <1>3, CountTypes
  <2>4. processed + unrecoverable + overflow + (n + 1) + 0 = received
    BY <2>a, <2>3, SMTT(30)
  <2>5. QED BY <1>1, <1>2, <1>5, <2>1, <2>2, <2>4 DEF InputConserved
<1>10. Newest' = e.stamp
  BY <1>1, <1>5 DEF Newest, LastOf
<1>11. /\ \A i \in 1..Len(pending) :
            pending[i].stamp \in Nat /\ pending[i].stamp < e.stamp
       /\ \A j \in 1..Len(used) : used[j] \in Nat /\ used[j] < e.stamp
  <2>1. /\ \A i \in 1..Len(pending) : pending[i].stamp \in Nat
        /\ \A j \in 1..Len(used) : used[j] \in Nat
        /\ largest \in Nat
    BY <1>3, StampTypes
  <2>2. /\ \A i \in 1..Len(pending) : pending[i].stamp <= largest
        /\ \A j \in 1..Len(used) : used[j] <= largest
    BY <1>1, <1>3 DEF QueueInv, QueueOrder
  <2>3. largest = 0 \/ largest < e.stamp
    BY <1>1, <1>4, <2>1
  <2>4. \A n \in Nat : n <= largest => n < e.stamp
    BY <1>4, <2>1, <2>3
  <2>5. QED BY <2>1, <2>2, <2>4
<1>12. QueueOrder'
  <2>1. \A i, j \in 1..Len(pending') :
           i < j => pending'[i].stamp < pending'[j].stamp
    <3>1. TAKE i, j \in 1..Len(pending')
    <3>2. HAVE i < j
    <3>3. i \in 1..Len(pending)
      BY <1>5, <3>2
    <3>4. CASE j \in 1..Len(pending)
      BY <1>3, <1>5, <3>2, <3>3, <3>4 DEF QueueInv, QueueOrder
    <3>5. CASE j = Len(pending) + 1
      BY <1>4, <1>5, <1>11, <3>3, <3>5
    <3>6. QED BY <1>5, <3>4, <3>5
  <2>2. \A i \in 1..Len(pending') : pending'[i].stamp <= Newest'
    BY <1>4, <1>5, <1>10, <1>11
  <2>3. \A j \in 1..Len(used') : used'[j] <= Newest'
    BY <1>2, <1>4, <1>10, <1>11
  <2>4. QED BY <1>4, <1>10, <2>1, <2>2, <2>3 DEF QueueOrder
<1>13. UsedOrder'
  <2>1. \A i \in 1..Len(pending'), j \in 1..Len(used') :
           used'[j] < pending'[i].stamp
    <3>1. TAKE i \in 1..Len(pending'), j \in 1..Len(used')
    <3>2. CASE i \in 1..Len(pending)
      BY <1>1, <1>2, <1>3, <1>5, <3>2 DEF QueueInv, UsedOrder
    <3>3. CASE i = Len(pending) + 1
      BY <1>2, <1>4, <1>5, <1>11, <3>3
    <3>4. QED BY <1>5, <3>2, <3>3
  <2>2. QED BY <1>2, <1>3, <2>1 DEF QueueInv, UsedOrder
<1>14. WaitsAccounted'
  <2>1. HeadWaiting' = HeadWaiting
    BY <1>1, <1>4, <1>5 DEF HeadWaiting, Head0
  <2>2. HandWaiting = 0 /\ HandWaiting' = 0 /\ Counting = 0 /\ Counting' = 0
    BY <1>1, <1>4, <1>a DEF HandWaiting, Counting
  <2>3. \A i \in 2..Len(pending') : ~pending'[i].waited
    <3>1. TAKE i \in 2..Len(pending')
    <3>2. CASE i \in 1..Len(pending)
      BY <1>3, <1>5, <3>2 DEF QueueInv, WaitsAccounted
    <3>3. CASE i = Len(pending) + 1
      BY <1>4, <1>5, <3>3
    <3>4. QED BY <1>5, <3>2, <3>3
  <2>4. QED BY <1>1, <1>3, <2>1, <2>2, <2>3 DEF QueueInv, WaitsAccounted, Waiting
<1>15. QED
  BY <1>6, <1>7, <1>8, <1>9, <1>12, <1>13, <1>14 DEF CloudInv, QueueInv

(* The stamp of the appended cloud becomes the largest one.                *)
LEMMA NoteStampStep ==
  ASSUME CloudInv, NoteStamp
  PROVE  CloudInv'
<1>1. /\ pc = "appended" /\ pc' = "idle" /\ largest' = LastOf(pending).stamp
      /\ UNCHANGED <<pending, hand, received, unrecoverable, overflow,
                     futureWaited, recovered, transforms, stopped>>
      /\ UNCHANGED <<output, frames, outputCounts, emitEvery>>
  BY DEF NoteStamp, At, counts, inputCounts, waitCounts
<1>2. UNCHANGED <<lastOutput, delivered, outputs, window, ready, used, processed,
                  published, regressions>>
  BY <1>1 DEF output, frames, outputCounts
<1>3. TypeOK /\ QueueInv
  BY DEF CloudInv
<1>4. largest' \in Stamps
  <2>1. pending \in Seq(Entries) /\ pending # <<>>
    BY <1>1, <1>3 DEF TypeOK, QueueInv, QueuePhase
  <2>2. Len(pending) \in 1..Len(pending)
    BY <2>1
  <2>3. pending[Len(pending)] \in Entries
    BY <2>1, <2>2
  <2>4. QED BY <1>1, <2>3 DEF Entries, LastOf
<1>5. TypeOK'
  <2>1. pc' \in Statements /\ largest' \in Stamps \cup {0}
    BY <1>1, <1>4 DEF Statements
  <2>2. QED BY <1>1, <1>2, <1>3, <2>1, Zenon DEF TypeOK
<1>6. FrameInv'
  BY <1>1, FramesKept DEF NoOutput
<1>7. QueueOrder' /\ UsedOrder'
  <2>1. Newest' = Newest
    BY <1>1 DEF Newest
  <2>2. QueueOrder'
    BY <1>1, <1>2, <1>3, <2>1 DEF QueueInv, QueueOrder
  <2>3. UsedOrder'
    BY <1>1, <1>2, <1>3 DEF QueueInv, UsedOrder
  <2>4. QED BY <2>2, <2>3
<1>8. QueuePhase' /\ InputConserved' /\ WaitsAccounted'
  BY <1>1, <1>2, <1>3 DEF QueueInv, QueuePhase, InputConserved, Uncounted,
     WaitsAccounted, Waiting, HeadWaiting, HandWaiting, Counting, Head0
<1>9. QED BY <1>5, <1>6, <1>7, <1>8 DEF CloudInv, QueueInv

(* A retry starts at the head of a queue that is not empty, and returns    *)
(* from a head that waited before.                                         *)
LEMMA StartStep ==
  ASSUME CloudInv, StartRetry \/ HeadStillWaits
  PROVE  CloudInv'
<1>1. /\ \/ pc = "idle" /\ pc' = "head" /\ pending # <<>>
         \/ pc = "head" /\ pc' = "idle"
      /\ UNCHANGED <<pending, largest, hand, received, unrecoverable, overflow,
                     futureWaited, recovered, transforms, stopped>>
      /\ UNCHANGED <<output, frames, outputCounts, emitEvery>>
  BY DEF StartRetry, HeadStillWaits, At, queue, counts, inputCounts, waitCounts
<1>2. UNCHANGED <<lastOutput, delivered, outputs, window, ready, used, processed,
                  published, regressions>>
  BY <1>1 DEF output, frames, outputCounts
<1>3. TypeOK /\ QueueInv
  BY DEF CloudInv
<1>4. TypeOK'
  <2>1. pc' \in Statements
    BY <1>1 DEF Statements
  <2>2. QED BY <1>1, <1>2, <1>3, <2>1, Zenon DEF TypeOK
<1>5. FrameInv'
  BY <1>1, FramesKept DEF NoOutput
<1>6. QueueOrder' /\ UsedOrder'
  BY <1>1, <1>2, OrderKept
<1>7. QueuePhase' /\ InputConserved' /\ WaitsAccounted'
  BY <1>1, <1>2, <1>3 DEF QueueInv, QueuePhase, InputConserved, Uncounted,
     WaitsAccounted, Waiting, HeadWaiting, HandWaiting, Counting, Head0
<1>8. QED BY <1>4, <1>5, <1>6, <1>7 DEF CloudInv, QueueInv

(* A head that waits for the first time is marked; nothing moves.          *)
LEMMA WaitStep ==
  ASSUME CloudInv, HeadWaits
  PROVE  CloudInv'
<1>1. /\ pc = "head" /\ pc' = "waiting" /\ ~pending[1].waited
      /\ pending' = [pending EXCEPT ![1].waited = TRUE]
      /\ UNCHANGED <<largest, hand, received, unrecoverable, overflow,
                     futureWaited, recovered, transforms, stopped>>
      /\ UNCHANGED <<output, frames, outputCounts, emitEvery>>
  BY DEF HeadWaits, At, Head0, counts, inputCounts, waitCounts
<1>2. UNCHANGED <<lastOutput, delivered, outputs, window, ready, used, processed,
                  published, regressions>>
  BY <1>1 DEF output, frames, outputCounts
<1>3. TypeOK /\ QueueInv
  BY DEF CloudInv
<1>4. /\ pending \in Seq(Entries) /\ pending # <<>> /\ Len(pending) \in Nat \ {0}
      /\ pending[1] \in Entries
  BY <1>1, <1>3, HeadFacts DEF TypeOK, QueueInv, QueuePhase
<1>5. /\ pending' \in Seq(Entries) /\ Len(pending') = Len(pending)
      /\ pending' # <<>>
      /\ \A i \in 2..Len(pending) : pending'[i] = pending[i]
      /\ pending'[1] = [pending[1] EXCEPT !.waited = TRUE]
  <2> DEFINE e == [pending[1] EXCEPT !.waited = TRUE]
  <2>1. pending' = [pending EXCEPT ![1] = e]
    BY <1>1
  <2>2. e \in Entries
    BY <1>4 DEF Entries
  <2> HIDE DEF e
  <2>3. /\ pending' \in Seq(Entries) /\ Len(pending') = Len(pending)
        /\ \A i \in 1..Len(pending) :
             pending'[i] = IF i = 1 THEN e ELSE pending[i]
    BY <1>4, <2>1, <2>2, ExceptSeq
  <2>4. 1 \in 1..Len(pending) /\ \A i \in 2..Len(pending) : i # 1
    BY <1>4
  <2>5. pending' # <<>>
    BY <1>4, <2>3
  <2>6. pending'[1] = e /\ \A i \in 2..Len(pending) : pending'[i] = pending[i]
    BY <1>4, <2>3, <2>4
  <2>7. QED BY <2>3, <2>5, <2>6 DEF e
<1>6. /\ pending'[1].waited
      /\ \A i \in 1..Len(pending) : pending'[i].stamp = pending[i].stamp
  <2>1. pending'[1].waited /\ pending'[1].stamp = pending[1].stamp
    BY <1>4, <1>5 DEF Entries
  <2>2. \A i \in 1..Len(pending) : i = 1 \/ i \in 2..Len(pending)
    BY <1>4
  <2>3. QED BY <1>5, <2>1, <2>2
<1>7. TypeOK'
  <2>1. Len(pending') <= Capacity
    BY <1>3, <1>5 DEF TypeOK
  <2>2. pc' \in Statements
    BY <1>1 DEF Statements
  <2>3. QED BY <1>1, <1>2, <1>3, <1>5, <2>1, <2>2, Zenon DEF TypeOK
<1>8. FrameInv'
  BY <1>1, FramesKept DEF NoOutput
<1>9. QueuePhase' /\ InputConserved'
  BY <1>1, <1>2, <1>3, <1>5 DEF QueueInv, QueuePhase, InputConserved, Uncounted
<1>10. QueueOrder' /\ UsedOrder'
  <2>1. Newest' = Newest
    BY <1>1 DEF Newest
  <2>2. QueueOrder'
    BY <1>1, <1>2, <1>3, <1>4, <1>5, <1>6, <2>1 DEF QueueInv, QueueOrder
  <2>3. UsedOrder'
    BY <1>1, <1>2, <1>3, <1>5, <1>6 DEF QueueInv, UsedOrder
  <2>4. QED BY <2>2, <2>3
<1>11. WaitsAccounted'
  <2>1. HeadWaiting = 0 /\ HeadWaiting' = 1 /\ Counting = 0 /\ Counting' = 1
    BY <1>1, <1>4, <1>5, <1>6 DEF HeadWaiting, Head0, Counting
  <2>2. HandWaiting' = HandWaiting
    BY <1>1 DEF HandWaiting
  <2>3. \A i \in 2..Len(pending') : ~pending'[i].waited
    BY <1>3, <1>5 DEF QueueInv, WaitsAccounted
  <2>4. /\ recovered' + Waiting' <= futureWaited' + Counting'
        /\ futureWaited' + Counting' <= recovered' + Waiting' + unrecoverable'
    <3>1. /\ recovered \in Nat /\ futureWaited \in Nat /\ unrecoverable \in Nat
          /\ HandWaiting \in {0, 1}
      BY <1>3, CountTypes
    <3>2. Waiting = 0 + HandWaiting /\ Waiting' = 1 + HandWaiting
      BY <2>1, <2>2 DEF Waiting
    <3>3. /\ recovered + (0 + HandWaiting) <= futureWaited + 0
          /\ futureWaited + 0 <= recovered + (0 + HandWaiting) + unrecoverable
      BY <1>3, <2>1, <3>2 DEF QueueInv, WaitsAccounted
    <3>4. /\ recovered + (1 + HandWaiting) <= futureWaited + 1
          /\ futureWaited + 1 <= recovered + (1 + HandWaiting) + unrecoverable
      BY <3>1, <3>3, SMTT(30)
    <3>5. QED BY <1>1, <2>1, <3>2, <3>4
  <2>5. QED BY <2>3, <2>4 DEF WaitsAccounted
<1>12. QED
  BY <1>7, <1>8, <1>9, <1>10, <1>11 DEF CloudInv, QueueInv

(* The marked wait is counted.                                             *)
LEMMA CountWaitStep ==
  ASSUME CloudInv, CountWait
  PROVE  CloudInv'
<1>1. /\ pc = "waiting" /\ pc' = "idle" /\ futureWaited' = futureWaited + 1
      /\ UNCHANGED <<pending, largest, hand, received, unrecoverable, overflow,
                     recovered, transforms, stopped>>
      /\ UNCHANGED <<output, frames, outputCounts, emitEvery>>
  BY DEF CountWait, At, queue, inputCounts
<1>2. UNCHANGED <<lastOutput, delivered, outputs, window, ready, used, processed,
                  published, regressions>>
  BY <1>1 DEF output, frames, outputCounts
<1>3. TypeOK /\ QueueInv
  BY DEF CloudInv
<1>4. TypeOK'
  <2>1. pc' \in Statements /\ futureWaited' \in Nat
    BY <1>1, <1>3, CountTypes DEF Statements
  <2>2. QED BY <1>1, <1>2, <1>3, <2>1, Zenon DEF TypeOK
<1>5. FrameInv'
  BY <1>1, FramesKept DEF NoOutput
<1>6. QueueOrder' /\ UsedOrder'
  BY <1>1, <1>2, OrderKept
<1>7. QueuePhase' /\ InputConserved'
  BY <1>1, <1>2, <1>3 DEF QueueInv, QueuePhase, InputConserved, Uncounted
<1>8. WaitsAccounted'
  <2>1. Counting = 1 /\ Counting' = 0 /\ Waiting' = Waiting
    BY <1>1 DEF Counting, Waiting, HeadWaiting, HandWaiting, Head0
  <2>2. futureWaited' + Counting' = futureWaited + Counting
    BY <1>1, <1>3, <2>1, CountTypes
  <2>3. QED BY <1>1, <1>3, <2>1, <2>2 DEF QueueInv, WaitsAccounted
<1>9. QED BY <1>4, <1>5, <1>6, <1>7, <1>8 DEF CloudInv, QueueInv

(* What popping the head into the hand does to the queue.                  *)
LEMMA PopFacts ==
  ASSUME TypeOK, QueueOrder, UsedOrder, WaitsAccounted, InputConserved,
         pending # <<>>, hand = <<>>, pc \notin {"appended", "waiting"},
         Uncounted = 0,
         pending' = Tail(pending), hand' = <<Head0>>,
         pc' \in {"lost", "popped"},
         UNCHANGED <<largest, used, received, unrecoverable, overflow,
                     futureWaited, recovered, processed>>
  PROVE  /\ pending' \in Seq(Entries) /\ Len(pending') <= Capacity
         /\ hand' \in Seq(Entries) /\ Len(hand') <= 1 /\ hand' # <<>>
         /\ QueuePhase' /\ InputConserved' /\ QueueOrder' /\ WaitsAccounted'
         /\ UsedOrder'
<1>1. pending \in Seq(Entries) /\ used \in Seq(Stamps)
  BY DEF TypeOK
<1>2. /\ pending' \in Seq(Entries) /\ Len(pending) \in Nat \ {0}
      /\ Len(pending') = Len(pending) - 1 /\ Len(pending') \in Nat
      /\ \A i \in 1..Len(pending') : pending'[i] = pending[i + 1]
      /\ Head0 \in Entries
  BY <1>1, HeadFacts DEF Head0
<1>3. \A i \in 1..Len(pending') : i + 1 \in 2..Len(pending) /\ i + 1 # 1
  BY <1>2
<1>4. hand' \in Seq(Entries) /\ Len(hand') = 1 /\ hand' # <<>> /\ hand'[1] = Head0
  BY <1>2
<1>5. Len(pending') <= Capacity
  BY <1>2, QueueAssumption DEF TypeOK
<1>6. \A i \in 1..Len(pending') : ~pending'[i].waited
  BY <1>2, <1>3 DEF WaitsAccounted
<1>7. QueuePhase'
  BY <1>4 DEF QueuePhase
<1>8. InputConserved'
  <2>1. PICK n : n = Len(pending)
    OBVIOUS
  <2>2. n \in Nat \ {0} /\ Len(pending') = n - 1 /\ Uncounted' = 1
    BY <1>2, <2>1 DEF Uncounted
  <2>3. processed + unrecoverable + overflow + n + 0 = received
    BY <2>1 DEF InputConserved
  <2>4. processed + unrecoverable + overflow + (n - 1) + 1 = received
    BY <2>2, <2>3, CountTypes
  <2>5. QED BY <2>2, <2>4 DEF InputConserved
<1>9. QueueOrder'
  <2>1. \A i, j \in 1..Len(pending') :
          i < j => pending'[i].stamp < pending'[j].stamp
    <3>1. TAKE i, j \in 1..Len(pending')
    <3>2. HAVE i < j
    <3>3. i + 1 < j + 1 /\ i + 1 \in 1..Len(pending) /\ j + 1 \in 1..Len(pending)
      BY <1>2, <3>2
    <3>4. QED BY <1>2, <3>3 DEF QueueOrder
  <2>2. Newest' = Newest /\ Newest # 0
    BY DEF Newest, QueueOrder
  <2>3. \A i \in 1..Len(pending') : pending'[i].stamp <= Newest
    BY <1>2, <1>3 DEF QueueOrder
  <2>4. \A j \in 1..Len(used) : used[j] <= Newest
    BY DEF QueueOrder
  <2>5. QED BY <2>1, <2>2, <2>3, <2>4 DEF QueueOrder
<1>10. UsedOrder'
  <2>1. \A i \in 1..Len(pending'), j \in 1..Len(used') :
          used'[j] < pending'[i].stamp
    <3>1. TAKE i \in 1..Len(pending'), j \in 1..Len(used')
    <3>2. i + 1 \in 1..Len(pending) /\ i + 1 # 1 /\ pending'[i] = pending[i + 1]
      BY <1>2, <1>3
    <3>3. QED BY <3>2 DEF UsedOrder
  <2>2. QED BY <2>1 DEF UsedOrder
<1>11. WaitsAccounted'
  <2>1. HeadWaiting' = 0
    <3>1. pending' # <<>> => 1 \in 1..Len(pending')
      BY <1>2
    <3>2. QED BY <1>6, <3>1 DEF HeadWaiting, Head0
  <2>2. HandWaiting = 0 /\ HandWaiting' = HeadWaiting
    BY <1>4 DEF HandWaiting, HeadWaiting
  <2>3. Counting = 0 /\ Counting' = 0
    BY DEF Counting
  <2>4. Waiting' = Waiting
    BY <2>1, <2>2, CountTypes DEF Waiting
  <2>5. QED BY <1>6, <2>3, <2>4 DEF WaitsAccounted
<1>12. QED BY <1>2, <1>4, <1>5, <1>7, <1>8, <1>9, <1>10, <1>11

(* A lost head leaves the queue; nothing was used.                         *)
LEMMA LostStep ==
  ASSUME CloudInv, HeadLost
  PROVE  CloudInv'
<1>1. /\ pc = "head" /\ pc' = "lost" /\ pending' = Tail(pending)
      /\ hand' = <<Head0>>
      /\ UNCHANGED <<largest, received, unrecoverable, overflow, futureWaited,
                     recovered, transforms, stopped>>
      /\ UNCHANGED <<output, frames, outputCounts, emitEvery>>
  BY DEF HeadLost, At, counts, inputCounts, waitCounts
<1>2. UNCHANGED <<lastOutput, delivered, outputs, window, ready, used, processed,
                  published, regressions>>
  BY <1>1 DEF output, frames, outputCounts
<1>3. TypeOK /\ QueueInv /\ pending # <<>> /\ hand = <<>> /\ Uncounted = 0
  BY <1>1 DEF CloudInv, QueueInv, QueuePhase, Uncounted
<1>4. /\ pending' \in Seq(Entries) /\ Len(pending') <= Capacity
      /\ hand' \in Seq(Entries) /\ Len(hand') <= 1 /\ hand' # <<>>
      /\ QueuePhase' /\ InputConserved' /\ QueueOrder' /\ WaitsAccounted'
      /\ UsedOrder'
  BY <1>1, <1>2, <1>3, PopFacts DEF QueueInv
<1>5. TypeOK'
  <2>1. pc' \in Statements
    BY <1>1 DEF Statements
  <2>2. QED BY <1>1, <1>2, <1>3, <1>4, <2>1, Zenon DEF TypeOK
<1>6. FrameInv'
  BY <1>1, FramesKept DEF NoOutput
<1>7. QED BY <1>4, <1>5, <1>6 DEF CloudInv, QueueInv

(* It is counted, and a wait of it has ended in a loss.                    *)
LEMMA CountLostStep ==
  ASSUME CloudInv, CountLost
  PROVE  CloudInv'
<1>1. /\ pc = "lost" /\ pc' = AfterHead /\ hand' = <<>>
      /\ unrecoverable' = unrecoverable + 1
      /\ UNCHANGED <<pending, largest, received, overflow, futureWaited,
                     recovered, transforms, stopped>>
      /\ UNCHANGED <<output, frames, outputCounts, emitEvery>>
  BY DEF CountLost, At, waitCounts
<1>2. UNCHANGED <<lastOutput, delivered, outputs, window, ready, used, processed,
                  published, regressions>>
  BY <1>1 DEF output, frames, outputCounts
<1>3. TypeOK /\ QueueInv
  BY DEF CloudInv
<1>4. pc' \in {"idle", "head"} /\ (pc' = "head" => pending # <<>>)
  BY <1>1, AfterHeadFacts
<1>5. TypeOK'
  <2>1. unrecoverable' \in Nat
    BY <1>1, <1>3, CountTypes
  <2>2. pc' \in Statements /\ Len(hand') <= 1 /\ hand' \in Seq(Entries)
    BY <1>1, <1>4 DEF Statements
  <2>3. QED BY <1>1, <1>2, <1>3, <2>1, <2>2, Zenon DEF TypeOK
<1>6. FrameInv'
  BY <1>1, <1>4, FramesKept DEF NoOutput
<1>7. QueueOrder' /\ UsedOrder'
  BY <1>1, <1>2, <1>4, OrderKept
<1>8. QueuePhase'
  BY <1>1, <1>4 DEF QueuePhase
<1>9. InputConserved'
  <2>1. Uncounted = 1 /\ Uncounted' = 0
    BY <1>1, <1>4 DEF Uncounted
  <2>2. PICK n : n = Len(pending) /\ n = Len(pending')
    BY <1>1
  <2>3. /\ n \in Nat /\ processed \in Nat /\ unrecoverable \in Nat
        /\ overflow \in Nat /\ received \in Nat
    BY <1>3, <2>2, CountTypes
  <2>4. processed + unrecoverable + overflow + n + 1 = received
    BY <1>3, <2>1, <2>2 DEF QueueInv, InputConserved
  <2>5. processed' + unrecoverable' + overflow' + n + 0 = received'
    BY <1>1, <1>2, <2>3, <2>4, SMTT(30)
  <2>6. QED BY <2>1, <2>2, <2>5 DEF InputConserved
<1>10. WaitsAccounted'
  <2>1. /\ HandWaiting' = 0 /\ HeadWaiting' = HeadWaiting
        /\ Counting = 0 /\ Counting' = 0
    BY <1>1, <1>4 DEF HandWaiting, HeadWaiting, Head0, Counting
  <2>2. \A i \in 2..Len(pending') : ~pending'[i].waited
    BY <1>1, <1>3 DEF QueueInv, WaitsAccounted
  <2>3. PICK h, d, r, f, u :
          /\ h = HeadWaiting /\ d = HandWaiting /\ r = recovered
          /\ f = futureWaited /\ u = unrecoverable
    OBVIOUS
  <2>4. h \in {0, 1} /\ d \in {0, 1} /\ r \in Nat /\ f \in Nat /\ u \in Nat
    BY <1>3, <2>3, CountTypes
  <2>5. r + (h + d) <= f + 0 /\ f + 0 <= r + (h + d) + u
    BY <1>3, <2>1, <2>3 DEF QueueInv, WaitsAccounted, Waiting
  <2>6. r + (h + 0) <= f + 0 /\ f + 0 <= r + (h + 0) + (u + 1)
    BY <2>4, <2>5
  <2>7. /\ recovered' + Waiting' <= futureWaited' + Counting'
        /\ futureWaited' + Counting' <= recovered' + Waiting' + unrecoverable'
    BY <1>1, <2>1, <2>3, <2>6 DEF Waiting
  <2>8. QED BY <2>2, <2>7 DEF WaitsAccounted
<1>11. QED
  BY <1>5, <1>6, <1>7, <1>8, <1>9, <1>10 DEF CloudInv, QueueInv

(* The new frame: the window's latest stamps and the added one.            *)
LEMMA SlideFacts ==
  ASSUME TypeOK, WindowIsSuffix, NEW stamp \in Stamps,
         used' = Append(used, stamp)
  PROVE  LET frame == Slide(stamp) IN
         /\ frame \in Seq(Stamps) /\ Len(frame) \in Nat \ {0}
         /\ Len(frame) <= FrameLimit /\ Len(frame) <= Len(used')
         /\ Len(window) < FrameLimit => Len(frame) = Len(window) + 1
         /\ frame # <<>> /\ LastOf(frame) = stamp
         /\ \A i \in 1..Len(frame) : frame[i] = used'[Len(used') - Len(frame) + i]
         /\ \A i \in 1..Len(frame) :
              frame[i] = stamp \/ \E j \in 1..Len(window) : frame[i] = window[j]
<1>a. PICK old : old = IF Len(window) < FrameLimit THEN window ELSE Tail(window)
  OBVIOUS
<1>b. PICK d : d = IF Len(window) < FrameLimit THEN 0 ELSE 1
  OBVIOUS
<1> DEFINE frame == Append(old, stamp)
<1>1. /\ window \in Seq(Stamps) /\ used \in Seq(Stamps)
      /\ Len(window) \in Nat /\ Len(used) \in Nat
      /\ Len(window) <= FrameLimit /\ FrameLimit \in Nat \ {0}
  BY StampTypes, WindowAssumption DEF TypeOK
<1>2. /\ old \in Seq(Stamps) /\ Len(old) \in Nat /\ d \in {0, 1}
      /\ Len(old) < FrameLimit /\ Len(old) = Len(window) - d
      /\ Len(window) < FrameLimit => Len(old) = Len(window)
      /\ \A i \in 1..Len(old) : i + d \in 1..Len(window) /\ old[i] = window[i + d]
  <2>1. CASE Len(window) < FrameLimit
    BY <1>1, <1>a, <1>b, <2>1
  <2>2. CASE ~(Len(window) < FrameLimit)
    <3>1. old = Tail(window) /\ window # <<>>
      BY <1>1, <1>a, <2>2
    <3>2. /\ Tail(window) \in Seq(Stamps) /\ Len(Tail(window)) = Len(window) - 1
          /\ \A i \in 1..Len(Tail(window)) : Tail(window)[i] = window[i + 1]
      BY <1>1, <3>1
    <3>3. d = 1
      BY <1>b, <2>2
    <3>4. Len(old) \in Nat /\ Len(old) < FrameLimit /\ Len(old) = Len(window) - d
      BY <1>1, <3>1, <3>2, <3>3
    <3>5. \A i \in 1..Len(old) : i + d \in 1..Len(window) /\ old[i] = window[i + d]
      BY <1>1, <3>1, <3>2, <3>3, <3>4
    <3>6. QED BY <2>2, <3>1, <3>2, <3>3, <3>4, <3>5
  <2>3. QED BY <2>1, <2>2
<1>3. /\ frame \in Seq(Stamps) /\ Len(frame) = Len(old) + 1
      /\ \A i \in 1..Len(old) : frame[i] = old[i]
      /\ frame[Len(old) + 1] = stamp
  BY <1>2
<1>4. /\ Len(used') = Len(used) + 1 /\ used'[Len(used) + 1] = stamp
      /\ \A i \in 1..Len(used) : used'[i] = used[i]
  BY <1>1
<1> HIDE DEF frame
<1>5. /\ Len(window) <= Len(used)
      /\ \A i \in 1..Len(window) : window[i] = used[Len(used) - Len(window) + i]
  BY DEF WindowIsSuffix
<1>6. \A i \in 1..Len(frame) : frame[i] = used'[Len(used') - Len(frame) + i]
  <2>1. TAKE i \in 1..Len(frame)
  <2>2. CASE i = Len(old) + 1
    BY <1>1, <1>2, <1>3, <1>4, <2>2
  <2>3. CASE i \in 1..Len(old)
    <3>1. frame[i] = window[i + d] /\ i + d \in 1..Len(window)
      BY <1>2, <1>3, <2>3
    <3>2. window[i + d] = used[Len(used) - Len(window) + (i + d)]
      BY <1>5, <3>1
    <3>3. /\ Len(used) - Len(window) + (i + d) \in 1..Len(used)
          /\ Len(used) - Len(window) + (i + d) = Len(used') - Len(frame) + i
      <4>1. /\ Len(used) \in Nat /\ Len(window) \in Nat /\ d \in {0, 1}
            /\ Len(used') = Len(used) + 1 /\ Len(frame) = Len(window) - d + 1
            /\ Len(window) <= Len(used) /\ i \in Nat
        BY <1>1, <1>2, <1>3, <1>4, <1>5, <2>3
      <4>2. QED BY <3>1, <4>1
    <3>4. QED BY <1>4, <3>1, <3>2, <3>3
  <2>4. i = Len(old) + 1 \/ i \in 1..Len(old)
    BY <1>2, <1>3
  <2>5. QED BY <2>2, <2>3, <2>4
<1>7. \A i \in 1..Len(frame) :
        frame[i] = stamp \/ \E j \in 1..Len(window) : frame[i] = window[j]
  <2>1. TAKE i \in 1..Len(frame)
  <2>2. CASE i = Len(old) + 1
    BY <1>3, <2>2
  <2>3. CASE i \in 1..Len(old)
    BY <1>2, <1>3, <2>3
  <2>4. QED BY <1>2, <1>3, <2>2, <2>3
<1>8. /\ Len(frame) \in Nat \ {0} /\ Len(frame) <= FrameLimit
      /\ Len(frame) <= Len(used') /\ LastOf(frame) = stamp
      /\ Len(window) < FrameLimit => Len(frame) = Len(window) + 1
  <2>1. /\ Len(frame) \in Nat \ {0} /\ Len(frame) <= FrameLimit
        /\ Len(window) < FrameLimit => Len(frame) = Len(window) + 1
    BY <1>1, <1>2, <1>3
  <2>2. Len(frame) <= Len(used')
    BY <1>1, <1>2, <1>3, <1>4, <1>5
  <2>3. LastOf(frame) = stamp
    BY <1>3 DEF LastOf
  <2>4. QED BY <2>1, <2>2, <2>3
<1>9. frame # <<>>
  BY <1>3, <1>8
<1>10. Slide(stamp) = frame
  BY <1>a DEF Slide, frame
<1>11. QED BY <1>3, <1>6, <1>7, <1>8, <1>9, <1>10

(* The added head becomes the last used stamp, in the window and perhaps   *)
(* in an output.                                                           *)
LEMMA AddedStep ==
  ASSUME CloudInv, HeadAdded
  PROVE  CloudInv'
<1>a. PICK h : h = pending[1].stamp
  OBVIOUS
<1>b. PICK frame : frame = Slide(h)
  OBVIOUS
<1>1. /\ pc = "head" /\ window' = frame
      /\ ready' = IF Emits(frame) THEN frame ELSE <<>>
      /\ pc' = IF Emits(frame) /\ emitEvery > 1 THEN "joined" ELSE "added"
      /\ used' = Append(used, h)
      /\ UNCHANGED <<pending, largest, hand, lastOutput, delivered, outputs,
                     received, unrecoverable, overflow, futureWaited, recovered,
                     processed, published, regressions, transforms, stopped,
                     emitEvery>>
  BY <1>a, <1>b DEF HeadAdded, At, Head0, queue, output, counts, inputCounts,
                    waitCounts, outputCounts
<1>2. TypeOK /\ QueueInv /\ FrameInv
  BY DEF CloudInv
<1>3. /\ ready = <<>> /\ pending # <<>> /\ pending \in Seq(Entries)
      /\ Len(pending) \in Nat \ {0} /\ h \in Stamps /\ h \in Nat \ {0}
      /\ 1 \in 1..Len(pending) /\ Newest = largest /\ Newest' = largest
  <2>1. ready = <<>> /\ pending # <<>> /\ pending \in Seq(Entries)
    BY <1>1, <1>2 DEF TypeOK, QueueInv, QueuePhase, FrameInv, FramePhase, NoOutput
  <2>2. Newest = largest /\ Newest' = largest
    BY <1>1 DEF Newest
  <2>3. QED BY <1>a, <2>1, <2>2, HeadFacts
<1>4. /\ frame \in Seq(Stamps) /\ Len(frame) \in Nat \ {0}
      /\ Len(frame) <= FrameLimit /\ Len(frame) <= Len(used')
      /\ Len(window) < FrameLimit => Len(frame) = Len(window) + 1
      /\ frame # <<>> /\ LastOf(frame) = h
      /\ \A i \in 1..Len(frame) : frame[i] = used'[Len(used') - Len(frame) + i]
      /\ \A i \in 1..Len(frame) :
           frame[i] = h \/ \E j \in 1..Len(window) : frame[i] = window[j]
  BY <1>1, <1>2, <1>3, <1>b, SlideFacts DEF FrameInv
<1>5. /\ used \in Seq(Stamps) /\ Len(used) \in Nat
      /\ Len(used') = Len(used) + 1 /\ used'[Len(used) + 1] = h
      /\ used' \in Seq(Stamps) /\ used' # <<>> /\ LastOf(used') = h
      /\ \A j \in 1..Len(used) : used'[j] = used[j]
  <2>1. used \in Seq(Stamps)
    BY <1>2 DEF TypeOK
  <2>2. QED BY <1>1, <1>3, <2>1 DEF LastOf
<1>6. /\ \A j \in 1..Len(used) : used[j] < h
      /\ lastOutput < h
  <2>1. \A j \in 1..Len(used) : used[j] < h
    BY <1>1, <1>2, <1>3, <1>a DEF QueueInv, UsedOrder
  <2>2. lastOutput \in Nat
    BY <1>2, StampTypes
  <2>3. lastOutput # 0 => lastOutput < h
    <3>1. HAVE lastOutput # 0
    <3>2. used # <<>> /\ lastOutput <= LastOf(used)
      BY <1>2, <3>1 DEF FrameInv, OutputOrder
    <3>3. Len(used) \in 1..Len(used) /\ LastOf(used) = used[Len(used)]
      BY <1>5, <3>2 DEF LastOf
    <3>4. LastOf(used) < h /\ LastOf(used) \in Nat
      BY <1>2, <2>1, <3>3, StampTypes
    <3>5. QED BY <1>3, <2>2, <3>2, <3>4
  <2>4. QED BY <1>3, <2>1, <2>2, <2>3
<1>7. \/ emitEvery = 1 /\ ready' = frame /\ pc' = "added"
      \/ emitEvery > 1 /\ ready' = frame /\ pc' = "joined"
         /\ Len(frame) = emitEvery /\ Len(window) = emitEvery - 1
      \/ emitEvery > 1 /\ ready' = <<>> /\ pc' = "added"
         /\ Len(frame) < emitEvery /\ Len(frame) = Len(window) + 1
  <2>1. CASE emitEvery = 1
    <3>1. Emits(frame)
      BY <2>1 DEF Emits
    <3>2. QED BY <1>1, <2>1, <3>1
  <2>2. CASE emitEvery # 1
    <3>1. emitEvery > 1 /\ emitEvery = FrameLimit /\ emitEvery \in Nat
      BY <1>2, <2>2, CadenceTypes
    <3>2. Len(window) < FrameLimit /\ Len(window) \in Nat
      BY <1>1, <1>2, <3>1, StampTypes DEF FrameInv, WindowInv
    <3>3. Emits(frame) <=> Len(frame) >= emitEvery
      BY <2>2 DEF Emits
    <3>4. CASE Emits(frame)
      BY <1>1, <1>4, <3>1, <3>2, <3>3, <3>4
    <3>5. CASE ~Emits(frame)
      <4>1. Len(frame) < emitEvery /\ Len(frame) = Len(window) + 1
        BY <1>4, <3>1, <3>2, <3>3, <3>5
      <4>2. ready' = <<>> /\ pc' = "added"
        BY <1>1, <3>5
      <4>3. QED BY <3>1, <4>1, <4>2
    <3>6. QED BY <3>4, <3>5
  <2>3. QED BY <2>1, <2>2
<1>8. (ready' = frame \/ ready' = <<>>) /\ pc' \in {"joined", "added"}
  BY <1>7
<1>9. TypeOK'
  <2>1. ready' \in Seq(Stamps) /\ window' \in Seq(Stamps) /\ Len(window') <= FrameLimit
    <3>1. <<>> \in Seq(Stamps)
      OBVIOUS
    <3>2. QED BY <1>1, <1>4, <1>8, <3>1
  <2>2. pc' \in Statements
    BY <1>8 DEF Statements
  <2>3. QED BY <1>1, <1>2, <1>5, <2>1, <2>2, Zenon DEF TypeOK
<1>10. QueuePhase' /\ InputConserved' /\ WaitsAccounted'
  BY <1>1, <1>2, <1>3, <1>8 DEF QueueInv, QueuePhase, InputConserved, Uncounted,
     WaitsAccounted, Waiting, HeadWaiting, HandWaiting, Counting, Head0
<1>11. FramePhase' /\ OutputsCounted'
  <2>1. ready' # <<>> \/ pc' = "added"
    BY <1>4, <1>7
  <2>2. FramePhase'
    BY <1>1, <1>2, <1>8, <2>1 DEF FrameInv, FramePhase, NoOutput, LastOf
  <2>3. OutputsCounted'
    BY <1>1, <1>2, <1>8 DEF FrameInv, OutputsCounted
  <2>4. QED BY <2>2, <2>3
<1>12. QueueOrder'
  <2>1. h <= largest /\ largest # 0
    BY <1>2, <1>3, <1>a DEF QueueInv, QueueOrder
  <2>2. \A j \in 1..Len(used') : used'[j] <= largest
    <3>1. TAKE j \in 1..Len(used')
    <3>2. j \in 1..Len(used) \/ j = Len(used) + 1
      BY <1>5
    <3>3. QED BY <1>2, <1>3, <1>5, <2>1, <3>2 DEF QueueInv, QueueOrder
  <2>3. QED BY <1>1, <1>2, <1>3, <2>1, <2>2 DEF QueueInv, QueueOrder
<1>13. OutputConserved'
  <2>1. Len(window) \in Nat /\ emitEvery \in Nat \ {0}
    BY <1>2, <1>3, StampTypes, CadenceTypes
  <2>2. /\ Owed' + PartialFrames' = PartialFrames + 1
        /\ PartialFrames \in Nat /\ PartialFrames' \in Nat /\ Owed' \in Nat
    <3>a. emitEvery' = emitEvery /\ window' = frame
      BY <1>1
    <3>b. PartialFrames = IF emitEvery > 1 THEN Len(window) ELSE 0
      BY DEF PartialFrames
    <3>c. /\ PartialFrames' = IF emitEvery > 1 THEN Len(frame) ELSE 0
          /\ Owed' = IF ready' = <<>> \/ pc' = "joined" THEN 0 ELSE emitEvery
      BY <1>1, <3>a DEF PartialFrames, Owed
    <3>1. CASE emitEvery = 1 /\ ready' = frame /\ pc' = "added"
      <4>1. PartialFrames' = 0 /\ Owed' = 1 /\ PartialFrames = 0
        BY <1>4, <3>1, <3>b, <3>c
      <4>2. QED BY <4>1
    <3>2. CASE emitEvery > 1 /\ pc' = "joined"
               /\ Len(frame) = emitEvery /\ Len(window) = emitEvery - 1
      <4>1. PartialFrames' = emitEvery /\ Owed' = 0 /\ PartialFrames = emitEvery - 1
        BY <3>2, <3>b, <3>c
      <4>2. QED BY <2>1, <3>2, <4>1
    <3>3. CASE emitEvery > 1 /\ ready' = <<>> /\ Len(frame) = Len(window) + 1
      <4>1. PartialFrames' = Len(window) + 1 /\ Owed' = 0
            /\ PartialFrames = Len(window)
        BY <3>3, <3>b, <3>c
      <4>2. QED BY <2>1, <4>1
    <3>4. QED BY <1>7, <3>1, <3>2, <3>3
  <2>3. PICK P, o, q, f : /\ P = published * emitEvery /\ o = Owed'
                          /\ q = PartialFrames' /\ f = PartialFrames
    OBVIOUS
  <2>4. /\ P \in Nat /\ processed \in Nat /\ o \in Nat /\ q \in Nat /\ f \in Nat
        /\ o + q = f + 1
    BY <1>2, <2>2, <2>3, CountTypes
  <2>5. P + 0 + f = processed + 0
    BY <1>1, <1>2, <1>3, <2>3 DEF FrameInv, OutputConserved, Owed, Untaken
  <2>6. P + o + q = processed + 1
    BY <2>4, <2>5
  <2>7. Untaken' = 1 /\ processed' = processed /\ published' * emitEvery' = P
    BY <1>1, <1>8, <2>3 DEF Untaken
  <2>8. QED BY <2>3, <2>6, <2>7 DEF OutputConserved
<1>14. WindowInv'
  BY <1>1, <1>4, <1>7 DEF WindowInv
<1>15. UsedOrder'
  <2>1. \A i, j \in 1..Len(used') : i < j => used'[i] < used'[j]
    <3>1. TAKE i, j \in 1..Len(used')
    <3>2. HAVE i < j
    <3>3. i \in 1..Len(used) /\ (j \in 1..Len(used) \/ j = Len(used) + 1)
      BY <1>5, <3>2
    <3>4. QED BY <1>2, <1>5, <1>6, <3>2, <3>3 DEF QueueInv, UsedOrder
  <2>2. \A i \in 1..Len(pending), j \in 1..Len(used') :
          i # 1 => used'[j] < pending[i].stamp
    <3>1. TAKE i \in 1..Len(pending), j \in 1..Len(used')
    <3>2. HAVE i # 1
    <3>3. h < pending[i].stamp
      <4>1. 1 \in 1..Len(pending) /\ 1 < i
        BY <1>3, <3>2
      <4>2. QED BY <1>2, <1>a, <4>1 DEF QueueInv, QueueOrder
    <3>4. j \in 1..Len(used) \/ j = Len(used) + 1
      BY <1>5
    <3>5. QED BY <1>1, <1>2, <1>5, <3>3, <3>4 DEF QueueInv, UsedOrder
  <2>3. QED BY <1>1, <1>8, <2>1, <2>2 DEF UsedOrder
<1>16. OutputOrder'
  BY <1>1, <1>2, <1>3, <1>5, <1>6, StampTypes DEF FrameInv, OutputOrder
<1>17. WindowIsSuffix' /\ JoinsLatest'
  <2>1. WindowIsSuffix'
    BY <1>1, <1>4 DEF WindowIsSuffix
  <2>2. JoinsLatest'
    <3>1. ready' # <<>> /\ emitEvery' > 1 => Len(ready') = emitEvery'
      BY <1>1, <1>4, <1>7
    <3>2. CASE ready' = frame
      BY <1>4, <3>1, <3>2 DEF JoinsLatest
    <3>3. CASE ready' = <<>>
      BY <1>5, <3>3, WindowAssumption DEF JoinsLatest
    <3>4. QED BY <1>8, <3>2, <3>3
  <2>3. QED BY <2>1, <2>2
<1>18. BatchInv'
  <2>1. emitEvery > 1 => \A i \in 1..Len(frame) : frame[i] > lastOutput
    BY <1>2, <1>4, <1>6 DEF FrameInv, BatchInv
  <2>2. emitEvery > 1 => \A i \in 1..Len(window') : window'[i] > lastOutput
    BY <1>1, <2>1
  <2>3. emitEvery > 1 => \A i \in 1..Len(ready') : ready'[i] > lastOutput
    BY <1>8, <2>1
  <2>4. QED BY <1>1, <1>2, <2>2, <2>3 DEF FrameInv, BatchInv, LastOf
<1>19. QED
  BY <1>9, <1>10, <1>11, <1>12, <1>13, <1>14, <1>15, <1>16, <1>17, <1>18
     DEF CloudInv, QueueInv, FrameInv

(* The window starts anew: its frames are those of the output.             *)
LEMMA ClearStep ==
  ASSUME CloudInv, ClearWindow
  PROVE  CloudInv'
<1>1. /\ pc = "joined" /\ pc' = "added" /\ window' = <<>>
      /\ UNCHANGED <<pending, largest, hand, lastOutput, delivered, outputs,
                     ready, used, received, unrecoverable, overflow,
                     futureWaited, recovered, processed, published, regressions,
                     transforms, stopped, emitEvery>>
  BY DEF ClearWindow, At, queue, output, counts, inputCounts, waitCounts,
         outputCounts
<1>2. TypeOK /\ QueueInv /\ FrameInv
  BY DEF CloudInv
<1>3. ready # <<>> /\ emitEvery > 1 /\ Len(window) = emitEvery
  BY <1>1, <1>2 DEF FrameInv, FramePhase, WindowInv
<1>4. TypeOK'
  <2>1. window' \in Seq(Stamps) /\ Len(window') <= FrameLimit
    BY <1>1, WindowAssumption
  <2>2. pc' \in Statements
    BY <1>1 DEF Statements
  <2>3. QED BY <1>1, <1>2, <2>1, <2>2, Zenon DEF TypeOK
<1>5. QueuePhase' /\ InputConserved' /\ WaitsAccounted'
  BY <1>1, <1>2 DEF QueueInv, QueuePhase, InputConserved, Uncounted,
     WaitsAccounted, Waiting, HeadWaiting, HandWaiting, Counting, Head0
<1>6. QueueOrder' /\ UsedOrder'
  BY <1>1, OrderKept
<1>7. FramePhase' /\ OutputsCounted' /\ OutputOrder' /\ JoinsLatest'
  BY <1>1, <1>2 DEF FrameInv, FramePhase, NoOutput, OutputsCounted, OutputOrder,
                    JoinsLatest, LastOf
<1>8. WindowInv' /\ WindowIsSuffix' /\ BatchInv'
  BY <1>1, <1>2, CadenceTypes, StampTypes
     DEF FrameInv, WindowInv, WindowIsSuffix, BatchInv, LastOf
<1>9. OutputConserved'
  <2>1. /\ Owed = 0 /\ PartialFrames = emitEvery /\ Untaken = 1
        /\ Owed' = emitEvery /\ PartialFrames' = 0 /\ Untaken' = 1
    BY <1>1, <1>3 DEF Owed, PartialFrames, Untaken
  <2>2. PICK P, E : P = published * emitEvery /\ E = emitEvery
    OBVIOUS
  <2>3. P \in Nat /\ E \in Nat /\ processed \in Nat
    BY <1>2, <2>2, CountTypes, CadenceTypes
  <2>4. P + 0 + E = processed + 1
    BY <1>2, <2>1, <2>2 DEF FrameInv, OutputConserved
  <2>5. P + E + 0 = processed + 1
    BY <2>3, <2>4
  <2>6. QED BY <1>1, <2>1, <2>2, <2>5 DEF OutputConserved
<1>10. QED
  BY <1>4, <1>5, <1>6, <1>7, <1>8, <1>9 DEF CloudInv, QueueInv, FrameInv

(* The joined head leaves the queue, still to be counted.                  *)
LEMMA TakeStep ==
  ASSUME CloudInv, TakeHead
  PROVE  CloudInv'
<1>1. /\ pc = "added" /\ pc' = "popped" /\ pending' = Tail(pending)
      /\ hand' = <<Head0>>
      /\ UNCHANGED <<largest, lastOutput, delivered, outputs, window, ready,
                     used, received, unrecoverable, overflow, futureWaited,
                     recovered, processed, published, regressions, transforms,
                     stopped, emitEvery>>
  BY DEF TakeHead, At, output, frames, counts, inputCounts, waitCounts,
         outputCounts
<1>2. TypeOK /\ QueueInv /\ FrameInv
  BY DEF CloudInv
<1>3. pending # <<>> /\ hand = <<>> /\ Uncounted = 0
  BY <1>1, <1>2 DEF QueueInv, QueuePhase, Uncounted
<1>4. /\ pending' \in Seq(Entries) /\ Len(pending') <= Capacity
      /\ hand' \in Seq(Entries) /\ Len(hand') <= 1 /\ hand' # <<>>
      /\ QueuePhase' /\ InputConserved' /\ QueueOrder' /\ WaitsAccounted'
      /\ UsedOrder'
  BY <1>1, <1>2, <1>3, PopFacts DEF QueueInv
<1>5. TypeOK'
  <2>1. pc' \in Statements
    BY <1>1 DEF Statements
  <2>2. QED BY <1>1, <1>2, <1>4, <2>1, Zenon DEF TypeOK
<1>6. FramePhase' /\ OutputsCounted' /\ WindowInv' /\ OutputOrder'
  BY <1>1, <1>2 DEF FrameInv, FramePhase, NoOutput, OutputsCounted, WindowInv,
                    OutputOrder, LastOf
<1>7. WindowIsSuffix' /\ JoinsLatest' /\ BatchInv'
  BY <1>1, <1>2 DEF FrameInv, WindowIsSuffix, JoinsLatest, BatchInv, LastOf
<1>8. OutputConserved'
  BY <1>1, <1>2 DEF FrameInv, OutputConserved, Owed, PartialFrames, Untaken
<1>9. QED BY <1>4, <1>5, <1>6, <1>7, <1>8 DEF CloudInv, QueueInv, FrameInv

(* Where the callback goes on once the head is taken.                      *)
LEMMA AfterTakeFacts ==
  /\ AfterTake \in {"idle", "head", "taken"}
  /\ AfterTake = "head" => pending # <<>>
  /\ AfterTake = "taken" => ready # <<>>
  /\ AfterTake \in {"idle", "head"} => ready = <<>>
  BY DEF AfterTake, AfterHead

(* What a step keeps of the frames while it goes on past a taken head.     *)
LEMMA TakenFrames ==
  ASSUME CloudInv, pc \in {"popped", "processed"},
         \/ pc' = "processed"
         \/ pc' \in {"idle", "head"} /\ ready = <<>>
         \/ pc' = "taken" /\ ready # <<>>,
         UNCHANGED <<output, frames, published, regressions, emitEvery>>
  PROVE  /\ FramePhase' /\ OutputsCounted' /\ WindowInv' /\ OutputOrder'
         /\ WindowIsSuffix' /\ JoinsLatest' /\ BatchInv'
         /\ Owed' = Owed /\ PartialFrames' = PartialFrames
<1>1. UNCHANGED <<lastOutput, delivered, outputs, window, ready, used>>
  BY DEF output, frames
<1>2. FramePhase' /\ OutputsCounted' /\ WindowInv' /\ OutputOrder'
  BY <1>1 DEF CloudInv, FrameInv, FramePhase, NoOutput, OutputsCounted, WindowInv,
              OutputOrder, LastOf
<1>3. WindowIsSuffix' /\ JoinsLatest' /\ BatchInv'
  BY <1>1 DEF CloudInv, FrameInv, WindowIsSuffix, JoinsLatest, BatchInv, LastOf
<1>4. Owed' = Owed /\ PartialFrames' = PartialFrames
  BY <1>1 DEF Owed, PartialFrames
<1>5. QED BY <1>2, <1>3, <1>4

(* The taken head is counted as processed; if it waited, it stays in hand. *)
LEMMA ProcessedStep ==
  ASSUME CloudInv, CountProcessed
  PROVE  CloudInv'
<1>1. /\ pc = "popped" /\ processed' = processed + 1
      /\ hand' = IF hand[1].waited THEN hand ELSE <<>>
      /\ pc' = IF hand[1].waited THEN "processed" ELSE AfterTake
      /\ UNCHANGED <<pending, largest, received, unrecoverable, overflow,
                     futureWaited, recovered, transforms, stopped>>
      /\ UNCHANGED <<output, frames, published, regressions, emitEvery>>
  BY DEF CountProcessed, At, inputCounts, waitCounts
<1>2. UNCHANGED <<lastOutput, delivered, outputs, window, ready, used>>
  BY <1>1 DEF output, frames
<1>3. TypeOK /\ QueueInv /\ FrameInv /\ hand # <<>>
  BY <1>1 DEF CloudInv, QueueInv, QueuePhase
<1>4. \/ hand[1].waited /\ hand' = hand /\ pc' = "processed"
      \/ ~hand[1].waited /\ hand' = <<>>
         /\ pc' \in {"idle", "head"} /\ ready = <<>>
         /\ (pc' = "head" => pending # <<>>)
      \/ ~hand[1].waited /\ hand' = <<>> /\ pc' = "taken" /\ ready # <<>>
  BY <1>1, AfterTakeFacts
<1>5. TypeOK'
  <2>1. processed' \in Nat
    BY <1>1, <1>3, CountTypes
  <2>2. pc' \in Statements
    BY <1>4 DEF Statements
  <2>3. hand' \in Seq(Entries) /\ Len(hand') <= 1
    <3>1. <<>> \in Seq(Entries) /\ Len(<<>>) <= 1
      OBVIOUS
    <3>2. hand \in Seq(Entries) /\ Len(hand) <= 1
      BY <1>3, Zenon DEF TypeOK
    <3>3. hand' = hand \/ hand' = <<>>
      BY <1>4
    <3>4. QED BY <3>1, <3>2, <3>3
  <2>4. QED BY <1>1, <1>2, <1>3, <2>1, <2>2, <2>3, Zenon DEF TypeOK
<1>6. /\ FramePhase' /\ OutputsCounted' /\ WindowInv' /\ OutputOrder'
      /\ WindowIsSuffix' /\ JoinsLatest' /\ BatchInv'
      /\ Owed' = Owed /\ PartialFrames' = PartialFrames
  BY <1>1, <1>4, TakenFrames
<1>7. OutputConserved'
  <2>1. Untaken = 1 /\ Untaken' = 0 /\ emitEvery' = emitEvery /\ published' = published
    BY <1>1, <1>4 DEF Untaken
  <2>2. processed' + Untaken' = processed + Untaken
    BY <1>1, <1>3, <2>1, CountTypes
  <2>3. QED BY <1>3, <1>6, <2>1, <2>2 DEF FrameInv, OutputConserved
<1>8. QueueOrder' /\ UsedOrder'
  BY <1>1, <1>2, <1>4, OrderKept
<1>9. QueuePhase'
  BY <1>1, <1>3, <1>4 DEF QueuePhase
<1>10. InputConserved'
  <2>1. Uncounted = 1 /\ Uncounted' = 0
    BY <1>1, <1>4 DEF Uncounted
  <2>2. PICK n : n = Len(pending)
    OBVIOUS
  <2>3. processed + unrecoverable + overflow + n + 1 = received /\ n \in Nat
    BY <1>3, <2>1, <2>2, CountTypes DEF QueueInv, InputConserved
  <2>a. /\ processed \in Nat /\ unrecoverable \in Nat
        /\ overflow \in Nat /\ received \in Nat
    BY <1>3, CountTypes
  <2>4. (processed + 1) + unrecoverable + overflow + n + 0 = received
    BY <2>a, <2>3, SMTT(30)
  <2>5. QED BY <1>1, <2>1, <2>2, <2>4 DEF InputConserved
<1>11. WaitsAccounted'
  <2>1. HandWaiting' = HandWaiting /\ HeadWaiting' = HeadWaiting
        /\ Counting' = Counting
    BY <1>1, <1>3, <1>4 DEF HandWaiting, HeadWaiting, Head0, Counting
  <2>2. QED BY <1>1, <1>3, <2>1 DEF QueueInv, WaitsAccounted, Waiting
<1>12. QED
  BY <1>3, <1>5, <1>6, <1>7, <1>8, <1>9, <1>10, <1>11
     DEF CloudInv, QueueInv, FrameInv

(* A wait of it has ended in a recovery.                                   *)
LEMMA RecoveredStep ==
  ASSUME CloudInv, CountRecovered
  PROVE  CloudInv'
<1>1. /\ pc = "processed" /\ recovered' = recovered + 1
      /\ hand' = <<>> /\ pc' = AfterTake
      /\ UNCHANGED <<pending, largest, received, unrecoverable, overflow,
                     futureWaited, processed, transforms, stopped>>
      /\ UNCHANGED <<output, frames, published, regressions, emitEvery>>
  BY DEF CountRecovered, At, inputCounts, outputCounts
<1>2. UNCHANGED <<lastOutput, delivered, outputs, window, ready, used>>
  BY <1>1 DEF output, frames
<1>3. TypeOK /\ QueueInv /\ FrameInv /\ hand # <<>> /\ hand[1].waited
  BY <1>1 DEF CloudInv, QueueInv, QueuePhase
<1>4. \/ pc' \in {"idle", "head"} /\ ready = <<>>
         /\ (pc' = "head" => pending # <<>>)
      \/ pc' = "taken" /\ ready # <<>>
  BY <1>1, AfterTakeFacts
<1>5. TypeOK'
  <2>1. recovered' \in Nat
    BY <1>1, <1>3, CountTypes
  <2>2. pc' \in Statements /\ hand' \in Seq(Entries) /\ Len(hand') <= 1
    BY <1>1, <1>4 DEF Statements
  <2>3. QED BY <1>1, <1>2, <1>3, <2>1, <2>2, Zenon DEF TypeOK
<1>6. /\ FramePhase' /\ OutputsCounted' /\ WindowInv' /\ OutputOrder'
      /\ WindowIsSuffix' /\ JoinsLatest' /\ BatchInv'
      /\ Owed' = Owed /\ PartialFrames' = PartialFrames
  BY <1>1, <1>4, TakenFrames
<1>7. OutputConserved'
  <2>1. Untaken' = Untaken
    BY <1>1, <1>4 DEF Untaken
  <2>2. QED BY <1>1, <1>3, <1>6, <2>1 DEF FrameInv, OutputConserved
<1>8. QueueOrder' /\ UsedOrder'
  BY <1>1, <1>2, <1>4, OrderKept
<1>9. QueuePhase'
  BY <1>1, <1>4 DEF QueuePhase
<1>10. InputConserved'
  BY <1>1, <1>3, <1>4 DEF QueueInv, InputConserved, Uncounted
<1>11. WaitsAccounted'
  <2>1. /\ HandWaiting = 1 /\ HandWaiting' = 0 /\ HeadWaiting' = HeadWaiting
        /\ Counting = 0 /\ Counting' = 0
    BY <1>1, <1>3, <1>4 DEF HandWaiting, HeadWaiting, Head0, Counting
  <2>2. recovered' + Waiting' = recovered + Waiting
    BY <1>1, <1>3, <2>1, CountTypes DEF Waiting
  <2>3. QED BY <1>1, <1>3, <2>1, <2>2 DEF QueueInv, WaitsAccounted
<1>12. QED
  BY <1>3, <1>5, <1>6, <1>7, <1>8, <1>9, <1>10, <1>11
     DEF CloudInv, QueueInv, FrameInv

(* What is ready is what the latest used stamps are, ending with the last. *)
LEMMA ReadyFacts ==
  ASSUME CloudInv, ready # <<>>
  PROVE  /\ used # <<>> /\ LastOf(ready) = LastOf(used) /\ LastOf(ready) \in Stamps
         /\ LastOf(ready) \in Nat /\ (pc # "noted" => LastOf(ready) > lastOutput)
         /\ \A i \in 1..Len(ready) : ready[i] <= LastOf(ready)
<1>1. /\ TypeOK /\ JoinsLatest /\ OutputOrder /\ UsedOrder
  BY DEF CloudInv, QueueInv, FrameInv
<1>2. /\ ready \in Seq(Stamps) /\ used \in Seq(Stamps)
      /\ Len(ready) \in Nat \ {0} /\ Len(used) \in Nat
      /\ Len(ready) <= Len(used) /\ Stamps \subseteq Nat
  <2>1. ready \in Seq(Stamps) /\ used \in Seq(Stamps)
    BY <1>1 DEF TypeOK
  <2>2. QED BY <1>1, <2>1, QueueAssumption DEF JoinsLatest
<1>3. \A i \in 1..Len(ready) : ready[i] = used[Len(used) - Len(ready) + i]
  BY <1>1 DEF JoinsLatest
<1>4. LastOf(ready) = LastOf(used)
  <2>1. Len(ready) \in 1..Len(ready)
        /\ Len(used) - Len(ready) + Len(ready) = Len(used)
    BY <1>2
  <2>2. QED BY <1>3, <2>1 DEF LastOf
<1>5. LastOf(ready) \in Stamps
  BY <1>2, StampSeqFacts
<1>6. /\ LastOf(ready) \in Nat /\ lastOutput \in Nat
      /\ pc # "noted" => LastOf(ready) > lastOutput
  BY <1>1, <1>2, <1>4, <1>5, StampTypes DEF OutputOrder
<1>7. \A i \in 1..Len(ready) : ready[i] <= LastOf(ready)
  <2>1. TAKE i \in 1..Len(ready)
  <2>2. PICK k : k = Len(used) - Len(ready) + i
    OBVIOUS
  <2>3. k \in 1..Len(used) /\ (k < Len(used) \/ k = Len(used))
        /\ Len(used) \in 1..Len(used)
    BY <1>2, <2>2
  <2>4. ready[i] = used[k] /\ used[k] \in Nat
    BY <1>1, <1>3, <2>2, <2>3, StampTypes
  <2>5. used[k] < used[Len(used)] \/ k = Len(used)
    BY <1>1, <2>3 DEF UsedOrder
  <2>6. QED BY <1>4, <1>6, <2>4, <2>5 DEF LastOf
<1>8. used # <<>>
  BY <1>2
<1>9. QED BY <1>4, <1>5, <1>6, <1>7, <1>8

(* Publishing hands out what is ready.                                     *)
LEMMA PublishStep ==
  ASSUME CloudInv, Publish
  PROVE  CloudInv'
<1>1. /\ pc = "taken" /\ pc' = "published" /\ delivered' = ready
      /\ outputs' = outputs + 1
      /\ UNCHANGED <<pending, largest, hand, lastOutput, window, ready, used,
                     received, unrecoverable, overflow, futureWaited, recovered,
                     processed, published, regressions, transforms, stopped,
                     emitEvery>>
  BY DEF Publish, At, queue, frames, counts, inputCounts, waitCounts, outputCounts
<1>2. TypeOK /\ QueueInv /\ FrameInv
  BY DEF CloudInv
<1>3. ready # <<>> /\ outputs = published + 0
  BY <1>1, <1>2 DEF FrameInv, FramePhase, OutputsCounted
<1>4. TypeOK'
  <2>1. delivered' \in Seq(Stamps) /\ outputs' \in Nat
    BY <1>1, <1>2, CountTypes DEF TypeOK
  <2>2. pc' \in Statements
    BY <1>1 DEF Statements
  <2>3. QED BY <1>1, <1>2, <2>1, <2>2, Zenon DEF TypeOK
<1>5. QueuePhase' /\ InputConserved' /\ WaitsAccounted'
  BY <1>1, <1>2 DEF QueueInv, QueuePhase, InputConserved, Uncounted,
     WaitsAccounted, Waiting, HeadWaiting, HandWaiting, Counting, Head0
<1>6. QueueOrder' /\ UsedOrder'
  BY <1>1, OrderKept
<1>7. FramePhase' /\ WindowInv' /\ OutputOrder'
  BY <1>1, <1>2, <1>3 DEF FrameInv, FramePhase, NoOutput, WindowInv, OutputOrder,
                          LastOf
<1>8. OutputsCounted' /\ OutputConserved'
  <2>1. OutputsCounted'
    BY <1>1, <1>2, <1>3, CountTypes DEF OutputsCounted
  <2>2. OutputConserved'
    BY <1>1, <1>2 DEF FrameInv, OutputConserved, Owed, PartialFrames, Untaken
  <2>3. QED BY <2>1, <2>2
<1>9. WindowIsSuffix' /\ JoinsLatest'
  BY <1>1, <1>2 DEF FrameInv, WindowIsSuffix, JoinsLatest
<1>10. BatchInv'
  <2>1. \A i \in 1..Len(ready) : ready[i] <= LastOf(ready)
    BY <1>3, ReadyFacts
  <2>2. QED BY <1>1, <1>2, <2>1 DEF FrameInv, BatchInv, LastOf
<1>11. QED
  BY <1>4, <1>5, <1>6, <1>7, <1>8, <1>9, <1>10 DEF CloudInv, QueueInv, FrameInv

(* Its stamp is newer than that of the output before; no regression.       *)
LEMMA NoteOutputStep ==
  ASSUME CloudInv, NoteOutput
  PROVE  CloudInv'
<1>1. /\ pc = "published" /\ pc' = "noted"
      /\ regressions' = IF lastOutput # 0 /\ LastOf(ready) <= lastOutput
                        THEN regressions + 1 ELSE regressions
      /\ lastOutput' = LastOf(ready)
      /\ UNCHANGED <<pending, largest, hand, delivered, outputs, window, ready,
                     used, received, unrecoverable, overflow, futureWaited,
                     recovered, processed, published, transforms, stopped,
                     emitEvery>>
  BY DEF NoteOutput, At, queue, frames, inputCounts, waitCounts
<1>2. TypeOK /\ QueueInv /\ FrameInv
  BY DEF CloudInv
<1>3. ready # <<>> /\ (delivered # <<>> => delivered = ready)
  BY <1>1, <1>2 DEF FrameInv, FramePhase
<1>4. /\ used # <<>> /\ LastOf(ready) = LastOf(used) /\ LastOf(ready) \in Stamps
      /\ LastOf(ready) \in Nat /\ LastOf(ready) > lastOutput /\ lastOutput \in Nat
  BY <1>1, <1>2, <1>3, ReadyFacts, StampTypes
<1>5. regressions' = regressions
  BY <1>1, <1>4
<1>6. TypeOK'
  <2>1. pc' \in Statements /\ lastOutput' \in Stamps \cup {0}
    BY <1>1, <1>4 DEF Statements
  <2>2. QED BY <1>1, <1>2, <1>5, <2>1, Zenon DEF TypeOK
<1>7. QueuePhase' /\ InputConserved' /\ WaitsAccounted'
  BY <1>1, <1>2 DEF QueueInv, QueuePhase, InputConserved, Uncounted,
     WaitsAccounted, Waiting, HeadWaiting, HandWaiting, Counting, Head0
<1>8. QueueOrder' /\ UsedOrder'
  BY <1>1, OrderKept
<1>9. FramePhase' /\ WindowInv' /\ OutputsCounted'
  BY <1>1, <1>2, <1>3 DEF FrameInv, FramePhase, NoOutput, WindowInv,
                          OutputsCounted, LastOf
<1>10. OutputOrder'
  BY <1>1, <1>2, <1>4, <1>5 DEF FrameInv, OutputOrder, LastOf
<1>11. OutputConserved'
  BY <1>1, <1>2 DEF FrameInv, OutputConserved, Owed, PartialFrames, Untaken
<1>12. WindowIsSuffix' /\ JoinsLatest'
  BY <1>1, <1>2 DEF FrameInv, WindowIsSuffix, JoinsLatest
<1>13. BatchInv'
  <2>1. emitEvery > 1 => window' = <<>>
    BY <1>1, <1>2, <1>3 DEF FrameInv, WindowInv
  <2>2. \A i \in 1..Len(delivered') : delivered'[i] <= LastOf(delivered')
    BY <1>1, <1>2 DEF FrameInv, BatchInv, LastOf
  <2>3. QED BY <1>1, <2>1, <2>2 DEF BatchInv
<1>14. QED
  BY <1>6, <1>7, <1>8, <1>9, <1>10, <1>11, <1>12, <1>13
     DEF CloudInv, QueueInv, FrameInv

(* The output is counted, and nothing is owed any more.                    *)
LEMMA CountOutputStep ==
  ASSUME CloudInv, CountOutput
  PROVE  CloudInv'
<1>1. /\ pc = "noted" /\ published' = published + 1 /\ ready' = <<>>
      /\ pc' = AfterHead
      /\ UNCHANGED <<pending, largest, hand, lastOutput, delivered, outputs,
                     window, used, received, unrecoverable, overflow,
                     futureWaited, recovered, processed, regressions, transforms,
                     stopped, emitEvery>>
  BY DEF CountOutput, At, queue, output, inputCounts, waitCounts
<1>2. TypeOK /\ QueueInv /\ FrameInv
  BY DEF CloudInv
<1>3. ready # <<>> /\ outputs = published + 1
  BY <1>1, <1>2 DEF FrameInv, FramePhase, OutputsCounted
<1>4. pc' \in {"idle", "head"} /\ (pc' = "head" => pending # <<>>)
  BY <1>1, AfterHeadFacts
<1>5. TypeOK'
  <2>1. published' \in Nat /\ ready' \in Seq(Stamps)
    BY <1>1, <1>2, CountTypes
  <2>2. pc' \in Statements
    BY <1>4 DEF Statements
  <2>3. QED BY <1>1, <1>2, <2>1, <2>2, Zenon DEF TypeOK
<1>6. QueuePhase' /\ InputConserved' /\ WaitsAccounted'
  BY <1>1, <1>2, <1>4 DEF QueueInv, QueuePhase, InputConserved, Uncounted,
     WaitsAccounted, Waiting, HeadWaiting, HandWaiting, Counting, Head0
<1>7. QueueOrder' /\ UsedOrder'
  BY <1>1, <1>4, OrderKept
<1>8. FramePhase' /\ WindowInv' /\ OutputsCounted'
  BY <1>1, <1>2, <1>3, <1>4 DEF FrameInv, FramePhase, NoOutput, WindowInv,
                                OutputsCounted, LastOf
<1>9. OutputOrder' /\ WindowIsSuffix'
  BY <1>1, <1>2 DEF FrameInv, OutputOrder, WindowIsSuffix, LastOf
<1>10. JoinsLatest'
  BY <1>1, <1>2, StampTypes, WindowAssumption DEF JoinsLatest
<1>11. BatchInv'
  <2>1. emitEvery > 1 => window' = <<>>
    BY <1>1, <1>2, <1>3 DEF FrameInv, WindowInv
  <2>2. \A i \in 1..Len(delivered') : delivered'[i] <= LastOf(delivered')
    BY <1>1, <1>2 DEF FrameInv, BatchInv, LastOf
  <2>3. QED BY <1>1, <2>1, <2>2 DEF BatchInv
<1>12. OutputConserved'
  <2>1. PICK P, E, n, f : /\ P = n * E /\ E = emitEvery /\ n = published
                          /\ f = PartialFrames
    OBVIOUS
  <2>2. /\ P \in Nat /\ E \in Nat /\ n \in Nat /\ f \in Nat /\ processed \in Nat
    BY <1>2, <2>1, CountTypes, CadenceTypes
  <2>3. (n + 1) * E = P + E
    BY <2>1, <2>2
  <2>4. /\ Owed = E /\ Owed' = 0 /\ Untaken = 0 /\ Untaken' = 0
        /\ PartialFrames' = f
    BY <1>1, <1>3, <1>4, <2>1 DEF Owed, Untaken, PartialFrames
  <2>5. P + E + f = processed + 0
    BY <1>2, <2>1, <2>4 DEF FrameInv, OutputConserved
  <2>6. (P + E) + 0 + f = processed + 0
    BY <2>2, <2>5
  <2>7. QED BY <1>1, <2>1, <2>3, <2>4, <2>6 DEF OutputConserved
<1>13. QED
  BY <1>5, <1>6, <1>7, <1>8, <1>9, <1>10, <1>11, <1>12
     DEF CloudInv, QueueInv, FrameInv

(* Every step preserves the invariant.                                     *)
LEMMA NextCloudInv == CloudInv /\ [Next]_vars => CloudInv'
<1> SUFFICES ASSUME CloudInv, [Next]_vars PROVE CloudInv'
  OBVIOUS
<1>1. transforms \subseteq Stamps /\ stopped \in BOOLEAN
  BY Zenon DEF CloudInv, TypeOK
<1>2. ASSUME NEW cloud \in Clouds, Arrive(cloud) PROVE CloudInv'
  BY <1>2, ArriveStep
<1>3. ASSUME NEW stamp \in Stamps, ReceiveTransform(stamp) PROVE CloudInv'
  <2>1. transforms' \subseteq Stamps
    BY <1>1, <1>3 DEF ReceiveTransform
  <2>2. stopped' = stopped /\ UNCHANGED <<queue, output, frames, counts, pc, emitEvery>>
    BY <1>3 DEF ReceiveTransform
  <2>3. stopped' \in BOOLEAN
    BY <1>1, <2>2
  <2>4. QED BY <2>1, <2>2, <2>3, QuietStep
<1>4. CASE StartRetry
  BY <1>4, StartStep
<1>5. CASE EnqueueStep
  BY <1>5, RefuseStep, EnqueueStamps, NoteStampStep DEF EnqueueStep
<1>6. CASE HeadStillWaits \/ HeadWaits \/ CountWait
  BY <1>6, StartStep, WaitStep, CountWaitStep
<1>7. CASE HeadLost \/ CountLost
  BY <1>7, LostStep, CountLostStep
<1>8. CASE HeadAdded \/ ClearWindow
  BY <1>8, AddedStep, ClearStep
<1>9. CASE TakeHead \/ CountProcessed \/ CountRecovered
  BY <1>9, TakeStep, ProcessedStep, RecoveredStep
<1>10. CASE Publish \/ NoteOutput \/ CountOutput
  BY <1>10, PublishStep, NoteOutputStep, CountOutputStep
<1>11. CASE Shutdown
  <2>1. transforms' = transforms /\ stopped' = TRUE
        /\ UNCHANGED <<queue, output, frames, counts, pc, emitEvery>>
    BY <1>11 DEF Shutdown
  <2>2. QED BY <1>1, <2>1, QuietStep
<1>12. CASE UNCHANGED vars
  <2>1. transforms' = transforms /\ stopped' = stopped
        /\ UNCHANGED <<queue, output, frames, counts, pc, emitEvery>>
    BY <1>12 DEF vars
  <2>2. transforms' \subseteq Stamps /\ stopped' \in BOOLEAN
    BY <1>1, <2>1
  <2>3. QED BY <2>1, <2>2, QuietStep
<1>13. QED
  BY <1>2, <1>3, <1>4, <1>5, <1>6, <1>7, <1>8, <1>9, <1>10, <1>11, <1>12
     DEF Next, RetryStep

(* The inductive invariant holds in every behaviour.                       *)
THEOREM CloudInvariant == Spec => []CloudInv
  BY InitCloudInv, NextCloudInv, PTL DEF Spec

(* The queue and the window stay within their limits.                      *)
THEOREM TypeCorrect == Spec => []TypeOK
<1>1. CloudInv => TypeOK
  BY DEF CloudInv
<1>2. QED BY CloudInvariant, <1>1, PTL

(* Whichever statement is next, every received cloud is counted, queued or *)
(* the one a callback holds, and the frames of the counted outputs, of the *)
(* one under way and of the window are the processed heads and the one in  *)
(* work: an interrupt leaves the printed sums off by no more than that.    *)
THEOREM AccountingIsConserved == Spec => []AccountingConserved
<1>1. CloudInv => AccountingConserved
  BY DEF CloudInv, QueueInv, FrameInv, AccountingConserved
<1>2. QED BY CloudInvariant, <1>1, PTL

(* An accounting printed in the middle of a callback either shows it in    *)
(* one of the two sums, or misses no cloud and no output.                  *)
THEOREM BalancedAccountingIsTrue == Spec => []BalancedIsTrue
<1>1. CloudInv => BalancedIsTrue
  <2>1. SUFFICES ASSUME CloudInv, InputBalanced, OutputBalanced
                 PROVE  Uncounted = 0 /\ outputs = published
    BY DEF BalancedIsTrue
  <2>2. TypeOK /\ InputConserved /\ OutputConserved /\ OutputsCounted /\ FramePhase
    BY <2>1 DEF CloudInv, QueueInv, FrameInv
  <2>3. Uncounted = 0
    <3>1. PICK n : n = processed + unrecoverable + overflow + Len(pending)
      OBVIOUS
    <3>2. n \in Nat /\ n = received /\ n + Uncounted = received
          /\ Uncounted \in {0, 1}
      BY <2>1, <2>2, <3>1, CountTypes DEF InputBalanced, InputConserved
    <3>3. QED BY <3>2
  <2>4. Owed = Untaken
    <3>1. PICK P, o, f, t : /\ P = published * emitEvery /\ o = Owed
                            /\ f = PartialFrames /\ t = Untaken
      OBVIOUS
    <3>2. /\ P \in Nat /\ o \in Nat /\ f \in Nat /\ t \in {0, 1}
          /\ processed \in Nat
      BY <2>2, <3>1, CountTypes
    <3>3. P + f = processed /\ P + o + f = processed + t
      BY <2>1, <2>2, <3>1 DEF OutputBalanced, OutputConserved
    <3>4. o = t
      BY <3>2, <3>3
    <3>5. QED BY <3>1, <3>4
  <2>5. pc \notin {"published", "noted"}
    <3>1. SUFFICES ASSUME pc \in {"published", "noted"} PROVE FALSE
      OBVIOUS
    <3>2. Owed = emitEvery /\ Untaken = 0
      BY <2>2, <3>1 DEF FramePhase, Owed, Untaken
    <3>3. emitEvery # 0
      BY <2>2, CadenceTypes
    <3>4. QED BY <2>4, <3>2, <3>3
  <2>6. outputs = published
    BY <2>2, <2>5, CountTypes DEF OutputsCounted
  <2>7. QED BY <2>3, <2>6
<1>2. QED BY CloudInvariant, <1>1, PTL

(* The queue is sorted, lies beyond what was used, and the regression      *)
(* counter of the accounting can only read zero.                           *)
THEOREM SourceOrderKept == Spec => []SourceOrder
<1>1. CloudInv => SourceOrder
  BY DEF CloudInv, QueueInv, FrameInv, QueueOrder, UsedOrder, OutputOrder,
         SourceOrder
<1>2. QED BY CloudInvariant, <1>1, PTL

(* An output joins the latest used clouds, in order and without a gap.     *)
THEOREM OutputJoinsLatest == Spec => []JoinsLatest
<1>1. CloudInv => JoinsLatest
  BY DEF CloudInv, FrameInv
<1>2. QED BY CloudInvariant, <1>1, PTL

(* A wait is going on at the head, or it was recovered, or it was lost.    *)
THEOREM WaitsAccountedFor == Spec => []WaitsAccounted
<1>1. CloudInv => WaitsAccounted
  BY DEF CloudInv, QueueInv
<1>2. QED BY CloudInvariant, <1>1, PTL

(* Only Publish changes what is delivered.                                 *)
LEMMA DeliverySteps ==
  ASSUME [Next]_vars, delivered' # delivered
  PROVE  Publish
<1>1. ~EnqueueStep
  BY DEF EnqueueStep, RefuseOldStamp, RefuseOverflow, Enqueue, NoteStamp, output
<1>2. ~(HeadStillWaits \/ HeadWaits \/ CountWait \/ HeadLost \/ CountLost)
  BY DEF HeadStillWaits, HeadWaits, CountWait, HeadLost, CountLost, output
<1>3. ~(HeadAdded \/ ClearWindow \/ TakeHead \/ CountProcessed \/ CountRecovered)
  BY DEF HeadAdded, ClearWindow, TakeHead, CountProcessed, CountRecovered, output
<1>4. ~(NoteOutput \/ CountOutput)
  BY DEF NoteOutput, CountOutput, output
<1>5. QED
  BY <1>1, <1>2, <1>3, <1>4 DEF Next, RetryStep, Arrive, ReceiveTransform,
     StartRetry, Shutdown, vars, output

(* The stamps on the output topic increase strictly.                       *)
THEOREM OutputsAdvance == Spec => OutputAdvances
<1>1. CloudInv /\ [Next]_vars => OutputStep
  <2>1. SUFFICES ASSUME CloudInv, [Next]_vars, delivered' # delivered,
                        delivered # <<>>
                 PROVE  LastOf(delivered) < LastOf(delivered')
    BY DEF OutputStep
  <2>2. pc = "taken" /\ delivered' = ready
    BY <2>1, DeliverySteps DEF Publish, At
  <2>3. LastOf(delivered) = lastOutput /\ ready # <<>>
    BY <2>1, <2>2 DEF CloudInv, FrameInv, FramePhase
  <2>4. LastOf(ready) > lastOutput /\ LastOf(ready) \in Nat /\ lastOutput \in Nat
    BY <2>1, <2>2, <2>3, ReadyFacts, StampTypes DEF CloudInv
  <2>5. QED BY <2>2, <2>3, <2>4 DEF LastOf
<1>2. QED BY CloudInvariant, <1>1, PTL DEF Spec, OutputAdvances

(* In batches, no frame is published twice.                                *)
THEOREM BatchesAreDisjoint == Spec => BatchesDisjoint
<1>1. CloudInv /\ [Next]_vars => BatchStep
  <2>1. SUFFICES ASSUME CloudInv, [Next]_vars, emitEvery > 1,
                        delivered' # delivered,
                        NEW i \in 1..Len(delivered), NEW j \in 1..Len(delivered')
                 PROVE  delivered[i] < delivered'[j]
    BY DEF BatchStep
  <2>2. pc = "taken" /\ delivered' = ready
    BY <2>1, DeliverySteps DEF Publish, At
  <2>3. TypeOK /\ FramePhase /\ BatchInv
    BY <2>1 DEF CloudInv, FrameInv
  <2>4. delivered \in Seq(Stamps) /\ delivered # <<>>
    BY <2>1, <2>3 DEF TypeOK
  <2>5. delivered[i] <= lastOutput
    BY <2>2, <2>3, <2>4 DEF FramePhase, BatchInv
  <2>6. delivered[i] \in Nat /\ ready[j] \in Nat /\ lastOutput \in Nat
    BY <2>1, <2>2, <2>3, <2>4, StampTypes, StampSeqFacts
  <2>7. ready[j] > lastOutput
    BY <2>1, <2>2, <2>3 DEF BatchInv
  <2>8. QED BY <2>2, <2>5, <2>6, <2>7
<1>2. QED BY CloudInvariant, <1>1, PTL DEF Spec, BatchesDisjoint
=============================================================================
