-------------------------- MODULE CloudAccumulator --------------------------
(***************************************************************************)
(* The mapping cloud accumulator of go2_perception: a bounded queue of     *)
(* validated clouds that wait for the transform of their stamp, a window   *)
(* that joins the transformed clouds, and the node that drives both.       *)
(*                                                                         *)
(* One executor thread serves the cloud subscription, the TF listener and  *)
(* a 10 ms retry timer, whose callback is a loop over the head of the      *)
(* queue.  A SIGINT raises KeyboardInterrupt between any two bytecodes and *)
(* main's finally then prints the terminal accounting from what it finds.  *)
(* So every statement of the two callbacks that changes the queue, the     *)
(* window, a counter or the output topic is a step of its own, told apart  *)
(* by `pc', and Shutdown may fall between any two of them.  No other       *)
(* callback runs while pc is not "idle".                                   *)
(*                                                                         *)
(* A cloud is its stamp and whether its points can be compacted,           *)
(* transformed and joined; a joined cloud is the sequence of the stamps    *)
(* of its frames, and is stamped with the last one.                        *)
(***************************************************************************)
EXTENDS Integers, Sequences

CONSTANTS
  Stamps,      (* Stamps of clouds and of transforms.                      *)
  Capacity,    (* retry_queue_capacity.                                    *)
  FrameLimit,  (* frame_limit of the window.                               *)
  CacheTime,   (* cache_time of the TF buffer.                             *)
  MaxReceived  (* Clouds the source sends (bound).                         *)

ASSUME QueueAssumption ==
  /\ Stamps \subseteq Nat \ {0}
  /\ Capacity \in Nat \ {0}
  /\ CacheTime \in Nat
  /\ MaxReceived \in Nat
ASSUME WindowAssumption == FrameLimit \in Nat \ {0}

Clouds == [stamp : Stamps, usable : BOOLEAN]
Entries == [stamp : Stamps, usable : BOOLEAN, waited : BOOLEAN]

VARIABLES
  emitEvery,      (* emit_every: every input, or batches of FrameLimit.    *)
  pending,        (* _pending.                                             *)
  largest,        (* _largest_source_stamp_nanoseconds; 0 for None.        *)
  lastOutput,     (* _last_output_stamp_nanoseconds; 0 for None.           *)
  window,         (* _clouds of the window.                                *)
  ready,          (* accumulated; the empty sequence for None.             *)
  hand,           (* The cloud a callback holds outside the queue, if any: *)
                  (* the argument of enqueue, or the head it popped.       *)
  received, unrecoverable, overflow,   (* The counters of the accounting,  *)
  futureWaited, recovered,             (* but for the emit_every it also   *)
  processed, published, regressions,   (* carries.                         *)
  transforms,     (* Stamps in the TF buffer.                              *)
  pc,             (* The statement the running callback is about to run.   *)
  stopped,        (* The node printed its terminal accounting.             *)
  delivered,      (* The last cloud on the output topic,                   *)
  outputs,        (* and history: how many have gone out on it.            *)
  used            (* History: stamps the window accepted, in order.        *)

queue == <<pending, largest, hand>>
output == <<lastOutput, delivered, outputs>>
frames == <<window, ready, used>>
inputCounts == <<received, unrecoverable, overflow>>
waitCounts == <<futureWaited, recovered>>
outputCounts == <<processed, published, regressions>>
counts == <<inputCounts, waitCounts, outputCounts>>
vars == <<queue, output, frames, counts, transforms, pc, stopped, emitEvery>>

-----------------------------------------------------------------------------
Head0 == pending[1]
LastOf(s) == s[Len(s)]

(* What tf2 answers: it interpolates between stamps of its buffer, asks to *)
(* wait for a stamp beyond the newest of several, and else gives up.       *)
Transformable(stamp) ==
  (\E t \in transforms : t <= stamp) /\ (\E t \in transforms : t >= stamp)
InFuture(stamp) ==
  /\ \E s, t \in transforms : s # t
  /\ \A t \in transforms : t < stamp

(* Mutant: a full window refuses the newest frame.                         *)
SlideKeepingOldest(stamp) ==
  IF Len(window) < FrameLimit THEN Append(window, stamp) ELSE window

(* deque(maxlen = FrameLimit).append.                                      *)
Slide(stamp) ==
  Append(IF Len(window) < FrameLimit THEN window ELSE Tail(window), stamp)

Emits(frame) == emitEvery = 1 \/ Len(frame) >= emitEvery

(* Mutant: the partial frames are computed from the other counters.        *)
PartialFramesDerived ==
  IF emitEvery > 1 THEN processed - published * emitEvery ELSE 0

PartialFrames == IF emitEvery > 1 THEN Len(window) ELSE 0

IsNewer(stamp) == largest = 0 \/ stamp > largest

AfterHead == IF pending = <<>> THEN "idle" ELSE "head"

-----------------------------------------------------------------------------
Init ==
  /\ emitEvery \in {1, FrameLimit}
  /\ pending = <<>> /\ largest = 0 /\ lastOutput = 0 /\ hand = <<>>
  /\ window = <<>> /\ ready = <<>> /\ used = <<>>
  /\ delivered = <<>> /\ outputs = 0
  /\ received = 0 /\ unrecoverable = 0 /\ overflow = 0
  /\ futureWaited = 0 /\ recovered = 0
  /\ processed = 0 /\ published = 0 /\ regressions = 0
  /\ transforms = {}
  /\ pc = "idle"
  /\ stopped = FALSE

Statements ==
  {"idle", "arrived", "appended",
   "head", "waiting", "lost", "joined", "added", "popped", "processed",
   "taken", "published", "noted"}

(* The running callback is about to run statement s.                       *)
At(s) == pc = s /\ ~stopped

(* The TF listener: the buffer forgets what is older than its cache.       *)
ReceiveTransform(stamp) ==
  /\ At("idle")
  /\ \A t \in transforms : t < stamp
  /\ transforms' = {t \in transforms : stamp - t <= CacheTime} \cup {stamp}
  /\ UNCHANGED <<queue, output, frames, counts, pc, stopped, emitEvery>>

-----------------------------------------------------------------------------
(* The subscription: enqueue, statement by statement.                      *)

(* The cloud is counted as received before anything else.                  *)
Arrive(cloud) ==
  /\ At("idle") /\ received < MaxReceived
  /\ received' = received + 1
  /\ hand' = <<[stamp |-> cloud.stamp, usable |-> cloud.usable, waited |-> FALSE]>>
  /\ pc' = "arrived"
  /\ UNCHANGED <<pending, largest, output, frames, unrecoverable, overflow,
                 waitCounts, outputCounts, transforms, stopped, emitEvery>>

(* A stamp that is not newer than every queued one is refused.             *)
RefuseOldStamp ==
  /\ At("arrived")
  /\ ~IsNewer(hand[1].stamp)
  /\ unrecoverable' = unrecoverable + 1
  /\ hand' = <<>>
  /\ pc' = "idle"
  /\ UNCHANGED <<pending, largest, output, frames, received, overflow,
                 waitCounts, outputCounts, transforms, stopped, emitEvery>>

(* A full queue refuses the newest cloud.                                  *)
RefuseOverflow ==
  /\ At("arrived")
  /\ IsNewer(hand[1].stamp) /\ Len(pending) >= Capacity
  /\ overflow' = overflow + 1
  /\ hand' = <<>>
  /\ pc' = "idle"
  /\ UNCHANGED <<pending, largest, output, frames, received, unrecoverable,
                 waitCounts, outputCounts, transforms, stopped, emitEvery>>

(* Mutant: a queue with one place too many.                                *)
EnqueueOffByOne ==
  /\ At("arrived")
  /\ IsNewer(hand[1].stamp) /\ Len(pending) <= Capacity
  /\ pending' = Append(pending, hand[1])
  /\ hand' = <<>>
  /\ pc' = "appended"
  /\ UNCHANGED <<largest, output, frames, counts, transforms, stopped, emitEvery>>

(* Mutant: a repeated stamp is let through.                                *)
EnqueueRepeated ==
  /\ At("arrived")
  /\ largest = 0 \/ hand[1].stamp >= largest
  /\ Len(pending) < Capacity
  /\ pending' = Append(pending, hand[1])
  /\ hand' = <<>>
  /\ pc' = "appended"
  /\ UNCHANGED <<largest, output, frames, counts, transforms, stopped, emitEvery>>

Enqueue ==
  /\ At("arrived")
  /\ IsNewer(hand[1].stamp) /\ Len(pending) < Capacity
  /\ pending' = Append(pending, hand[1])
  /\ hand' = <<>>
  /\ pc' = "appended"
  /\ UNCHANGED <<largest, output, frames, counts, transforms, stopped, emitEvery>>

(* Then its stamp becomes the largest one.                                 *)
NoteStamp ==
  /\ At("appended")
  /\ largest' = LastOf(pending).stamp
  /\ pc' = "idle"
  /\ UNCHANGED <<pending, hand, output, frames, counts, transforms, stopped,
                 emitEvery>>

EnqueueStep == RefuseOldStamp \/ RefuseOverflow \/ Enqueue \/ NoteStamp

-----------------------------------------------------------------------------
(* The retry timer: _process_pending_clouds, statement by statement.       *)

(* It fires with clouds to process.                                        *)
StartRetry ==
  /\ At("idle")
  /\ pending # <<>>
  /\ pc' = "head"
  /\ UNCHANGED <<queue, output, frames, counts, transforms, stopped, emitEvery>>

(* Mutant: every retry counts as a wait.                                   *)
HeadRewaits ==
  /\ At("head")
  /\ InFuture(Head0.stamp) /\ Head0.waited
  /\ pc' = "waiting"
  /\ UNCHANGED <<queue, output, frames, counts, transforms, stopped, emitEvery>>

(* The head must wait again, and every cloud behind it too.                *)
HeadStillWaits ==
  /\ At("head")
  /\ InFuture(Head0.stamp) /\ Head0.waited
  /\ pc' = "idle"
  /\ UNCHANGED <<queue, output, frames, counts, transforms, stopped, emitEvery>>

(* The head must wait for the first time: mark_head_future_waited.         *)
HeadWaits ==
  /\ At("head")
  /\ InFuture(Head0.stamp) /\ ~Head0.waited
  /\ pending' = [pending EXCEPT ![1].waited = TRUE]
  /\ pc' = "waiting"
  /\ UNCHANGED <<largest, hand, output, frames, counts, transforms, stopped,
                 emitEvery>>

CountWait ==
  /\ At("waiting")
  /\ futureWaited' = futureWaited + 1
  /\ pc' = "idle"
  /\ UNCHANGED <<queue, output, frames, inputCounts, recovered, outputCounts,
                 transforms, stopped, emitEvery>>

(* Mutant: a lost head stays queued for another try.                       *)
HeadLostKept ==
  /\ At("head")
  /\ ~InFuture(Head0.stamp)
  /\ ~Transformable(Head0.stamp) \/ ~Head0.usable
  /\ pc' = "idle"
  /\ UNCHANGED <<queue, output, frames, counts, transforms, stopped, emitEvery>>

(* drop_head_unrecoverable: no transform, or the cloud cannot be used.     *)
HeadLost ==
  /\ At("head")
  /\ ~InFuture(Head0.stamp)
  /\ ~Transformable(Head0.stamp) \/ ~Head0.usable
  /\ pending' = Tail(pending)
  /\ hand' = <<Head0>>
  /\ pc' = "lost"
  /\ UNCHANGED <<largest, output, frames, counts, transforms, stopped, emitEvery>>

CountLost ==
  /\ At("lost")
  /\ unrecoverable' = unrecoverable + 1
  /\ hand' = <<>>
  /\ pc' = AfterHead
  /\ UNCHANGED <<pending, largest, output, frames, received, overflow,
                 waitCounts, outputCounts, transforms, stopped, emitEvery>>

(* window.add on the transformed head, which is still queued.              *)
HeadAdded ==
  /\ At("head")
  /\ Transformable(Head0.stamp) /\ Head0.usable
  /\ LET frame == Slide(Head0.stamp) IN
       /\ window' = frame
       /\ ready' = IF Emits(frame) THEN frame ELSE <<>>
       /\ pc' = IF Emits(frame) /\ emitEvery > 1 THEN "joined" ELSE "added"
  /\ used' = Append(used, Head0.stamp)
  /\ UNCHANGED <<queue, output, counts, transforms, stopped, emitEvery>>

(* Mutant: the window is not cleared after a batch.                        *)
KeepWindow ==
  /\ At("joined")
  /\ pc' = "added"
  /\ UNCHANGED <<queue, output, frames, counts, transforms, stopped, emitEvery>>

(* The batch is complete: the window starts anew.                          *)
ClearWindow ==
  /\ At("joined")
  /\ window' = <<>>
  /\ pc' = "added"
  /\ UNCHANGED <<queue, output, ready, used, counts, transforms, stopped, emitEvery>>

(* take_head_for_processing.                                               *)
TakeHead ==
  /\ At("added")
  /\ pending' = Tail(pending)
  /\ hand' = <<Head0>>
  /\ pc' = "popped"
  /\ UNCHANGED <<largest, output, frames, counts, transforms, stopped, emitEvery>>

(* After take_head_for_processing: nothing to publish, or the output.      *)
AfterTake == IF ready = <<>> THEN AfterHead ELSE "taken"

(* Mutant: only a head that completes an output is counted.                *)
CountOutputHeads ==
  /\ At("popped")
  /\ processed' = IF ready = <<>> THEN processed ELSE processed + 1
  /\ hand' = IF hand[1].waited THEN hand ELSE <<>>
  /\ pc' = IF hand[1].waited THEN "processed" ELSE AfterTake
  /\ UNCHANGED <<pending, largest, output, frames, inputCounts, waitCounts,
                 published, regressions, transforms, stopped, emitEvery>>

CountProcessed ==
  /\ At("popped")
  /\ processed' = processed + 1
  /\ hand' = IF hand[1].waited THEN hand ELSE <<>>
  /\ pc' = IF hand[1].waited THEN "processed" ELSE AfterTake
  /\ UNCHANGED <<pending, largest, output, frames, inputCounts, waitCounts,
                 published, regressions, transforms, stopped, emitEvery>>

CountRecovered ==
  /\ At("processed")
  /\ recovered' = recovered + 1
  /\ hand' = <<>>
  /\ pc' = AfterTake
  /\ UNCHANGED <<pending, largest, output, frames, inputCounts, futureWaited,
                 outputCounts, transforms, stopped, emitEvery>>

Publish ==
  /\ At("taken")
  /\ delivered' = ready
  /\ outputs' = outputs + 1
  /\ pc' = "published"
  /\ UNCHANGED <<queue, lastOutput, frames, counts, transforms, stopped, emitEvery>>

(* record_output_publish: a regression is counted before the stamp is      *)
(* noted.  It never occurs (SourceOrder), so the two are one step.         *)
NoteOutput ==
  /\ At("published")
  /\ regressions' = IF lastOutput # 0 /\ LastOf(ready) <= lastOutput
                    THEN regressions + 1 ELSE regressions
  /\ lastOutput' = LastOf(ready)
  /\ pc' = "noted"
  /\ UNCHANGED <<queue, delivered, outputs, frames, inputCounts, waitCounts,
                 processed, published, transforms, stopped, emitEvery>>

(* The output is counted, and on to the next head.                         *)
CountOutput ==
  /\ At("noted")
  /\ published' = published + 1
  /\ ready' = <<>>
  /\ pc' = AfterHead
  /\ UNCHANGED <<queue, output, window, used, inputCounts, waitCounts,
                 processed, regressions, transforms, stopped, emitEvery>>

RetryStep ==
  \/ HeadStillWaits \/ HeadWaits \/ CountWait
  \/ HeadLost \/ CountLost
  \/ HeadAdded \/ ClearWindow
  \/ TakeHead \/ CountProcessed \/ CountRecovered
  \/ Publish \/ NoteOutput \/ CountOutput

-----------------------------------------------------------------------------
(* SIGINT wherever a callback is, or a shutdown between two callbacks;     *)
(* main's finally prints the counts.                                       *)
Shutdown ==
  /\ ~stopped
  /\ stopped' = TRUE
  /\ UNCHANGED <<queue, output, frames, counts, transforms, pc, emitEvery>>

Next ==
  \/ \E cloud \in Clouds : Arrive(cloud)
  \/ \E stamp \in Stamps : ReceiveTransform(stamp)
  \/ StartRetry
  \/ EnqueueStep
  \/ RetryStep
  \/ Shutdown

Spec == Init /\ [][Next]_vars

(* The timer fires and a callback runs to its end.                         *)
FairSpec == Spec /\ WF_vars(StartRetry) /\ WF_vars(EnqueueStep \/ RetryStep)

-----------------------------------------------------------------------------
(* Properties.                                                             *)

(* The type of every variable, with the bounds of the queue and window.    *)
TypeOK ==
  /\ emitEvery \in {1, FrameLimit}
  /\ pending \in Seq(Entries) /\ Len(pending) <= Capacity
  /\ hand \in Seq(Entries) /\ Len(hand) <= 1
  /\ largest \in Stamps \cup {0}
  /\ lastOutput \in Stamps \cup {0}
  /\ window \in Seq(Stamps) /\ Len(window) <= FrameLimit
  /\ ready \in Seq(Stamps)
  /\ received \in 0..MaxReceived
  /\ unrecoverable \in Nat /\ overflow \in Nat
  /\ futureWaited \in Nat /\ recovered \in Nat
  /\ processed \in Nat /\ published \in Nat /\ regressions \in Nat
  /\ transforms \subseteq Stamps
  /\ pc \in Statements
  /\ stopped \in BOOLEAN
  /\ delivered \in Seq(Stamps) /\ outputs \in Nat
  /\ used \in Seq(Stamps)

(* The cloud between the queue and its counter, in enqueue, in             *)
(* drop_head_unrecoverable and in take_head_for_processing.                *)
Uncounted == IF pc \in {"arrived", "lost", "popped"} THEN 1 ELSE 0

(* Every received cloud is counted, queued, or the one a callback has in   *)
(* hand: at no moment are two missing from the printed accounting, and     *)
(* never is one counted twice.                                             *)
InputConserved ==
  processed + unrecoverable + overflow + Len(pending) + Uncounted = received

(* Frames joined to an output that is not counted yet, and a head that is  *)
(* in the window, or in its output, and not counted as processed.          *)
Owed == IF ready = <<>> \/ pc = "joined" THEN 0 ELSE emitEvery
Untaken == IF pc \in {"joined", "added", "popped"} THEN 1 ELSE 0

(* At every moment, the frames of the counted outputs, of the output under *)
(* way and of the window are the processed heads and the one under way.    *)
OutputConserved ==
  published * emitEvery + Owed + PartialFrames = processed + Untaken

(* The accounting at every moment, for clouds and for outputs.             *)
AccountingConserved == InputConserved /\ OutputConserved

(* The two sums the mapping acceptance checks on the printed accounting,   *)
(* cloud_accounting_input_conservation and ..._output_conservation.        *)
InputBalanced == processed + unrecoverable + overflow + Len(pending) = received
OutputBalanced == published * emitEvery + PartialFrames = processed

(* An accounting that balances is true, wherever the callback was stopped: *)
(* it misses no cloud, and counts just the outputs that went out.          *)
BalancedIsTrue ==
  stopped /\ InputBalanced /\ OutputBalanced =>
    Uncounted = 0 /\ outputs = published

(* The largest stamp ever queued.                                          *)
Newest == IF pc = "appended" THEN LastOf(pending).stamp ELSE largest

(* The stamps of the queue increase, and lie beyond every stamp that was   *)
(* used: so none of the output stamps can go back.                         *)
SourceOrder ==
  /\ \A i, j \in 1..Len(pending) : i < j => pending[i].stamp < pending[j].stamp
  /\ \A i \in 1..Len(pending) : pending[i].stamp <= Newest
  /\ \A i \in 1..Len(pending), j \in 1..Len(used) :
       pc \notin {"joined", "added"} => used[j] < pending[i].stamp
  /\ regressions = 0

(* What goes out joins the latest used clouds, in order and without a gap: *)
(* as many as the frame limit in batches, at most as many otherwise.       *)
JoinsLatest ==
  /\ Len(ready) <= FrameLimit /\ Len(ready) <= Len(used)
  /\ ready # <<>> /\ emitEvery > 1 => Len(ready) = emitEvery
  /\ \A i \in 1..Len(ready) : ready[i] = used[Len(used) - Len(ready) + i]

(* A wait that is going on: the head's, or that of a head a callback       *)
(* popped and has not counted.  Counting: the wait is about to be counted. *)
HeadWaiting == IF pending # <<>> /\ Head0.waited THEN 1 ELSE 0
HandWaiting == IF hand # <<>> /\ hand[1].waited THEN 1 ELSE 0
Waiting == HeadWaiting + HandWaiting
Counting == IF pc = "waiting" THEN 1 ELSE 0

(* Only the head can be waiting, and each wait is counted once: it is      *)
(* going on, or ended in a recovery or in a loss.                          *)
WaitsAccounted ==
  /\ \A i \in 2..Len(pending) : ~pending[i].waited
  /\ recovered + Waiting <= futureWaited + Counting
  /\ futureWaited + Counting <= recovered + Waiting + unrecoverable

(* The stamps on the output topic increase strictly.                       *)
OutputStep ==
  delivered' # delivered /\ delivered # <<>> =>
    LastOf(delivered) < LastOf(delivered')
OutputAdvances == [][OutputStep]_vars

(* In batches, no frame is published twice.                                *)
BatchStep ==
  emitEvery > 1 /\ delivered' # delivered =>
    \A i \in 1..Len(delivered), j \in 1..Len(delivered') :
      delivered[i] < delivered'[j]
BatchesDisjoint == [][BatchStep]_vars

Reached == \E t \in transforms : t >= largest

(* Once the transforms have passed the newest queued cloud for good, the   *)
(* queue drains for good, unless the node is stopped.                      *)
QueueDrains == <>[]Reached => <>[](stopped \/ pending = <<>>)
=============================================================================
