--------------------------- MODULE ExternalReplay ---------------------------
(***************************************************************************)
(* The external replay of go2_validation: one command acquires a pinned    *)
(* archive and extracts its single MCAP file, another converts that file   *)
(* to a short and a full bag, and the mapping acceptance takes the full    *)
(* bag.  They share a cache directory and two result documents.  Every     *)
(* file is staged in a temporary directory of its own and renamed into its *)
(* place; every document is written to a partial file and renamed.  Both   *)
(* commands may run at the same time, may stop between any two steps, and  *)
(* start again over whatever is in the cache.                              *)
(*                                                                         *)
(* A recording is a sequence of messages, a bag the messages of the two    *)
(* selected topics under their canonical names; the code reads a recording *)
(* in that form only.  The checksum of a file is its content, its size its *)
(* length, and a position is one-dimensional.                              *)
(* Payloads are left out, and so is the temporary directory that a stopped *)
(* command leaves behind: its name is never used again.  Whoever owns the  *)
(* machine may exchange or remove files of the cache, but not while a      *)
(* command is running.                                                     *)
(***************************************************************************)
EXTENDS Integers, Sequences, FiniteSetsExt, SequencesExt

CONSTANTS
  Sources,          (* The recordings a pinned archive may hold.           *)
  MaxAttempts,      (* max_attempts of the download.                       *)
  ExpectedClouds,   (* The counts the manifest pins.                       *)
  ExpectedOdometry,
  Second,           (* Clock ticks of a second.                            *)
  ShortSeconds,     (* Length of the short window.                         *)
  MinimumClouds,    (* Messages a short window must have.                  *)
  MinimumOdometry,
  MaxFaults         (* Bound: faults of network, disk, commands and owner. *)

None == <<>>            (* No file, no document: every recording has a message. *)
NoBundle == [short |-> None, full |-> None]
NoAcquisition == [status |-> "none", source |-> None]
NoConversion == [status |-> "none", source |-> None, bundle |-> NoBundle]

Message == [topic : STRING, time : Nat, seq : Nat, x : Int]

ASSUME SourcesAssumption == Sources \subseteq Seq(Message) \ {None}
ASSUME CountAssumption ==
  {MaxAttempts, Second, ShortSeconds, MinimumClouds, MinimumOdometry} \subseteq Nat \ {0}
ASSUME FaultAssumption == MaxFaults \in Nat

VARIABLES
  pinned,     (* The recording in the archive the manifest pins.           *)
  archive,    (* source/archive: absent, pinned or other.                  *)
  extracted,  (* source/extracted recording.                               *)
  derived,    (* derived: the bundle of short and full bag.                *)
  acqDoc,     (* runs/acquisition.json                                     *)
  convDoc,    (* runs/conversion.json                                      *)
  acq,        (* Where the acquisition is.                                 *)
  attempt,    (* Downloads it has tried.                                   *)
  staged,     (* The file in its temporary directory.                      *)
  acqOut,     (* The result it is about to write.                          *)
  conv,       (* Where the conversion is.                                  *)
  found,      (* The acquisition result it has read.                       *)
  bundle,     (* The bundle in its temporary directory.                    *)
  convOut,    (* The result it is about to write.                          *)
  accepted,   (* Source and full bag the mapping acceptance took last.     *)
  faults      (* Faults so far.                                            *)

cache == <<archive, extracted>>
acqLocal == <<attempt, staged, acqOut>>
acquisition == <<archive, extracted, acqDoc, acq, attempt, staged, acqOut>>
convLocal == <<found, bundle, convOut>>
conversion == <<derived, convDoc, conv, found, bundle, convOut>>
vars == <<pinned, archive, extracted, derived, acqDoc, convDoc, acq, attempt,
          staged, acqOut, conv, found, bundle, convOut, accepted, faults>>

Fault == faults < MaxFaults /\ faults' = faults + 1

Init ==
  /\ pinned \in Sources
  /\ archive = "absent" /\ extracted = None /\ derived = NoBundle
  /\ acqDoc = NoAcquisition /\ convDoc = NoConversion
  /\ acq = "idle" /\ attempt = 0 /\ staged = None /\ acqOut = NoAcquisition
  /\ conv = "idle" /\ found = NoAcquisition /\ bundle = NoBundle
  /\ convOut = NoConversion
  /\ accepted = NoConversion /\ faults = 0

-----------------------------------------------------------------------------
(* Reading a recording: counts, windows and the conversion of a window.    *)

SelectedTopics == {"rt/cloud", "rt/odom"}
Selected(trace) == SelectSeq(trace, LAMBDA m : m.topic \in SelectedTopics)

(* A message under its canonical topic, with its time and number.          *)
Canonical(m) == [m EXCEPT !.topic = IF m.topic = "rt/cloud" THEN "cloud"
                                                            ELSE "odom"]
Bag(trace) == [i \in DOMAIN Selected(trace) |-> Canonical(Selected(trace)[i])]

OnTopic(bag, topic) == SelectSeq(bag, LAMBDA m : m.topic = topic)
Clouds(bag) == OnTopic(bag, "cloud")
Odometry(bag) == OnTopic(bag, "odom")
Times(bag) == {m.time : m \in Range(bag)}

(* Messages must come in the order of their log time and sequence number.  *)
Ordered(bag) ==
  \A i, j \in DOMAIN bag : i < j =>
    \/ bag[i].time < bag[j].time
    \/ (bag[i].time = bag[j].time /\ bag[i].seq <= bag[j].seq)

(* The messages of a half-open interval.                                   *)
Between(bag, start, end) ==
  SelectSeq(bag, LAMBDA m : start <= m.time /\ m.time < end)

Distance(a, b) == IF a.x < b.x THEN b.x - a.x ELSE a.x - b.x

(* The first odometry message of each second, in order.                    *)
PathSamples(bag) ==
  LET poses == SortSeq(Odometry(bag),
                 LAMBDA a, b : \/ a.time < b.time
                               \/ (a.time = b.time /\ a.seq < b.seq))
      SecondOf(m) == m.time \div Second
  IN  SelectSeq([i \in DOMAIN poses |->
                   [second |-> SecondOf(poses[i]) * Second, x |-> poses[i].x,
                    first |-> \A j \in 1..(i - 1) :
                                SecondOf(poses[j]) # SecondOf(poses[i])]],
                LAMBDA s : s.first)

(* edge_prefix: the path length up to each sample.                         *)
EdgePrefix(samples) ==
  LET length[i \in 1..Len(samples)] ==
        IF i = 1 THEN 0
        ELSE length[i - 1] + Distance(samples[i - 1], samples[i])
  IN  length

(* bisect_left over the seconds of the samples.                            *)
Before(samples, time) ==
  Cardinality({i \in DOMAIN samples : samples[i].second < time})

(* Mutant: the edge that leaves the window is counted too.                 *)
PathScoreTrailing(samples, start, end) ==
  LET left == Before(samples, start)
      right == Before(samples, end)
      prefix == EdgePrefix(samples)
  IN  IF right - left > 1
      THEN prefix[IF right < Len(samples) THEN right + 1 ELSE right]
             - prefix[left + 1]
      ELSE 0

PathScore(samples, start, end) ==
  LET left == Before(samples, start)
      right == Before(samples, end)
      prefix == EdgePrefix(samples)
  IN  IF right - left > 1 THEN prefix[right] - prefix[left + 1] ELSE 0

Candidates(bag) ==
  LET first == ((Min(Times(bag)) + Second - 1) \div Second) * Second
      last == Max(Times(bag)) + 1 - ShortSeconds * Second
      samples == PathSamples(bag)
      Window(start) ==
        LET end == start + ShortSeconds * Second
            part == Between(bag, start, end)
        IN  [start |-> start, end |-> end,
             clouds |-> Len(Clouds(part)), odometry |-> Len(Odometry(part)),
             score |-> PathScore(samples, start, end)]
  IN  {w \in {Window(s) : s \in {t \in first..last : t % Second = 0}} :
         w.clouds >= MinimumClouds /\ w.odometry >= MinimumOdometry}

(* The longest path, and of equals the earliest.                           *)
ShortWindow(bag) ==
  CHOOSE w \in Candidates(bag) : \A v \in Candidates(bag) :
    \/ v.score < w.score
    \/ (v.score = w.score /\ w.start <= v.start)
ShortOf(bag) == Between(bag, ShortWindow(bag).start, ShortWindow(bag).end)

(* The counts of a bag.                                                    *)
Counts(bag) == <<Len(Clouds(bag)), Len(Odometry(bag))>>

(* scan_external_source and the checks before the first bag is written.    *)
Convertible(bag) ==
  Counts(bag) = <<ExpectedClouds, ExpectedOdometry>> /\ Candidates(bag) # {}

-----------------------------------------------------------------------------
(* The acquisition.                                                        *)

AcqStep(place) == acq' = place /\ UNCHANGED <<pinned, conversion, accepted>>

AcqFinish(status, source) ==
  /\ acqOut' = [status |-> status, source |-> source]
  /\ staged' = None
  /\ AcqStep("write")
  /\ UNCHANGED <<cache, acqDoc, attempt>>

(* The manifest cannot be read, or does not have the one pinned source.    *)
ManifestRefused == Fault

StartAcquisition ==
  /\ acq = "idle"
  /\ \/ /\ AcqStep("space") /\ attempt' = 0
        /\ UNCHANGED <<cache, acqDoc, staged, acqOut, faults>>
     \/ (ManifestRefused /\ AcqFinish("conflict", None))

CheckSpace ==
  /\ acq = "space"
  /\ \/ /\ AcqStep("archive")
        /\ UNCHANGED <<cache, acqDoc, acqLocal, faults>>
     \/ /\ archive = "absent" \/ extracted = None
        /\ Fault /\ AcqFinish("deferred", None)

KeepArchive ==
  /\ acq = "archive" /\ archive # "absent"
  /\ IF archive = "pinned"
     THEN AcqStep("extracted") /\ UNCHANGED <<cache, acqDoc, acqLocal>>
     ELSE AcqFinish("conflict", None)
  /\ UNCHANGED faults

StartDownload ==
  /\ acq = "archive" /\ archive = "absent"
  /\ AcqStep("download")
  /\ UNCHANGED <<cache, acqDoc, acqLocal, faults>>

(* One attempt: the pinned file, or a network failure that leaves a part,  *)
(* or an answer, a file or a local error that ends the download.           *)
Download ==
  /\ acq = "download"
  /\ \/ /\ staged' = pinned
        /\ AcqStep("promoteArchive")
        /\ UNCHANGED <<cache, acqDoc, attempt, acqOut, faults>>
     \/ /\ Fault /\ attempt + 1 < MaxAttempts
        /\ attempt' = attempt + 1
        /\ \E n \in 0..(Len(pinned) - 1) : staged' = SubSeq(pinned, 1, n)
        /\ AcqStep("download")
        /\ UNCHANGED <<cache, acqDoc, acqOut>>
     \/ /\ Fault /\ attempt + 1 = MaxAttempts
        /\ AcqFinish("deferred", None)
     \/ /\ Fault
        /\ AcqFinish("conflict", None)

PromoteArchive ==
  /\ acq = "promoteArchive"
  /\ IF staged = pinned
     THEN /\ archive' = "pinned" /\ staged' = None
          /\ AcqStep("extracted")
          /\ UNCHANGED <<extracted, acqDoc, attempt, acqOut>>
     ELSE AcqFinish("conflict", None)
  /\ UNCHANGED faults

(* Mutant: an extracted file that is there is a conflict.                  *)
KeepExtractedRefused ==
  /\ acq = "extracted" /\ extracted # None
  /\ AcqFinish("conflict", None)
  /\ UNCHANGED faults

(* An extracted file that is there is kept when its size is right; its     *)
(* checksum is recorded, not compared.                                     *)
KeepExtracted ==
  /\ acq = "extracted" /\ extracted # None
  /\ IF Len(extracted) = Len(pinned)
     THEN AcqFinish("passed", extracted)
     ELSE AcqFinish("conflict", None)
  /\ UNCHANGED faults

Extract ==
  /\ acq = "extracted" /\ extracted = None
  /\ \E n \in {1, Len(pinned) - 1} : staged' = SubSeq(pinned, 1, n)
  /\ AcqStep("extracting")
  /\ UNCHANGED <<cache, acqDoc, attempt, acqOut, faults>>

Extracted ==
  /\ acq = "extracting"
  /\ \/ /\ staged' = pinned
        /\ AcqStep("promoteExtracted")
        /\ UNCHANGED <<cache, acqDoc, attempt, acqOut, faults>>
     \/ (Fault /\ AcqFinish("conflict", None))

PromoteExtracted ==
  /\ acq = "promoteExtracted"
  /\ extracted' = staged /\ staged' = None
  /\ acqOut' = [status |-> "passed", source |-> staged]
  /\ AcqStep("write")
  /\ UNCHANGED <<archive, acqDoc, attempt, faults>>

(* The document is replaced whole; a failure of the write ends the command *)
(* before or after the replacement.                                        *)
WriteAcquisition ==
  /\ acq = "write"
  /\ \/ (acqDoc' = acqOut /\ UNCHANGED faults)
     \/ (acqDoc' \in {acqDoc, acqOut} /\ Fault)
  /\ acqOut' = NoAcquisition /\ attempt' = 0
  /\ AcqStep("idle")
  /\ UNCHANGED <<cache, staged>>

(* Killed, or an OSError that no handler takes.                            *)
CrashAcquisition ==
  /\ acq # "idle" /\ Fault
  /\ staged' = None /\ acqOut' = NoAcquisition /\ attempt' = 0
  /\ AcqStep("idle")
  /\ UNCHANGED <<cache, acqDoc>>

Acquire ==
  \/ StartAcquisition \/ CheckSpace \/ KeepArchive \/ StartDownload
  \/ Download \/ PromoteArchive \/ KeepExtracted \/ Extract \/ Extracted
  \/ PromoteExtracted \/ WriteAcquisition

-----------------------------------------------------------------------------
(* The conversion.                                                         *)

ConvStep(place) == conv' = place /\ UNCHANGED <<pinned, acquisition, accepted>>

(* Mutant: a failed conversion leaves its bundle staged.                   *)
ConvFinishStaged(status) ==
  /\ convOut' = [NoConversion EXCEPT !.status = status]
  /\ ConvStep("write")
  /\ UNCHANGED <<convDoc, found, bundle>>

ConvFinish(status) ==
  /\ convOut' = [NoConversion EXCEPT !.status = status]
  /\ bundle' = NoBundle
  /\ ConvStep("write")
  /\ UNCHANGED <<convDoc, found>>

ConvFails == ConvFinish("conflict") /\ UNCHANGED <<derived>>

(* A missing acquisition result counts as deferred.                        *)
StartConversion ==
  /\ conv = "idle"
  /\ found' = acqDoc
  /\ \/ /\ acqDoc.status = "passed"
        /\ ConvStep("validate") /\ UNCHANGED <<convOut, faults>>
     \/ /\ acqDoc.status # "passed"
        /\ convOut' = [NoConversion EXCEPT !.status =
             IF acqDoc.status = "none" THEN "deferred" ELSE acqDoc.status]
        /\ ConvStep("write") /\ UNCHANGED faults
     \/ /\ ManifestRefused
        /\ convOut' = [NoConversion EXCEPT !.status = "conflict"]
        /\ ConvStep("write")
  /\ UNCHANGED <<derived, convDoc, bundle>>

(* Mutant: the checksum of the source is taken, not compared.              *)
ValidateSourceSize ==
  /\ conv = "validate"
  /\ IF extracted # None /\ Len(extracted) = Len(pinned)
     THEN ConvStep("scan") /\ UNCHANGED <<derived, convDoc, convLocal>>
     ELSE ConvFails
  /\ UNCHANGED faults

ValidateSource ==
  /\ conv = "validate"
  /\ IF extracted = found.source /\ Len(extracted) = Len(pinned)
     THEN ConvStep("scan") /\ UNCHANGED <<derived, convDoc, convLocal>>
     ELSE ConvFails
  /\ UNCHANGED faults

Scan ==
  /\ conv = "scan"
  /\ IF Convertible(Bag(extracted))
     THEN ConvStep("short") /\ UNCHANGED <<derived, convDoc, convLocal>>
     ELSE ConvFails
  /\ UNCHANGED faults

(* convert_messages over a window, or a conflict or local failure.         *)
Convert(name, messages, next) ==
  \/ /\ Ordered(messages)
     /\ bundle' = [bundle EXCEPT ![name] = messages]
     /\ ConvStep(next)
     /\ UNCHANGED <<derived, convDoc, found, convOut, faults>>
  \/ /\ ~Ordered(messages)
     /\ ConvFails
     /\ UNCHANGED faults
  \/ (Fault /\ ConvFails)

ConvertShort ==
  conv = "short" /\ Convert("short", ShortOf(Bag(extracted)), "repeat")

(* The repetition must equal the short bag; it is not part of the bundle.  *)
ConvertRepeat ==
  /\ conv = "repeat"
  /\ IF bundle.short = ShortOf(Bag(extracted))
     THEN ConvStep("full") /\ UNCHANGED <<derived, convDoc, convLocal>>
     ELSE ConvFails
  /\ UNCHANGED faults

ConvertFull == conv = "full" /\ Convert("full", Bag(extracted), "check")

CheckOutput ==
  /\ conv = "check"
  /\ \/ /\ Counts(bundle.short) = <<ShortWindow(Bag(extracted)).clouds,
                                    ShortWindow(Bag(extracted)).odometry>>
        /\ Counts(bundle.full) = <<ExpectedClouds, ExpectedOdometry>>
        /\ ConvStep("promote")
        /\ UNCHANGED <<derived, convDoc, convLocal, faults>>
     \/ (Fault /\ ConvFails)            \* The bags exceed their size limit.

(* An existing destination is a conflict, whoever made it.  When the       *)
(* directory cannot be synchronised the result is a conflict although the  *)
(* bundle is in place.  The look and os.replace are one step: no other     *)
(* command makes or removes the directory while this one runs.             *)
PromoteBundle ==
  /\ conv = "promote"
  /\ \/ /\ derived # NoBundle
        /\ ConvFails /\ UNCHANGED faults
     \/ /\ derived = NoBundle
        /\ derived' = bundle
        /\ \/ /\ convOut' = [status |-> "passed", source |-> extracted,
                             bundle |-> bundle]
              /\ bundle' = NoBundle
              /\ ConvStep("write")
              /\ UNCHANGED <<convDoc, found, faults>>
           \/ Fault /\ ConvFinish("conflict")

WriteConversion ==
  /\ conv = "write"
  /\ \/ (convDoc' = convOut /\ UNCHANGED faults)
     \/ (convDoc' \in {convDoc, convOut} /\ Fault)
  /\ convOut' = NoConversion /\ found' = NoAcquisition
  /\ ConvStep("idle")
  /\ UNCHANGED <<derived, bundle>>

CrashConversion ==
  /\ conv # "idle" /\ Fault
  /\ bundle' = NoBundle /\ convOut' = NoConversion /\ found' = NoAcquisition
  /\ ConvStep("idle")
  /\ UNCHANGED <<derived, convDoc>>

-----------------------------------------------------------------------------
(* The mapping acceptance reads the conversion result and takes the full   *)
(* bag when its counts and its checksum are the recorded ones.             *)

(* Mutant: the counts are compared, the checksum is not.                   *)
TakesByCount ==
  /\ convDoc.status = "passed"
  /\ derived # NoBundle
  /\ Counts(derived.full) = Counts(convDoc.bundle.full)

Takes ==
  /\ convDoc.status = "passed"
  /\ derived # NoBundle
  /\ Counts(derived.full) = Counts(convDoc.bundle.full)
  /\ derived.full = convDoc.bundle.full

TakeFullReplay ==
  /\ Takes
  /\ accepted' = [status |-> "passed", source |-> convDoc.source,
                  bundle |-> derived]
  /\ UNCHANGED <<pinned, acquisition, conversion, faults>>

(* The owner: a file is exchanged or lost, or removed to start over.       *)
Exchanged == {SubSeq(pinned, 1, Len(pinned) - 1), Reverse(pinned),
              [pinned EXCEPT ![Len(pinned)].x = @ + 1]}

Owner ==
  /\ acq = "idle" /\ conv = "idle"
  /\ \/ /\ Fault
        /\ \/ archive' \in {"absent", "other"} /\ UNCHANGED extracted
           \/ extracted' \in Exchanged \cup {None} /\ UNCHANGED archive
        /\ UNCHANGED derived
     \/ /\ derived # NoBundle /\ derived' = NoBundle
        /\ UNCHANGED <<cache, faults>>
  /\ UNCHANGED <<pinned, acqDoc, convDoc, acq, conv, acqLocal, convLocal,
                 accepted>>

ConvertReplay ==
  \/ StartConversion \/ ValidateSource \/ Scan \/ ConvertShort
  \/ ConvertRepeat \/ ConvertFull \/ CheckOutput \/ PromoteBundle
  \/ WriteConversion

Next ==
  \/ Acquire \/ CrashAcquisition
  \/ ConvertReplay \/ CrashConversion
  \/ TakeFullReplay
  \/ Owner

(* An acquisition that runs goes on, and the command is repeated.          *)
Spec == Init /\ [][Next]_vars /\ WF_vars(Acquire)
-----------------------------------------------------------------------------
(* Properties.                                                             *)

Recordings == Sources \cup UNION {Exchanged, {SubSeq(pinned, 1, n) :
                                              n \in 0..Len(pinned)}}

(* Types: the files hold what the pinned archive, an exchange or a part of *)
(* a copy can put there, and a bundle is staged only while one is made.    *)
TypeOK ==
  /\ pinned \in Sources
  /\ archive \in {"absent", "pinned", "other"}
  /\ {extracted, staged, acqDoc.source, acqOut.source, convDoc.source,
      convOut.source, found.source} \subseteq Recordings
  /\ {derived.full, bundle.full} \subseteq
        {None} \cup {Bag(trace) : trace \in Recordings}
  /\ {acqDoc.status, acqOut.status, convDoc.status, convOut.status,
      found.status} \subseteq {"none", "passed", "deferred", "conflict"}
  /\ acq \in {"idle", "space", "archive", "download", "promoteArchive",
              "extracted", "extracting", "promoteExtracted", "write"}
  /\ conv \in {"idle", "validate", "scan", "short", "repeat", "full",
               "check", "promote", "write"}
  /\ bundle # NoBundle => conv \in {"repeat", "full", "check", "promote"}
  /\ attempt \in 0..(MaxAttempts - 1)
  /\ faults \in 0..MaxFaults

(* The path between the first poses of the seconds of a window, summed     *)
(* over neighbouring seconds: what the prefix sums of the code compute.    *)
Travelled(bag, start, end) ==
  LET poses == {m \in Range(Odometry(bag)) :
                  /\ start <= m.time /\ m.time < end
                  /\ \A n \in Range(Odometry(bag)) :
                       \/ n.time \div Second # m.time \div Second
                       \/ m.time < n.time
                       \/ (m.time = n.time /\ m.seq <= n.seq)}
      Following(m) == {n \in poses : m.time < n.time}
      Next1(m) == CHOOSE n \in Following(m) :
                    \A o \in Following(m) : n.time <= o.time
  IN  MapThenSumSet(LAMBDA m : Distance(m, Next1(m)),
                    {m \in poses : Following(m) # {}})

IsBestWindow(bag, part) ==
  LET Admissible(start) ==
        LET inside == Between(bag, start, start + ShortSeconds * Second)
        IN  /\ Len(Clouds(inside)) >= MinimumClouds
            /\ Len(Odometry(inside)) >= MinimumOdometry
      starts == {t \in Min(Times(bag))..(Max(Times(bag)) + 1
                                          - ShortSeconds * Second) :
                   t % Second = 0 /\ Admissible(t)}
      Path(t) == Travelled(bag, t, t + ShortSeconds * Second)
  IN  \E t \in starts :
        /\ part = Between(bag, t, t + ShortSeconds * Second)
        /\ \A u \in starts : \/ Path(u) < Path(t)
                             \/ (Path(u) = Path(t) /\ t <= u)

(* In the cache a command puts only whole files into free places: the      *)
(* pinned archive and the recording it holds ...                           *)
KeepsSourceWhole ==
  acq # "idle" => /\ archive' # archive => archive' = "pinned"
                  /\ extracted' # extracted =>
                       extracted = None /\ extracted' = pinned

(* ... and a bundle of both bags of the recording whose checksum the       *)
(* acquisition recorded.                                                   *)
BundleOfSource ==
  conv # "idle" /\ derived' # derived =>
    /\ derived = NoBundle
    /\ derived'.full = Bag(found.source)
    /\ derived'.short = ShortOf(derived'.full)
    /\ Counts(derived'.full) = <<ExpectedClouds, ExpectedOdometry>>

(* Whatever stops a command, what it puts into the cache is whole, and the *)
(* short bag is the earliest window of the longest path                    *)
(* (external_replay_conversion_runner.py:48, external_replay_window.py:51). *)
PromotesWhole == [][
  /\ KeepsSourceWhole /\ BundleOfSource
  /\ conv # "idle" /\ derived' # derived =>
       IsBestWindow(derived'.full, derived'.short)]_vars

(* A full bag the mapping acceptance takes is made from the source it is   *)
(* told, and the short bag beside it from the full one, however often the  *)
(* cache was rebuilt and whichever results were lost between the promotion *)
(* of a bundle and the write of its document.                              *)
AcceptedTruthful ==
  accepted.status = "passed" =>
    /\ accepted.bundle.full = Bag(accepted.source)
    /\ accepted.bundle.short = ShortOf(accepted.bundle.full)

(* Once the faults are over and unless the owner left a wrong file, the    *)
(* repeated acquisition completes what earlier runs left and stays passed. *)
AcquisitionRecovers ==
  <>[](archive # "other" /\ Len(extracted) \in {0, Len(pinned)})
    => <>[](acqDoc.status = "passed")
=============================================================================
