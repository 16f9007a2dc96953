------------------------ MODULE ExternalReplayProofs ------------------------
(***************************************************************************)
(* Theorems about the external replay, for every recording, window and     *)
(* number of faults: the types of the cache and of its documents, that a   *)
(* full bag the mapping acceptance takes is made from the source it is     *)
(* told, and that a command puts only whole files into free places.        *)
(***************************************************************************)
EXTENDS ExternalReplay, TLAPS

Statuses == {"none", "passed", "deferred", "conflict"}
Bags == {None} \cup {Bag(trace) : trace \in Recordings}

-----------------------------------------------------------------------------
(* The inductive invariant.                                                *)

(* A file about to be promoted is the whole one, and the place of the      *)
(* extracted recording stays free until it is.                             *)
AcquisitionInv ==
  /\ pinned \in Sources /\ archive \in {"absent", "pinned", "other"}
  /\ extracted \in Recordings /\ staged \in Recordings
  /\ acqDoc.source \in Recordings /\ acqOut.source \in Recordings
  /\ acqDoc.status \in Statuses /\ acqOut.status \in Statuses
  /\ acq \in {"idle", "space", "archive", "download", "promoteArchive",
              "extracted", "extracting", "promoteExtracted", "write"}
  /\ attempt \in 0..(MaxAttempts - 1)
  /\ acq \in {"promoteArchive", "promoteExtracted"} => staged = pinned
  /\ acq \in {"extracting", "promoteExtracted"} => extracted = None

(* A result that passed names the source its bundle was made from.         *)
Truthful(result) ==
  result.status = "passed" =>
    /\ result.bundle.full = Bag(result.source)
    /\ result.bundle.short = ShortOf(result.bundle.full)

Reading == {"scan", "short", "repeat", "full", "check", "promote"}
Staging == {"repeat", "full", "check", "promote"}

ConversionTypes ==
  /\ found.source \in Recordings /\ found.status \in Statuses
  /\ convOut.source \in Recordings /\ convOut.status \in Statuses
  /\ convDoc.source \in Recordings /\ convDoc.status \in Statuses
  /\ derived.full \in Bags
  /\ bundle \in [short : {bundle.short}, full : Bags]
  /\ conv \in {"idle", "validate", "write"} \cup Reading
  /\ bundle # NoBundle => conv \in Staging

(* The source does not change while it is read, and the bags are made from *)
(* it, one by one.                                                         *)
BundleInv ==
  /\ conv \in Reading => extracted = found.source /\ extracted # None
  /\ conv \in Staging => bundle.short = ShortOf(Bag(extracted))
  /\ conv \in {"check", "promote"} => bundle.full = Bag(extracted)
  /\ conv = "promote" => Counts(bundle.full) = <<ExpectedClouds, ExpectedOdometry>>

ResultsInv ==
  /\ derived # NoBundle => derived.short = ShortOf(derived.full)
  /\ Truthful(convOut) /\ Truthful(convDoc) /\ Truthful(accepted)

ReplayInv ==
  /\ AcquisitionInv /\ ConversionTypes /\ BundleInv /\ ResultsInv
  /\ faults \in 0..MaxFaults

-----------------------------------------------------------------------------
(* Recordings, and what is in them.                                        *)

LEMMA RecordingFacts ==
  ASSUME pinned \in Sources
  PROVE  /\ pinned \in Recordings /\ None \in Recordings
         /\ pinned # None /\ Len(pinned) \in Nat \ {0}
         /\ \A n \in 0..Len(pinned) : SubSeq(pinned, 1, n) \in Recordings
         /\ \A trace \in Exchanged : trace \in Recordings
         /\ Len(None) = 0
<1>1. /\ pinned \in Seq(Message) /\ pinned # None
  BY SourcesAssumption
<1>2. Len(pinned) \in Nat \ {0}
  BY <1>1 DEF None
<1>3. \A n \in 0..Len(pinned) : SubSeq(pinned, 1, n) \in Recordings
  BY DEF Recordings
<1>4. None \in Recordings
  <2>1. SubSeq(pinned, 1, 0) = <<>> /\ 0 \in 0..Len(pinned)
    BY <1>1, <1>2
  <2>2. QED BY <1>3, <2>1 DEF None
<1>5. \A trace \in Exchanged : trace \in Recordings
  BY DEF Recordings
<1>6. QED BY <1>1, <1>2, <1>3, <1>4, <1>5 DEF Recordings, None

LEMMA FaultFacts ==
  ASSUME faults \in 0..MaxFaults, Fault \/ UNCHANGED faults
  PROVE  faults' \in 0..MaxFaults
BY FaultAssumption DEF Fault

LEMMA InitReplayInv == Init => ReplayInv
<1> SUFFICES ASSUME Init PROVE ReplayInv
  OBVIOUS
<1>1. None \in Recordings /\ None \in Bags
  BY RecordingFacts DEF Init, Bags
<1>2. AcquisitionInv
  BY <1>1, CountAssumption DEF Init, AcquisitionInv, NoAcquisition, Statuses
<1>3. ConversionTypes
  BY <1>1 DEF Init, ConversionTypes, NoAcquisition, NoConversion, NoBundle, Statuses
<1>4. BundleInv
  BY DEF Init, BundleInv, Reading, Staging
<1>5. ResultsInv
  BY DEF Init, ResultsInv, Truthful, NoConversion
<1>6. QED BY <1>2, <1>3, <1>4, <1>5, FaultAssumption DEF Init, ReplayInv

LEMMA TypesFollow == ReplayInv => TypeOK
BY DEF ReplayInv, AcquisitionInv, ConversionTypes, TypeOK, Statuses, Bags, Reading, Staging

-----------------------------------------------------------------------------
(* What a step of the one command leaves to the other.                     *)

LEMMA AcquisitionKept ==
  ASSUME AcquisitionInv, UNCHANGED <<pinned, acquisition>>
  PROVE  AcquisitionInv'
<1>1. UNCHANGED <<pinned, archive, extracted, acqDoc, acq, attempt, staged, acqOut>>
  BY DEF acquisition
<1>2. Recordings' = Recordings
  BY <1>1 DEF Recordings, Exchanged
<1>3. QED BY <1>1, <1>2 DEF AcquisitionInv

LEMMA ConversionKept ==
  ASSUME ConversionTypes, BundleInv, ResultsInv, UNCHANGED <<pinned, conversion, accepted>>,
         extracted' = extracted \/ conv \notin Reading
  PROVE  ConversionTypes' /\ BundleInv' /\ ResultsInv'
<1>1. UNCHANGED <<pinned, derived, convDoc, conv, found, bundle, convOut, accepted>>
  BY DEF conversion
<1>2. Recordings' = Recordings /\ Bags' = Bags
  BY <1>1 DEF Recordings, Exchanged, Bags
<1>3. ConversionTypes'
  BY <1>1, <1>2 DEF ConversionTypes
<1>4. BundleInv'
  BY <1>1 DEF BundleInv, Reading, Staging
<1>5. ResultsInv'
  BY <1>1 DEF ResultsInv, Truthful
<1>6. QED BY <1>3, <1>4, <1>5

-----------------------------------------------------------------------------
(* The acquisition.                                                        *)

(* A command that is done with its result has staged nothing.              *)
LEMMA AcqFinishFacts ==
  ASSUME AcquisitionInv, NEW status \in Statuses, NEW source \in Recordings,
         AcqFinish(status, source)
  PROVE  /\ AcquisitionInv' /\ extracted' = extracted
         /\ UNCHANGED <<pinned, conversion, accepted>>
<1>1. /\ UNCHANGED <<pinned, archive, extracted, acqDoc, attempt>>
      /\ acqOut' = [status |-> status, source |-> source] /\ staged' = None
      /\ acq' = "write" /\ UNCHANGED <<conversion, accepted>>
  BY DEF AcqFinish, AcqStep, cache
<1>2. Recordings' = Recordings /\ None \in Recordings
  BY <1>1, RecordingFacts DEF Recordings, Exchanged, AcquisitionInv
<1>3. QED BY <1>1, <1>2 DEF AcquisitionInv

LEMMA AcquireKeeps ==
  ASSUME ReplayInv, Acquire \/ CrashAcquisition
  PROVE  /\ AcquisitionInv' /\ UNCHANGED <<pinned, conversion, accepted>>
         /\ extracted' = extracted \/ conv \notin Reading
<1> DEFINE Moved == UNCHANGED <<pinned, conversion, accepted>>
           Done == AcquisitionInv' /\ Moved /\ (extracted' = extracted \/ conv \notin Reading)
           Local == UNCHANGED <<archive, extracted, acqDoc, attempt, staged, acqOut>>
<1>a. pinned' = pinned => Recordings' = Recordings
  BY DEF Recordings, Exchanged
<1>b. AcquisitionInv /\ pinned \in Sources
  BY DEF ReplayInv, AcquisitionInv
<1>c. /\ pinned \in Recordings /\ None \in Recordings /\ Len(pinned) \in Nat \ {0}
      /\ \A n \in 0..Len(pinned) : SubSeq(pinned, 1, n) \in Recordings
  BY <1>b, RecordingFacts
<1>d. {"passed", "deferred", "conflict"} \subseteq Statuses
  BY DEF Statuses
<1>e. ASSUME NEW status \in {"passed", "deferred", "conflict"}, NEW source \in Recordings,
             AcqFinish(status, source)
      PROVE  Done
  BY <1>b, <1>d, <1>e, AcqFinishFacts
<1>f. ASSUME NEW place \in {"space", "archive", "download", "extracted"},
             AcqStep(place), UNCHANGED <<archive, extracted, acqDoc, staged, acqOut>>,
             attempt' = attempt \/ attempt' = 0
      PROVE  Done
  <2>1. acq' = place /\ Moved /\ pinned' = pinned
    BY <1>f DEF AcqStep
  <2>2. attempt' \in 0..(MaxAttempts - 1)
    BY <1>b, <1>f, CountAssumption DEF AcquisitionInv
  <2>3. QED BY <1>a, <1>b, <1>f, <2>1, <2>2 DEF AcquisitionInv
<1>1. CASE StartAcquisition
  BY <1>c, <1>e, <1>f, <1>1 DEF StartAcquisition, cache
<1>2. CASE CheckSpace
  BY <1>c, <1>e, <1>f, <1>2 DEF CheckSpace, cache, acqLocal
<1>3. CASE KeepArchive
  BY <1>c, <1>e, <1>f, <1>3 DEF KeepArchive, cache, acqLocal
<1>4. CASE StartDownload
  BY <1>f, <1>4 DEF StartDownload, cache, acqLocal
<1>5. CASE Download
  <2>1. ASSUME staged' = pinned, AcqStep("promoteArchive"),
               UNCHANGED <<cache, acqDoc, attempt, acqOut>>
        PROVE  Done
    BY <1>a, <1>b, <1>c, <2>1 DEF AcqStep, cache, AcquisitionInv
  <2>2. ASSUME attempt + 1 < MaxAttempts, attempt' = attempt + 1, AcqStep("download"),
               \E n \in 0..(Len(pinned) - 1) : staged' = SubSeq(pinned, 1, n),
               UNCHANGED <<cache, acqDoc, acqOut>>
        PROVE  Done
    <3>1. staged' \in Recordings
      BY <1>c, <2>2
    <3>2. attempt' \in 0..(MaxAttempts - 1)
      BY <1>b, <2>2, CountAssumption DEF AcquisitionInv
    <3>3. QED BY <1>a, <1>b, <2>2, <3>1, <3>2 DEF AcqStep, cache, AcquisitionInv
  <2>3. QED BY <1>c, <1>e, <1>5, <2>1, <2>2 DEF Download
<1>6. CASE PromoteArchive
  <2>1. ASSUME archive' = "pinned", staged' = None, AcqStep("extracted"),
               UNCHANGED <<extracted, acqDoc, attempt, acqOut>>
        PROVE  Done
    BY <1>a, <1>b, <1>c, <2>1 DEF AcqStep, AcquisitionInv
  <2>2. QED BY <1>c, <1>e, <1>6, <2>1 DEF PromoteArchive
<1>7. CASE KeepExtracted
  <2>1. extracted \in Recordings
    BY <1>b DEF AcquisitionInv
  <2>2. QED BY <1>c, <1>e, <1>7, <2>1 DEF KeepExtracted
<1>8. CASE Extract
  <2>1. PICK n \in {1, Len(pinned) - 1} : staged' = SubSeq(pinned, 1, n)
    BY <1>8 DEF Extract
  <2>2. n \in 0..Len(pinned)
    BY <1>c
  <2>3. staged' \in Recordings
    BY <1>c, <2>1, <2>2
  <2>4. /\ extracted = None /\ acq' = "extracting" /\ Moved
        /\ UNCHANGED <<pinned, archive, extracted, acqDoc, attempt, acqOut>>
    BY <1>8 DEF Extract, AcqStep, cache
  <2>5. QED BY <1>a, <1>b, <2>3, <2>4 DEF AcquisitionInv
<1>9. CASE Extracted
  <2>1. ASSUME staged' = pinned, AcqStep("promoteExtracted"), acq = "extracting",
               UNCHANGED <<cache, acqDoc, attempt, acqOut>>
        PROVE  Done
    BY <1>a, <1>b, <1>c, <2>1 DEF AcqStep, cache, AcquisitionInv
  <2>2. QED BY <1>c, <1>e, <1>9, <2>1 DEF Extracted
<1>10. CASE PromoteExtracted
  <2>1. /\ acq = "promoteExtracted" /\ extracted' = staged /\ staged' = None
        /\ acqOut' = [status |-> "passed", source |-> staged]
        /\ acq' = "write" /\ Moved /\ UNCHANGED <<pinned, archive, acqDoc, attempt>>
    BY <1>10 DEF PromoteExtracted, AcqStep
  <2>2. staged = pinned /\ extracted = None
    BY <1>b, <2>1 DEF AcquisitionInv
  <2>3. conv \notin Reading
    BY <2>2 DEF ReplayInv, BundleInv
  <2>4. QED BY <1>a, <1>b, <1>c, <1>d, <2>1, <2>2, <2>3 DEF AcquisitionInv
<1>11. CASE WriteAcquisition
  <2>1. /\ acqDoc' \in {acqDoc, acqOut} /\ acqOut' = NoAcquisition /\ attempt' = 0
        /\ acq' = "idle" /\ Moved /\ UNCHANGED <<pinned, archive, extracted, staged>>
    BY <1>11 DEF WriteAcquisition, AcqStep, cache
  <2>2. NoAcquisition.status \in Statuses /\ NoAcquisition.source \in Recordings
    BY <1>c DEF NoAcquisition, Statuses
  <2>3. QED BY <1>a, <1>b, <2>1, <2>2, CountAssumption DEF AcquisitionInv
<1>12. CASE CrashAcquisition
  <2>1. /\ acqDoc' = acqDoc /\ acqOut' = NoAcquisition /\ attempt' = 0 /\ staged' = None
        /\ acq' = "idle" /\ Moved /\ UNCHANGED <<pinned, archive, extracted>>
    BY <1>12 DEF CrashAcquisition, AcqStep, cache
  <2>2. NoAcquisition.status \in Statuses /\ NoAcquisition.source \in Recordings
    BY <1>c DEF NoAcquisition, Statuses
  <2>3. QED BY <1>a, <1>b, <1>c, <2>1, <2>2, CountAssumption DEF AcquisitionInv
<1>13. Done
  BY <1>1, <1>2, <1>3, <1>4, <1>5, <1>6, <1>7, <1>8, <1>9, <1>10, <1>11, <1>12 DEF Acquire
<1>14. QED BY <1>13

LEMMA AcquireStep ==
  ASSUME ReplayInv, Acquire \/ CrashAcquisition
  PROVE  ReplayInv'
<1>1. Fault \/ UNCHANGED faults
  BY DEF Acquire, CrashAcquisition, StartAcquisition, ManifestRefused, CheckSpace, KeepArchive,
         StartDownload, Download, PromoteArchive, KeepExtracted, Extract, Extracted,
         PromoteExtracted, WriteAcquisition
<1>2. faults' \in 0..MaxFaults
  BY <1>1, FaultFacts DEF ReplayInv
<1>3. AcquisitionInv'
  BY AcquireKeeps
<1>4. ConversionTypes' /\ BundleInv' /\ ResultsInv'
  BY AcquireKeeps, ConversionKept DEF ReplayInv
<1>5. QED BY <1>2, <1>3, <1>4 DEF ReplayInv

-----------------------------------------------------------------------------
(* The conversion.                                                         *)

(* A conversion that fails has no bundle, and its result claims nothing.   *)
LEMMA ConvFinishFacts ==
  ASSUME ReplayInv, NEW status \in Statuses, status # "passed", ConvFinish(status),
         derived' = derived \/ (derived'.full \in Bags /\ derived'.short = ShortOf(derived'.full))
  PROVE  ConversionTypes' /\ BundleInv' /\ ResultsInv'
<1>1. /\ convOut' = [status |-> status, source |-> None, bundle |-> NoBundle]
      /\ bundle' = NoBundle /\ conv' = "write"
      /\ UNCHANGED <<pinned, acquisition, accepted, convDoc, found>>
  BY DEF ConvFinish, ConvStep, NoConversion
<1>2. Recordings' = Recordings /\ Bags' = Bags /\ None \in Recordings /\ None \in Bags
  <2>1. Recordings' = Recordings /\ Bags' = Bags
    BY <1>1 DEF Recordings, Exchanged, Bags
  <2>2. None \in Recordings /\ None \in Bags
    BY RecordingFacts DEF Bags, ReplayInv, AcquisitionInv
  <2>3. QED BY <2>1, <2>2
<1>3. ConversionTypes'
  BY <1>1, <1>2 DEF ReplayInv, ConversionTypes, NoBundle
<1>4. BundleInv'
  BY <1>1 DEF BundleInv, Reading, Staging
<1>5. ResultsInv'
  BY <1>1 DEF ReplayInv, ResultsInv, Truthful
<1>6. QED BY <1>3, <1>4, <1>5

LEMMA ConvertReplayKeeps ==
  ASSUME ReplayInv, ConvertReplay \/ CrashConversion
  PROVE  ConversionTypes' /\ BundleInv' /\ ResultsInv'
<1> DEFINE Kept == ConversionTypes' /\ BundleInv' /\ ResultsInv'
<1> SUFFICES Kept
  OBVIOUS
<1>a. /\ UNCHANGED <<pinned, extracted, accepted>> /\ UNCHANGED acquisition
      /\ Recordings' = Recordings /\ Bags' = Bags
  <2>1. UNCHANGED <<pinned, acquisition, accepted>>
    BY DEF ConvertReplay, CrashConversion, StartConversion, ValidateSource, Scan, ConvertShort,
           ConvertRepeat, ConvertFull, Convert, CheckOutput, PromoteBundle, WriteConversion,
           ConvFails, ConvFinish, ConvStep
  <2>2. QED BY <2>1 DEF acquisition, Recordings, Exchanged, Bags
<1>b. /\ None \in Recordings /\ None \in Bags /\ Len(pinned) \in Nat \ {0} /\ Len(None) = 0
      /\ extracted \in Recordings /\ acqDoc.source \in Recordings /\ acqDoc.status \in Statuses
  BY RecordingFacts DEF Bags, ReplayInv, AcquisitionInv
<1>c. ConversionTypes /\ BundleInv /\ ResultsInv
  BY DEF ReplayInv
<1>d. {"passed", "deferred", "conflict", "none"} = Statuses
  BY DEF Statuses
<1>e. ASSUME ConvFails PROVE Kept
  BY <1>d, <1>e, ConvFinishFacts DEF ConvFails
<1>f. ASSUME NEW place \in {"scan", "short", "full"},
             ConvStep(place), UNCHANGED <<derived, convDoc, convLocal>>,
             extracted = found.source /\ extracted # None,
             place = "full" => conv = "repeat",
             place # "full" => bundle = NoBundle
      PROVE  Kept
  <2>1. conv' = place /\ UNCHANGED <<derived, convDoc, found, bundle, convOut>>
    BY <1>f DEF ConvStep, convLocal
  <2>2. ConversionTypes'
    BY <1>a, <1>c, <1>f, <2>1 DEF ConversionTypes, Reading, Staging
  <2>3. BundleInv'
    BY <1>a, <1>c, <1>f, <2>1 DEF BundleInv, Reading, Staging
  <2>4. ResultsInv'
    BY <1>a, <1>c, <2>1 DEF ResultsInv, Truthful
  <2>5. QED BY <2>2, <2>3, <2>4
<1>1. CASE StartConversion
  <2>1. /\ found' = acqDoc /\ UNCHANGED <<derived, convDoc, bundle>>
        /\ \/ conv' = "validate" /\ convOut' = convOut
           \/ /\ conv' = "write" /\ convOut'.status \in Statuses \ {"passed"}
              /\ convOut'.source = None
        /\ conv = "idle"
    BY <1>b, <1>d, <1>1 DEF StartConversion, ConvStep, NoConversion
  <2>2. bundle = NoBundle
    BY <1>c, <2>1 DEF ConversionTypes, Staging
  <2>3. ConversionTypes'
    BY <1>a, <1>b, <1>c, <2>1, <2>2 DEF ConversionTypes
  <2>4. BundleInv'
    BY <2>1 DEF BundleInv, Reading, Staging
  <2>5. ResultsInv'
    BY <1>a, <1>c, <2>1 DEF ResultsInv, Truthful
  <2>6. QED BY <2>3, <2>4, <2>5
<1>2. CASE ValidateSource
  <2>1. bundle = NoBundle
    BY <1>c, <1>2 DEF ValidateSource, ConversionTypes, Staging
  <2>2. QED BY <1>b, <1>e, <1>f, <1>2, <2>1 DEF ValidateSource
<1>3. CASE Scan
  <2>1. bundle = NoBundle /\ extracted = found.source /\ extracted # None
    BY <1>c, <1>3 DEF Scan, ConversionTypes, BundleInv, Staging, Reading
  <2>2. QED BY <1>e, <1>f, <1>3, <2>1 DEF Scan
<1>g. ASSUME NEW name \in {"short", "full"}, NEW messages, NEW next \in Staging,
             Convert(name, messages, next), conv \in Reading,
             name = "full" => messages \in Bags,
             next \in Staging => [bundle EXCEPT ![name] = messages].short = ShortOf(Bag(extracted)),
             next = "check" => [bundle EXCEPT ![name] = messages].full = Bag(extracted),
             next # "promote"
      PROVE  Kept
  <2>1. CASE ConvFails
    BY <1>e, <2>1
  <2>2. CASE ~ConvFails
    <3>1. /\ bundle' = [bundle EXCEPT ![name] = messages] /\ conv' = next
          /\ UNCHANGED <<derived, convDoc, found, convOut>>
      BY <1>g, <2>2 DEF Convert, ConvStep
    <3>2. /\ bundle' \in [short : {bundle'.short}, full : Bags]
      BY <1>c, <1>g, <3>1 DEF ConversionTypes
    <3>3. ConversionTypes'
      BY <1>a, <1>c, <1>g, <3>1, <3>2 DEF ConversionTypes, Reading, Staging
    <3>4. BundleInv'
      BY <1>a, <1>c, <1>g, <3>1 DEF BundleInv, Reading, Staging
    <3>5. ResultsInv'
      BY <1>a, <1>c, <3>1 DEF ResultsInv, Truthful
    <3>6. QED BY <3>3, <3>4, <3>5
  <2>3. QED BY <2>1, <2>2
<1>4. CASE ConvertShort
  <2>1. /\ conv \in Reading /\ "repeat" \in Staging
        /\ [bundle EXCEPT !["short"] = ShortOf(Bag(extracted))].short = ShortOf(Bag(extracted))
    BY <1>c, <1>4 DEF ConvertShort, ConversionTypes, Reading, Staging
  <2>2. QED BY <1>g, <1>4, <2>1 DEF ConvertShort
<1>5. CASE ConvertRepeat
  <2>1. extracted = found.source /\ extracted # None
    BY <1>c, <1>5 DEF ConvertRepeat, BundleInv, Reading
  <2>2. QED BY <1>e, <1>f, <1>5, <2>1 DEF ConvertRepeat
<1>6. CASE ConvertFull
  <2>1. /\ conv \in Reading /\ "check" \in Staging /\ Bag(extracted) \in Bags
        /\ [bundle EXCEPT !["full"] = Bag(extracted)].short = ShortOf(Bag(extracted))
        /\ [bundle EXCEPT !["full"] = Bag(extracted)].full = Bag(extracted)
    BY <1>b, <1>c, <1>6 DEF ConvertFull, ConversionTypes, BundleInv, Reading, Staging, Bags
  <2>2. QED BY <1>g, <1>6, <2>1 DEF ConvertFull
<1>7. CASE CheckOutput
  <2>1. CASE ConvFails
    BY <1>e, <2>1
  <2>2. CASE ~ConvFails
    <3>1. /\ Counts(bundle.full) = <<ExpectedClouds, ExpectedOdometry>>
          /\ conv = "check" /\ conv' = "promote"
          /\ UNCHANGED <<derived, convDoc, found, bundle, convOut>>
      BY <1>7, <2>2 DEF CheckOutput, ConvStep, convLocal
    <3>2. ConversionTypes'
      BY <1>a, <1>c, <3>1 DEF ConversionTypes, Reading, Staging
    <3>3. BundleInv'
      BY <1>a, <1>c, <3>1 DEF BundleInv, Reading, Staging
    <3>4. ResultsInv'
      BY <1>a, <1>c, <3>1 DEF ResultsInv, Truthful
    <3>5. QED BY <3>2, <3>3, <3>4
  <2>3. QED BY <2>1, <2>2
<1>8. CASE PromoteBundle
  <2>1. /\ conv = "promote" /\ bundle.full = Bag(extracted)
        /\ bundle.short = ShortOf(bundle.full) /\ bundle.full \in Bags
    BY <1>b, <1>c, <1>8 DEF PromoteBundle, BundleInv, ConversionTypes, Staging, Bags
  <2>2. CASE ConvFails
    BY <1>e, <2>2
  <2>3. CASE derived' = bundle /\ ConvFinish("conflict")
    BY <1>d, <2>1, <2>3, ConvFinishFacts
  <2>4. CASE ~ConvFails /\ ~ConvFinish("conflict")
    <3>1. /\ derived' = bundle
          /\ convOut' = [status |-> "passed", source |-> extracted, bundle |-> bundle]
          /\ bundle' = NoBundle /\ conv' = "write" /\ UNCHANGED <<convDoc, found>>
      BY <1>8, <2>4 DEF PromoteBundle, ConvStep
    <3>2. ConversionTypes'
      BY <1>a, <1>b, <1>c, <1>d, <2>1, <3>1 DEF ConversionTypes, NoBundle
    <3>3. BundleInv'
      BY <3>1 DEF BundleInv, Reading, Staging
    <3>4. ResultsInv'
      BY <1>a, <1>c, <2>1, <3>1 DEF ResultsInv, Truthful
    <3>5. QED BY <3>2, <3>3, <3>4
  <2>5. QED BY <1>8, <2>2, <2>3, <2>4 DEF PromoteBundle
<1>9. CASE WriteConversion
  <2>1. /\ conv = "write" /\ convDoc' \in {convDoc, convOut}
        /\ convOut' = NoConversion /\ found' = NoAcquisition /\ conv' = "idle"
        /\ UNCHANGED <<derived, bundle>>
    BY <1>9 DEF WriteConversion, ConvStep
  <2>2. bundle = NoBundle
    BY <1>c, <2>1 DEF ConversionTypes, Staging
  <2>3. ConversionTypes'
    BY <1>a, <1>b, <1>c, <1>d, <2>1, <2>2 DEF ConversionTypes, NoConversion, NoAcquisition
  <2>4. BundleInv'
    BY <2>1 DEF BundleInv, Reading, Staging
  <2>5. ResultsInv'
    BY <1>a, <1>c, <2>1 DEF ResultsInv, Truthful, NoConversion
  <2>6. QED BY <2>3, <2>4, <2>5
<1>10. CASE CrashConversion
  <2>1. /\ bundle' = NoBundle /\ convOut' = NoConversion /\ found' = NoAcquisition
        /\ conv' = "idle" /\ UNCHANGED <<derived, convDoc>>
    BY <1>10 DEF CrashConversion, ConvStep
  <2>2. ConversionTypes'
    BY <1>a, <1>b, <1>c, <1>d, <2>1 DEF ConversionTypes, NoConversion, NoAcquisition, NoBundle
  <2>3. BundleInv'
    BY <2>1 DEF BundleInv, Reading, Staging
  <2>4. ResultsInv'
    BY <1>a, <1>c, <2>1 DEF ResultsInv, Truthful, NoConversion
  <2>5. QED BY <2>2, <2>3, <2>4
<1>11. QED
  BY <1>1, <1>2, <1>3, <1>4, <1>5, <1>6, <1>7, <1>8, <1>9, <1>10 DEF ConvertReplay

LEMMA ConvertReplayStep ==
  ASSUME ReplayInv, ConvertReplay \/ CrashConversion
  PROVE  ReplayInv'
<1>1. UNCHANGED <<pinned, acquisition, accepted>>
  BY DEF ConvertReplay, CrashConversion, StartConversion, ValidateSource, Scan, ConvertShort,
         ConvertRepeat, ConvertFull, Convert, CheckOutput, PromoteBundle, WriteConversion,
         ConvFails, ConvFinish, ConvStep
<1>2. Fault \/ UNCHANGED faults
  BY DEF ConvertReplay, CrashConversion, StartConversion, ManifestRefused, ValidateSource, Scan,
         ConvertShort, ConvertRepeat, ConvertFull, Convert, CheckOutput, PromoteBundle,
         WriteConversion
<1>3. faults' \in 0..MaxFaults
  BY <1>2, FaultFacts DEF ReplayInv
<1>4. AcquisitionInv'
  BY <1>1, AcquisitionKept DEF ReplayInv
<1>5. QED BY <1>3, <1>4, ConvertReplayKeeps DEF ReplayInv

-----------------------------------------------------------------------------
(* The mapping acceptance and the owner of the cache.                      *)

(* The bag taken is the recorded one; the short bag beside it is, as every *)
(* short bag, the window of its full one.                                  *)
LEMMA TakeFullReplayStep ==
  ASSUME ReplayInv, TakeFullReplay
  PROVE  ReplayInv'
<1>1. /\ convDoc.status = "passed" /\ derived # NoBundle
      /\ derived.full = convDoc.bundle.full
      /\ accepted' = [status |-> "passed", source |-> convDoc.source, bundle |-> derived]
      /\ UNCHANGED <<pinned, acquisition, conversion, faults>>
  BY DEF TakeFullReplay, Takes
<1>2. Truthful(accepted)'
  <2>1. derived.full = Bag(convDoc.source) /\ derived.short = ShortOf(derived.full)
    BY <1>1 DEF ReplayInv, ResultsInv, Truthful
  <2>2. QED BY <1>1, <2>1 DEF Truthful
<1>3. AcquisitionInv'
  BY <1>1, AcquisitionKept DEF ReplayInv
<1>4. /\ UNCHANGED <<derived, convDoc, conv, found, bundle, convOut, extracted>>
      /\ Recordings' = Recordings /\ Bags' = Bags
  BY <1>1 DEF conversion, acquisition, Recordings, Exchanged, Bags
<1>5. ConversionTypes' /\ BundleInv'
  BY <1>4 DEF ReplayInv, ConversionTypes, BundleInv
<1>6. ResultsInv'
  BY <1>2, <1>4 DEF ReplayInv, ResultsInv, Truthful
<1>7. QED BY <1>1, <1>3, <1>5, <1>6 DEF ReplayInv

LEMMA OwnerStep ==
  ASSUME ReplayInv, Owner
  PROVE  ReplayInv'
<1>1. /\ acq = "idle" /\ conv = "idle"
      /\ derived' = derived \/ derived' = NoBundle
      /\ archive' \in {archive, "absent", "other"}
      /\ extracted' \in {extracted, None} \cup Exchanged
      /\ UNCHANGED <<pinned, acqDoc, convDoc, acq, conv, attempt, staged, acqOut, found, bundle,
                     convOut, accepted>>
  BY DEF Owner, cache, acqLocal, convLocal
<1>2. Recordings' = Recordings /\ Bags' = Bags
  BY <1>1 DEF Recordings, Exchanged, Bags
<1>3. None \in Recordings /\ None \in Bags /\ \A trace \in Exchanged : trace \in Recordings
  BY RecordingFacts DEF Bags, ReplayInv, AcquisitionInv
<1>4. AcquisitionInv'
  BY <1>1, <1>2, <1>3 DEF ReplayInv, AcquisitionInv
<1>5. ConversionTypes'
  BY <1>1, <1>2, <1>3 DEF ReplayInv, ConversionTypes, NoBundle
<1>6. BundleInv'
  BY <1>1 DEF BundleInv, Reading, Staging
<1>7. ResultsInv'
  BY <1>1 DEF ReplayInv, ResultsInv, Truthful
<1>8. Fault \/ UNCHANGED faults
  BY DEF Owner
<1>9. faults' \in 0..MaxFaults
  BY <1>8, FaultFacts DEF ReplayInv
<1>10. QED BY <1>4, <1>5, <1>6, <1>7, <1>9 DEF ReplayInv

-----------------------------------------------------------------------------
(* The theorems.                                                           *)

(* What the two commands, the cache and the documents agree on always      *)
(* holds.                                                                  *)
THEOREM ReplayInvariant == Spec => []ReplayInv
<1>1. Init => ReplayInv
  BY InitReplayInv
<1>2. ReplayInv /\ [Next]_vars => ReplayInv'
  <2> SUFFICES ASSUME ReplayInv, [Next]_vars
               PROVE  ReplayInv'
    OBVIOUS
  <2>1. CASE UNCHANGED vars
    <3>1. UNCHANGED <<pinned, acquisition, conversion, accepted, faults>> /\ extracted' = extracted
      BY <2>1 DEF vars, acquisition, conversion
    <3>2. AcquisitionInv'
      BY <3>1, AcquisitionKept DEF ReplayInv
    <3>3. ConversionTypes' /\ BundleInv' /\ ResultsInv'
      BY <3>1, ConversionKept DEF ReplayInv
    <3>4. QED BY <3>1, <3>2, <3>3 DEF ReplayInv
  <2>2. QED
    BY <2>1, AcquireStep, ConvertReplayStep, TakeFullReplayStep, OwnerStep DEF Next
<1>3. QED BY <1>1, <1>2, PTL DEF Spec

(* Every file, document and staged bundle keeps its type, whichever files  *)
(* the owner exchanges and wherever the two commands stop                  *)
(* (external_replay_acquisition_runner.py:171).                            *)
THEOREM TypeCorrect == Spec => []TypeOK
BY ReplayInvariant, TypesFollow, PTL

(* A full bag the mapping acceptance takes is made from the source its     *)
(* document names, and the short bag beside it from the full one, although *)
(* bundle and document may be of different runs (mapping_runtime_data.py:122). *)
THEOREM TakenIsTruthful == Spec => []AcceptedTruthful
<1>1. ReplayInv => AcceptedTruthful
  BY DEF ReplayInv, ResultsInv, Truthful, AcceptedTruthful
<1>2. QED BY <1>1, ReplayInvariant, PTL

(* A command puts only whole files into free places: the pinned archive,   *)
(* its recording, and both bags of the recording whose checksum was        *)
(* recorded, with the pinned counts (external_replay_converter.py:151).    *)
THEOREM PromotesWholeFiles == Spec => [][KeepsSourceWhole /\ BundleOfSource]_vars
<1>1. ReplayInv /\ [Next]_vars => [KeepsSourceWhole /\ BundleOfSource]_vars
  <2> SUFFICES ASSUME ReplayInv, Next
               PROVE  KeepsSourceWhole /\ BundleOfSource
    OBVIOUS
  <2>1. CASE Acquire \/ CrashAcquisition
    <3>1. derived' = derived
      BY <2>1, AcquireKeeps DEF conversion
    <3>2. CASE PromoteArchive
      BY <3>1, <3>2
         DEF PromoteArchive, AcqFinish, AcqStep, cache, KeepsSourceWhole, BundleOfSource
    <3>3. CASE PromoteExtracted
      <4>1. /\ acq = "promoteExtracted" /\ extracted' = staged /\ archive' = archive
        BY <3>3 DEF PromoteExtracted
      <4>2. staged = pinned /\ extracted = None
        BY <4>1 DEF ReplayInv, AcquisitionInv
      <4>3. QED BY <3>1, <4>1, <4>2 DEF KeepsSourceWhole, BundleOfSource
    <3>4. CASE ~PromoteArchive /\ ~PromoteExtracted
      <4>1. UNCHANGED <<archive, extracted>>
        BY <2>1, <3>4
           DEF Acquire, CrashAcquisition, StartAcquisition, CheckSpace, KeepArchive,
               StartDownload, Download, KeepExtracted, Extract, Extracted, WriteAcquisition,
               AcqFinish, cache
      <4>2. QED BY <3>1, <4>1 DEF KeepsSourceWhole, BundleOfSource
    <3>5. QED BY <3>2, <3>3, <3>4
  <2>2. CASE ConvertReplay \/ CrashConversion
    <3>1. UNCHANGED <<archive, extracted>>
      BY <2>2 DEF ConvertReplay, CrashConversion, StartConversion, ValidateSource, Scan,
           ConvertShort, ConvertRepeat, ConvertFull, Convert, CheckOutput, PromoteBundle,
           WriteConversion, ConvFails, ConvFinish, ConvStep, acquisition
    <3>2. CASE derived' = derived
      BY <3>1, <3>2 DEF KeepsSourceWhole, BundleOfSource
    <3>3. CASE derived' # derived
      <4>1. /\ conv = "promote" /\ derived = NoBundle /\ derived' = bundle
        BY <2>2, <3>3
           DEF ConvertReplay, CrashConversion, StartConversion, ValidateSource, Scan,
               ConvertShort, ConvertRepeat, ConvertFull, Convert, CheckOutput, PromoteBundle,
               WriteConversion, ConvFails
      <4>2. /\ bundle.full = Bag(found.source) /\ bundle.short = ShortOf(bundle.full)
            /\ Counts(bundle.full) = <<ExpectedClouds, ExpectedOdometry>>
        BY <4>1 DEF ReplayInv, BundleInv, Reading, Staging
      <4>3. QED BY <3>1, <4>1, <4>2 DEF KeepsSourceWhole, BundleOfSource
    <3>4. QED BY <3>2, <3>3
  <2>3. CASE TakeFullReplay \/ Owner
    BY <2>3 DEF TakeFullReplay, Owner, acquisition, conversion, KeepsSourceWhole, BundleOfSource
  <2>4. QED BY <2>1, <2>2, <2>3 DEF Next
<1>2. QED BY <1>1, ReplayInvariant, PTL DEF Spec
=============================================================================
