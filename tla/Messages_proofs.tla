--------------------------- MODULE Messages_proofs ---------------------------
(***************************************************************************)
(* What a message may rely on, for every number of drafts, parts, images,  *)
(* drives, segments and runs: its media are stored as recorded, its images *)
(* are found by every reader, its audio is heard whole or not at all, and  *)
(* nothing is published on the word of audio nobody heard.                 *)
(***************************************************************************)
EXTENDS Intake, Media, Pipeline, FiniteSetTheorems, TLAPS

-----------------------------------------------------------------------------
(* Images.  What the readers resolve to is found because a derived copy is *)
(* recorded only after both objects were written, and because a drive that *)
(* deletes the received bytes, or stamps their removal, holds an image     *)
(* whose normalized row is verified: no step of another drive takes that   *)
(* back.                                                                   *)

ImageRows == [removed : BOOLEAN, processing : BOOLEAN,
              normalized : {"none", "recorded", "verified"}, originals : Nat]
DriveShapes == [step : DriveSteps \union {"none"}, image : Images \union {NoImage},
                heard : BOOLEAN, plan : [Images -> RetentionSteps]]

ImagesWellFormed ==
  /\ reps \in [Images -> ImageRows]
  /\ objects \in [Images -> ObjectRows]
  /\ drives \in [Drives -> DriveShapes]

RecordedIsWritten ==
  \A i \in Images : reps[i].normalized # "none" => objects[i].derived = "both"
RemovedIsVerified ==
  \A i \in Images :
    /\ reps[i].removed => ~objects[i].received
    /\ ~objects[i].received => reps[i].normalized = "verified"
DrivesAreSafe ==
  \A d \in Drives, i \in Images : drives[d].image = i =>
    /\ drives[d].step = "record" => objects[i].derived = "both"
    /\ drives[d].step \in {"delete", "stamp"} => reps[i].normalized = "verified"
    /\ drives[d].step = "stamp" => ~objects[i].received

ImagesInv ==
  /\ ImagesWellFormed
  /\ RecordedIsWritten
  /\ RemovedIsVerified
  /\ DrivesAreSafe

LEMMA ImagesInvInit == MediaInit => ImagesInv
<1> SUFFICES ASSUME MediaInit PROVE ImagesInv
  OBVIOUS
<1>1. reps \in [Images -> ImageRows] /\ objects \in [Images -> ObjectRows]
  BY DEF MediaInit, ImageRows, ObjectRows
<1>2. drives \in [Drives -> DriveShapes]
  BY DEF MediaInit, NoDrive, NoPlan, DriveShapes, RetentionSteps
<1>3. RecordedIsWritten /\ RemovedIsVerified
  BY DEF MediaInit, RecordedIsWritten, RemovedIsVerified
<1>4. DrivesAreSafe
  BY DEF MediaInit, NoDrive, DrivesAreSafe
<1> QED
  BY <1>1, <1>2, <1>3, <1>4 DEF ImagesInv, ImagesWellFormed

(* Rows and objects that only gain evidence.                               *)
EvidenceGrows ==
  \A i \in Images :
    /\ objects[i].derived = "both" => objects'[i].derived = "both"
    /\ reps[i].normalized = "verified" => reps'[i].normalized = "verified"
    /\ ~objects[i].received => ~objects'[i].received

(* A drive that moves to another step, of the image it holds or another.   *)
DriveMoves(d) ==
  /\ drives' \in [Drives -> DriveShapes]
  /\ \A e \in Drives \ {d} : drives'[e] = drives[e]

LEMMA OneDriveMoves ==
  ASSUME ImagesInv, NEW d \in Drives, DriveMoves(d), EvidenceGrows,
         \A i \in Images : drives'[d].image = i =>
           /\ drives'[d].step = "record" => objects'[i].derived = "both"
           /\ drives'[d].step \in {"delete", "stamp"} => reps'[i].normalized = "verified"
           /\ drives'[d].step = "stamp" => ~objects'[i].received
  PROVE  DrivesAreSafe'
BY DEF ImagesInv, DriveMoves, EvidenceGrows, DrivesAreSafe

(* The shapes of the drives' own moves.                                    *)
LEMMA Steps ==
  ASSUME ImagesInv, NEW d \in Drives, NEW s \in DriveSteps \union {"none"}, Step(d, s)
  PROVE  /\ DriveMoves(d)
         /\ drives'[d].step = s /\ drives'[d].image = drives[d].image
BY DEF ImagesInv, ImagesWellFormed, Step, DriveMoves, DriveShapes

LEMMA NothingMoves ==
  ASSUME ImagesInv, UNCHANGED <<reps, objects>>
  PROVE  EvidenceGrows /\ RecordedIsWritten' /\ RemovedIsVerified'
BY DEF EvidenceGrows, ImagesInv, RecordedIsWritten, RemovedIsVerified

LEMMA JobStepsKeep ==
  ASSUME ImagesInv, NEW d \in Drives,
         \/ StartDrive(d) \/ RecordAttemptOutcome(d) \/ CallTimesOut(d) \/ DriveDies(d)
         \/ ResumeCleanup(d)
  PROVE  ImagesInv'
<1>1. UNCHANGED <<reps, objects>>
  BY DEF StartDrive, RecordAttemptOutcome, CallTimesOut, DriveDies, ResumeCleanup
<1>2. EvidenceGrows /\ RecordedIsWritten' /\ RemovedIsVerified'
  BY <1>1, NothingMoves
<1>3. NoDrive \in DriveShapes
  BY DEF NoDrive, NoPlan, DriveShapes, RetentionSteps
<1>4. CASE drives' = drives
  BY <1>1, <1>2, <1>4 DEF ImagesInv, ImagesWellFormed, DrivesAreSafe
<1>5. ASSUME DriveMoves(d),
             \A i \in Images : drives'[d].image = i =>
               /\ drives'[d].step \notin {"record", "stamp"}
               /\ drives'[d].step = "delete" => reps[i].normalized = "verified"
      PROVE  ImagesInv'
  <2>1. DrivesAreSafe'
    BY <1>1, <1>2, <1>5, OneDriveMoves
  <2> QED
    BY <1>1, <1>2, <1>5, <2>1 DEF ImagesInv, ImagesWellFormed, DriveMoves
<1>6. CASE StartDrive(d) /\ drives' # drives
  <2>1. [NoDrive EXCEPT !.step = "called", !.heard = TRUE] \in DriveShapes
    BY <1>3 DEF DriveShapes, DriveSteps
  <2>2. [NoDrive EXCEPT !.step = "called", !.heard = TRUE].step = "called"
    BY DEF NoDrive
  <2>3. drives' = [drives EXCEPT ![d] = [NoDrive EXCEPT !.step = "called", !.heard = TRUE]]
    BY <1>6 DEF StartDrive
  <2>4. DriveMoves(d) /\ drives'[d].step = "called"
    BY <2>1, <2>2, <2>3 DEF ImagesInv, ImagesWellFormed, DriveMoves
  <2> QED
    BY <1>5, <2>4
<1>7. CASE RecordAttemptOutcome(d)
  <2>1. Step(d, "none")
    BY <1>7 DEF RecordAttemptOutcome, Step
  <2> QED
    BY <1>5, <2>1, Steps
<1>8. CASE CallTimesOut(d)
  <2>1. DriveMoves(d) /\ drives'[d].step = drives[d].step /\ drives'[d].image = drives[d].image
    BY <1>8 DEF CallTimesOut, ImagesInv, ImagesWellFormed, DriveMoves, DriveShapes
  <2>2. DrivesAreSafe'
    BY <1>1, <1>2, <2>1, OneDriveMoves DEF ImagesInv, DrivesAreSafe
  <2> QED
    BY <1>1, <1>2, <2>1, <2>2 DEF ImagesInv, ImagesWellFormed, DriveMoves
<1>9. CASE DriveDies(d)
  BY <1>3, <1>5, <1>9 DEF DriveDies, ImagesInv, ImagesWellFormed, DriveMoves, NoDrive
<1>10. CASE ResumeCleanup(d)
  <2>1. PICK i \in Images :
          /\ RetentionStep(reps[i]) = "cleanup"
          /\ drives' = [drives EXCEPT ![d] = [NoDrive EXCEPT !.step = "delete", !.image = i]]
    BY <1>10 DEF ResumeCleanup
  <2>2. reps[i].normalized = "verified"
    BY <2>1 DEF RetentionStep, ImagesInv, ImagesWellFormed, ImageRows
  <2>3. [NoDrive EXCEPT !.step = "delete", !.image = i] \in DriveShapes
    BY DEF NoDrive, NoPlan, DriveShapes, DriveSteps, RetentionSteps
  <2>4. DriveMoves(d) /\ drives'[d].step = "delete" /\ drives'[d].image = i
    BY <2>1, <2>3 DEF ImagesInv, ImagesWellFormed, DriveMoves, NoDrive
  <2> QED
    BY <1>5, <2>2, <2>4
<1> QED
  BY <1>4, <1>6, <1>7, <1>8, <1>9, <1>10

LEMMA PrepareKeeps ==
  ASSUME ImagesInv, NEW d \in Drives, PrepareNormalization(d)
  PROVE  ImagesInv'
<1>1. objects' = objects
  BY DEF PrepareNormalization
<1>2. /\ reps' \in [Images -> ImageRows]
      /\ \A i \in Images : reps'[i].normalized = reps[i].normalized /\ reps'[i].removed = reps[i].removed
  <2>1. ASSUME NEW row \in ImageRows
        PROVE  /\ [row EXCEPT !.processing = TRUE] \in ImageRows
               /\ [row EXCEPT !.processing = TRUE].normalized = row.normalized
               /\ [row EXCEPT !.processing = TRUE].removed = row.removed
    BY DEF ImageRows
  <2>2. CASE reps' = reps
    BY <2>2 DEF ImagesInv, ImagesWellFormed
  <2>3. CASE reps' = [i \in Images |-> IF RetentionStep(reps[i]) = "normalize"
                                      THEN [reps[i] EXCEPT !.processing = TRUE] ELSE reps[i]]
    BY <2>1, <2>3 DEF ImagesInv, ImagesWellFormed
  <2> QED
    BY <2>2, <2>3 DEF PrepareNormalization
<1>3. EvidenceGrows /\ RecordedIsWritten' /\ RemovedIsVerified'
  BY <1>1, <1>2 DEF EvidenceGrows, ImagesInv, RecordedIsWritten, RemovedIsVerified
<1>4. DriveMoves(d) /\ drives'[d].step \in {"between", "refused"}
  <2>1. \A i \in Images : RetentionStep(reps[i]) \in RetentionSteps
    BY DEF RetentionStep, RetentionSteps, ImagesInv, ImagesWellFormed, ImageRows
  <2>2. [i \in Images |-> RetentionStep(reps[i])] \in [Images -> RetentionSteps]
    BY <2>1
  <2>3. CASE Step(d, "refused")
    BY <2>3, Steps DEF DriveSteps
  <2>4. CASE drives' = [drives EXCEPT ![d].step = "between",
                                      ![d].plan = [i \in Images |-> RetentionStep(reps[i])]]
    <3>1. drives \in [Drives -> DriveShapes]
      BY DEF ImagesInv, ImagesWellFormed
    <3>2. \A p \in [Images -> RetentionSteps] :
            [drives[d] EXCEPT !.step = "between", !.plan = p] \in DriveShapes
      BY <3>1 DEF DriveShapes, DriveSteps
    <3>3. drives' = [drives EXCEPT ![d] = [drives[d] EXCEPT !.step = "between",
                                  !.plan = [i \in Images |-> RetentionStep(reps[i])]]]
      BY <2>4
    <3> QED
      BY <2>2, <3>1, <3>2, <3>3 DEF DriveMoves, DriveShapes
  <2> QED
    BY <2>3, <2>4 DEF PrepareNormalization
<1>5. DrivesAreSafe'
  BY <1>3, <1>4, OneDriveMoves
<1> QED
  BY <1>1, <1>2, <1>3, <1>4, <1>5 DEF ImagesInv, ImagesWellFormed, DriveMoves

Taken(row, i, s) == [row EXCEPT !.image = i, !.plan[i] = "none", !.step = s]

LEMMA TakeImageKeeps ==
  ASSUME ImagesInv, NEW d \in Drives, TakeImage(d)
  PROVE  ImagesInv'
<1>1. UNCHANGED <<reps, objects>>
  BY DEF TakeImage
<1>2. DriveMoves(d) /\ drives'[d].step \in {"ok", "convert", "verify"}
  <2>1. CASE Step(d, "ok")
    BY <2>1, Steps DEF DriveSteps
  <2>2. ASSUME NEW i \in Images,
               drives' = [drives EXCEPT ![d].image = i, ![d].plan[i] = "none",
                 ![d].step = IF drives[d].plan[i] = "normalize" \/ objects[i].derived # "both"
                             THEN "convert" ELSE "verify"]
        PROVE  DriveMoves(d) /\ drives'[d].step \in {"ok", "convert", "verify"}
    <3>1. PICK s \in {"convert", "verify"} :
            drives' = [drives EXCEPT ![d].image = i, ![d].plan[i] = "none", ![d].step = s]
      BY <2>2
    <3>2. drives[d] \in DriveShapes
      BY DEF ImagesInv, ImagesWellFormed
    <3>3. drives' = [drives EXCEPT ![d] = Taken(drives[d], i, s)]
      BY <3>1, <3>2 DEF ImagesInv, ImagesWellFormed, Taken, DriveShapes
    <3>4. Taken(drives[d], i, s) \in DriveShapes /\ Taken(drives[d], i, s).step = s
      BY <3>2 DEF Taken, DriveShapes, DriveSteps, RetentionSteps
    <3> QED
      BY <3>3, <3>4 DEF ImagesInv, ImagesWellFormed, DriveMoves
  <2> QED
    BY <2>1, <2>2 DEF TakeImage
<1>3. EvidenceGrows /\ RecordedIsWritten' /\ RemovedIsVerified'
  BY <1>1, NothingMoves
<1>4. DrivesAreSafe'
  BY <1>2, <1>3, OneDriveMoves
<1> QED
  BY <1>1, <1>2, <1>3, <1>4 DEF ImagesInv, ImagesWellFormed, DriveMoves

LEMMA ConvertKeeps ==
  ASSUME ImagesInv, NEW d \in Drives, Convert(d)
  PROVE  ImagesInv'
<1> DEFINE i == drives[d].image
<1>1. reps' = reps
  BY DEF Convert
<1>2. DriveMoves(d) /\ drives'[d].step \in {"retryable", "except", "thumbnail"}
  BY Steps DEF Convert, DriveSteps
<1>3. objects' \in [Images -> ObjectRows]
      /\ \A j \in Images : /\ objects'[j].received = objects[j].received
                           /\ objects[j].derived # "none" => objects'[j].derived = objects[j].derived
  BY DEF Convert, ImagesInv, ImagesWellFormed, ObjectRows
<1>4. EvidenceGrows /\ RecordedIsWritten' /\ RemovedIsVerified'
  BY <1>1, <1>3 DEF EvidenceGrows, ImagesInv, RecordedIsWritten, RemovedIsVerified
<1>5. DrivesAreSafe'
  BY <1>2, <1>4, OneDriveMoves
<1> QED
  BY <1>1, <1>2, <1>3, <1>4, <1>5 DEF ImagesInv, ImagesWellFormed, DriveMoves

LEMMA WriteThumbnailKeeps ==
  ASSUME ImagesInv, NEW d \in Drives, WriteThumbnail(d)
  PROVE  ImagesInv'
<1> DEFINE i == drives[d].image
<1>1. reps' = reps
  BY DEF WriteThumbnail
<1>2. DriveMoves(d) /\ drives'[d].step = "record" /\ drives'[d].image = i
  BY Steps DEF WriteThumbnail, DriveSteps
<1>3. objects' \in [Images -> ObjectRows]
      /\ \A j \in Images : /\ objects'[j].received = objects[j].received
                           /\ objects'[j].derived \in {objects[j].derived, "both"}
                           /\ j = i => objects'[j].derived = "both"
  BY DEF WriteThumbnail, ImagesInv, ImagesWellFormed, ObjectRows
<1>4. EvidenceGrows /\ RecordedIsWritten' /\ RemovedIsVerified'
  BY <1>1, <1>3 DEF EvidenceGrows, ImagesInv, RecordedIsWritten, RemovedIsVerified
<1>5. DrivesAreSafe'
  BY <1>2, <1>3, <1>4, OneDriveMoves
<1> QED
  BY <1>1, <1>2, <1>3, <1>4, <1>5 DEF ImagesInv, ImagesWellFormed, DriveMoves

(* The ledger steps of a drive that record rows.                           *)
LEMMA RecordingKeeps ==
  ASSUME ImagesInv, NEW d \in Drives,
         RecordNormalization(d) \/ RecordException(d) \/ VerifyNormalization(d)
  PROVE  ImagesInv'
<1> DEFINE i == drives[d].image
<1>1. objects' = objects
  BY DEF RecordNormalization, RecordException, VerifyNormalization
<1>2. /\ reps' \in [Images -> ImageRows]
      /\ \A j \in Images :
           /\ reps'[j].removed = reps[j].removed
           /\ reps[j].normalized = "verified" => reps'[j].normalized = "verified"
           /\ reps'[j].normalized # "none" => objects[j].derived = "both"
  <2>1. CASE RecordNormalization(d)
    <3>1. \A j \in Images : j = i => objects[j].derived = "both"
      BY <2>1 DEF RecordNormalization, ImagesInv, DrivesAreSafe
    <3>2. /\ reps' \in [Images -> ImageRows]
          /\ \A j \in Images : \/ reps'[j] = reps[j]
                               \/ j = i /\ reps[j].normalized = "none" /\ reps'[j].removed = reps[j].removed
      <4>1. reps \in [Images -> ImageRows]
        BY DEF ImagesInv, ImagesWellFormed
      <4>2. CASE reps[i].normalized # "none" \/ i \notin Images
        <5>1. reps' = reps
          BY <2>1, <4>1, <4>2 DEF RecordNormalization
        <5> QED
          BY <4>1, <5>1
      <4>3. CASE reps[i].normalized = "none" /\ i \in Images
        <5> DEFINE new == [reps[i] EXCEPT !.normalized = "recorded", !.processing = FALSE]
        <5>1. new \in ImageRows /\ new.removed = reps[i].removed
          BY <4>1, <4>3 DEF ImageRows
        <5>2. reps' = [reps EXCEPT ![i] = new]
          BY <2>1, <4>3 DEF RecordNormalization
        <5> HIDE DEF new, i
        <5> QED
          BY <4>1, <4>3, <5>1, <5>2
      <4> QED
        BY <4>2, <4>3
    <3> QED
      BY <3>1, <3>2 DEF ImagesInv, RecordedIsWritten
  <2>2. CASE RecordException(d)
    <3>1. /\ reps' \in [Images -> ImageRows]
          /\ \A j \in Images : /\ reps'[j].normalized = reps[j].normalized
                               /\ reps'[j].removed = reps[j].removed
      <4>1. CASE reps' = reps
        BY <4>1 DEF ImagesInv, ImagesWellFormed
      <4>2. CASE i \in Images /\ reps' # reps
        <5>1. PICK n \in Nat : reps' = [reps EXCEPT ![i].originals = n, ![i].processing = FALSE]
          <6>1. reps[i].originals \in Nat
            BY <4>2 DEF ImagesInv, ImagesWellFormed, ImageRows
          <6>2. reps[i].originals + 1 \in Nat
            BY <6>1
          <6>3. reps' = [reps EXCEPT ![i].originals = reps[i].originals + 1, ![i].processing = FALSE]
            BY <2>2, <4>2 DEF RecordException
          <6> QED
            BY <6>2, <6>3
        <5> QED
          BY <4>2, <5>1 DEF ImagesInv, ImagesWellFormed, ImageRows
      <4>3. i \in Images \/ reps' = reps
        BY <2>2 DEF RecordException, ImagesInv, ImagesWellFormed
      <4> QED
        BY <4>1, <4>2, <4>3
    <3> QED
      BY <3>1 DEF ImagesInv, RecordedIsWritten
  <2>3. CASE VerifyNormalization(d)
    <3>1. /\ reps' \in [Images -> ImageRows]
          /\ \A j \in Images : \/ reps'[j] = reps[j]
                               \/ /\ reps[j].normalized # "none" /\ reps'[j].removed = reps[j].removed
                                  /\ reps'[j].normalized = "verified"
      BY <2>3 DEF VerifyNormalization, ImagesInv, ImagesWellFormed, ImageRows
    <3> QED
      BY <3>1 DEF ImagesInv, RecordedIsWritten
  <2> QED
    BY <2>1, <2>2, <2>3
<1>3. EvidenceGrows /\ RecordedIsWritten' /\ RemovedIsVerified'
  BY <1>1, <1>2 DEF EvidenceGrows, ImagesInv, RecordedIsWritten, RemovedIsVerified
<1>4. /\ DriveMoves(d) /\ drives'[d].image = i
      /\ drives'[d].step \in {"verify", "between", "refused", "delete"}
      /\ drives'[d].step = "delete" => \A j \in Images : j = i => reps'[j].normalized = "verified"
  <2>1. CASE RecordNormalization(d) \/ RecordException(d)
    <3>1. Step(d, "verify") \/ Step(d, "between")
      BY <2>1 DEF RecordNormalization, RecordException
    <3> QED
      BY <3>1, Steps DEF DriveSteps
  <2>2. CASE VerifyNormalization(d)
    <3>1. CASE reps[i].normalized = "none"
      BY <2>2, <3>1, Steps DEF VerifyNormalization, DriveSteps
    <3>2. CASE reps[i].normalized # "none"
      <4>1. Step(d, "delete") \/ Step(d, "between")
        BY <2>2, <3>2 DEF VerifyNormalization
      <4>2. \A j \in Images : j = i => reps'[j].normalized = "verified"
        BY <2>2, <3>2 DEF VerifyNormalization, ImagesInv, ImagesWellFormed, ImageRows
      <4> QED
        BY <4>1, <4>2, Steps DEF DriveSteps
    <3> QED
      BY <3>1, <3>2
  <2> QED
    BY <2>1, <2>2
<1>5. DrivesAreSafe'
  BY <1>3, <1>4, OneDriveMoves
<1> QED
  BY <1>1, <1>2, <1>3, <1>4, <1>5 DEF ImagesInv, ImagesWellFormed, DriveMoves

(* The removal of the received bytes, and its stamp.                       *)
LEMMA RemovalKeeps ==
  ASSUME ImagesInv, NEW d \in Drives, DeleteReceived(d) \/ CleanupReceived(d)
  PROVE  ImagesInv'
<1> DEFINE i == drives[d].image
<1>1. CASE DeleteReceived(d)
  <2>1. reps' = reps
    BY <1>1 DEF DeleteReceived
  <2>2. /\ objects' \in [Images -> ObjectRows]
        /\ \A j \in Images : /\ objects'[j].derived = objects[j].derived
                             /\ j # i => objects'[j].received = objects[j].received
                             /\ j = i => ~objects'[j].received
    BY <1>1 DEF DeleteReceived, ImagesInv, ImagesWellFormed, ObjectRows
  <2>3. \A j \in Images : j = i => reps[j].normalized = "verified"
    BY <1>1 DEF DeleteReceived, ImagesInv, DrivesAreSafe
  <2>4. EvidenceGrows /\ RecordedIsWritten' /\ RemovedIsVerified'
    BY <2>1, <2>2, <2>3 DEF EvidenceGrows, ImagesInv, RecordedIsWritten, RemovedIsVerified
  <2>5. DriveMoves(d) /\ drives'[d].image = i /\ drives'[d].step = "stamp"
    BY <1>1, Steps DEF DeleteReceived, DriveSteps
  <2>6. DrivesAreSafe'
    BY <2>1, <2>2, <2>3, <2>4, <2>5, OneDriveMoves
  <2> QED
    BY <2>1, <2>2, <2>4, <2>5, <2>6 DEF ImagesInv, ImagesWellFormed, DriveMoves
<1>2. CASE CleanupReceived(d)
  <2>1. objects' = objects
    BY <1>2 DEF CleanupReceived
  <2>2. \A j \in Images : j = i => ~objects[j].received
    BY <1>2 DEF CleanupReceived, ImagesInv, DrivesAreSafe
  <2>3. /\ reps' \in [Images -> ImageRows]
        /\ \A j \in Images : /\ reps'[j].normalized = reps[j].normalized
                             /\ reps'[j].removed => reps[j].removed \/ j = i
    <3>1. reps' = reps \/ (i \in Images /\ reps' = [reps EXCEPT ![i].removed = TRUE])
      BY <1>2 DEF CleanupReceived, ImagesInv, ImagesWellFormed
    <3>2. CASE reps' = reps
      BY <3>2 DEF ImagesInv, ImagesWellFormed
    <3>3. CASE i \in Images /\ reps' = [reps EXCEPT ![i].removed = TRUE]
      BY <3>3 DEF ImagesInv, ImagesWellFormed, ImageRows
    <3> QED
      BY <3>1, <3>2, <3>3
  <2>4. EvidenceGrows /\ RecordedIsWritten' /\ RemovedIsVerified'
    BY <2>1, <2>2, <2>3 DEF EvidenceGrows, ImagesInv, RecordedIsWritten, RemovedIsVerified
  <2>5. DriveMoves(d) /\ drives'[d].step \in {"between", "refused"}
    BY <1>2, Steps DEF CleanupReceived, DriveSteps
  <2>6. DrivesAreSafe'
    BY <2>4, <2>5, OneDriveMoves
  <2> QED
    BY <2>1, <2>3, <2>4, <2>5, <2>6 DEF ImagesInv, ImagesWellFormed, DriveMoves
<1> QED
  BY <1>1, <1>2

LEMMA ImagesInvStep == ImagesInv /\ [MediaNext]_mediaVars => ImagesInv'
<1> SUFFICES ASSUME ImagesInv, [MediaNext]_mediaVars PROVE ImagesInv'
  OBVIOUS
<1>1. ASSUME UNCHANGED <<reps, objects, drives>> PROVE ImagesInv'
  BY <1>1 DEF ImagesInv, ImagesWellFormed, RecordedIsWritten, RemovedIsVerified, DrivesAreSafe
<1>2. CASE UNCHANGED mediaVars
  BY <1>1, <1>2 DEF mediaVars
<1>3. CASE ReconcileNormalization
  BY <1>1, <1>3 DEF ReconcileNormalization
<1>4. CASE \E i \in Images : OrderVision(i)
  BY <1>1, <1>4 DEF OrderVision
<1>5. CASE \E i \in Images, r \in RetainedRows : ReadForVision(i, r) \/ RecordVisionOutcome(i, r)
  BY <1>1, <1>5 DEF ReadForVision, RecordVisionOutcome
<1>6. CASE \E d \in Drives : StartDrive(d) \/ RecordAttemptOutcome(d) \/ CallTimesOut(d)
  BY <1>6, JobStepsKeep
<1>7. CASE \E d \in Drives : DriveDies(d) \/ ResumeCleanup(d) \/ PrepareNormalization(d)
  BY <1>7, JobStepsKeep, PrepareKeeps
<1>8. CASE \E d \in Drives : TakeImage(d) \/ Convert(d) \/ WriteThumbnail(d)
  BY <1>8, TakeImageKeeps, ConvertKeeps, WriteThumbnailKeeps
<1>9. CASE \E d \in Drives : RecordNormalization(d) \/ RecordException(d) \/ VerifyNormalization(d)
  BY <1>9, RecordingKeeps
<1>10. CASE \E d \in Drives : DeleteReceived(d) \/ CleanupReceived(d)
  BY <1>10, RemovalKeeps
<1> QED
  BY <1>2, <1>3, <1>4, <1>5, <1>6, <1>7, <1>8, <1>9, <1>10 DEF MediaNext

LEMMA ReadersAreServed == ImagesInv => ReadersFindBytes
<1> SUFFICES ASSUME ImagesInv, NEW i \in Images
             PROVE  IF RetainedSelection(reps[i]) = "none"
                      THEN objects[i].received /\ ~reps[i].removed
                      ELSE ObjectOf(i, RetainedSelection(reps[i]))
  BY DEF ReadersFindBytes
<1>1. CASE reps[i].normalized = "verified"
  <2>1. RetainedSelection(reps[i]) = "normalized"
    BY <1>1 DEF RetainedSelection
  <2> QED
    BY <1>1, <2>1 DEF ImagesInv, RecordedIsWritten, ObjectOf
<1>2. CASE reps[i].normalized # "verified"
  <2>1. objects[i].received /\ ~reps[i].removed
    BY <1>2 DEF ImagesInv, RemovedIsVerified
  <2>2. RetainedSelection(reps[i]) \in {"original", "none"}
    BY <1>2 DEF RetainedSelection, ImagesInv, ImagesWellFormed, ImageRows
  <2> QED
    BY <2>1, <2>2 DEF ObjectOf
<1> QED
  BY <1>1, <1>2

(* Whatever two drives of the same source do between each other's steps,   *)
(* every image resolves to bytes that are in the bucket.                   *)
THEOREM ReadersAlwaysFindBytes == MediaSpec => []ReadersFindBytes
<1>1. MediaInit => ImagesInv
  BY ImagesInvInit
<1>2. ImagesInv /\ [MediaNext]_mediaVars => ImagesInv'
  BY ImagesInvStep
<1>3. ImagesInv => ReadersFindBytes
  BY ReadersAreServed
<1> QED
  BY <1>1, <1>2, <1>3, PTL DEF MediaSpec

(* The rows of the job, the images and the orders.  The exceptions of an    *)
(* image are bounded by the drives, because a drive is sent to convert only *)
(* while the image has neither a normalized row nor an exception: those     *)
(* that still may record one were all prepared before the first.            *)
Converts(row, i) ==
  row.plan[i] # "none" \/ (row.image = i /\ row.step \in {"convert", "except"})
Converting(i) == {d \in Drives : Converts(drives[d], i)}

HeldIsPlanned ==
  \A d \in Drives, i \in Images :
    drives[d].image = i /\ drives[d].step \in {"convert", "except"} => drives[d].plan[i] = "none"

ExceptionsBounded ==
  \A i \in Images :
    /\ reps[i].originals <= Cardinality(Drives)
    /\ reps[i].normalized = "none" =>
         reps[i].originals + Cardinality(Converting(i)) <= Cardinality(Drives)

MediaRowsInv ==
  /\ ImagesInv
  /\ job \in JobRows
  /\ vision \in [Images -> [RetainedRows -> OrderStates]]
  /\ HeldIsPlanned
  /\ ExceptionsBounded

LEMMA ConvertingCounts ==
  ASSUME NEW i \in Images
  PROVE  /\ Cardinality(Drives) \in Nat
         /\ IsFiniteSet(Converting(i)) /\ Cardinality(Converting(i)) \in Nat
         /\ Cardinality(Converting(i)) <= Cardinality(Drives)
BY MediaNumbers, FS_Subset, FS_CardinalityType DEF Converting

LEMMA MediaRowsInit == MediaInit => MediaRowsInv
<1> SUFFICES ASSUME MediaInit PROVE MediaRowsInv
  OBVIOUS
<1>1. job \in JobRows /\ vision \in [Images -> [RetainedRows -> OrderStates]]
  BY MediaNumbers DEF MediaInit, JobRows, OrderStates
<1>2. HeldIsPlanned
  BY DEF MediaInit, NoDrive, HeldIsPlanned
<1>3. ExceptionsBounded
  BY ConvertingCounts DEF MediaInit, ExceptionsBounded
<1> QED
  BY <1>1, <1>2, <1>3, ImagesInvInit DEF MediaRowsInv

(* A step that lets no other drive convert, and adds no exception.          *)
LEMMA NoExceptionAdded ==
  ASSUME MediaRowsInv, NEW i \in Images,
         reps'[i].originals = reps[i].originals,
         reps'[i].normalized = "none" => reps[i].normalized = "none",
         Converting(i)' \subseteq Converting(i)
  PROVE  /\ reps'[i].originals <= Cardinality(Drives)
         /\ reps'[i].normalized = "none" =>
              reps'[i].originals + Cardinality(Converting(i)') <= Cardinality(Drives)
<1>1. /\ IsFiniteSet(Converting(i)) /\ Cardinality(Converting(i)) \in Nat
      /\ Cardinality(Drives) \in Nat
  BY ConvertingCounts
<1>2. Cardinality(Converting(i)') \in Nat /\ Cardinality(Converting(i)') <= Cardinality(Converting(i))
  BY <1>1, FS_Subset, FS_CardinalityType
<1>3. reps[i].originals \in Nat
  BY DEF MediaRowsInv, ImagesInv, ImagesWellFormed, ImageRows
<1> QED
  BY <1>1, <1>2, <1>3 DEF MediaRowsInv, ExceptionsBounded

(* The moves of the drive d that never send it to convert.                  *)
OnlyTurnsAway(d) ==
  /\ \A e \in Drives \ {d} : drives'[e] = drives[e]
  /\ \A i \in Images : Converts(drives'[d], i) => Converts(drives[d], i)
  /\ \A i \in Images : drives'[d].image = i /\ drives'[d].step \in {"convert", "except"} =>
       drives'[d].plan[i] = "none"

LEMMA TurningAwayKeeps ==
  ASSUME MediaRowsInv, NEW d \in Drives, OnlyTurnsAway(d)
  PROVE  /\ HeldIsPlanned'
         /\ \A i \in Images : Converting(i)' \subseteq Converting(i)
BY DEF OnlyTurnsAway, HeldIsPlanned, MediaRowsInv, Converting

LEMMA DrivesTurnAway ==
  ASSUME MediaRowsInv, NEW d \in Drives,
         \/ StartDrive(d) \/ RecordAttemptOutcome(d) \/ CallTimesOut(d) \/ DriveDies(d)
         \/ ResumeCleanup(d) \/ TakeImage(d) \/ Convert(d) \/ WriteThumbnail(d)
         \/ RecordNormalization(d) \/ RecordException(d) \/ VerifyNormalization(d)
         \/ DeleteReceived(d) \/ CleanupReceived(d)
  PROVE  OnlyTurnsAway(d)
<1>1. drives \in [Drives -> DriveShapes]
  BY DEF MediaRowsInv, ImagesInv, ImagesWellFormed
<1>2. \A i \in Images : NoDrive.plan[i] = "none" /\ NoDrive.step = "none"
  BY DEF NoDrive, NoPlan
<1>3. NoDrive \in DriveShapes
  BY DEF NoDrive, NoPlan, DriveShapes, RetentionSteps
<1>4. ASSUME NEW row \in DriveShapes, drives' = [drives EXCEPT ![d] = row],
             row.plan = NoPlan, row.step \notin {"convert", "except"}
      PROVE  OnlyTurnsAway(d)
  BY <1>1, <1>4 DEF OnlyTurnsAway, Converts, NoPlan
<1>5. ASSUME NEW s \in DriveSteps \union {"none"}, Step(d, s),
             s = "except" => drives[d].step = "convert", s # "convert"
      PROVE  OnlyTurnsAway(d)
  BY <1>1, <1>5 DEF OnlyTurnsAway, Converts, Step, DriveShapes, MediaRowsInv, HeldIsPlanned
<1>6. ASSUME drives' = drives PROVE OnlyTurnsAway(d)
  BY <1>6 DEF OnlyTurnsAway, MediaRowsInv, HeldIsPlanned
<1>7. CASE StartDrive(d)
  <2>1. CASE drives' = [drives EXCEPT ![d] = [NoDrive EXCEPT !.step = "called", !.heard = TRUE]]
    <3>1. [NoDrive EXCEPT !.step = "called", !.heard = TRUE] \in DriveShapes
      BY <1>3 DEF DriveShapes, DriveSteps
    <3> QED
      BY <1>4, <2>1, <3>1 DEF NoDrive
  <2> QED
    BY <1>6, <1>7, <2>1 DEF StartDrive
<1>8. CASE RecordAttemptOutcome(d)
  BY <1>5, <1>8 DEF RecordAttemptOutcome, Step
<1>9. CASE CallTimesOut(d)
  BY <1>1, <1>9 DEF CallTimesOut, OnlyTurnsAway, Converts, DriveShapes, MediaRowsInv, HeldIsPlanned
<1>10. CASE DriveDies(d)
  BY <1>3, <1>4, <1>10 DEF DriveDies, NoDrive
<1>11. CASE ResumeCleanup(d)
  <2>1. PICK i \in Images :
          drives' = [drives EXCEPT ![d] = [NoDrive EXCEPT !.step = "delete", !.image = i]]
    BY <1>11 DEF ResumeCleanup
  <2>2. [NoDrive EXCEPT !.step = "delete", !.image = i] \in DriveShapes
    BY <1>3 DEF DriveShapes, DriveSteps
  <2> QED
    BY <1>4, <2>1, <2>2 DEF NoDrive
<1>12. CASE TakeImage(d)
  <2>1. CASE Step(d, "ok")
    BY <1>5, <2>1 DEF DriveSteps
  <2>2. ASSUME NEW i \in Images, drives[d].plan[i] # "none",
               drives' = [drives EXCEPT ![d].image = i, ![d].plan[i] = "none",
                 ![d].step = IF drives[d].plan[i] = "normalize" \/ objects[i].derived # "both"
                             THEN "convert" ELSE "verify"]
        PROVE  OnlyTurnsAway(d)
    <3>1. PICK s \in {"convert", "verify"} :
            drives' = [drives EXCEPT ![d] =
              [@ EXCEPT !.image = i, !.plan = [drives[d].plan EXCEPT ![i] = "none"], !.step = s]]
      BY <1>1, <2>2 DEF DriveShapes
    <3>2. drives[d].plan \in [Images -> RetentionSteps]
      BY <1>1 DEF DriveShapes
    <3>3. /\ \A e \in Drives \ {d} : drives'[e] = drives[e]
          /\ drives'[d].plan = [drives[d].plan EXCEPT ![i] = "none"]
          /\ drives'[d].image = i
      BY <1>1, <3>1 DEF DriveShapes
    <3>4. \A k \in Images : drives'[d].plan[k] # "none" => drives[d].plan[k] # "none"
      BY <3>2, <3>3
    <3>5. drives'[d].plan[i] = "none" /\ \A k \in Images : drives'[d].image = k => k = i
      BY <3>2, <3>3
    <3>6. \A k \in Images : Converts(drives'[d], k) => Converts(drives[d], k)
      BY <2>2, <3>4, <3>5 DEF Converts
    <3>7. \A k \in Images : drives'[d].image = k => drives'[d].plan[k] = "none"
      BY <3>5
    <3> QED
      BY <3>3, <3>6, <3>7 DEF OnlyTurnsAway
  <2> QED
    BY <1>12, <2>1, <2>2 DEF TakeImage
<1>13. CASE Convert(d) \/ WriteThumbnail(d)
  BY <1>5, <1>13 DEF Convert, WriteThumbnail, DriveSteps
<1>14. CASE RecordNormalization(d) \/ RecordException(d)
  BY <1>5, <1>14 DEF RecordNormalization, RecordException, DriveSteps
<1>15. CASE VerifyNormalization(d)
  BY <1>5, <1>15 DEF VerifyNormalization, DriveSteps
<1>16. CASE DeleteReceived(d) \/ CleanupReceived(d)
  BY <1>5, <1>16 DEF DeleteReceived, CleanupReceived, DriveSteps
<1> QED
  BY <1>7, <1>8, <1>9, <1>10, <1>11, <1>12, <1>13, <1>14, <1>15, <1>16

(* The drive that records an exception is one of those that may.            *)
LEMMA RecordExceptionBounded ==
  ASSUME MediaRowsInv, NEW d \in Drives, RecordException(d)
  PROVE  ExceptionsBounded'
<1> SUFFICES ASSUME NEW i \in Images
             PROVE  /\ reps'[i].originals <= Cardinality(Drives)
                    /\ reps'[i].normalized = "none" =>
                         reps'[i].originals + Cardinality(Converting(i)') <= Cardinality(Drives)
  BY DEF ExceptionsBounded
<1>1. OnlyTurnsAway(d)
  BY DrivesTurnAway
<1>2. Converting(i)' \subseteq Converting(i)
  BY <1>1, TurningAwayKeeps
<1>3. reps \in [Images -> ImageRows] /\ drives \in [Drives -> DriveShapes]
  BY DEF MediaRowsInv, ImagesInv, ImagesWellFormed
<1>4. CASE drives[d].image = i /\ reps[i].normalized = "none"
  <2>1. /\ reps'[i].originals = reps[i].originals + 1
        /\ reps'[i].normalized = "none"
    BY <1>3, <1>4 DEF RecordException, ImageRows
  <2>2. d \in Converting(i) /\ d \notin Converting(i)'
    <3>1. drives[d].step = "except" /\ drives[d].plan[i] = "none"
      BY <1>4 DEF RecordException, MediaRowsInv, HeldIsPlanned
    <3>2. drives'[d].step = "between" /\ drives'[d].plan = drives[d].plan
      BY <1>3 DEF RecordException, Step, DriveShapes
    <3> QED
      BY <1>4, <3>1, <3>2 DEF Converting, Converts
  <2>3. /\ IsFiniteSet(Converting(i)) /\ Cardinality(Converting(i)) \in Nat
        /\ Cardinality(Drives) \in Nat
    BY ConvertingCounts
  <2>4. /\ IsFiniteSet(Converting(i) \ {d})
        /\ Cardinality(Converting(i) \ {d}) = Cardinality(Converting(i)) - 1
    BY <2>2, <2>3, FS_RemoveElement
  <2>5. Converting(i)' \subseteq Converting(i) \ {d}
    BY <1>2, <2>2
  <2>6. /\ Cardinality(Converting(i)') \in Nat
        /\ Cardinality(Converting(i)') <= Cardinality(Converting(i)) - 1
    BY <2>4, <2>5, FS_Subset, FS_CardinalityType
  <2>7. reps[i].originals \in Nat
    BY <1>3 DEF ImageRows
  <2>8. reps[i].originals + Cardinality(Converting(i)) <= Cardinality(Drives)
    BY <1>4 DEF MediaRowsInv, ExceptionsBounded
  <2> QED
    BY <2>1, <2>3, <2>6, <2>7, <2>8
<1>5. CASE ~(drives[d].image = i /\ reps[i].normalized = "none")
  <2>1. reps'[i] = reps[i]
    BY <1>3, <1>5 DEF RecordException
  <2> QED
    BY <1>2, <2>1, NoExceptionAdded
<1> QED
  BY <1>4, <1>5

(* The other steps of the drives.                                           *)
LEMMA OtherStepsBounded ==
  ASSUME MediaRowsInv, NEW d \in Drives,
         \/ StartDrive(d) \/ RecordAttemptOutcome(d) \/ CallTimesOut(d) \/ DriveDies(d)
         \/ ResumeCleanup(d) \/ TakeImage(d) \/ Convert(d) \/ WriteThumbnail(d)
         \/ RecordNormalization(d) \/ VerifyNormalization(d)
         \/ DeleteReceived(d) \/ CleanupReceived(d)
  PROVE  ExceptionsBounded'
<1> SUFFICES ASSUME NEW i \in Images
             PROVE  /\ reps'[i].originals <= Cardinality(Drives)
                    /\ reps'[i].normalized = "none" =>
                         reps'[i].originals + Cardinality(Converting(i)') <= Cardinality(Drives)
  BY DEF ExceptionsBounded
<1>1. Converting(i)' \subseteq Converting(i)
  BY DrivesTurnAway, TurningAwayKeeps
<1>2. reps \in [Images -> ImageRows]
  BY DEF MediaRowsInv, ImagesInv, ImagesWellFormed
<1>3. /\ reps'[i].originals = reps[i].originals
      /\ reps'[i].normalized = "none" => reps[i].normalized = "none"
  <2>1. CASE reps' = reps
    BY <2>1
  <2>2. CASE RecordNormalization(d) \/ VerifyNormalization(d)
    BY <1>2, <2>2 DEF ImageRows, RecordNormalization, VerifyNormalization
  <2>3. CASE CleanupReceived(d)
    BY <1>2, <2>3 DEF ImageRows, CleanupReceived
  <2> QED
    BY <2>1, <2>2, <2>3 DEF StartDrive, RecordAttemptOutcome, CallTimesOut, DriveDies,
       ResumeCleanup, TakeImage, Convert, WriteThumbnail, DeleteReceived
<1> QED
  BY <1>1, <1>3, NoExceptionAdded

(* A drive is prepared to convert only what has no exception yet.           *)
LEMMA PreparationBounded ==
  ASSUME MediaRowsInv, NEW d \in Drives, PrepareNormalization(d)
  PROVE  HeldIsPlanned' /\ ExceptionsBounded'
<1>1. reps \in [Images -> ImageRows] /\ drives \in [Drives -> DriveShapes]
  BY DEF MediaRowsInv, ImagesInv, ImagesWellFormed
<1>2. CASE Step(d, "refused") /\ UNCHANGED reps
  <2>1. OnlyTurnsAway(d)
    BY <1>1, <1>2 DEF OnlyTurnsAway, Converts, Step, DriveShapes
  <2> QED
    BY <1>2, <2>1, TurningAwayKeeps, NoExceptionAdded DEF ExceptionsBounded
<1>3. CASE /\ reps' = [i \in Images |-> IF RetentionStep(reps[i]) = "normalize"
                                        THEN [reps[i] EXCEPT !.processing = TRUE] ELSE reps[i]]
           /\ drives' = [drives EXCEPT ![d].step = "between",
                            ![d].plan = [i \in Images |-> RetentionStep(reps[i])]]
  <2>1. /\ \A e \in Drives \ {d} : drives'[e] = drives[e]
        /\ drives'[d].step = "between"
        /\ drives'[d].plan = [i \in Images |-> RetentionStep(reps[i])]
    BY <1>1, <1>3 DEF DriveShapes
  <2>2. HeldIsPlanned'
    BY <2>1 DEF HeldIsPlanned, MediaRowsInv
  <2>3. ASSUME NEW i \in Images
        PROVE  /\ reps'[i].originals <= Cardinality(Drives)
               /\ reps'[i].normalized = "none" =>
                    reps'[i].originals + Cardinality(Converting(i)') <= Cardinality(Drives)
    <3>1. /\ reps'[i].originals = reps[i].originals /\ reps'[i].normalized = reps[i].normalized
          /\ reps[i].originals \in Nat
      BY <1>1, <1>3 DEF ImageRows
    <3>2. CASE reps[i].normalized = "none" /\ reps[i].originals = 0
      <4>1. /\ Cardinality(Drives) \in Nat /\ Cardinality(Converting(i)') \in Nat
            /\ Cardinality(Converting(i)') <= Cardinality(Drives)
        BY MediaNumbers, FS_Subset, FS_CardinalityType DEF Converting
      <4> QED
        BY <3>1, <3>2, <4>1
    <3>3. CASE reps[i].normalized = "none" /\ reps[i].originals > 0
      <4>1. RetentionStep(reps[i]) = "none"
        BY <3>3 DEF RetentionStep
      <4>2. Converting(i)' \subseteq Converting(i)
        BY <2>1, <4>1 DEF Converting, Converts
      <4> QED
        BY <3>1, <4>2, NoExceptionAdded
    <3>4. CASE reps[i].normalized # "none"
      BY <3>1, <3>4 DEF MediaRowsInv, ExceptionsBounded
    <3> QED
      BY <3>1, <3>2, <3>3, <3>4
  <2> QED
    BY <2>2, <2>3 DEF ExceptionsBounded
<1> QED
  BY <1>2, <1>3 DEF PrepareNormalization

(* What the job and the orders become.                                      *)
LEMMA JobStaysTyped ==
  ASSUME MediaRowsInv, [MediaNext]_mediaVars
  PROVE  job' \in JobRows /\ vision' \in [Images -> [RetainedRows -> OrderStates]]
<1>1. /\ job \in JobRows /\ vision \in [Images -> [RetainedRows -> OrderStates]]
      /\ job.attempts \in 0 .. MaxAttempts
  BY DEF MediaRowsInv, JobRows
<1>2. \A outcome \in {"ok", "retryable", "refused", "uncertain"} : Recorded(outcome) \in JobRows
  BY <1>1 DEF Recorded, JobRows
<1>3. Reconciled \in JobRows
  BY <1>1 DEF Reconciled, JobRows
<1>4. ASSUME NEW d \in Drives, StartDrive(d) PROVE job' \in JobRows
  <2>1. job.attempts + 1 \in 0 .. MaxAttempts
    BY <1>1, <1>4, MediaNumbers DEF StartDrive
  <2> QED
    BY <1>1, <1>4, <2>1 DEF StartDrive, JobRows
<1>5. ASSUME NEW d \in Drives, RecordAttemptOutcome(d) \/ CallTimesOut(d) \/ DriveDies(d)
      PROVE  job' \in JobRows
  BY <1>1, <1>2, <1>5 DEF RecordAttemptOutcome, CallTimesOut, DriveDies
<1>6. CASE \E d \in Drives : StartDrive(d) \/ RecordAttemptOutcome(d) \/ CallTimesOut(d)
  BY <1>1, <1>4, <1>5, <1>6 DEF StartDrive, RecordAttemptOutcome, CallTimesOut
<1>7. CASE \E d \in Drives : DriveDies(d) \/ ResumeCleanup(d) \/ PrepareNormalization(d)
  BY <1>1, <1>5, <1>7 DEF DriveDies, ResumeCleanup, PrepareNormalization
<1>8. CASE \E d \in Drives : TakeImage(d) \/ Convert(d) \/ WriteThumbnail(d)
  BY <1>1, <1>8 DEF TakeImage, Convert, WriteThumbnail
<1>9. CASE \E d \in Drives : RecordNormalization(d) \/ RecordException(d) \/ VerifyNormalization(d)
  BY <1>1, <1>9 DEF RecordNormalization, RecordException, VerifyNormalization
<1>10. CASE \E d \in Drives : DeleteReceived(d) \/ CleanupReceived(d)
  BY <1>1, <1>10 DEF DeleteReceived, CleanupReceived
<1>11. CASE ReconcileNormalization
  BY <1>1, <1>3, <1>11 DEF ReconcileNormalization
<1>12. CASE \E i \in Images : OrderVision(i)
  <2>1. PICK i \in Images : OrderVision(i)
    BY <1>12
  <2>2. RetainedSelection(reps[i]) \in RetainedRows
    BY <2>1 DEF OrderVision, RetainedSelection, RetainedRows
  <2> QED
    BY <1>1, <2>1, <2>2 DEF OrderVision, OrderStates
<1>13. CASE \E i \in Images, r \in RetainedRows : ReadForVision(i, r) \/ RecordVisionOutcome(i, r)
  BY <1>1, <1>13 DEF ReadForVision, RecordVisionOutcome, OrderStates
<1>14. CASE UNCHANGED mediaVars
  BY <1>1, <1>14 DEF mediaVars
<1> QED
  BY <1>6, <1>7, <1>8, <1>9, <1>10, <1>11, <1>12, <1>13, <1>14 DEF MediaNext

LEMMA MediaRowsStep == MediaRowsInv /\ [MediaNext]_mediaVars => MediaRowsInv'
<1> SUFFICES ASSUME MediaRowsInv, [MediaNext]_mediaVars PROVE MediaRowsInv'
  OBVIOUS
<1>1. ImagesInv'
  BY ImagesInvStep DEF MediaRowsInv
<1>2. job' \in JobRows /\ vision' \in [Images -> [RetainedRows -> OrderStates]]
  BY JobStaysTyped
<1>3. HeldIsPlanned' /\ ExceptionsBounded'
  <2>1. CASE UNCHANGED <<reps, drives>>
    BY <2>1 DEF MediaRowsInv, HeldIsPlanned, ExceptionsBounded, Converting
  <2>2. CASE \E d \in Drives : StartDrive(d) \/ RecordAttemptOutcome(d) \/ CallTimesOut(d)
    BY <2>2, DrivesTurnAway, TurningAwayKeeps, OtherStepsBounded
  <2>3. CASE \E d \in Drives : DriveDies(d) \/ ResumeCleanup(d) \/ PrepareNormalization(d)
    BY <2>3, DrivesTurnAway, TurningAwayKeeps, OtherStepsBounded, PreparationBounded
  <2>4. CASE \E d \in Drives : TakeImage(d) \/ Convert(d) \/ WriteThumbnail(d)
    BY <2>4, DrivesTurnAway, TurningAwayKeeps, OtherStepsBounded
  <2>5. CASE \E d \in Drives : RecordNormalization(d) \/ RecordException(d) \/ VerifyNormalization(d)
    BY <2>5, DrivesTurnAway, TurningAwayKeeps, OtherStepsBounded, RecordExceptionBounded
  <2>6. CASE \E d \in Drives : DeleteReceived(d) \/ CleanupReceived(d)
    BY <2>6, DrivesTurnAway, TurningAwayKeeps, OtherStepsBounded
  <2>7. CASE ReconcileNormalization \/ \E i \in Images : OrderVision(i)
    BY <2>1, <2>7 DEF ReconcileNormalization, OrderVision
  <2>8. CASE \E i \in Images, r \in RetainedRows : ReadForVision(i, r) \/ RecordVisionOutcome(i, r)
    BY <2>1, <2>8 DEF ReadForVision, RecordVisionOutcome
  <2>9. CASE UNCHANGED mediaVars
    BY <2>1, <2>9 DEF mediaVars
  <2> QED
    BY <2>2, <2>3, <2>4, <2>5, <2>6, <2>7, <2>8, <2>9 DEF MediaNext
<1> QED
  BY <1>1, <1>2, <1>3 DEF MediaRowsInv

(* The rows never leave their types.  An image has at most one exception    *)
(* per drive: retries of the job add none, because a drive that finds an    *)
(* exception has nothing to convert (images/functions.ts, prepare and       *)
(* recordException).                                                        *)
THEOREM MediaTypeCorrect == MediaSpec => []MediaTypeOK
<1>1. MediaRowsInv => MediaTypeOK
  <2> SUFFICES ASSUME MediaRowsInv PROVE MediaTypeOK
    OBVIOUS
  <2>1. reps \in [Images -> RepresentationRows]
    <3> SUFFICES ASSUME NEW i \in Images PROVE reps[i] \in RepresentationRows
      BY DEF MediaRowsInv, ImagesInv, ImagesWellFormed
    <3>1. reps[i] \in ImageRows /\ reps[i].originals <= Cardinality(Drives)
      BY DEF MediaRowsInv, ImagesInv, ImagesWellFormed, ExceptionsBounded
    <3>2. Cardinality(Drives) \in Nat
      BY MediaNumbers, FS_CardinalityType
    <3>3. reps[i].originals \in 0 .. Cardinality(Drives)
      BY <3>1, <3>2 DEF ImageRows
    <3> QED
      BY <3>1, <3>3 DEF ImageRows, RepresentationRows
  <2> QED
    BY <2>1 DEF MediaRowsInv, ImagesInv, ImagesWellFormed, MediaTypeOK, DriveRows, DriveShapes
<1> QED
  BY <1>1, MediaRowsInit, MediaRowsStep, PTL DEF MediaSpec
-----------------------------------------------------------------------------
(* Audio.  The verdict a workflow carries from an attempt to its record is *)
(* about the segment as it is, because one workflow runs at a time; the    *)
(* manifest is planned before a segment is taken, so nothing returns a     *)
(* transcript that has its extraction to an earlier state.                 *)

HeardIsStepped ==
  \A i \in Segments : segments[i].state = "succeeded" => segments[i].step = "succeeded"
PlannedFirst ==
  stt.step \in {"attempt", "record", "assemble"} \/ transcript.extractions > 0 => transcript.planned
ExtractionIsWhole ==
  /\ transcript.extractions <= 1
  /\ transcript.extractions = 1 =>
       /\ transcript.state = "complete"
       /\ \A i \in Segments : segments[i].state = "succeeded"
SuccessHasExtraction == stt.whole \/ sttJob.state = "succeeded" => transcript.extractions = 1
VerdictHolds ==
  stt.step = "record" =>
    /\ stt.verdict # "none"
    /\ stt.verdict = "exhausted" <=> Exhausted(segments[stt.at])
    /\ stt.verdict = "already_succeeded" <=> segments[stt.at].state = "succeeded"

TranscriptInv ==
  /\ TranscriptTypeOK
  /\ HeardIsStepped
  /\ PlannedFirst
  /\ ExtractionIsWhole
  /\ SuccessHasExtraction
  /\ VerdictHolds

TranscriptRows == [state : {"none", "planning", "pending", "partial", "complete"},
                   planned : BOOLEAN, error : BOOLEAN, extractions : 0 .. 2]
SegmentRows == [state : {"pending", "failed", "succeeded"}, unsure : BOOLEAN,
                attempts : 0 .. SegmentAttempts, step : {"none", "failed", "succeeded"}]
OrderRows == [state : {"none", "queued", "running", "succeeded", "failed"},
              unsure : BOOLEAN, attempts : 0 .. JobAttempts]
WorkflowRows == [step : {"none", "resolve", "plan", "attempt", "record", "assemble", "complete", "died"},
                 at : Segments, verdict : Verdicts, readable : BOOLEAN,
                 unsure : BOOLEAN, error : BOOLEAN, whole : BOOLEAN]

LEMMA TranscriptRowsTyped ==
  TranscriptTypeOK <=>
    /\ transcript \in TranscriptRows /\ segments \in [Segments -> SegmentRows]
    /\ sttJob \in OrderRows /\ stt \in WorkflowRows
BY DEF TranscriptTypeOK, TranscriptRows, SegmentRows, OrderRows, WorkflowRows

LEMMA FirstSegment == 1 \in Segments
<1>1. Cardinality(Segments) \in Nat
  BY TranscriptNumbers, FS_CardinalityType
<1> QED
  BY <1>1, TranscriptNumbers

LEMMA NoWorkflowTyped ==
  /\ NoWorkflow \in WorkflowRows /\ NoWorkflow.step = "none" /\ ~NoWorkflow.whole
BY FirstSegment DEF NoWorkflow, WorkflowRows, Verdicts

(* The status of rows: complete is every segment heard.                    *)
LEMMA Statuses ==
  ASSUME NEW rows
  PROVE  /\ DeriveTranscriptStatus(rows) \in {"pending", "partial", "complete"}
         /\ DeriveTranscriptStatus(rows) = "complete" <=>
              \A i \in Segments : rows[i].state = "succeeded"
BY FirstSegment DEF DeriveTranscriptStatus

LEMMA TranscriptInvInit == TranscriptInit => TranscriptInv
<1> SUFFICES ASSUME TranscriptInit PROVE TranscriptInv
  OBVIOUS
<1>1. TranscriptTypeOK
  BY NoWorkflowTyped, TranscriptNumbers, TranscriptRowsTyped
  DEF TranscriptInit, TranscriptRows, SegmentRows, OrderRows, NoSegment
<1>2. HeardIsStepped
  BY DEF TranscriptInit, NoSegment, HeardIsStepped
<1>3. PlannedFirst /\ ExtractionIsWhole /\ SuccessHasExtraction /\ VerdictHolds
  BY NoWorkflowTyped
  DEF TranscriptInit, PlannedFirst, ExtractionIsWhole, SuccessHasExtraction, VerdictHolds
<1> QED
  BY <1>1, <1>2, <1>3 DEF TranscriptInv

LEMMA OrderKeeps ==
  ASSUME TranscriptInv, OrderAudioTranscript
  PROVE  TranscriptInv'
<1>1. TranscriptTypeOK'
  BY TranscriptRowsTyped DEF OrderAudioTranscript, TranscriptInv, TranscriptRows, OrderRows, TranscriptTypeOK
<1>2. UNCHANGED <<segments, stt>>
  BY DEF OrderAudioTranscript
<1>3. /\ transcript'.planned = transcript.planned /\ transcript'.extractions = transcript.extractions
      /\ transcript'.state = transcript.state \/ transcript.state = "none"
      /\ sttJob'.state # "succeeded"
  BY DEF OrderAudioTranscript, TranscriptInv, TranscriptTypeOK
<1> QED
  BY <1>1, <1>2, <1>3
  DEF TranscriptInv, HeardIsStepped, PlannedFirst, ExtractionIsWhole, SuccessHasExtraction,
      VerdictHolds, Exhausted

(* The steps of the workflow that record nothing about a segment.          *)
LEMMA WorkflowStepsKeep ==
  ASSUME TranscriptInv,
         StartTranscription \/ ResolveManifest \/ EnsureManifest \/ TranscriptionDies
  PROVE  TranscriptInv'
<1>1. segments' = segments
  BY DEF StartTranscription, ResolveManifest, EnsureManifest, TranscriptionDies
<1>2. HeardIsStepped'
  BY <1>1 DEF TranscriptInv, HeardIsStepped
<1>3. transcript \in TranscriptRows /\ stt \in WorkflowRows /\ sttJob \in OrderRows
  BY TranscriptRowsTyped DEF TranscriptInv
<1>4. CASE StartTranscription
  <2>1. sttJob' \in OrderRows /\ sttJob'.state # "succeeded" /\ transcript' = transcript
    <3>1. CASE sttJob.attempts < JobAttempts
      <4>1. PICK n \in 0 .. JobAttempts : n = sttJob.attempts + 1
        BY <1>3, <3>1, TranscriptNumbers DEF OrderRows
      <4>2. sttJob' = [sttJob EXCEPT !.state = "running", !.attempts = n]
        BY <1>4, <3>1, <4>1 DEF StartTranscription
      <4> QED
        BY <1>3, <1>4, <4>2 DEF StartTranscription, OrderRows
    <3>2. CASE ~(sttJob.attempts < JobAttempts)
      BY <1>3, <1>4, <3>2 DEF StartTranscription, OrderRows
    <3> QED
      BY <3>1, <3>2
  <2>2. stt' = stt \/ (stt' \in WorkflowRows /\ stt'.step = "resolve" /\ ~stt'.whole)
    BY <1>4, NoWorkflowTyped DEF StartTranscription, WorkflowRows
  <2>3. TranscriptTypeOK'
    BY <1>1, <1>3, <2>1, <2>2 DEF TranscriptInv, TranscriptTypeOK, OrderRows, WorkflowRows
  <2> QED
    BY <1>1, <1>2, <2>1, <2>2, <2>3
    DEF TranscriptInv, PlannedFirst, ExtractionIsWhole, SuccessHasExtraction, VerdictHolds, Exhausted
<1>5. CASE ResolveManifest \/ TranscriptionDies
  <2>1. /\ stt' \in WorkflowRows /\ stt'.step \in {"plan", "died"} /\ stt'.whole = stt.whole
        /\ UNCHANGED <<transcript, sttJob>>
    BY <1>3, <1>5 DEF ResolveManifest, TranscriptionDies, WorkflowRows
  <2>2. TranscriptTypeOK'
    BY <1>1, <2>1 DEF TranscriptInv, TranscriptTypeOK, WorkflowRows
  <2> QED
    BY <1>1, <1>2, <2>1, <2>2
    DEF TranscriptInv, PlannedFirst, ExtractionIsWhole, SuccessHasExtraction, VerdictHolds
<1>6. CASE EnsureManifest
  <2>1. CASE transcript.planned \/ stt.readable
    <3>1. /\ transcript' \in TranscriptRows /\ transcript'.planned
          /\ transcript'.extractions = transcript.extractions
          /\ transcript.planned => transcript' = transcript
      BY <1>3, <1>6, <2>1 DEF EnsureManifest, TranscriptRows
    <3>2. stt' \in WorkflowRows /\ stt'.step = "attempt" /\ stt'.whole = stt.whole /\ sttJob' = sttJob
      BY <1>3, <1>6, <2>1, FirstSegment DEF EnsureManifest, WorkflowRows
    <3>3. TranscriptTypeOK'
      BY <1>1, <3>1, <3>2 DEF TranscriptInv, TranscriptTypeOK, TranscriptRows, WorkflowRows
    <3>4. transcript.extractions = 1 => transcript.planned
      BY DEF TranscriptInv, PlannedFirst
    <3> QED
      BY <1>1, <1>2, <3>1, <3>2, <3>3, <3>4
      DEF TranscriptInv, PlannedFirst, ExtractionIsWhole, SuccessHasExtraction, VerdictHolds
  <2>2. CASE ~(transcript.planned \/ stt.readable)
    <3>1. /\ transcript' \in TranscriptRows /\ transcript'.planned = transcript.planned
          /\ transcript'.extractions = transcript.extractions /\ transcript'.state = transcript.state
      BY <1>3, <1>6, <2>2 DEF EnsureManifest, TranscriptRows
    <3>2. stt' \in WorkflowRows /\ stt'.step = "complete" /\ stt'.whole = stt.whole /\ sttJob' = sttJob
      BY <1>3, <1>6, <2>2 DEF EnsureManifest, WorkflowRows
    <3>3. TranscriptTypeOK'
      BY <1>1, <3>1, <3>2 DEF TranscriptInv, TranscriptTypeOK, TranscriptRows, WorkflowRows
    <3> QED
      BY <1>1, <1>2, <3>1, <3>2, <3>3
      DEF TranscriptInv, PlannedFirst, ExtractionIsWhole, SuccessHasExtraction, VerdictHolds
  <2> QED
    BY <2>1, <2>2
<1> QED
  BY <1>4, <1>5, <1>6

LEMMA AttemptKeeps ==
  ASSUME TranscriptInv, AttemptSegment
  PROVE  TranscriptInv'
<1>1. UNCHANGED <<transcript, segments, sttJob>> /\ transcript.planned
  BY DEF AttemptSegment, TranscriptInv, PlannedFirst
<1>2. PICK v \in Verdicts \ {"none"} :
        /\ v = "already_succeeded" <=> segments[stt.at].state = "succeeded"
        /\ v = "exhausted" <=> Exhausted(segments[stt.at])
        /\ stt' = [stt EXCEPT !.step = "record", !.verdict = v,
                              !.unsure = @ \/ v = "uncertain",
                              !.error = @ \/ v \in {"failed", "uncertain", "exhausted"}]
  BY DEF AttemptSegment
<1>3. stt \in WorkflowRows
  BY TranscriptRowsTyped DEF TranscriptInv
<1>4. /\ stt' \in WorkflowRows /\ stt'.step = "record" /\ stt'.verdict = v
      /\ stt'.at = stt.at /\ stt'.whole = stt.whole
  BY <1>2, <1>3 DEF WorkflowRows
<1>5. TranscriptTypeOK'
  BY <1>1, <1>4 DEF TranscriptInv, TranscriptTypeOK, WorkflowRows
<1> QED
  BY <1>1, <1>2, <1>4, <1>5
  DEF TranscriptInv, HeardIsStepped, PlannedFirst, ExtractionIsWhole, SuccessHasExtraction,
      VerdictHolds, Exhausted

(* What is recorded for a segment: heard stays heard.                      *)
LEMMA RecordedSegment ==
  ASSUME NEW row \in SegmentRows, NEW v \in Verdicts \ {"none"},
         row.state = "succeeded" => row.step = "succeeded",
         v = "exhausted" <=> Exhausted(row)
  PROVE  /\ SegmentAfter(row, v) \in SegmentRows
         /\ row.state = "succeeded" => SegmentAfter(row, v) = row
         /\ SegmentAfter(row, v).state = "succeeded" => SegmentAfter(row, v).step = "succeeded"
<1>1. CASE row.state = "succeeded"
  <2>1. SegmentAfter(row, v) = row
    BY <1>1 DEF SegmentAfter
  <2> QED
    BY <1>1, <2>1
<1>2. CASE row.state # "succeeded" /\ v = "exhausted"
  <2>1. SegmentAfter(row, v) = [row EXCEPT !.state = "failed", !.unsure = FALSE, !.step = "failed"]
    BY <1>2 DEF SegmentAfter
  <2> QED
    BY <1>2, <2>1 DEF SegmentRows
<1>3. CASE row.state # "succeeded" /\ v # "exhausted"
  <2>1. row.attempts + 1 \in 0 .. SegmentAttempts
    BY <1>3, TranscriptNumbers DEF Exhausted, SegmentRows
  <2>2. PICK n \in 0 .. SegmentAttempts : n = row.attempts + 1
    BY <2>1
  <2>3. CASE v = "succeeded"
    <3>1. SegmentAfter(row, v) = [row EXCEPT !.state = "succeeded", !.unsure = FALSE, !.attempts = n,
                                             !.step = "succeeded"]
      BY <1>3, <2>2, <2>3 DEF SegmentAfter
    <3> QED
      BY <1>3, <3>1 DEF SegmentRows
  <2>4. CASE v # "succeeded"
    <3>1. PICK b \in BOOLEAN :
            SegmentAfter(row, v) = [row EXCEPT !.state = "failed", !.unsure = b, !.attempts = n,
                                               !.step = "failed"]
      BY <1>3, <2>2, <2>4 DEF SegmentAfter
    <3> QED
      BY <1>3, <3>1 DEF SegmentRows
  <2> QED
    BY <2>3, <2>4
<1> QED
  BY <1>1, <1>2, <1>3

LEMMA RecordKeeps ==
  ASSUME TranscriptInv, RecordSegmentOutcome
  PROVE  /\ TranscriptInv'
         /\ \A i \in Segments : segments[i].state = "succeeded" => segments'[i].state = "succeeded"
<1> DEFINE at == stt.at
           after == SegmentAfter(segments[at], stt.verdict)
<1>1. /\ transcript \in TranscriptRows /\ segments \in [Segments -> SegmentRows]
      /\ stt \in WorkflowRows /\ sttJob' = sttJob
  BY TranscriptRowsTyped DEF TranscriptInv, RecordSegmentOutcome
<1>2. at \in Segments /\ segments[at] \in SegmentRows /\ stt.verdict \in Verdicts \ {"none"}
  BY <1>1 DEF WorkflowRows, TranscriptInv, VerdictHolds, RecordSegmentOutcome
<1>3. /\ after \in SegmentRows
      /\ segments[at].state = "succeeded" => after = segments[at]
      /\ after.state = "succeeded" => after.step = "succeeded"
  <2>1. segments[at].state = "succeeded" => segments[at].step = "succeeded"
    BY <1>2 DEF TranscriptInv, HeardIsStepped
  <2>2. stt.verdict = "exhausted" <=> Exhausted(segments[at])
    BY DEF TranscriptInv, VerdictHolds, RecordSegmentOutcome
  <2> QED
    BY <1>2, <2>1, <2>2, RecordedSegment
<1>4. segments' = [segments EXCEPT ![at] = after]
  BY DEF RecordSegmentOutcome
<1> HIDE DEF after
<1>5. /\ segments' \in [Segments -> SegmentRows]
      /\ \A i \in Segments : segments[i].state = "succeeded" => segments'[i] = segments[i]
      /\ \A i \in Segments : segments'[i].state = "succeeded" => segments'[i].step = "succeeded"
  BY <1>1, <1>2, <1>3, <1>4 DEF TranscriptInv, HeardIsStepped
<1>6. /\ transcript'.planned = transcript.planned /\ transcript'.extractions = transcript.extractions
      /\ transcript' \in TranscriptRows
      /\ (\A i \in Segments : segments'[i].state = "succeeded") /\ transcript.state = "complete"
           => transcript'.state = "complete"
  <2>1. \/ transcript' = transcript
        \/ transcript' = [transcript EXCEPT !.state = DeriveTranscriptStatus(segments')]
    BY <1>4 DEF RecordSegmentOutcome, after
  <2> QED
    BY <1>1, <2>1, Statuses DEF TranscriptRows
<1>7. stt' \in WorkflowRows /\ stt'.step \in {"attempt", "assemble"} /\ stt'.whole = stt.whole
  BY <1>1, <1>2 DEF RecordSegmentOutcome, WorkflowRows, Verdicts
<1>8. transcript.planned
  BY DEF RecordSegmentOutcome, TranscriptInv, PlannedFirst
<1>9. TranscriptTypeOK'
  BY <1>1, <1>5, <1>6, <1>7
  DEF TranscriptInv, TranscriptTypeOK, TranscriptRows, SegmentRows, WorkflowRows
<1>10. HeardIsStepped'
  BY <1>5 DEF HeardIsStepped
<1>11. PlannedFirst' /\ VerdictHolds'
  BY <1>6, <1>7, <1>8 DEF PlannedFirst, VerdictHolds
<1>12. ExtractionIsWhole'
  BY <1>5, <1>6 DEF TranscriptInv, ExtractionIsWhole
<1>13. SuccessHasExtraction'
  BY <1>1, <1>6, <1>7 DEF TranscriptInv, SuccessHasExtraction
<1> QED
  BY <1>5, <1>9, <1>10, <1>11, <1>12, <1>13 DEF TranscriptInv

LEMMA AssembleKeeps ==
  ASSUME TranscriptInv, AssembleTranscript
  PROVE  TranscriptInv'
<1> DEFINE status == DeriveTranscriptStatus(segments)
<1>1. transcript \in TranscriptRows /\ stt \in WorkflowRows /\ UNCHANGED <<segments, sttJob>>
  BY TranscriptRowsTyped DEF TranscriptInv, AssembleTranscript
<1>2. /\ status \in {"pending", "partial", "complete"}
      /\ status = "complete" <=> \A i \in Segments : segments[i].state = "succeeded"
  BY Statuses
<1>3. transcript.extractions \in {0, 1}
  BY <1>1 DEF TranscriptRows, TranscriptInv, ExtractionIsWhole
<1>4. PICK n \in {0, 1} :
        /\ transcript' = [transcript EXCEPT !.state = status, !.extractions = n]
        /\ n = IF status = "complete" THEN 1 ELSE transcript.extractions
  <2>1. CASE status = "complete" /\ transcript.extractions = 0
    BY <2>1 DEF AssembleTranscript
  <2>2. CASE ~(status = "complete" /\ transcript.extractions = 0)
    BY <1>3, <2>2 DEF AssembleTranscript
  <2> QED
    BY <2>1, <2>2
<1> HIDE DEF status
<1>5. /\ transcript' \in TranscriptRows /\ transcript'.state = status
      /\ transcript'.planned = transcript.planned
      /\ transcript'.extractions = IF status = "complete" THEN 1 ELSE transcript.extractions
  <2>1. ASSUME NEW s \in {"pending", "partial", "complete"}, NEW m \in 0 .. 2,
               transcript' = [transcript EXCEPT !.state = s, !.extractions = m]
        PROVE  /\ transcript' \in TranscriptRows /\ transcript'.state = s
               /\ transcript'.extractions = m /\ transcript'.planned = transcript.planned
    BY <1>1, <2>1 DEF TranscriptRows
  <2>2. n \in 0 .. 2
    OBVIOUS
  <2>3. /\ transcript' \in TranscriptRows /\ transcript'.state = status
        /\ transcript'.extractions = n /\ transcript'.planned = transcript.planned
    BY <1>2, <1>4, <2>1, <2>2
  <2> QED
    BY <1>4, <2>3
<1>6. stt' \in WorkflowRows /\ stt'.step = "complete" /\ stt'.whole = (status = "complete")
  BY <1>1 DEF AssembleTranscript, WorkflowRows, status
<1>7. TranscriptTypeOK'
  BY <1>1, <1>5, <1>6 DEF TranscriptInv, TranscriptTypeOK, TranscriptRows, WorkflowRows
<1>8. transcript.planned
  BY DEF AssembleTranscript, TranscriptInv, PlannedFirst
<1>9. ExtractionIsWhole'
  BY <1>1, <1>2, <1>3, <1>5 DEF TranscriptInv, ExtractionIsWhole
<1>10. SuccessHasExtraction'
  BY <1>1, <1>5, <1>6 DEF TranscriptInv, SuccessHasExtraction
<1>11. PlannedFirst' /\ VerdictHolds' /\ HeardIsStepped'
  BY <1>1, <1>5, <1>6, <1>8 DEF TranscriptInv, PlannedFirst, VerdictHolds, HeardIsStepped
<1> QED
  BY <1>7, <1>9, <1>10, <1>11 DEF TranscriptInv

LEMMA CompleteKeeps ==
  ASSUME TranscriptInv, CompleteTranscription
  PROVE  TranscriptInv'
<1>1. transcript \in TranscriptRows /\ stt \in WorkflowRows /\ sttJob \in OrderRows /\ segments' = segments
  BY TranscriptRowsTyped DEF TranscriptInv, CompleteTranscription
<1>2. /\ transcript' \in TranscriptRows /\ transcript'.state = transcript.state
      /\ transcript'.planned = transcript.planned /\ transcript'.extractions = transcript.extractions
  BY <1>1 DEF CompleteTranscription, TranscriptRows
<1>3. stt' \in WorkflowRows /\ stt'.step = "none" /\ ~stt'.whole
  BY NoWorkflowTyped DEF CompleteTranscription
<1>4. sttJob' \in OrderRows /\ (sttJob'.state = "succeeded" => stt.whole)
  <2>1. CASE stt.step = "complete" /\ stt.whole
    BY <1>1, <2>1 DEF CompleteTranscription, OrderRows
  <2>2. CASE ~(stt.step = "complete" /\ stt.whole)
    <3>1. PICK b \in BOOLEAN : sttJob' = [sttJob EXCEPT !.state = "failed", !.unsure = b]
      BY <1>1, <2>2 DEF CompleteTranscription, WorkflowRows
    <3> QED
      BY <1>1, <3>1 DEF OrderRows
  <2> QED
    BY <2>1, <2>2
<1>5. TranscriptTypeOK'
  BY <1>1, <1>2, <1>3, <1>4
  DEF TranscriptInv, TranscriptTypeOK, TranscriptRows, WorkflowRows, OrderRows
<1> QED
  BY <1>1, <1>2, <1>3, <1>4, <1>5
  DEF TranscriptInv, HeardIsStepped, PlannedFirst, ExtractionIsWhole, SuccessHasExtraction,
      VerdictHolds

LEMMA TranscriptInvStep == TranscriptInv /\ [TranscriptNext]_transcriptVars => TranscriptInv'
<1> SUFFICES ASSUME TranscriptInv, [TranscriptNext]_transcriptVars PROVE TranscriptInv'
  OBVIOUS
<1>1. CASE UNCHANGED transcriptVars
  BY <1>1
  DEF transcriptVars, TranscriptInv, TranscriptTypeOK, HeardIsStepped, PlannedFirst,
      ExtractionIsWhole, SuccessHasExtraction, VerdictHolds, Exhausted
<1> QED
  BY <1>1, OrderKeeps, WorkflowStepsKeep, AttemptKeeps, RecordKeeps, AssembleKeeps, CompleteKeeps
  DEF TranscriptNext

LEMMA TranscriptInvShows == TranscriptInv => TranscriptIsWhole
BY DEF TranscriptInv, HeardIsStepped, ExtractionIsWhole, SuccessHasExtraction, TranscriptIsWhole

(* What a segment said stays heard.                                        *)
LEMMA HeardStaysHeard ==
  ASSUME TranscriptInv, [TranscriptNext]_transcriptVars, NEW i \in Segments,
         segments[i].state = "succeeded"
  PROVE  segments'[i].state = "succeeded"
<1>1. CASE segments' = segments
  BY <1>1
<1>2. CASE RecordSegmentOutcome
  BY <1>2, RecordKeeps
<1> QED
  BY <1>1, <1>2
  DEF TranscriptNext, OrderAudioTranscript, StartTranscription, ResolveManifest, EnsureManifest,
      AttemptSegment, AssembleTranscript, TranscriptionDies, CompleteTranscription, transcriptVars

LEMMA TranscriptInvAlways == TranscriptSpec => []TranscriptInv
<1>1. TranscriptInit => TranscriptInv
  BY TranscriptInvInit
<1>2. TranscriptInv /\ [TranscriptNext]_transcriptVars => TranscriptInv'
  BY TranscriptInvStep
<1> QED
  BY <1>1, <1>2, PTL DEF TranscriptSpec

(* The rows of a transcription keep their types, and no segment is tried   *)
(* more often than allowed (recordSegmentOutcome, ensureTranscript).       *)
THEOREM TranscriptTypeCorrect == TranscriptSpec => []TranscriptTypeOK
<1>1. TranscriptInv => TranscriptTypeOK
  BY DEF TranscriptInv
<1> QED
  BY <1>1, TranscriptInvAlways, PTL

(* A transcript is whole or none, over any number of segments, attempts    *)
(* and resumed orders (assembleTranscript, recordSegmentOutcome).          *)
THEOREM TranscriptAlwaysWhole == TranscriptSpec => []TranscriptIsWhole
BY TranscriptInvShows, TranscriptInvAlways, PTL
-----------------------------------------------------------------------------
(* The analysis.  A flow keeps a group at hand while it publishes, the     *)
(* text lane's plans rest on no media, and what was published on the word  *)
(* of the audio was published when all of it had been heard.               *)

FlowRows == [state : {"none", "queued", "live", "threw", "closed"}, stage : FlowStages,
             plan : Plans("join"), at : 1 .. (MaxGroups + 1), revision : 0 .. MaxRevision,
             heard : BOOLEAN]
RunRows == [state : {"none", "running"} \cup Finished,
            checkpoint : SUBSET {"workflow", "groups", "joinWorkflow", "join"}]
StageRows == [model : StepStates, group : [Indices -> StepStates]]
WrittenRows == [projects : Nat, revisions : Nat, claims : BOOLEAN]

FlowFits(l, f) ==
  /\ f \in FlowRows /\ f.plan \in Plans(l)
  /\ f.stage = "publish" => f.at \in DOMAIN f.plan

FlowsFit ==
  /\ flows \in [Runs -> [Lanes -> FlowRows]]
  /\ \A r \in Runs, l \in Lanes : FlowFits(l, flows[r][l])
RowsFit ==
  /\ runs \in [Runs -> RunRows]
  /\ steps \in [Runs -> [Lanes -> StageRows]]
  /\ published \in [Runs -> [Lanes -> [Indices -> WrittenRows]]]
  /\ memory \in [revision : 0 .. MaxRevision, active : BOOLEAN]
  /\ retries \in 0 .. MaxRetries

AnalysisInv == FlowsFit /\ RowsFit /\ WorkflowIdentityKept /\ ClaimsInspected
PipelineInv == TranscriptInv /\ AnalysisInv

(* A plan of n groups: its domain, its length and its groups.              *)
LEMMA PlanShape ==
  ASSUME NEW l, NEW plan \in Plans(l)
  PROVE  /\ Len(plan) \in 0 .. MaxGroups /\ DOMAIN plan = 1 .. Len(plan)
         /\ \A i \in DOMAIN plan : plan[i] \in Groups(l)
<1>1. PICK n \in 0 .. MaxGroups : plan \in [1 .. n -> Groups(l)]
  BY DEF Plans
<1>2. n \in Nat /\ plan \in Seq(Groups(l)) /\ Len(plan) = n
  BY <1>1, PipelineNumbers
<1> QED
  BY <1>1, <1>2

LEMMA PlansByLength ==
  ASSUME NEW l, NEW n \in 0 .. MaxGroups, NEW plan \in [1 .. n -> Groups(l)]
  PROVE  plan \in Plans(l)
BY DEF Plans

LEMMA TextPlansAreJoinPlans == Plans("text") \subseteq Plans("join")
<1> SUFFICES ASSUME NEW plan \in Plans("text") PROVE plan \in Plans("join")
  OBVIOUS
<1>1. PICK n \in 0 .. MaxGroups : plan \in [1 .. n -> Groups("text")]
  BY DEF Plans
<1>2. Groups("text") \subseteq Groups("join")
  BY DEF Groups
<1>3. plan \in [1 .. n -> Groups("join")]
  BY <1>1, <1>2
<1> QED
  BY <1>3, PlansByLength

LEMMA IdleFits ==
  /\ << >> \in Plans("text") /\ << >> \in Plans("join")
  /\ \A l \in Lanes : FlowFits(l, Idle)
<1>1. << >> \in [1 .. 0 -> Groups("text")] /\ << >> \in [1 .. 0 -> Groups("join")]
  OBVIOUS
<1>2. << >> \in Plans("text") /\ << >> \in Plans("join")
  <2>1. 0 \in 0 .. MaxGroups
    BY PipelineNumbers
  <2> QED
    BY <1>1, <2>1, PlansByLength
<1> QED
  BY <1>2, PipelineNumbers DEF FlowFits, Idle, FlowRows, FlowStages, Lanes

(* One flow moves and the others stay.                                     *)
Moves(r, l, f) == flows' = [flows EXCEPT ![r] = [flows[r] EXCEPT ![l] = f]]

LEMMA OneFlowMoves ==
  ASSUME FlowsFit, NEW r \in Runs, NEW l \in Lanes, NEW f \in FlowRows, FlowFits(l, f),
         Moves(r, l, f)
  PROVE  /\ FlowsFit' /\ flows'[r][l] = f
         /\ \A rr \in Runs, ll \in Lanes : rr # r \/ ll # l => flows'[rr][ll] = flows[rr][ll]
<1>2. /\ flows' \in [Runs -> [Lanes -> FlowRows]] /\ flows'[r][l] = f
      /\ \A rr \in Runs, ll \in Lanes : rr # r \/ ll # l => flows'[rr][ll] = flows[rr][ll]
  BY DEF FlowsFit, Moves
<1>3. ASSUME NEW rr \in Runs, NEW ll \in Lanes
      PROVE  FlowFits(ll, flows'[rr][ll])
  <2>1. CASE rr = r /\ ll = l
    BY <1>2, <2>1
  <2>2. CASE ~(rr = r /\ ll = l)
    BY <1>2, <2>2 DEF FlowsFit
  <2> QED
    BY <2>1, <2>2
<1>4. \A rr \in Runs, ll \in Lanes : FlowFits(ll, flows[rr][ll])'
  BY <1>3 DEF FlowFits
<1> QED
  BY <1>2, <1>4 DEF FlowsFit

(* What keeps the identity of a workflow in the checkpoint of its run.     *)
LEMMA IdentityStays ==
  ASSUME WorkflowIdentityKept,
         \A r \in Runs : flows'[r]["text"].state \in {"live", "threw", "closed"} =>
           \/ flows[r]["text"].state \in {"live", "threw", "closed"}
           \/ "workflow" \in runs'[r].checkpoint,
         \A r \in Runs : "workflow" \in runs[r].checkpoint => "workflow" \in runs'[r].checkpoint
  PROVE  WorkflowIdentityKept'
BY DEF WorkflowIdentityKept

LEMMA PipelineInvInit == PipelineInit => PipelineInv
<1> SUFFICES ASSUME PipelineInit PROVE PipelineInv
  OBVIOUS
<1>1. TranscriptInv
  BY TranscriptInvInit DEF PipelineInit
<1>2. FlowsFit
  <2>1. FlowFits("join", [Idle EXCEPT !.state = "queued"])
    BY IdleFits DEF FlowFits, FlowRows, Lanes, Idle
  <2>2. \A l \in Lanes : FlowFits(l, Idle)
    BY IdleFits
  <2>3. ASSUME NEW r \in Runs, NEW l \in Lanes
        PROVE  flows[r][l] \in FlowRows /\ FlowFits(l, flows[r][l])
    <3>1. flows[r][l] = IF r = 1 /\ l = "join" THEN [Idle EXCEPT !.state = "queued"] ELSE Idle
      BY DEF PipelineInit
    <3>2. FlowFits(l, flows[r][l])
      BY <2>1, <2>2, <3>1
    <3> QED
      BY <3>2 DEF FlowFits
  <2>4. flows = [r \in Runs |-> [l \in Lanes |-> flows[r][l]]]
    BY DEF PipelineInit
  <2> QED
    BY <2>3, <2>4 DEF FlowsFit
<1>3. RowsFit
  <2>1. runs \in [Runs -> RunRows]
    BY DEF PipelineInit, RunRows, Finished
  <2>2. steps \in [Runs -> [Lanes -> StageRows]]
    BY DEF PipelineInit, StageRows, StepStates
  <2>3. published \in [Runs -> [Lanes -> [Indices -> WrittenRows]]]
    BY DEF PipelineInit, WrittenRows
  <2>4. memory \in [revision : 0 .. MaxRevision, active : BOOLEAN] /\ retries \in 0 .. MaxRetries
    BY PipelineNumbers DEF PipelineInit
  <2> QED
    BY <2>1, <2>2, <2>3, <2>4 DEF RowsFit
<1>4. WorkflowIdentityKept
  BY DEF PipelineInit, WorkflowIdentityKept, Idle, Lanes
<1>5. ClaimsInspected
  BY DEF PipelineInit, ClaimsInspected
<1> QED
  BY <1>1, <1>2, <1>3, <1>4, <1>5 DEF PipelineInv, AnalysisInv

(* Nothing new is published, and what was heard stays heard.               *)
LEMMA ClaimsStay ==
  ASSUME PipelineInv, UNCHANGED published, [TranscriptNext]_transcriptVars
  PROVE  ClaimsInspected'
<1>1. \A i \in Segments : segments[i].state = "succeeded" => segments'[i].state = "succeeded"
  BY HeardStaysHeard DEF PipelineInv
<1> QED
  BY <1>1 DEF PipelineInv, AnalysisInv, ClaimsInspected

(* One flow moves; its run's checkpoint keeps the workflow where it has it. *)
LEMMA FlowKeeps ==
  ASSUME PipelineInv, RowsFit', UNCHANGED published, [TranscriptNext]_transcriptVars,
         NEW r \in Runs, NEW l \in Lanes, NEW f \in FlowRows, FlowFits(l, f),
         Moves(r, l, f),
         \A q \in Runs : "workflow" \in runs[q].checkpoint => "workflow" \in runs'[q].checkpoint,
         l = "text" /\ f.state \in {"live", "threw", "closed"} =>
           \/ flows[r]["text"].state \in {"live", "threw", "closed"}
           \/ "workflow" \in runs'[r].checkpoint
  PROVE  PipelineInv'
<1>1. TranscriptInv'
  BY TranscriptInvStep DEF PipelineInv
<1>2. /\ FlowsFit' /\ flows'[r][l] = f
      /\ \A rr \in Runs, ll \in Lanes : rr # r \/ ll # l => flows'[rr][ll] = flows[rr][ll]
  <2>1. FlowsFit
    BY DEF PipelineInv, AnalysisInv
  <2> QED
    BY <2>1, OneFlowMoves
<1>3. WorkflowIdentityKept'
  <2>1. "text" \in Lanes
    BY DEF Lanes
  <2>2. \A q \in Runs : flows'[q]["text"].state \in {"live", "threw", "closed"} =>
           \/ flows[q]["text"].state \in {"live", "threw", "closed"}
           \/ "workflow" \in runs'[q].checkpoint
    BY <1>2, <2>1
  <2> QED
    BY <2>2, IdentityStays DEF PipelineInv, AnalysisInv
<1> QED
  BY <1>1, <1>2, <1>3, ClaimsStay DEF PipelineInv, AnalysisInv

Busy == {"live", "threw", "closed"}

LEMMA OnlyFlowKeeps ==
  ASSUME PipelineInv, UNCHANGED <<runs, steps, published, memory, retries>>,
         [TranscriptNext]_transcriptVars,
         NEW r \in Runs, NEW l \in Lanes, NEW f \in FlowRows, FlowFits(l, f), Moves(r, l, f),
         l = "text" /\ f.state \in Busy => flows[r]["text"].state \in Busy
  PROVE  PipelineInv'
<1>1. RowsFit'
  BY DEF PipelineInv, AnalysisInv, RowsFit
<1> QED
  BY <1>1, FlowKeeps DEF Busy

(* The rows a flow may take on its way.                                    *)
LEMMA FlowStops ==
  ASSUME NEW l \in Lanes, NEW f \in FlowRows, FlowFits(l, f),
         NEW state \in {"none", "queued", "live", "threw", "closed"}
  PROVE  /\ [f EXCEPT !.state = state] \in FlowRows
         /\ FlowFits(l, [f EXCEPT !.state = state])
         /\ [f EXCEPT !.state = state].state = state
BY DEF FlowFits, FlowRows

LEMMA FlowAdvances ==
  ASSUME NEW l \in Lanes, NEW f \in FlowRows, FlowFits(l, f),
         NEW stage \in FlowStages \ {"publish"}
  PROVE  /\ [f EXCEPT !.stage = stage] \in FlowRows
         /\ FlowFits(l, [f EXCEPT !.stage = stage])
         /\ [f EXCEPT !.stage = stage].state = f.state
BY DEF FlowFits, FlowRows

LEMMA FlowReads ==
  ASSUME NEW l \in Lanes, NEW f \in FlowRows, FlowFits(l, f),
         NEW stage \in FlowStages \ {"publish"}, NEW revision \in 0 .. MaxRevision,
         NEW heard \in BOOLEAN
  PROVE  /\ [f EXCEPT !.stage = stage, !.revision = revision] \in FlowRows
         /\ FlowFits(l, [f EXCEPT !.stage = stage, !.revision = revision])
         /\ [f EXCEPT !.stage = stage, !.revision = revision].state = f.state
         /\ [f EXCEPT !.stage = stage, !.revision = revision, !.heard = heard] \in FlowRows
         /\ FlowFits(l, [f EXCEPT !.stage = stage, !.revision = revision, !.heard = heard])
         /\ [f EXCEPT !.stage = stage, !.revision = revision, !.heard = heard].state = f.state
BY DEF FlowFits, FlowRows

LEMMA FlowOf ==
  ASSUME PipelineInv, NEW r \in Runs, NEW l \in Lanes
  PROVE  /\ flows[r][l] \in FlowRows /\ FlowFits(l, flows[r][l])
         /\ flows \in [Runs -> [Lanes -> FlowRows]]
BY DEF PipelineInv, AnalysisInv, FlowsFit

(* The stages before the model.                                            *)
LEMMA StagesKeep ==
  ASSUME PipelineInv, NEW r \in Runs,
         \/ EvaluateMedia(r) \/ WaitForMediaSettled(r) \/ LoadContext(r) \/ LoadJoinedContext(r)
         \/ \E l \in Lanes : StageThrows(r, l)
  PROVE  PipelineInv'
<1>1. "text" \in Lanes /\ "join" \in Lanes
  BY DEF Lanes
<1>2. memory.revision \in 0 .. MaxRevision
  BY DEF PipelineInv, AnalysisInv, RowsFit
<1>3. CASE EvaluateMedia(r)
  <2> DEFINE f == flows[r]["join"]
  <2>1. /\ UNCHANGED <<runs, steps, published, memory, retries>>
        /\ [TranscriptNext]_transcriptVars
    BY <1>3 DEF EvaluateMedia, TranscriptNext
  <2>2. \/ Moves(r, "join", [f EXCEPT !.state = "threw"])
        \/ Moves(r, "join", [f EXCEPT !.stage = "wait"])
        \/ Moves(r, "join", [f EXCEPT !.stage = "load"])
    BY <1>3 DEF EvaluateMedia, Throw, Goto, Moves
  <2>3. f \in FlowRows /\ FlowFits("join", f)
    BY <1>1, FlowOf
  <2> HIDE DEF f
  <2>4. {"wait", "load"} \subseteq FlowStages \ {"publish"}
    BY DEF FlowStages
  <2>5. \E g \in FlowRows : FlowFits("join", g) /\ Moves(r, "join", g)
    BY <1>1, <1>2, <2>2, <2>3, <2>4, FlowStops, FlowAdvances, FlowReads
  <2> QED
    BY <1>1, <2>1, <2>5, OnlyFlowKeeps
<1>4. CASE WaitForMediaSettled(r) \/ LoadJoinedContext(r)
  <2> DEFINE f == flows[r]["join"]
  <2>1. /\ UNCHANGED <<runs, steps, published, memory, retries, transcriptVars>>
        /\ [TranscriptNext]_transcriptVars
    BY <1>4 DEF WaitForMediaSettled, LoadJoinedContext
  <2>2. \/ Moves(r, "join", [f EXCEPT !.stage = "settle"])
        \/ \E b \in BOOLEAN :
             Moves(r, "join", [f EXCEPT !.stage = "model", !.revision = memory.revision, !.heard = b])
    BY <1>4 DEF WaitForMediaSettled, LoadJoinedContext, Goto, Moves
  <2>3. f \in FlowRows /\ FlowFits("join", f)
    BY <1>1, FlowOf
  <2> HIDE DEF f
  <2>4. {"settle", "model"} \subseteq FlowStages \ {"publish"}
    BY DEF FlowStages
  <2>5. \E g \in FlowRows : FlowFits("join", g) /\ Moves(r, "join", g)
    BY <1>1, <1>2, <2>2, <2>3, <2>4, FlowStops, FlowAdvances, FlowReads
  <2> QED
    BY <1>1, <2>1, <2>5, OnlyFlowKeeps
<1>5. CASE LoadContext(r)
  <2> DEFINE f == flows[r]["text"]
  <2>1. /\ UNCHANGED <<runs, steps, published, memory, retries, transcriptVars>>
        /\ [TranscriptNext]_transcriptVars /\ f.state \in Busy
    BY <1>5 DEF LoadContext, Live, Busy
  <2>2. \/ Moves(r, "text", [f EXCEPT !.state = "threw"])
        \/ Moves(r, "text", [f EXCEPT !.stage = "model", !.revision = memory.revision])
    BY <1>5 DEF LoadContext, Throw, Moves
  <2>3. f \in FlowRows /\ FlowFits("text", f)
    BY <1>1, FlowOf
  <2>4. {"model"} \subseteq FlowStages \ {"publish"}
    BY DEF FlowStages
  <2>5. \E g \in FlowRows : FlowFits("text", g) /\ Moves(r, "text", g)
    <3> HIDE DEF f
    <3> QED
      BY <1>1, <1>2, <2>2, <2>3, <2>4, FlowStops, FlowAdvances, FlowReads
  <2> QED
    BY <1>1, <2>1, <2>5, OnlyFlowKeeps
<1>6. ASSUME NEW l \in Lanes, StageThrows(r, l)
      PROVE  PipelineInv'
  <2>1. /\ UNCHANGED <<runs, steps, published, memory, retries, transcriptVars>>
        /\ [TranscriptNext]_transcriptVars /\ flows[r][l].state \in Busy
    BY <1>6 DEF StageThrows, Busy
  <2>2. Moves(r, l, [flows[r][l] EXCEPT !.state = "threw"])
    BY <1>6 DEF StageThrows, Throw, Moves
  <2>3. \E g \in FlowRows : FlowFits(l, g) /\ Moves(r, l, g)
    BY <2>2, FlowOf, FlowStops, FlowAdvances, FlowReads
  <2> QED
    BY <2>1, <2>3, OnlyFlowKeeps
<1> QED
  BY <1>3, <1>4, <1>5, <1>6

LEMMA RowsOf ==
  ASSUME PipelineInv
  PROVE  /\ runs \in [Runs -> RunRows] /\ steps \in [Runs -> [Lanes -> StageRows]]
         /\ published \in [Runs -> [Lanes -> [Indices -> WrittenRows]]]
         /\ memory \in [revision : 0 .. MaxRevision, active : BOOLEAN]
         /\ retries \in 0 .. MaxRetries
BY DEF PipelineInv, AnalysisInv, RowsFit

(* Rows of one run change: their shape.                                    *)
LEMMA RunChanges ==
  ASSUME PipelineInv, NEW r \in Runs, NEW row \in RunRows, runs' = [runs EXCEPT ![r] = row],
         UNCHANGED <<steps, published, memory>>, retries' \in 0 .. MaxRetries
  PROVE  RowsFit' /\ runs'[r] = row /\ \A q \in Runs : q # r => runs'[q] = runs[q]
BY RowsOf DEF RowsFit

(* The executors start their workflows.                                    *)
LEMMA StartsKeep ==
  ASSUME PipelineInv, NEW r \in Runs, AnalyzeChangePlan(r) \/ JoinMultimodal(r)
  PROVE  PipelineInv'
<1>1. "text" \in Lanes /\ "join" \in Lanes
  BY DEF Lanes
<1>2. UNCHANGED <<steps, published, memory, retries, transcriptVars>> /\ [TranscriptNext]_transcriptVars
  BY DEF AnalyzeChangePlan, JoinMultimodal
<1>3. runs[r] \in RunRows /\ retries' \in 0 .. MaxRetries
  BY <1>2, RowsOf
<1>4. CASE AnalyzeChangePlan(r)
  <2> DEFINE f == [Idle EXCEPT !.state = "live"]
             row == [runs[r] EXCEPT !.checkpoint = {"workflow"}]
  <2>1. row \in RunRows /\ "workflow" \in row.checkpoint
    BY <1>3 DEF RunRows
  <2>2. runs' = [runs EXCEPT ![r] = row] /\ Moves(r, "text", f)
    BY <1>4 DEF AnalyzeChangePlan, Moves
  <2> HIDE DEF row
  <2>3. RowsFit' /\ runs'[r] = row /\ \A q \in Runs : q # r => runs'[q] = runs[q]
    BY <1>2, <1>3, <2>1, <2>2, RunChanges
  <2>4. f \in FlowRows /\ FlowFits("text", f)
    <3>1. Idle \in FlowRows /\ FlowFits("text", Idle)
      BY <1>1, IdleFits DEF FlowFits
    <3> QED
      BY <1>1, <3>1, FlowStops
  <2> HIDE DEF f
  <2>5. \A q \in Runs : "workflow" \in runs[q].checkpoint => "workflow" \in runs'[q].checkpoint
    BY <2>1, <2>3
  <2> QED
    BY <1>1, <1>2, <2>1, <2>2, <2>3, <2>4, <2>5, FlowKeeps
<1>5. CASE JoinMultimodal(r) /\ memory.active
  <2> DEFINE f == [Idle EXCEPT !.state = "live", !.stage = "evaluate"]
             row == [runs[r] EXCEPT !.checkpoint = runs[r].checkpoint \cup {"joinWorkflow"}]
  <2>1. row \in RunRows /\ ("workflow" \in runs[r].checkpoint => "workflow" \in row.checkpoint)
    BY <1>3 DEF RunRows
  <2>2. runs' = [runs EXCEPT ![r] = row] /\ Moves(r, "join", f)
    BY <1>5 DEF JoinMultimodal, Moves
  <2> HIDE DEF row
  <2>3. RowsFit' /\ runs'[r] = row /\ \A q \in Runs : q # r => runs'[q] = runs[q]
    BY <1>2, <1>3, <2>1, <2>2, RunChanges
  <2>4. f \in FlowRows /\ FlowFits("join", f)
    <3>1. Idle \in FlowRows /\ FlowFits("join", Idle)
      BY <1>1, IdleFits DEF FlowFits
    <3> QED
      BY <1>1, <3>1 DEF FlowFits, FlowRows, FlowStages
  <2> HIDE DEF f
  <2>5. \A q \in Runs : "workflow" \in runs[q].checkpoint => "workflow" \in runs'[q].checkpoint
    BY <2>1, <2>3
  <2> QED
    BY <1>1, <1>2, <2>1, <2>2, <2>3, <2>4, <2>5, FlowKeeps
<1>6. CASE JoinMultimodal(r) /\ ~memory.active
  <2>1. UNCHANGED runs /\ Moves(r, "join", [flows[r]["join"] EXCEPT !.state = "closed"])
    BY <1>6 DEF JoinMultimodal, Moves
  <2>2. \E g \in FlowRows : FlowFits("join", g) /\ Moves(r, "join", g)
    <3>1. flows[r]["join"] \in FlowRows /\ FlowFits("join", flows[r]["join"])
      BY <1>1, FlowOf
    <3> QED
      BY <1>1, <2>1, <3>1, FlowStops
  <2> QED
    BY <1>1, <1>2, <2>1, <2>2, OnlyFlowKeeps
<1> QED
  BY <1>4, <1>5, <1>6

(* The model's loop: its row opens, and ends with a plan.                  *)
LEMMA RecordedStep ==
  ASSUME NEW l, NEW row \in StepStates, NEW outcome \in StepStates
  PROVE  RecordStep(l, row, outcome) \in StepStates
BY DEF RecordStep

LEMMA StepChanges ==
  ASSUME PipelineInv, NEW r \in Runs, NEW l \in Lanes, NEW row \in StageRows,
         steps' = [steps EXCEPT ![r] = [steps[r] EXCEPT ![l] = row]],
         UNCHANGED <<runs, published, memory, retries>>
  PROVE  RowsFit'
BY RowsOf DEF RowsFit

LEMMA ModelKeeps ==
  ASSUME PipelineInv, NEW r \in Runs, NEW l \in Lanes, OpenModelStep(r, l) \/ EndModelStage(r, l)
  PROVE  PipelineInv'
<1>1. /\ UNCHANGED <<runs, published, memory, retries, transcriptVars>>
      /\ [TranscriptNext]_transcriptVars /\ flows[r][l].state = "live"
  BY DEF OpenModelStep, EndModelStage, Live
<1>2. steps[r][l] \in StageRows
  BY RowsOf
<1>3. RowsFit'
  <2>1. PICK m \in StepStates :
          steps' = [steps EXCEPT ![r] = [steps[r] EXCEPT ![l] = [steps[r][l] EXCEPT !.model = m]]]
    <3>1. CASE OpenModelStep(r, l)
      BY <3>1 DEF OpenModelStep, StepStates
    <3>2. CASE EndModelStage(r, l)
      <4>1. RecordStep(l, steps[r][l].model, "succeeded") \in StepStates
        BY <1>2, RecordedStep DEF StageRows, StepStates
      <4> QED
        BY <3>2, <4>1 DEF EndModelStage
    <3> QED
      BY <3>1, <3>2
  <2>2. [steps[r][l] EXCEPT !.model = m] \in StageRows
    BY <1>2 DEF StageRows
  <2> QED
    BY <1>1, <2>1, <2>2, StepChanges
<1>4. flows[r][l] \in FlowRows /\ FlowFits(l, flows[r][l])
  BY FlowOf
<1>5. \E g \in FlowRows : FlowFits(l, g) /\ Moves(r, l, g) /\ g.state = "live"
  <2>1. CASE OpenModelStep(r, l)
    <3>1. Moves(r, l, flows[r][l])
      BY <2>1, FlowOf DEF OpenModelStep, Moves
    <3> QED
      BY <1>1, <1>4, <3>1
  <2>2. CASE EndModelStage(r, l)
    <3>1. PICK plan \in Plans(l) :
            Moves(r, l, [flows[r][l] EXCEPT !.stage = IF plan = << >> THEN "done" ELSE "publish",
                                            !.plan = plan, !.at = 1])
      BY <2>2 DEF EndModelStage, Moves
    <3> DEFINE f == [flows[r][l] EXCEPT !.stage = IF plan = << >> THEN "done" ELSE "publish",
                                        !.plan = plan, !.at = 1]
    <3>2. plan \in Plans("join")
      BY TextPlansAreJoinPlans DEF Lanes
    <3>3. 1 \in 1 .. (MaxGroups + 1)
      BY PipelineNumbers
    <3>4. plan # << >> => 1 \in DOMAIN plan
      <4>1. /\ Len(plan) \in 0 .. MaxGroups /\ DOMAIN plan = 1 .. Len(plan)
            /\ plan \in Seq(Groups(l))
        <5>1. PICK n \in 0 .. MaxGroups : plan \in [1 .. n -> Groups(l)]
          BY DEF Plans
        <5> QED
          BY <5>1, PlanShape, PipelineNumbers
      <4> QED
        BY <4>1, PipelineNumbers
    <3>5. f \in FlowRows /\ f.plan = plan /\ f.at = 1 /\ f.state = "live"
          /\ f.stage = IF plan = << >> THEN "done" ELSE "publish"
      BY <1>1, <1>4, <3>2, <3>3 DEF FlowRows, FlowStages
    <3>6. FlowFits(l, f)
      BY <3>4, <3>5 DEF FlowFits
    <3> QED
      BY <3>1, <3>5, <3>6
  <2> QED
    BY <2>1, <2>2
<1> QED
  BY <1>1, <1>3, <1>5, FlowKeeps

(* A group ends: its row, what it wrote, and the next group at hand.  What *)
(* it published on the word of the audio rests on audio that was heard.    *)
LEMMA GroupKeeps ==
  ASSUME PipelineInv, NEW r \in Runs, NEW l \in Lanes, Live(r, l, "publish"),
         NEW outcome \in Finished, NEW projects \in 0 .. 1, NEW revisions \in 0 .. 1,
         FinishGroup(r, l, outcome, projects, revisions),
         revisions > 0 /\ flows[r][l].plan[flows[r][l].at].key = "company" =>
           memory.revision < MaxRevision,
         revisions > 0 /\ flows[r][l].plan[flows[r][l].at].media =>
           \A s \in Segments : segments[s].state = "succeeded"
  PROVE  PipelineInv'
<1> DEFINE f == flows[r][l]
           g == f.plan[f.at]
<1>1. UNCHANGED <<runs, retries, transcriptVars>> /\ [TranscriptNext]_transcriptVars
  BY DEF FinishGroup
<1>2. /\ f \in FlowRows /\ FlowFits(l, f) /\ f.stage = "publish" /\ f.state = "live"
      /\ f.at \in DOMAIN f.plan
  BY FlowOf DEF Live, FlowFits
<1>3. /\ Len(f.plan) \in 0 .. MaxGroups /\ DOMAIN f.plan = 1 .. Len(f.plan)
      /\ g \in Groups(l)
  <2>1. f.plan \in Plans(l)
    BY <1>2 DEF FlowFits
  <2> QED
    BY <1>2, <2>1, PlanShape
<1>4. f.at \in Indices /\ f.at \in 1 .. (MaxGroups + 1) /\ f.at + 1 \in 1 .. (MaxGroups + 1)
      /\ (f.at # Len(f.plan) => f.at + 1 \in DOMAIN f.plan)
  <2>1. ASSUME NEW n \in 0 .. MaxGroups, NEW at \in 1 .. n
        PROVE  /\ at \in 1 .. MaxGroups /\ at \in 1 .. (MaxGroups + 1)
               /\ at + 1 \in 1 .. (MaxGroups + 1) /\ (at # n => at + 1 \in 1 .. n)
    BY PipelineNumbers
  <2> HIDE DEF f
  <2> QED
    BY <1>2, <1>3, <2>1 DEF Indices
<1>5. steps' \in [Runs -> [Lanes -> StageRows]]
  <2>1. steps[r][l] \in StageRows /\ steps[r][l].group[f.at] \in StepStates
    BY <1>4, RowsOf DEF StageRows
  <2>2. PICK m \in StepStates :
          steps' = [steps EXCEPT ![r] = [steps[r] EXCEPT ![l] =
                      [steps[r][l] EXCEPT !.group = [steps[r][l].group EXCEPT ![f.at] = m]]]]
    <3>1. RecordStep(l, steps[r][l].group[f.at], outcome) \in StepStates
      BY <2>1, RecordedStep DEF StepStates, Finished
    <3> QED
      BY <3>1 DEF FinishGroup
  <2>3. [steps[r][l] EXCEPT !.group = [steps[r][l].group EXCEPT ![f.at] = m]] \in StageRows
    BY <2>1 DEF StageRows
  <2> QED
    BY <2>2, <2>3, RowsOf
<1>6. PICK w \in WrittenRows :
        /\ published' = [published EXCEPT ![r] = [published[r] EXCEPT ![l] =
                           [published[r][l] EXCEPT ![f.at] = w]]]
        /\ w.claims = (published[r][l][f.at].claims \/ (revisions > 0 /\ g.media))
  <2>1. published[r][l][f.at] \in WrittenRows
    BY <1>4, RowsOf
  <2>2. g.media \in BOOLEAN
    BY <1>3 DEF Groups
  <2> DEFINE w == [projects |-> published[r][l][f.at].projects + projects,
                   revisions |-> published[r][l][f.at].revisions + revisions,
                   claims |-> published[r][l][f.at].claims \/ (revisions > 0 /\ g.media)]
  <2>3. w \in WrittenRows
    <3>1. /\ published[r][l][f.at].projects \in Nat /\ published[r][l][f.at].revisions \in Nat
          /\ published[r][l][f.at].claims \in BOOLEAN
      BY <2>1 DEF WrittenRows
    <3> HIDE DEF f
    <3>2. /\ published[r][l][f.at].projects + projects \in Nat
          /\ published[r][l][f.at].revisions + revisions \in Nat
      BY <3>1
    <3>3. (published[r][l][f.at].claims \/ (revisions > 0 /\ g.media)) \in BOOLEAN
      OBVIOUS
    <3> QED
      BY <3>2, <3>3 DEF WrittenRows
  <2>4. published' = [published EXCEPT ![r] = [published[r] EXCEPT ![l] =
                        [published[r][l] EXCEPT ![f.at] = w]]]
    BY DEF FinishGroup
  <2> QED
    BY <2>3, <2>4
<1>7. /\ published' \in [Runs -> [Lanes -> [Indices -> WrittenRows]]]
      /\ \A rr \in Runs, ll \in Lanes, i \in Indices :
           published'[rr][ll][i].claims =>
             published[rr][ll][i].claims \/ (revisions > 0 /\ g.media)
  <2>1. /\ published' \in [Runs -> [Lanes -> [Indices -> WrittenRows]]]
        /\ published'[r][l][f.at] = w
    <3> HIDE DEF f
    <3> QED
      BY <1>4, <1>6, RowsOf
  <2>2. ASSUME NEW rr \in Runs, NEW ll \in Lanes, NEW i \in Indices, rr # r \/ ll # l \/ i # f.at
        PROVE  published'[rr][ll][i] = published[rr][ll][i]
    <3> HIDE DEF f
    <3> QED
      BY <1>4, <1>6, <2>2, RowsOf
  <2> SUFFICES ASSUME NEW rr \in Runs, NEW ll \in Lanes, NEW i \in Indices,
                      published'[rr][ll][i].claims
               PROVE  published[rr][ll][i].claims \/ (revisions > 0 /\ g.media)
    BY <2>1
  <2>3. CASE rr = r /\ ll = l /\ i = f.at
    BY <1>6, <2>1, <2>3
  <2> QED
    BY <2>2, <2>3
<1>8. memory' \in [revision : 0 .. MaxRevision, active : BOOLEAN]
  <2>1. CASE revisions > 0 /\ g.key = "company"
    <3>1. PICK n \in 0 .. MaxRevision : n = memory.revision + 1
      BY <2>1, RowsOf, PipelineNumbers
    <3>2. memory' = [memory EXCEPT !.revision = n]
      BY <2>1, <3>1 DEF FinishGroup
    <3> QED
      BY <3>2, RowsOf
  <2>2. CASE ~(revisions > 0 /\ g.key = "company")
    <3>1. memory' = [memory EXCEPT !.revision = memory.revision]
      BY <2>2 DEF FinishGroup
    <3> QED
      BY <3>1, RowsOf
  <2> QED
    BY <2>1, <2>2
<1>9. RowsFit'
  BY <1>1, <1>5, <1>7, <1>8, RowsOf DEF RowsFit
<1>10. PICK next \in FlowRows : FlowFits(l, next) /\ Moves(r, l, next) /\ next.state = "live"
  <2> DEFINE next == [f EXCEPT !.at = f.at + 1, !.stage = IF f.at = Len(f.plan) THEN "done" ELSE f.stage]
  <2>1. Moves(r, l, next)
    BY DEF FinishGroup, Moves
  <2>2. ASSUME NEW n \in 1 .. (MaxGroups + 1), NEW stage \in FlowStages,
               stage = "publish" => n \in DOMAIN f.plan
        PROVE  /\ [f EXCEPT !.at = n, !.stage = stage] \in FlowRows
               /\ FlowFits(l, [f EXCEPT !.at = n, !.stage = stage])
               /\ [f EXCEPT !.at = n, !.stage = stage].state = f.state
    <3> HIDE DEF f
    <3> QED
      BY <1>2, <2>2 DEF FlowFits, FlowRows
  <2>3. (IF f.at = Len(f.plan) THEN "done" ELSE f.stage) \in FlowStages
    BY <1>2 DEF FlowStages
  <2>4. next \in FlowRows /\ FlowFits(l, next) /\ next.state = "live"
    BY <1>2, <1>4, <2>2, <2>3
  <2> QED
    BY <2>1, <2>4
<1>11. FlowsFit' /\ flows'[r][l] = next
       /\ \A rr \in Runs, ll \in Lanes : rr # r \/ ll # l => flows'[rr][ll] = flows[rr][ll]
  BY <1>10, OneFlowMoves DEF PipelineInv, AnalysisInv
<1>12. WorkflowIdentityKept'
  <2>1. "text" \in Lanes
    BY DEF Lanes
  <2>2. \A q \in Runs : flows'[q]["text"].state \in {"live", "threw", "closed"} =>
           flows[q]["text"].state \in {"live", "threw", "closed"}
    BY <1>2, <1>11, <2>1
  <2> QED
    BY <1>1, <2>2, IdentityStays DEF PipelineInv, AnalysisInv
<1>13. ClaimsInspected'
  BY <1>1, <1>7 DEF PipelineInv, AnalysisInv, ClaimsInspected, transcriptVars
<1>14. TranscriptInv'
  BY <1>1, TranscriptInvStep DEF PipelineInv
<1> QED
  BY <1>9, <1>11, <1>12, <1>13, <1>14 DEF PipelineInv, AnalysisInv

(* Audio counts as heard only when every segment was.                      *)
LEMMA HeardIsWhole ==
  ASSUME TranscriptInv, AudioStatus = "complete"
  PROVE  \A s \in Segments : segments[s].state = "succeeded"
<1>1. transcript.extractions > 0
  BY DEF AudioStatus
<1>2. transcript.extractions = 1
  BY <1>1, TranscriptRowsTyped DEF TranscriptInv, TranscriptRows, ExtractionIsWhole
<1> QED
  BY <1>2 DEF TranscriptInv, ExtractionIsWhole

LEMMA PublishKeeps ==
  ASSUME PipelineInv, NEW r \in Runs, PublishGroup(r) \/ PublishJoinGroup(r)
  PROVE  PipelineInv'
<1>1. "text" \in Lanes /\ "join" \in Lanes /\ {"failed", "succeeded"} \subseteq Finished
  BY DEF Lanes, Finished
<1>2. ASSUME NEW l \in Lanes, Live(r, l, "publish"), CommitGroup(r, l),
             flows[r][l].plan[flows[r][l].at].media =>
               \A s \in Segments : segments[s].state = "succeeded"
      PROVE  PipelineInv'
  <2>1. PICK outcome \in Finished, projects \in 0 .. 1, revisions \in 0 .. 1 :
          /\ FinishGroup(r, l, outcome, projects, revisions)
          /\ revisions > 0 /\ flows[r][l].plan[flows[r][l].at].key = "company" =>
               memory.revision < MaxRevision
    <3> DEFINE opened == IF flows[r][l].plan[flows[r][l].at].key = "new_project" THEN 1 ELSE 0
    <3>1. opened \in 0 .. 1 /\ 0 \in 0 .. 1 /\ 1 \in 0 .. 1 /\ ~(0 > 0)
      OBVIOUS
    <3>2. \/ FinishGroup(r, l, "failed", 0, 0)
          \/ FinishGroup(r, l, "succeeded", opened, 0)
          \/ FinishGroup(r, l, "failed", opened, 0)
          \/ /\ flows[r][l].plan[flows[r][l].at].key = "company" => memory.revision < MaxRevision
             /\ FinishGroup(r, l, "succeeded", opened, 1)
      BY <1>2 DEF CommitGroup
    <3> HIDE DEF opened
    <3> QED
      BY <1>1, <3>1, <3>2
  <2> QED
    BY <1>2, <2>1, GroupKeeps
<1>3. CASE PublishGroup(r)
  <2>1. ~flows[r]["text"].plan[flows[r]["text"].at].media
    <3>1. /\ flows[r]["text"].plan \in Plans("text")
          /\ flows[r]["text"].at \in DOMAIN flows[r]["text"].plan
      BY <1>1, <1>3, FlowOf DEF FlowFits, PublishGroup, Live
    <3>2. flows[r]["text"].plan[flows[r]["text"].at] \in Groups("text")
      BY <3>1, PlanShape
    <3> QED
      BY <3>2 DEF Groups
  <2> QED
    BY <1>1, <1>2, <1>3, <2>1 DEF PublishGroup
<1>4. CASE PublishJoinGroup(r) /\ ClaimsBacked(flows[r]["join"])
  <2>1. flows[r]["join"].plan[flows[r]["join"].at].media =>
          \A s \in Segments : segments[s].state = "succeeded"
    BY <1>4, HeardIsWhole DEF ClaimsBacked, PipelineInv
  <2> QED
    BY <1>1, <1>2, <1>4, <2>1 DEF PublishJoinGroup
<1>5. CASE PublishJoinGroup(r) /\ ~ClaimsBacked(flows[r]["join"])
  <2>1. Live(r, "join", "publish") /\ FinishGroup(r, "join", "succeeded", 0, 0)
    BY <1>5 DEF PublishJoinGroup
  <2>2. 0 \in 0 .. 1 /\ ~(0 > 0)
    OBVIOUS
  <2> QED
    BY <1>1, <2>1, <2>2, GroupKeeps
<1> QED
  BY <1>3, <1>4, <1>5

(* Either lane completes, in either order: neither drops the workflow.     *)
LEMMA CompletionsKeep ==
  ASSUME PipelineInv, NEW r \in Runs, CompleteAnalysisRun(r) \/ CompleteJoinRun(r)
  PROVE  PipelineInv'
<1>1. "text" \in Lanes /\ "join" \in Lanes
  BY DEF Lanes
<1>2. UNCHANGED <<steps, published, memory, retries, transcriptVars>> /\ [TranscriptNext]_transcriptVars
  BY DEF CompleteAnalysisRun, CompleteJoinRun
<1>3. runs[r] \in RunRows /\ retries' \in 0 .. MaxRetries
  BY <1>2, RowsOf
<1>4. PICK l \in Lanes, row \in RunRows :
        /\ Moves(r, l, [flows[r][l] EXCEPT !.state = "closed"])
        /\ runs' = [runs EXCEPT ![r] = row]
        /\ "workflow" \in runs[r].checkpoint => "workflow" \in row.checkpoint
        /\ flows[r][l].state \in Busy
  <2>1. ASSUME NEW l \in Lanes, NEW state \in {"none", "running"} \cup Finished,
               NEW c \in SUBSET {"workflow", "groups", "joinWorkflow", "join"}
        PROVE  [runs[r] EXCEPT !.state = state, !.checkpoint = c] \in RunRows
    BY <1>3 DEF RunRows
  <2>2. ASSUME NEW l \in Lanes PROVE Outcome(r, l) \in {"none", "running"} \cup Finished
    BY DEF Outcome, Finished
  <2>3. CASE CompleteAnalysisRun(r)
    <3> DEFINE c == (runs[r].checkpoint \cap {"workflow"}) \cup {"groups"}
               row == [runs[r] EXCEPT !.state = Outcome(r, "text"), !.checkpoint = c]
    <3>1. c \in SUBSET {"workflow", "groups", "joinWorkflow", "join"}
      BY <1>3 DEF RunRows
    <3>2. row \in RunRows
      BY <1>1, <2>1, <2>2, <3>1
    <3>3. "workflow" \in runs[r].checkpoint => "workflow" \in row.checkpoint
      BY <1>3 DEF RunRows
    <3>4. /\ Moves(r, "text", [flows[r]["text"] EXCEPT !.state = "closed"])
          /\ runs' = [runs EXCEPT ![r] = row]
          /\ flows[r]["text"].state \in Busy
      BY <1>3, <2>3 DEF CompleteAnalysisRun, Close, Moves, Ended, Live, Busy, RunRows
    <3> HIDE DEF row
    <3> QED
      BY <1>1, <3>2, <3>3, <3>4
  <2>4. CASE CompleteJoinRun(r)
    <3> DEFINE c == runs[r].checkpoint \cup {"join"}
               state == IF runs[r].state = "running" THEN Outcome(r, "join") ELSE runs[r].state
               row == [runs[r] EXCEPT !.checkpoint = c, !.state = state]
    <3>1. c \in SUBSET {"workflow", "groups", "joinWorkflow", "join"}
      BY <1>3 DEF RunRows
    <3>2. state \in {"none", "running"} \cup Finished
      BY <1>1, <1>3, <2>2 DEF RunRows
    <3>3. row \in RunRows /\ ("workflow" \in runs[r].checkpoint => "workflow" \in row.checkpoint)
      <4> HIDE DEF state
      <4> QED
        BY <1>3, <3>1, <3>2 DEF RunRows
    <3>4. /\ Moves(r, "join", [flows[r]["join"] EXCEPT !.state = "closed"])
          /\ runs' = [runs EXCEPT ![r] = row]
          /\ flows[r]["join"].state \in Busy
      BY <1>3, <2>4 DEF CompleteJoinRun, Close, Moves, Ended, Live, Busy, RunRows
    <3> HIDE DEF row
    <3> QED
      BY <1>1, <3>3, <3>4
  <2> QED
    BY <2>3, <2>4
<1>5. RowsFit' /\ runs'[r] = row /\ \A q \in Runs : q # r => runs'[q] = runs[q]
  BY <1>2, <1>3, <1>4, RunChanges
<1>6. \A q \in Runs : "workflow" \in runs[q].checkpoint => "workflow" \in runs'[q].checkpoint
  BY <1>4, <1>5
<1>7. /\ [flows[r][l] EXCEPT !.state = "closed"] \in FlowRows
      /\ FlowFits(l, [flows[r][l] EXCEPT !.state = "closed"])
  BY FlowOf, FlowStops
<1> QED
  BY <1>2, <1>4, <1>5, <1>6, <1>7, FlowKeeps DEF Busy

(* A retry restarts a workflow whose identity the checkpoint still has.    *)
LEMMA RestartKeeps ==
  ASSUME PipelineInv, NEW r \in Runs, NEW f \in FlowRows, FlowFits("text", f), Restart(r, f),
         "workflow" \in runs[r].checkpoint
  PROVE  PipelineInv'
<1>1. "text" \in Lanes
  BY DEF Lanes
<1>2. /\ UNCHANGED <<steps, published, memory, transcriptVars>> /\ [TranscriptNext]_transcriptVars
      /\ Moves(r, "text", [f EXCEPT !.state = "live"])
  BY DEF Restart, Moves
<1>3. retries' \in 0 .. MaxRetries
  BY RowsOf, PipelineNumbers DEF Restart
<1>4. runs[r] \in RunRows
  BY RowsOf
<1>5. /\ [runs[r] EXCEPT !.state = "running"] \in RunRows
      /\ runs' = [runs EXCEPT ![r] = [runs[r] EXCEPT !.state = "running"]]
      /\ [runs[r] EXCEPT !.state = "running"].checkpoint = runs[r].checkpoint
  BY <1>4 DEF Restart, RunRows
<1>6. /\ RowsFit' /\ runs'[r] = [runs[r] EXCEPT !.state = "running"]
      /\ \A q \in Runs : q # r => runs'[q] = runs[q]
  BY <1>2, <1>3, <1>5, RunChanges
<1>7. /\ \A q \in Runs : "workflow" \in runs[q].checkpoint => "workflow" \in runs'[q].checkpoint
      /\ "workflow" \in runs'[r].checkpoint
  BY <1>5, <1>6
<1>8. [f EXCEPT !.state = "live"] \in FlowRows /\ FlowFits("text", [f EXCEPT !.state = "live"])
  BY <1>1, FlowStops
<1> QED
  BY <1>1, <1>2, <1>6, <1>7, <1>8, FlowKeeps

LEMMA RetryKeeps ==
  ASSUME PipelineInv, NEW r \in Runs, RetryProcessingStep(r)
  PROVE  PipelineInv'
<1> DEFINE f == flows[r]["text"]
<1>1. "text" \in Lanes
  BY DEF Lanes
<1>2. f \in FlowRows /\ FlowFits("text", f)
  BY <1>1, FlowOf
<1>3. "workflow" \in runs[r].checkpoint
  BY DEF RetryProcessingStep, DecideRetry
<1>4. \/ Restart(r, [f EXCEPT !.stage = "model"])
      \/ \E j \in DOMAIN f.plan : Restart(r, [f EXCEPT !.stage = "publish", !.at = j])
      \/ Restart(r, f)
  BY DEF RetryProcessingStep
<1> HIDE DEF f
<1>5. [f EXCEPT !.stage = "model"] \in FlowRows /\ FlowFits("text", [f EXCEPT !.stage = "model"])
  BY <1>1, <1>2, FlowAdvances DEF FlowStages
<1>6. ASSUME NEW j \in DOMAIN f.plan
      PROVE  /\ [f EXCEPT !.stage = "publish", !.at = j] \in FlowRows
             /\ FlowFits("text", [f EXCEPT !.stage = "publish", !.at = j])
  <2>1. j \in 1 .. (MaxGroups + 1)
    <3>1. Len(f.plan) \in 0 .. MaxGroups /\ DOMAIN f.plan = 1 .. Len(f.plan)
      BY <1>2, PlanShape DEF FlowFits
    <3> QED
      BY <3>1, PipelineNumbers
  <2> QED
    BY <1>2, <2>1 DEF FlowFits, FlowRows, FlowStages
<1> QED
  BY <1>2, <1>3, <1>4, <1>5, <1>6, RestartKeeps

(* A reanalysis queues both lanes of the next run.                         *)
LEMMA ReanalysisKeeps ==
  ASSUME PipelineInv, NEW r \in Runs, RequestReanalysis(r)
  PROVE  PipelineInv'
<1> DEFINE queued == [Idle EXCEPT !.state = "queued"]
<1>1. UNCHANGED <<steps, published, memory, retries, transcriptVars>> /\ [TranscriptNext]_transcriptVars
  BY DEF RequestReanalysis
<1>2. runs[r] \in RunRows /\ retries' \in 0 .. MaxRetries
  BY <1>1, RowsOf
<1>3. /\ [runs[r] EXCEPT !.state = "running"] \in RunRows
      /\ runs' = [runs EXCEPT ![r] = [runs[r] EXCEPT !.state = "running"]]
      /\ [runs[r] EXCEPT !.state = "running"].checkpoint = runs[r].checkpoint
  BY <1>2 DEF RequestReanalysis, RunRows
<1>4. /\ RowsFit' /\ runs'[r] = [runs[r] EXCEPT !.state = "running"]
      /\ \A q \in Runs : q # r => runs'[q] = runs[q]
  BY <1>1, <1>2, <1>3, RunChanges
<1>5. \A l \in Lanes : queued \in FlowRows /\ FlowFits(l, queued) /\ queued.state = "queued"
  <2>1. \A l \in Lanes : Idle \in FlowRows /\ FlowFits(l, Idle)
    BY IdleFits DEF FlowFits
  <2> QED
    BY <2>1, FlowStops
<1>6. flows' = [flows EXCEPT ![r] = [l \in Lanes |-> queued]]
  BY DEF RequestReanalysis
<1> HIDE DEF queued
<1>7. /\ flows' \in [Runs -> [Lanes -> FlowRows]]
      /\ \A l \in Lanes : flows'[r][l] = queued
      /\ \A rr \in Runs : rr # r => flows'[rr] = flows[rr]
  BY <1>5, <1>6 DEF PipelineInv, AnalysisInv, FlowsFit
<1>8. FlowsFit'
  <2>1. ASSUME NEW rr \in Runs, NEW ll \in Lanes PROVE FlowFits(ll, flows'[rr][ll])
    BY <1>5, <1>7, FlowOf
  <2>2. \A rr \in Runs, ll \in Lanes : FlowFits(ll, flows[rr][ll])'
    BY <2>1 DEF FlowFits
  <2> QED
    BY <1>7, <2>2 DEF FlowsFit
<1>9. WorkflowIdentityKept'
  <2>1. "text" \in Lanes
    BY DEF Lanes
  <2>2. \A q \in Runs : flows'[q]["text"].state \in {"live", "threw", "closed"} =>
           flows[q]["text"].state \in {"live", "threw", "closed"}
    BY <1>5, <1>7, <2>1
  <2>3. \A q \in Runs : "workflow" \in runs[q].checkpoint => "workflow" \in runs'[q].checkpoint
    BY <1>3, <1>4
  <2> QED
    BY <2>2, <2>3, IdentityStays DEF PipelineInv, AnalysisInv
<1>10. TranscriptInv'
  BY <1>1, TranscriptInvStep DEF PipelineInv
<1> QED
  BY <1>1, <1>4, <1>8, <1>9, <1>10, ClaimsStay DEF PipelineInv, AnalysisInv

(* The first fragment, and the people who change the company's memory.     *)
LEMMA OthersKeep ==
  ASSUME PipelineInv, ExtractFragments \/ Correct \/ Withdraw
  PROVE  PipelineInv'
<1>1. "text" \in Lanes /\ 1 \in Runs
  <2>1. Cardinality(Runs) \in Nat
    BY PipelineNumbers, FS_CardinalityType
  <2> QED
    BY <2>1, PipelineNumbers DEF Lanes
<1>2. CASE ExtractFragments
  <2>1. UNCHANGED <<runs, steps, published, memory, retries, transcriptVars>>
        /\ [TranscriptNext]_transcriptVars
    BY <1>2 DEF ExtractFragments
  <2>2. Moves(1, "text", [flows[1]["text"] EXCEPT !.state = "queued"])
    BY <1>2 DEF ExtractFragments, Moves
  <2>3. \E g \in FlowRows : FlowFits("text", g) /\ Moves(1, "text", g) /\ g.state = "queued"
    <3> DEFINE f == flows[1]["text"]
               g == [f EXCEPT !.state = "queued"]
    <3>1. f \in FlowRows /\ FlowFits("text", f)
      BY <1>1, FlowOf
    <3>2. g \in FlowRows /\ FlowFits("text", g) /\ g.state = "queued"
      <4> HIDE DEF f
      <4> QED
        BY <1>1, <3>1, FlowStops
    <3>3. Moves(1, "text", g)
      BY <2>2
    <3> HIDE DEF g
    <3> QED
      BY <3>2, <3>3
  <2> QED
    BY <1>1, <2>1, <2>3, OnlyFlowKeeps DEF Busy
<1>3. CASE Correct \/ Withdraw
  <2>1. UNCHANGED <<runs, flows, steps, published, retries, transcriptVars>>
        /\ [TranscriptNext]_transcriptVars
    BY <1>3 DEF Correct, Withdraw
  <2>2. memory' \in [revision : 0 .. MaxRevision, active : BOOLEAN]
    <3>1. CASE Correct
      <4>1. PICK n \in 0 .. MaxRevision : n = memory.revision + 1
        BY <3>1, RowsOf, PipelineNumbers DEF Correct
      <4>2. memory' = [memory EXCEPT !.revision = n]
        BY <3>1, <4>1 DEF Correct
      <4> QED
        BY <4>2, RowsOf
    <3>2. CASE Withdraw
      BY <3>2, RowsOf DEF Withdraw
    <3> QED
      BY <1>3, <3>1, <3>2
  <2>3. FlowsFit'
    BY <2>1 DEF PipelineInv, AnalysisInv, FlowsFit
  <2>4. RowsFit'
    BY <2>1, <2>2, RowsOf DEF RowsFit
  <2>5. WorkflowIdentityKept'
    BY <2>1 DEF PipelineInv, AnalysisInv, WorkflowIdentityKept
  <2>6. TranscriptInv'
    BY <2>1, TranscriptInvStep DEF PipelineInv
  <2> QED
    BY <2>1, <2>3, <2>4, <2>5, <2>6, ClaimsStay DEF PipelineInv, AnalysisInv
<1> QED
  BY <1>2, <1>3

(* The transcription goes on beside the analysis, or nothing happens.      *)
LEMMA AudioKeeps ==
  ASSUME PipelineInv, [TranscriptNext]_transcriptVars, UNCHANGED pipelineOwn
  PROVE  PipelineInv'
<1>1. UNCHANGED <<runs, flows, steps, published, memory, retries>>
  BY DEF pipelineOwn
<1>2. FlowsFit' /\ RowsFit' /\ WorkflowIdentityKept'
  BY <1>1 DEF PipelineInv, AnalysisInv, FlowsFit, RowsFit, WorkflowIdentityKept
<1>3. TranscriptInv'
  BY TranscriptInvStep DEF PipelineInv
<1> QED
  BY <1>1, <1>2, <1>3, ClaimsStay DEF PipelineInv, AnalysisInv

LEMMA PipelineInvStep == PipelineInv /\ [PipelineNext]_pipelineVars => PipelineInv'
<1> SUFFICES ASSUME PipelineInv, [PipelineNext]_pipelineVars PROVE PipelineInv'
  OBVIOUS
<1>1. CASE UNCHANGED pipelineVars
  BY <1>1, AudioKeeps DEF pipelineVars
<1>2. CASE TranscriptNext /\ UNCHANGED pipelineOwn
  BY <1>2, AudioKeeps
<1>3. CASE ExtractFragments \/ Correct \/ Withdraw
  BY <1>3, OthersKeep
<1>4. ASSUME NEW r \in Runs, AnalyzeChangePlan(r) \/ JoinMultimodal(r)
      PROVE  PipelineInv'
  BY <1>4, StartsKeep
<1>5. ASSUME NEW r \in Runs,
             \/ EvaluateMedia(r) \/ WaitForMediaSettled(r) \/ LoadContext(r) \/ LoadJoinedContext(r)
             \/ \E l \in Lanes : StageThrows(r, l)
      PROVE  PipelineInv'
  BY <1>5, StagesKeep
<1>6. ASSUME NEW r \in Runs,
             RecordModelCall(r) \/ RecordJoinModelCall(r) \/ ModelStage(r) \/ ModelJoinStage(r)
      PROVE  PipelineInv'
  BY <1>6, ModelKeeps DEF RecordModelCall, RecordJoinModelCall, ModelStage, ModelJoinStage, Lanes
<1>7. ASSUME NEW r \in Runs, PublishGroup(r) \/ PublishJoinGroup(r)
      PROVE  PipelineInv'
  BY <1>7, PublishKeeps
<1>8. ASSUME NEW r \in Runs, CompleteAnalysisRun(r) \/ CompleteJoinRun(r)
      PROVE  PipelineInv'
  BY <1>8, CompletionsKeep
<1>9. ASSUME NEW r \in Runs, RetryProcessingStep(r)
      PROVE  PipelineInv'
  BY <1>9, RetryKeeps
<1>10. ASSUME NEW r \in Runs, RequestReanalysis(r)
       PROVE  PipelineInv'
  BY <1>10, ReanalysisKeeps
<1> QED
  BY <1>1, <1>2, <1>3, <1>4, <1>5, <1>6, <1>7, <1>8, <1>9, <1>10 DEF PipelineNext

(* The inductive invariant holds of every run of both lanes.               *)
LEMMA PipelineInvAlways == PipelineSpec => []PipelineInv
<1>1. PipelineInit => PipelineInv
  BY PipelineInvInit
<1>2. PipelineInv /\ [PipelineNext]_pipelineVars => PipelineInv'
  BY PipelineInvStep
<1> QED
  BY <1>1, <1>2, PTL DEF PipelineSpec

LEMMA PipelineInvTypes == PipelineInv => PipelineTypeOK
<1> SUFFICES ASSUME PipelineInv PROVE PipelineTypeOK
  OBVIOUS
<1>1. ASSUME NEW r \in Runs, NEW l \in Lanes
      PROVE  /\ flows[r][l].state \in {"none", "queued", "live", "threw", "closed"}
             /\ flows[r][l].stage \in FlowStages /\ flows[r][l].plan \in Plans(l)
             /\ flows[r][l].at \in 1 .. (MaxGroups + 1)
             /\ flows[r][l].revision \in 0 .. MaxRevision /\ flows[r][l].heard \in BOOLEAN
  BY FlowOf DEF FlowFits, FlowRows
<1>2. ASSUME NEW r \in Runs, NEW l \in Lanes
      PROVE  /\ steps[r][l].model \in StepStates /\ steps[r][l].group \in [Indices -> StepStates]
             /\ published[r][l] \in [Indices -> [projects : Nat, revisions : Nat, claims : BOOLEAN]]
  BY RowsOf DEF StageRows, WrittenRows
<1>3. runs \in [Runs -> [state : {"none", "running"} \cup Finished,
                         checkpoint : SUBSET {"workflow", "groups", "joinWorkflow", "join"}]]
  BY RowsOf DEF RunRows
<1> QED
  BY <1>1, <1>2, <1>3, RowsOf DEF PipelineTypeOK

(* Whatever the order of the two lanes, the retries and the reanalyses, the *)
(* rows of the pipeline keep their types (processing/text, multimodal).    *)
THEOREM PipelineTypeCorrect == PipelineSpec => []PipelineTypeOK
BY PipelineInvAlways, PipelineInvTypes, PTL

(* The two lanes complete in any order over one checkpoint and never lose  *)
(* the identity of the workflow that a retry restarts (completeAnalysisRun, *)
(* completeJoinRun, retryProcessingStep), for any number of runs.          *)
THEOREM RetriesAlwaysFindTheirWorkflow == PipelineSpec => []WorkflowIdentityKept
<1>1. PipelineInv => WorkflowIdentityKept
  BY DEF PipelineInv, AnalysisInv
<1> QED
  BY <1>1, PipelineInvAlways, PTL

(* A claim that rests on the audio is published over segments that were    *)
(* all heard, and they stay so (publishJoinGroup), for any number of       *)
(* segments, groups, runs and retries.                                     *)
THEOREM ClaimsAreAlwaysInspected == PipelineSpec => []ClaimsInspected
<1>1. PipelineInv => ClaimsInspected
  BY DEF PipelineInv, AnalysisInv
<1> QED
  BY <1>1, PipelineInvAlways, PTL

(* Every analysis reads a transcript that is whole or none.                *)
THEOREM AnalysisReadsWholeTranscripts == PipelineSpec => []TranscriptIsWhole
<1>1. PipelineInv => TranscriptIsWhole
  BY TranscriptInvShows DEF PipelineInv
<1> QED
  BY <1>1, PipelineInvAlways, PTL
-----------------------------------------------------------------------------
(* Intake.  What is in flight stays true of what it read: rows are never   *)
(* taken back, a manifest only grows and keeps its contents, R2 only       *)
(* answers a receipt with a newer one, a completed object stays until its  *)
(* draft is an orphan, and an orphan stays one.                            *)

Manifests == PartialFunctions(Parts, Receipts)
Bytes(m) == [p \in DOMAIN m |-> m[p].content]

\* A receipt of R2: what is stored there is it, or is newer.
Backs(k, p, receipt) ==
  /\ p \in DOMAIN r2[k].stored
  /\ receipt.etag <= r2[k].stored[p].etag
  /\ receipt.etag = r2[k].stored[p].etag => receipt.content = r2[k].stored[p].content

BeginFits(r) ==
  /\ r.draft \in Drafts /\ r.mint \in Mints /\ uploads[r.draft].stage # "none"
  /\ \A a \in uploads[r.draft].declared : r2[<<r.draft, a, r.mint>>].session # "none"
PartFits(r) ==
  /\ r.draft \in Drafts /\ r.slot \in Slots /\ r.part \in Parts
  /\ r.etag \in Etags /\ r.content \in Contents
  /\ Exists(r.draft, r.slot) /\ Backs(KeyOf(r.draft, r.slot), r.part, r)
CompletionFits(r) ==
  /\ r.draft \in Drafts /\ r.slot \in Slots /\ r.manifest \in Manifests
  /\ Exists(r.draft, r.slot) /\ r.key = KeyOf(r.draft, r.slot)
  /\ DOMAIN r.manifest \subseteq DOMAIN attachments[r.draft][r.slot].manifest
  /\ \A p \in DOMAIN r.manifest :
       /\ r.manifest[p].content = attachments[r.draft][r.slot].manifest[p].content
       /\ Backs(r.key, p, r.manifest[p])
  /\ r.done => \/ uploads[r.draft].stage = "orphaned"
               \/ r2[r.key].session = "completed" /\ r2[r.key].object = Bytes(r.manifest)
CollectionFits(r) ==
  \A k \in r.keys : k \in ObjectKeys /\ uploads[k[1]].stage = "orphaned"

RequestFits(r) ==
  \/ r.op = "begin" /\ BeginFits(r)
  \/ r.op = "part" /\ PartFits(r)
  \/ r.op = "complete" /\ CompletionFits(r)
  \/ r.op = "collect" /\ CollectionFits(r)

AttachmentFits(d, a) ==
  LET row == attachments[d][a]
  IN /\ IsFiniteSet(DOMAIN row.manifest)
     /\ Exists(d, a) => uploads[d].stage # "none" /\ r2[KeyOf(d, a)].session # "none"
     /\ ~Exists(d, a) => row.manifest = Nothing
     /\ \A p \in DOMAIN row.manifest : Backs(KeyOf(d, a), p, row.manifest[p])
     /\ Exists(d, a) /\ row.completed /\ uploads[d].stage # "orphaned" =>
          r2[KeyOf(d, a)].session = "completed" /\ r2[KeyOf(d, a)].object = Bytes(row.manifest)

UploadFits(d) == uploads[d].stage \in {"none", "draft", "uploading"} => uploads[d].announced = 0

KeyFits(k) == r2[k].collected => r2[k].session # "open" /\ r2[k].object = Nothing

SourceFits(s) ==
  /\ s \in Sources /\ sources[s] \in SourceRows
  /\ \A a \in sources[s].media :
       Exists(sources[s].draft, a) /\ attachments[sources[s].draft][a].completed

RowsTyped ==
  /\ uploads \in [Drafts -> UploadRows]
  /\ attachments \in [Drafts -> [Slots -> AttachmentRows]]
  /\ r2 \in [ObjectKeys -> SessionStates]

IntakeInv ==
  /\ RowsTyped
  /\ IsFiniteSet(requests) /\ Cardinality(requests) <= MaxRequests
  /\ \A r \in requests : RequestFits(r)
  /\ \A d \in Drafts : UploadFits(d)
  /\ \A d \in Drafts, a \in Slots : AttachmentFits(d, a)
  /\ \A k \in ObjectKeys : KeyFits(k)
  /\ \A s \in DOMAIN sources : SourceFits(s)
  /\ MediaBelongsToOneSource

(* What no step takes back.                                                *)
UploadsGoOn ==
  \A d \in Drafts :
    /\ uploads[d].stage # "none" =>
         uploads'[d].stage # "none" /\ uploads'[d].declared = uploads[d].declared
    /\ uploads[d].stage = "orphaned" => uploads'[d].stage = "orphaned"

UploadsStayBound ==
  \A d \in Drafts : uploads[d].stage = "finalized" /\ uploads[d].source # NoSource =>
    uploads'[d].stage = "finalized" /\ uploads'[d].source = uploads[d].source

UploadsEvolve == UploadsGoOn /\ UploadsStayBound

RowsEvolve ==
  \A d \in Drafts, a \in Slots : Exists(d, a) =>
    LET row == attachments[d][a]
        next == attachments'[d][a]
    IN /\ next.mint = row.mint
       /\ \A p \in DOMAIN row.manifest :
            p \in DOMAIN next.manifest /\ next.manifest[p].content = row.manifest[p].content
       /\ row.completed => next.completed
       /\ row.source # NoSource => next.source = row.source

BucketEvolves ==
  \A k \in ObjectKeys :
    /\ r2[k].session # "none" =>
         /\ r2'[k].session # "none"
         /\ \A p \in DOMAIN r2[k].stored :
              /\ p \in DOMAIN r2'[k].stored
              /\ r2'[k].stored[p] = r2[k].stored[p] \/ r2[k].stored[p].etag < r2'[k].stored[p].etag
    /\ r2[k].session = "completed" /\ uploads[k[1]].stage # "orphaned" =>
         r2'[k].session = "completed" /\ r2'[k].object = r2[k].object

IntakeEvolves == UploadsEvolve /\ RowsEvolve /\ BucketEvolves

LEMMA PartialShape ==
  ASSUME NEW S, NEW T, NEW f \in PartialFunctions(S, T)
  PROVE  DOMAIN f \subseteq S /\ f \in [DOMAIN f -> T]
BY DEF PartialFunctions

LEMMA PartialMade ==
  ASSUME NEW S, NEW T, NEW U, U \subseteq S, NEW f \in [U -> T]
  PROVE  f \in PartialFunctions(S, T)
BY DEF PartialFunctions

LEMMA NothingShape ==
  ASSUME NEW S, NEW T
  PROVE  /\ Nothing \in PartialFunctions(S, T) /\ DOMAIN Nothing = {} /\ IsFiniteSet(DOMAIN Nothing)
<1>1. Nothing \in [{} -> T] /\ DOMAIN Nothing = {}
  BY DEF Nothing
<1>2. Nothing \in PartialFunctions(S, T)
  <2>1. {} \subseteq S
    OBVIOUS
  <2> QED
    BY <1>1, <2>1, PartialMade
<1> QED
  BY <1>1, <1>2, FS_EmptySet

LEMMA KeyParts ==
  /\ \A d \in Drafts, a \in Slots, m \in Mints : <<d, a, m>> \in ObjectKeys
  /\ \A k \in ObjectKeys : k = <<k[1], k[2], k[3]>> /\ k[1] \in Drafts /\ k[2] \in Slots /\ k[3] \in Mints
BY DEF ObjectKeys

LEMMA KeyOfRow ==
  ASSUME RowsTyped, NEW d \in Drafts, NEW a \in Slots, Exists(d, a)
  PROVE  /\ KeyOf(d, a) \in ObjectKeys /\ KeyOf(d, a)[1] = d /\ KeyOf(d, a)[2] = a
         /\ attachments[d][a].mint \in Mints
BY KeyParts DEF RowsTyped, AttachmentRows, Exists, KeyOf

(* A receipt stays one when R2 evolves.                                    *)
LEMMA BackingStays ==
  ASSUME IntakeInv, r2' \in [ObjectKeys -> SessionStates], BucketEvolves,
         NEW k \in ObjectKeys, NEW p, NEW receipt, receipt.etag \in Etags, Backs(k, p, receipt),
         r2[k].session # "none"
  PROVE  Backs(k, p, receipt)'
<1>1. /\ r2[k] \in SessionStates /\ r2'[k] \in SessionStates
      /\ p \in DOMAIN r2[k].stored /\ p \in DOMAIN r2'[k].stored
  BY DEF IntakeInv, RowsTyped, BucketEvolves, Backs
<1>2. r2[k].stored \in PartialFunctions(Parts, Receipts) /\ r2'[k].stored \in PartialFunctions(Parts, Receipts)
  BY <1>1 DEF SessionStates
<1>3. r2[k].stored[p] \in Receipts /\ r2'[k].stored[p] \in Receipts
  BY <1>1, <1>2, PartialShape
<1>4. /\ r2[k].stored[p].etag \in Nat /\ r2'[k].stored[p].etag \in Nat /\ receipt.etag \in Nat
  BY <1>3, IntakeNumbers DEF Receipts
<1>5. r2'[k].stored[p] = r2[k].stored[p] \/ r2[k].stored[p].etag < r2'[k].stored[p].etag
  BY <1>1 DEF BucketEvolves
<1> QED
  BY <1>1, <1>4, <1>5 DEF Backs

LEMMA KeyStays ==
  ASSUME IntakeInv, RowsEvolve, NEW d \in Drafts, NEW a \in Slots, Exists(d, a)
  PROVE  Exists(d, a)' /\ KeyOf(d, a)' = KeyOf(d, a)
BY DEF RowsEvolve, Exists, KeyOf

(* A request in flight stays true of what it read.                         *)
LEMMA RequestStays ==
  ASSUME IntakeInv, RowsTyped', UploadsGoOn, RowsEvolve, BucketEvolves, NEW r, RequestFits(r)
  PROVE  RequestFits(r)'
<1>1. r2' \in [ObjectKeys -> SessionStates] /\ RowsTyped
  BY DEF RowsTyped, IntakeInv
<1>2. \A d \in Drafts, a \in Slots : Exists(d, a) => r2[KeyOf(d, a)].session # "none"
  BY DEF IntakeInv, AttachmentFits
<1>3. CASE r.op = "begin" /\ BeginFits(r)
  <2>1. /\ r.draft \in Drafts /\ r.mint \in Mints /\ uploads'[r.draft].stage # "none"
        /\ uploads'[r.draft].declared = uploads[r.draft].declared
    BY <1>3 DEF BeginFits, UploadsGoOn
  <2>2. uploads[r.draft].declared \subseteq Slots
    BY <1>1, <2>1 DEF RowsTyped, UploadRows
  <2>3. \A a \in uploads[r.draft].declared : r2'[<<r.draft, a, r.mint>>].session # "none"
    BY <1>3, <2>1, <2>2, KeyParts DEF BeginFits, BucketEvolves
  <2> QED
    BY <1>3, <2>1, <2>3 DEF RequestFits, BeginFits
<1>4. CASE r.op = "part" /\ PartFits(r)
  <2>1. /\ r.draft \in Drafts /\ r.slot \in Slots /\ r.part \in Parts
        /\ r.etag \in Etags /\ r.content \in Contents
        /\ Exists(r.draft, r.slot) /\ Backs(KeyOf(r.draft, r.slot), r.part, r)
    BY <1>4 DEF PartFits
  <2>2. Exists(r.draft, r.slot)' /\ KeyOf(r.draft, r.slot)' = KeyOf(r.draft, r.slot)
    BY <2>1, KeyStays
  <2>3. KeyOf(r.draft, r.slot) \in ObjectKeys
    BY <1>1, <2>1, KeyOfRow
  <2> DEFINE k == KeyOf(r.draft, r.slot)
  <2>4. r2[k].session # "none"
    BY <1>2, <2>1
  <2>5. \A q \in ObjectKeys : Backs(q, r.part, r) /\ r2[q].session # "none" => Backs(q, r.part, r)'
    BY <1>1, <2>1, BackingStays
  <2>6. Backs(KeyOf(r.draft, r.slot), r.part, r)'
    BY <2>1, <2>2, <2>3, <2>4, <2>5 DEF Backs
  <2> QED
    BY <1>4, <2>1, <2>2, <2>6 DEF RequestFits, PartFits
<1>5. CASE r.op = "complete" /\ CompletionFits(r)
  <2> DEFINE d == r.draft
             a == r.slot
  <2>1. /\ d \in Drafts /\ a \in Slots /\ r.manifest \in Manifests
        /\ Exists(d, a) /\ r.key = KeyOf(d, a)
        /\ DOMAIN r.manifest \subseteq DOMAIN attachments[d][a].manifest
        /\ \A p \in DOMAIN r.manifest :
             /\ r.manifest[p].content = attachments[d][a].manifest[p].content
             /\ Backs(r.key, p, r.manifest[p])
        /\ r.done => \/ uploads[d].stage = "orphaned"
                     \/ r2[r.key].session = "completed" /\ r2[r.key].object = Bytes(r.manifest)
    BY <1>5 DEF CompletionFits
  <2>2. Exists(d, a)' /\ KeyOf(d, a)' = KeyOf(d, a)
    BY <2>1, KeyStays
  <2>3. r.key \in ObjectKeys /\ r.key[1] = d /\ r2[r.key].session # "none"
    BY <1>1, <1>2, <2>1, KeyOfRow
  <2>4. /\ DOMAIN r.manifest \subseteq DOMAIN attachments'[d][a].manifest
        /\ \A p \in DOMAIN r.manifest : r.manifest[p].content = attachments'[d][a].manifest[p].content
    BY <2>1 DEF RowsEvolve
  <2>5. ASSUME NEW p \in DOMAIN r.manifest
        PROVE  Backs(r.key, p, r.manifest[p])'
    <3>1. r.manifest[p] \in Receipts
      BY <2>1, <2>5, PartialShape DEF Manifests
    <3>2. r.manifest[p].etag \in Etags
      BY <3>1 DEF Receipts
    <3>3. \A q \in ObjectKeys : Backs(q, p, r.manifest[p]) /\ r2[q].session # "none" =>
                                  Backs(q, p, r.manifest[p])'
      BY <1>1, <3>2, BackingStays
    <3> QED
      BY <2>1, <2>3, <3>3
  <2>6. r.done => \/ uploads'[d].stage = "orphaned"
                  \/ r2'[r.key].session = "completed" /\ r2'[r.key].object = Bytes(r.manifest)
    BY <2>1, <2>3 DEF UploadsGoOn, BucketEvolves
  <2> QED
    BY <1>5, <2>1, <2>2, <2>4, <2>5, <2>6 DEF RequestFits, CompletionFits, Backs
<1>6. CASE r.op = "collect" /\ CollectionFits(r)
  <2>1. \A k \in r.keys : k \in ObjectKeys /\ uploads'[k[1]].stage = "orphaned"
    BY <1>6, KeyParts DEF CollectionFits, UploadsGoOn
  <2> QED
    BY <1>6, <2>1 DEF RequestFits, CollectionFits
<1> QED
  BY <1>3, <1>4, <1>5, <1>6 DEF RequestFits

(* An attachment whose row is not written stays as it was.                 *)
LEMMA AttachmentStays ==
  ASSUME IntakeInv, RowsTyped', UploadsGoOn, BucketEvolves, NEW d \in Drafts, NEW a \in Slots,
         attachments'[d][a].mint = attachments[d][a].mint,
         attachments'[d][a].manifest = attachments[d][a].manifest,
         attachments'[d][a].completed = attachments[d][a].completed
  PROVE  AttachmentFits(d, a)'
<1> DEFINE row == attachments[d][a]
<1>1. r2' \in [ObjectKeys -> SessionStates] /\ RowsTyped /\ AttachmentFits(d, a)
  BY DEF RowsTyped, IntakeInv
<1>2. (Exists(d, a))' = Exists(d, a) /\ KeyOf(d, a)' = KeyOf(d, a)
  BY DEF Exists, KeyOf
<1>3. row.manifest \in Manifests
  BY <1>1 DEF RowsTyped, AttachmentRows, Manifests
<1>4. ~Exists(d, a) => DOMAIN row.manifest = {}
  BY <1>1, NothingShape DEF AttachmentFits
<1>5. Exists(d, a) => KeyOf(d, a) \in ObjectKeys /\ KeyOf(d, a)[1] = d
  BY <1>1, KeyOfRow
<1>6. ASSUME NEW p \in DOMAIN row.manifest
      PROVE  Backs(KeyOf(d, a), p, row.manifest[p])'
  <2>1. Exists(d, a) /\ Backs(KeyOf(d, a), p, row.manifest[p]) /\ r2[KeyOf(d, a)].session # "none"
    BY <1>1, <1>4, <1>6 DEF AttachmentFits
  <2>2. row.manifest[p] \in Receipts
    BY <1>3, <1>6, PartialShape DEF Manifests
  <2>3. row.manifest[p].etag \in Etags
    BY <2>2 DEF Receipts
  <2> DEFINE m == row.manifest[p]
  <2>4. \A q \in ObjectKeys, n \in Receipts :
          Backs(q, p, n) /\ r2[q].session # "none" /\ n.etag \in Etags =>
             /\ p \in DOMAIN r2'[q].stored
             /\ n.etag <= r2'[q].stored[p].etag
             /\ n.etag = r2'[q].stored[p].etag => n.content = r2'[q].stored[p].content
    BY <1>1, BackingStays DEF Backs
  <2>5. /\ p \in DOMAIN r2'[KeyOf(d, a)].stored
        /\ m.etag <= r2'[KeyOf(d, a)].stored[p].etag
        /\ m.etag = r2'[KeyOf(d, a)].stored[p].etag => m.content = r2'[KeyOf(d, a)].stored[p].content
    BY <1>5, <2>1, <2>2, <2>3, <2>4
  <2> QED
    BY <1>2, <2>5 DEF Backs
<1>7. Exists(d, a) => uploads'[d].stage # "none" /\ r2'[KeyOf(d, a)].session # "none"
  BY <1>1, <1>5 DEF AttachmentFits, UploadsGoOn, BucketEvolves
<1>8. Exists(d, a) /\ row.completed /\ uploads'[d].stage # "orphaned" =>
        r2'[KeyOf(d, a)].session = "completed" /\ r2'[KeyOf(d, a)].object = Bytes(row.manifest)
  BY <1>1, <1>5 DEF AttachmentFits, UploadsGoOn, BucketEvolves
<1> QED
  BY <1>1, <1>2, <1>6, <1>7, <1>8 DEF AttachmentFits, Bytes, Exists, KeyOf, Backs

(* What a source carries stays bound to it, and no other source gets it.   *)
LEMMA SourcesStay ==
  ASSUME IntakeInv, UNCHANGED sources, RowsEvolve, UploadsStayBound
  PROVE  /\ \A s \in DOMAIN sources : SourceFits(s)'
         /\ MediaBelongsToOneSource'
<1>1. ASSUME NEW s \in DOMAIN sources
      PROVE  /\ SourceFits(s)' /\ sources[s].draft \in Drafts /\ s # NoSource
             /\ \A a \in sources[s].media :
                  a \in Slots /\ Exists(sources[s].draft, a)
  <2>1. SourceFits(s) /\ sources[s].draft \in Drafts /\ sources[s].media \subseteq Slots
    BY DEF IntakeInv, SourceFits, SourceRows
  <2>2. \A a \in sources[s].media :
          Exists(sources[s].draft, a)' /\ attachments'[sources[s].draft][a].completed
    BY <2>1, KeyStays DEF SourceFits, RowsEvolve
  <2> QED
    BY <2>1, <2>2, IntakeNothing DEF SourceFits
<1>2. ASSUME NEW s \in DOMAIN sources, sources[s].media # {}
      PROVE  /\ uploads'[sources[s].draft].source = s /\ uploads'[sources[s].draft].stage = "finalized"
             /\ \A a \in sources[s].media : attachments'[sources[s].draft][a].source = s
  <2>1. /\ uploads[sources[s].draft].source = s /\ uploads[sources[s].draft].stage = "finalized"
        /\ \A a \in sources[s].media : attachments[sources[s].draft][a].source = s
    BY <1>2 DEF IntakeInv, MediaBelongsToOneSource
  <2> QED
    BY <1>1, <2>1 DEF UploadsStayBound, RowsEvolve
<1>3. \A s, t \in DOMAIN sources :
        s # t /\ sources[s].draft = sources[t].draft => sources[s].media \intersect sources[t].media = {}
  BY DEF IntakeInv, MediaBelongsToOneSource
<1> QED
  BY <1>1, <1>2, <1>3 DEF MediaBelongsToOneSource

(* The requests in flight: one more, one less, or one in the place of      *)
(* another.                                                                *)
RequestsFit == IsFiniteSet(requests) /\ Cardinality(requests) <= MaxRequests

LEMMA SendingFits ==
  ASSUME RequestsFit, NEW r, Send(r)
  PROVE  RequestsFit' /\ \A q \in requests' : q \in requests \/ q = r
<1>1. /\ IsFiniteSet(requests \union {r})
      /\ Cardinality(requests \union {r}) \in {Cardinality(requests), Cardinality(requests) + 1}
  BY FS_AddElement DEF RequestsFit
<1>2. Cardinality(requests) \in Nat /\ MaxRequests \in Nat
  BY FS_CardinalityType, IntakeNumbers DEF RequestsFit
<1> QED
  BY <1>1, <1>2 DEF RequestsFit, Send

LEMMA FinishingFits ==
  ASSUME RequestsFit, NEW r \in requests, Finish(r)
  PROVE  RequestsFit' /\ \A q \in requests' : q \in requests
<1>1. /\ IsFiniteSet(requests \ {r})
      /\ Cardinality(requests \ {r}) = Cardinality(requests) - 1
  BY FS_RemoveElement DEF RequestsFit
<1>2. Cardinality(requests) \in Nat /\ MaxRequests \in Nat
  BY FS_CardinalityType, IntakeNumbers DEF RequestsFit
<1> QED
  BY <1>1, <1>2 DEF RequestsFit, Finish

LEMMA BecomingFits ==
  ASSUME RequestsFit, NEW r \in requests, NEW s, Becomes(r, s)
  PROVE  RequestsFit' /\ \A q \in requests' : q \in requests \/ q = s
<1> DEFINE rest == requests \ {r}
<1>1. IsFiniteSet(rest) /\ Cardinality(rest) = Cardinality(requests) - 1
  BY FS_RemoveElement DEF RequestsFit
<1>2. Cardinality(requests) \in Nat /\ MaxRequests \in Nat
  BY FS_CardinalityType, IntakeNumbers DEF RequestsFit
<1> HIDE DEF rest
<1>3. /\ IsFiniteSet(rest \union {s})
      /\ Cardinality(rest \union {s}) \in {Cardinality(rest), Cardinality(rest) + 1}
  BY <1>1, FS_AddElement
<1>4. requests' = rest \union {s} /\ rest \subseteq requests
  BY DEF Becomes, rest
<1> QED
  BY <1>1, <1>2, <1>3, <1>4 DEF RequestsFit

(* The parts of a step that keep the invariant together.                   *)
LEMMA IntakeKeeps ==
  ASSUME IntakeInv, RowsTyped', IntakeEvolves, RequestsFit', UNCHANGED sources,
         \A r \in requests' : r \in requests \/ RequestFits(r)',
         \A d \in Drafts : UploadFits(d)',
         \A d \in Drafts, a \in Slots :
           \/ attachments'[d][a] = attachments[d][a]
           \/ AttachmentFits(d, a)',
         \A k \in ObjectKeys : KeyFits(k)'
  PROVE  IntakeInv'
<1>1. \A r \in requests' : RequestFits(r)'
  <2>1. \A r \in requests : RequestFits(r)
    BY DEF IntakeInv
  <2> QED
    BY <2>1, RequestStays DEF IntakeEvolves, UploadsEvolve
<1>2. \A d \in Drafts, a \in Slots : AttachmentFits(d, a)'
  BY AttachmentStays DEF IntakeEvolves, UploadsEvolve
<1>3. (\A s \in DOMAIN sources : SourceFits(s)') /\ MediaBelongsToOneSource'
  BY SourcesStay DEF IntakeEvolves, UploadsEvolve
<1> QED
  BY <1>1, <1>2, <1>3 DEF IntakeInv, RequestsFit

LEMMA UploadsStill ==
  ASSUME IntakeInv, UNCHANGED uploads
  PROVE  UploadsEvolve /\ \A d \in Drafts : UploadFits(d)'
BY DEF UploadsEvolve, UploadsGoOn, UploadsStayBound, IntakeInv, UploadFits

LEMMA RowsStill ==
  ASSUME UNCHANGED attachments
  PROVE  /\ RowsEvolve
         /\ \A d \in Drafts, a \in Slots :
              attachments'[d][a] = attachments[d][a] \/ AttachmentFits(d, a)'
BY DEF RowsEvolve

LEMMA BucketStill ==
  ASSUME IntakeInv, UNCHANGED r2
  PROVE  BucketEvolves /\ \A k \in ObjectKeys : KeyFits(k)'
BY DEF BucketEvolves, IntakeInv, KeyFits

(* One upload row changes.                                                 *)
LEMMA UploadChanges ==
  ASSUME IntakeInv, NEW d \in Drafts, NEW row \in UploadRows, uploads' = [uploads EXCEPT ![d] = row],
         uploads[d].stage # "none" => row.stage # "none" /\ row.declared = uploads[d].declared,
         uploads[d].stage = "orphaned" => row.stage = "orphaned",
         uploads[d].stage = "finalized" /\ uploads[d].source # NoSource =>
           row.stage = "finalized" /\ row.source = uploads[d].source,
         row.stage \in {"none", "draft", "uploading"} => row.announced = 0
  PROVE  /\ uploads' \in [Drafts -> UploadRows] /\ UploadsEvolve
         /\ \A e \in Drafts : UploadFits(e)'
<1>1. /\ uploads' \in [Drafts -> UploadRows] /\ uploads'[d] = row
      /\ \A e \in Drafts : e # d => uploads'[e] = uploads[e]
  BY DEF IntakeInv, RowsTyped
<1>2. UploadsEvolve
  BY <1>1 DEF UploadsEvolve, UploadsGoOn, UploadsStayBound
<1>3. \A e \in Drafts : UploadFits(e)'
  BY <1>1 DEF IntakeInv, UploadFits
<1> QED
  BY <1>1, <1>2, <1>3

LEMMA UploadRow ==
  ASSUME NEW u \in UploadRows, NEW stage \in Stages
  PROVE  LET row == [u EXCEPT !.stage = stage, !.idle = 0]
         IN /\ row \in UploadRows /\ row.stage = stage /\ row.declared = u.declared
            /\ row.source = u.source /\ row.announced = u.announced
<1>1. ASSUME NEW i \in 0 .. 2
      PROVE  LET row == [u EXCEPT !.stage = stage, !.idle = i]
             IN /\ row \in UploadRows /\ row.stage = stage /\ row.declared = u.declared
                /\ row.source = u.source /\ row.announced = u.announced
  BY DEF UploadRows
<1>2. 0 \in 0 .. 2
  OBVIOUS
<1> QED
  BY <1>1, <1>2

LEMMA Touching ==
  ASSUME IntakeInv, NEW d \in Drafts, uploads' = Touched(d)
  PROVE  /\ uploads' \in [Drafts -> UploadRows] /\ UploadsEvolve
         /\ \A e \in Drafts : UploadFits(e)'
<1> DEFINE row == [uploads[d] EXCEPT !.idle = 0]
<1>1. uploads[d] \in UploadRows /\ UploadFits(d)
  BY DEF IntakeInv, RowsTyped
<1>2. /\ row \in UploadRows /\ row.stage = uploads[d].stage /\ row.declared = uploads[d].declared
      /\ row.source = uploads[d].source /\ row.announced = uploads[d].announced
  BY <1>1 DEF UploadRows
<1>3. uploads' = [uploads EXCEPT ![d] = row]
  BY DEF Touched
<1> HIDE DEF row
<1> QED
  BY <1>1, <1>2, <1>3, UploadChanges DEF UploadFits

LEMMA IntakeInvShapes ==
  ASSUME IntakeInv
  PROVE  /\ RowsTyped /\ RequestsFit
         /\ uploads \in [Drafts -> UploadRows]
         /\ attachments \in [Drafts -> [Slots -> AttachmentRows]]
         /\ r2 \in [ObjectKeys -> SessionStates]
         /\ \A r \in requests : RequestFits(r)
BY DEF IntakeInv, RowsTyped, RequestsFit

(* prepare: the row, and sessions nobody has for its keys.                 *)
LEMMA PrepareUploadKeeps ==
  ASSUME IntakeInv, NEW d \in Drafts, NEW declared \in SUBSET Slots, Prepare(d, declared)
  PROVE  IntakeInv'
<1>1. UNCHANGED <<attachments, sources>> /\ uploads[d].stage # "orphaned"
  BY DEF Prepare
<1>2. uploads' \in [Drafts -> UploadRows] /\ UploadsEvolve /\ \A e \in Drafts : UploadFits(e)'
  <2>1. CASE uploads' = uploads
    BY <2>1, IntakeInvShapes, UploadsStill
  <2>2. CASE uploads' # uploads
    <3> DEFINE row == [NoUpload EXCEPT !.stage = "draft", !.declared = declared]
    <3>1. uploads[d].stage = "none" /\ uploads' = [uploads EXCEPT ![d] = row]
      BY <2>2 DEF Prepare
    <3>2. row \in UploadRows /\ row.stage = "draft" /\ row.announced = 0
      <4>1. "draft" \in Stages /\ NoUpload \in UploadRows /\ NoUpload.announced = 0
        <5>1. 0 \in 0 .. 2 /\ 0 \in 0 .. 1 /\ NoSource \in Sources \union {NoSource}
          OBVIOUS
        <5> QED
          BY <5>1 DEF NoUpload, UploadRows, Stages
      <4> QED
        BY <4>1 DEF UploadRows
    <3> HIDE DEF row
    <3> QED
      BY <3>1, <3>2, UploadChanges
  <2> QED
    BY <2>1, <2>2
<1>3. RowsEvolve /\ \A e \in Drafts, a \in Slots :
        attachments'[e][a] = attachments[e][a] \/ AttachmentFits(e, a)'
  BY <1>1, RowsStill
<1>4. CASE UNCHANGED <<r2, requests>>
  <2>1. RowsTyped' /\ RequestsFit' /\ \A r \in requests' : r \in requests
    BY <1>1, <1>2, <1>4, IntakeInvShapes DEF RowsTyped, RequestsFit
  <2> QED
    BY <1>1, <1>2, <1>3, <1>4, <2>1, BucketStill, IntakeKeeps DEF IntakeEvolves
<1>5. CASE ~UNCHANGED <<r2, requests>>
  <2>1. PICK m \in FreshMint(d) :
          /\ r2' = [k \in ObjectKeys |->
                      IF k[1] = d /\ k[2] \in declared /\ k[3] = m
                      THEN [NoSession EXCEPT !.session = "open"] ELSE r2[k]]
          /\ Send([op |-> "begin", draft |-> d, mint |-> m])
    BY <1>5 DEF Prepare
  <2> DEFINE new == [NoSession EXCEPT !.session = "open"]
             request == [op |-> "begin", draft |-> d, mint |-> m]
  <2>2. m \in Mints /\ \A a \in Slots : r2[<<d, a, m>>].session = "none"
    BY DEF FreshMint
  <2>3. /\ new \in SessionStates /\ new.session = "open" /\ ~new.collected
    <3>1. Nothing \in PartialFunctions(Parts, Receipts) /\ Nothing \in PartialFunctions(Parts, Contents)
      BY NothingShape
    <3> QED
      BY <3>1 DEF NoSession, SessionStates
  <2> HIDE DEF new
  <2>4. /\ r2' \in [ObjectKeys -> SessionStates]
        /\ \A k \in ObjectKeys : r2'[k] = r2[k] \/ (r2'[k] = new /\ r2[k].session = "none")
        /\ \A a \in declared : r2'[<<d, a, m>>] = new
    <3>1. r2' = [k \in ObjectKeys |->
                      IF k[1] = d /\ k[2] \in declared /\ k[3] = m THEN new ELSE r2[k]]
      BY <2>1 DEF new
    <3>2. ASSUME NEW k \in ObjectKeys, k[1] = d, k[2] \in declared, k[3] = m
          PROVE  r2[k].session = "none"
      BY <2>2, <3>2, KeyParts
    <3>3. \A a \in declared : <<d, a, m>> \in ObjectKeys
      BY <2>2, KeyParts
    <3> QED
      BY <2>3, <3>1, <3>2, <3>3, IntakeInvShapes
  <2>5. BucketEvolves
    BY <2>4 DEF BucketEvolves
  <2>6. \A k \in ObjectKeys : KeyFits(k)'
    BY <2>3, <2>4 DEF KeyFits, IntakeInv
  <2>7. RequestsFit' /\ \A q \in requests' : q \in requests \/ q = request
    BY <2>1, SendingFits, IntakeInvShapes
  <2>8. RequestFits(request)'
    <3>1. uploads'[d].stage # "none" /\ uploads'[d].declared = declared
      <4>1. CASE uploads[d].stage # "none"
        BY <4>1 DEF Prepare
      <4>2. CASE uploads[d].stage = "none"
        <5>1. uploads' = [uploads EXCEPT ![d] = [NoUpload EXCEPT !.stage = "draft", !.declared = declared]]
          BY <4>2 DEF Prepare
        <5> QED
          BY <5>1, IntakeInvShapes DEF NoUpload
      <4> QED
        BY <4>1, <4>2
    <3> QED
      BY <2>2, <2>3, <2>4, <3>1 DEF RequestFits, BeginFits
  <2> HIDE DEF request
  <2>9. RowsTyped'
    BY <1>1, <1>2, <2>4, IntakeInvShapes DEF RowsTyped
  <2> QED
    BY <1>1, <1>2, <1>3, <2>5, <2>6, <2>7, <2>8, <2>9, IntakeKeeps DEF IntakeEvolves
<1> QED
  BY <1>4, <1>5

(* begin: rows over the sessions of the request, where there were none.    *)
LEMMA BeginKeeps ==
  ASSUME IntakeInv, NEW r, Begin(r)
  PROVE  IntakeInv'
<1> DEFINE d == r.draft
<1>1. /\ r \in requests /\ UNCHANGED <<r2, sources>>
      /\ RequestsFit' /\ \A q \in requests' : q \in requests
  BY FinishingFits, IntakeInvShapes DEF Begin
<1>2. BeginFits(r)
  BY IntakeInvShapes DEF Begin, RequestFits
<1>3. BucketEvolves /\ \A k \in ObjectKeys : KeyFits(k)'
  BY <1>1, BucketStill
<1>4. CASE UNCHANGED <<attachments, uploads>>
  <2>1. RowsTyped'
    BY <1>1, <1>4, IntakeInvShapes DEF RowsTyped
  <2> QED
    BY <1>1, <1>3, <1>4, <2>1, UploadsStill, RowsStill, IntakeKeeps DEF IntakeEvolves
<1>5. CASE ~UNCHANGED <<attachments, uploads>>
  <2> DEFINE new == [NoAttachment EXCEPT !.mint = r.mint]
             row == [uploads[d] EXCEPT !.stage = "uploading", !.idle = 0]
             rows == [a \in Slots |-> IF a \in uploads[d].declared THEN new ELSE NoAttachment]
  <2>1. /\ d \in Drafts /\ r.mint \in Mints
        /\ \A a \in uploads[d].declared : r2[<<d, a, r.mint>>].session # "none"
    BY <1>2 DEF BeginFits
  <2>2. /\ uploads[d].stage \in {"draft", "uploading"} /\ Begun(d) = {}
        /\ attachments' = [attachments EXCEPT ![d] = rows]
        /\ uploads' = [uploads EXCEPT ![d] = row]
    BY <1>5 DEF Begin
  <2>3. uploads[d] \in UploadRows /\ UploadFits(d)
    BY <2>1, IntakeInvShapes DEF IntakeInv
  <2>4. /\ row \in UploadRows /\ row.stage = "uploading" /\ row.declared = uploads[d].declared
        /\ row.announced = 0
    <3>1. "uploading" \in Stages /\ uploads[d].announced = 0
      BY <2>2, <2>3 DEF Stages, UploadFits
    <3> QED
      BY <2>3, <3>1, UploadRow
  <2>5. uploads' \in [Drafts -> UploadRows] /\ UploadsEvolve /\ \A e \in Drafts : UploadFits(e)'
    <3> HIDE DEF row
    <3> QED
      BY <2>1, <2>2, <2>4, UploadChanges
  <2>6. /\ NoAttachment \in AttachmentRows /\ new \in AttachmentRows
        /\ NoAttachment.mint = 0 /\ NoAttachment.manifest = Nothing /\ ~NoAttachment.completed
        /\ new.mint = r.mint /\ new.manifest = Nothing /\ ~new.completed
    <3>1. Nothing \in PartialFunctions(Parts, Receipts)
      BY NothingShape
    <3> QED
      BY <2>1, <3>1 DEF NoAttachment, AttachmentRows
  <2>7. /\ rows \in [Slots -> AttachmentRows]
        /\ \A a \in Slots : (rows[a] = new /\ a \in uploads[d].declared) \/ rows[a] = NoAttachment
    <3> HIDE DEF new
    <3> QED
      BY <2>6
  <2> HIDE DEF rows, row, new
  <2>8. /\ attachments' \in [Drafts -> [Slots -> AttachmentRows]] /\ attachments'[d] = rows
        /\ \A e \in Drafts : e # d => attachments'[e] = attachments[e]
    BY <2>1, <2>2, <2>7, IntakeInvShapes
  <2>9. RowsEvolve
    <3>1. \A a \in Slots : ~Exists(d, a)
      BY <2>2 DEF Begun
    <3> QED
      BY <2>8, <3>1 DEF RowsEvolve
  <2>10. ASSUME NEW e \in Drafts, NEW a \in Slots
         PROVE  attachments'[e][a] = attachments[e][a] \/ AttachmentFits(e, a)'
    <3>1. CASE e # d
      BY <2>8, <3>1
    <3>2. CASE e = d
      <4> DEFINE next == attachments'[d][a]
      <4>1. next.manifest = Nothing /\ ~next.completed /\ (next.mint = r.mint \/ next.mint = 0)
            /\ (next.mint # 0 => a \in uploads[d].declared /\ next.mint = r.mint)
        BY <2>6, <2>7, <2>8
      <4>2. uploads'[d].stage = "uploading"
        BY <2>1, <2>2, <2>4, IntakeInvShapes
      <4>3. next.mint # 0 => r2'[<<d, a, next.mint>>].session # "none"
        BY <1>1, <2>1, <4>1
      <4>4. IsFiniteSet(DOMAIN next.manifest) /\ DOMAIN next.manifest = {}
        BY <4>1, NothingShape
      <4> QED
        BY <3>2, <4>1, <4>2, <4>3, <4>4 DEF AttachmentFits, Exists, KeyOf
    <3> QED
      BY <3>1, <3>2
  <2>11. RowsTyped'
    BY <1>1, <2>5, <2>8, IntakeInvShapes DEF RowsTyped
  <2> QED
    BY <1>1, <1>3, <2>5, <2>9, <2>10, <2>11, IntakeKeeps DEF IntakeEvolves
<1> QED
  BY <1>4, <1>5

(* An etag nobody was given is above all that were.                        *)
LEMMA FreshIsAbove ==
  ASSUME IntakeInv, NEW e \in NextEtag
  PROVE  /\ e \in Etags /\ e \in Nat
         /\ \A k \in ObjectKeys : \A p \in DOMAIN r2[k].stored : r2[k].stored[p].etag < e
<1>1. e \in Etags /\ \A f \in IssuedEtags : f < e
  BY DEF NextEtag, FreshEtag
<1>2. ASSUME NEW k \in ObjectKeys, NEW p \in DOMAIN r2[k].stored
      PROVE  r2[k].stored[p].etag \in IssuedEtags
  <2>1. r2[k].stored \in PartialFunctions(Parts, Receipts)
    BY IntakeInvShapes DEF SessionStates
  <2>2. r2[k].stored[p] \in Receipts
    BY <1>2, <2>1, PartialShape
  <2>3. r2[k].stored[p].etag \in Etags
    BY <2>2 DEF Receipts
  <2> QED
    BY <1>2, <2>3 DEF IssuedEtags
<1> QED
  BY <1>1, <1>2, IntakeNumbers

(* One session of R2 changes.                                              *)
LEMMA SessionChanges ==
  ASSUME IntakeInv, NEW k \in ObjectKeys, NEW row \in SessionStates, r2' = [r2 EXCEPT ![k] = row],
         r2[k].session # "none" => row.session # "none",
         \A p \in DOMAIN r2[k].stored :
           /\ p \in DOMAIN row.stored
           /\ row.stored[p] = r2[k].stored[p] \/ r2[k].stored[p].etag < row.stored[p].etag,
         r2[k].session = "completed" /\ uploads[k[1]].stage # "orphaned" =>
           row.session = "completed" /\ row.object = r2[k].object,
         row.collected => row.session # "open" /\ row.object = Nothing
  PROVE  /\ r2' \in [ObjectKeys -> SessionStates] /\ r2'[k] = row /\ BucketEvolves
         /\ \A q \in ObjectKeys : KeyFits(q)'
<1>1. /\ r2' \in [ObjectKeys -> SessionStates] /\ r2'[k] = row
      /\ \A q \in ObjectKeys : q # k => r2'[q] = r2[q]
  BY IntakeInvShapes
<1>2. BucketEvolves
  BY <1>1 DEF BucketEvolves
<1>3. \A q \in ObjectKeys : KeyFits(q)'
  BY <1>1 DEF KeyFits, IntakeInv
<1> QED
  BY <1>1, <1>2, <1>3

(* A part arrives in R2 and its receipt is in flight.                      *)
LEMMA StreamKeeps ==
  ASSUME IntakeInv, NEW d \in Drafts, NEW a \in Slots, NEW p \in Parts, NEW c \in Contents,
         StreamPart(d, a, p, c)
  PROVE  IntakeInv'
<1>1. UNCHANGED <<uploads, attachments, sources>> /\ Exists(d, a)
  BY DEF StreamPart
<1>2. PICK k \in ObjectKeys : k = KeyOf(d, a)
  BY <1>1, KeyOfRow, IntakeInvShapes
<1>3. PICK e \in NextEtag :
        /\ Writes(k, p, [etag |-> e, content |-> c])
        /\ Send([op |-> "part", draft |-> d, slot |-> a, part |-> p, etag |-> e, content |-> c])
  BY <1>2 DEF StreamPart
<1> DEFINE request == [op |-> "part", draft |-> d, slot |-> a, part |-> p, etag |-> e, content |-> c]
           receipt == [etag |-> e, content |-> c]
           stored == [q \in DOMAIN r2[k].stored \union {p} |->
                        IF q = p THEN receipt ELSE r2[k].stored[q]]
           row == [r2[k] EXCEPT !.stored = stored]
<1>4. /\ e \in Etags /\ e \in Nat
      /\ \A q \in DOMAIN r2[k].stored : r2[k].stored[q].etag < e
  BY <1>2, FreshIsAbove
<1>5. r2[k] \in SessionStates /\ KeyFits(k)
  BY <1>2, IntakeInvShapes DEF IntakeInv
<1>6. receipt \in Receipts /\ receipt.etag = e /\ receipt.content = c
  BY <1>4 DEF Receipts
<1> HIDE DEF receipt
<1>7. /\ stored \in PartialFunctions(Parts, Receipts) /\ p \in DOMAIN stored /\ stored[p] = receipt
      /\ \A q \in DOMAIN r2[k].stored :
           q \in DOMAIN stored /\ (stored[q] = r2[k].stored[q] \/ r2[k].stored[q].etag < stored[q].etag)
  <2>1. r2[k].stored \in PartialFunctions(Parts, Receipts)
    BY <1>5 DEF SessionStates
  <2>2. DOMAIN r2[k].stored \subseteq Parts /\ r2[k].stored \in [DOMAIN r2[k].stored -> Receipts]
    BY <2>1, PartialShape
  <2>3. /\ DOMAIN r2[k].stored \union {p} \subseteq Parts
        /\ stored \in [DOMAIN r2[k].stored \union {p} -> Receipts]
    BY <1>6, <2>2
  <2>4. stored \in PartialFunctions(Parts, Receipts)
    <3> HIDE DEF stored
    <3> QED
      BY <2>3, PartialMade
  <2> QED
    BY <1>4, <1>6, <2>4
<1>8. r2[k].session = "open" /\ r2' = [r2 EXCEPT ![k] = row]
  BY <1>3 DEF Writes, receipt
<1> HIDE DEF stored
<1>9. /\ row \in SessionStates /\ row.session = "open" /\ row.stored = stored
      /\ row.object = r2[k].object /\ ~row.collected
  BY <1>5, <1>7, <1>8 DEF SessionStates, KeyFits
<1> HIDE DEF row
<1>10. /\ r2' \in [ObjectKeys -> SessionStates] /\ r2'[k] = row /\ BucketEvolves
       /\ \A q \in ObjectKeys : KeyFits(q)'
  BY <1>2, <1>7, <1>8, <1>9, SessionChanges
<1>11. RequestsFit' /\ \A q \in requests' : q \in requests \/ q = request
  BY <1>3, SendingFits, IntakeInvShapes
<1>12. RequestFits(request)'
  <2>1. KeyOf(d, a)' = k /\ Exists(d, a)'
    BY <1>1, <1>2 DEF KeyOf, Exists
  <2>2. Backs(k, p, request)'
    BY <1>4, <1>6, <1>7, <1>9, <1>10 DEF Backs
  <2>3. request.op = "part" /\ request.draft = d /\ request.slot = a /\ request.part = p
        /\ request.etag = e /\ request.content = c
    OBVIOUS
  <2> HIDE DEF request
  <2>4. PartFits(request)'
    BY <1>4, <2>1, <2>2, <2>3 DEF PartFits, Backs
  <2> QED
    BY <2>3, <2>4 DEF RequestFits
<1> HIDE DEF request
<1>13. RowsTyped'
  BY <1>1, <1>10, IntakeInvShapes DEF RowsTyped
<1> QED
  BY <1>1, <1>10, <1>11, <1>12, <1>13, UploadsStill, RowsStill, IntakeKeeps DEF IntakeEvolves

(* One attachment row changes: what its step has to show of the new row.   *)
Rewrites(d, a, row) == attachments' = [attachments EXCEPT ![d] = [attachments[d] EXCEPT ![a] = row]]

LEMMA RowChanges ==
  ASSUME IntakeInv, NEW d \in Drafts, NEW a \in Slots, NEW row \in AttachmentRows, Exists(d, a),
         Rewrites(d, a, row), row.mint = attachments[d][a].mint, row.source = attachments[d][a].source,
         attachments[d][a].completed => row.completed,
         \A p \in DOMAIN attachments[d][a].manifest :
           p \in DOMAIN row.manifest /\ row.manifest[p].content = attachments[d][a].manifest[p].content
  PROVE  /\ attachments' \in [Drafts -> [Slots -> AttachmentRows]] /\ attachments'[d][a] = row
         /\ RowsEvolve
         /\ \A e \in Drafts, b \in Slots : e # d \/ b # a => attachments'[e][b] = attachments[e][b]
<1>1. /\ attachments' \in [Drafts -> [Slots -> AttachmentRows]] /\ attachments'[d][a] = row
      /\ \A e \in Drafts, b \in Slots : e # d \/ b # a => attachments'[e][b] = attachments[e][b]
  BY IntakeInvShapes DEF Rewrites
<1>2. ASSUME NEW e \in Drafts, NEW b \in Slots
      PROVE  (e = d /\ b = a /\ attachments'[e][b] = row) \/ attachments'[e][b] = attachments[e][b]
  BY <1>1
<1>3. RowsEvolve
  BY <1>2 DEF RowsEvolve
<1> QED
  BY <1>1, <1>3

(* The receipt of a part: it is recorded, and the contents of a manifest   *)
(* never change.                                                           *)
LEMMA ReceiptKeeps ==
  ASSUME IntakeInv, NEW r, RecordPart(r)
  PROVE  IntakeInv'
<1> DEFINE d == r.draft
           a == r.slot
           row == attachments[d][a]
           manifest == UpsertReceipt(row.manifest, r)
           next == [row EXCEPT !.manifest = manifest]
<1>1. /\ r \in requests /\ r.op = "part" /\ UNCHANGED <<r2, sources>>
      /\ RequestsFit' /\ \A q \in requests' : q \in requests
  BY FinishingFits, IntakeInvShapes DEF RecordPart
<1>2. /\ d \in Drafts /\ a \in Slots /\ r.part \in Parts
      /\ r.etag \in Etags /\ r.content \in Contents
      /\ Exists(d, a) /\ Backs(KeyOf(d, a), r.part, r)
  BY <1>1, IntakeInvShapes DEF RequestFits, PartFits
<1>3. BucketEvolves /\ \A k \in ObjectKeys : KeyFits(k)'
  BY <1>1, BucketStill
<1>4. uploads' \in [Drafts -> UploadRows] /\ UploadsEvolve /\ \A e \in Drafts : UploadFits(e)'
  <2>1. uploads' = uploads \/ uploads' = Touched(d)
    BY DEF RecordPart
  <2> HIDE DEF d
  <2>2. CASE uploads' = uploads
    BY <2>2, UploadsStill, IntakeInvShapes
  <2>3. CASE uploads' = Touched(d)
    BY <1>2, <2>3, Touching
  <2> QED
    BY <2>1, <2>2, <2>3
<1>5. CASE attachments' = attachments
  <2>1. RowsTyped'
    BY <1>1, <1>4, <1>5, IntakeInvShapes DEF RowsTyped
  <2> QED
    BY <1>1, <1>3, <1>4, <1>5, <2>1, RowsStill, IntakeKeeps DEF IntakeEvolves
<1>6. CASE attachments' # attachments
  <2>1. /\ Rewrites(d, a, next) /\ ~row.completed
        /\ r.part \in DOMAIN row.manifest => row.manifest[r.part].content = r.content
    BY <1>6 DEF RecordPart, DecidePartReceipt, Rewrites
  <2>2. row \in AttachmentRows /\ AttachmentFits(d, a)
    BY <1>2, IntakeInvShapes DEF IntakeInv
  <2>3. /\ row.manifest \in Manifests /\ DOMAIN row.manifest \subseteq Parts
        /\ row.manifest \in [DOMAIN row.manifest -> Receipts]
    <3>1. row.manifest \in PartialFunctions(Parts, Receipts)
      BY <2>2 DEF AttachmentRows
    <3> HIDE DEF row
    <3> QED
      BY <3>1, PartialShape DEF Manifests
  <2> DEFINE receipt == [etag |-> r.etag, content |-> r.content]
  <2>4. receipt \in Receipts /\ receipt.etag = r.etag /\ receipt.content = r.content
    BY <1>2 DEF Receipts
  <2>5. /\ manifest \in PartialFunctions(Parts, Receipts)
        /\ DOMAIN manifest = DOMAIN row.manifest \union {r.part} /\ manifest[r.part] = receipt
        /\ \A p \in DOMAIN row.manifest : p # r.part => manifest[p] = row.manifest[p]
    <3>1. manifest = [p \in DOMAIN row.manifest \union {r.part} |->
                        IF p = r.part THEN receipt ELSE row.manifest[p]]
      BY DEF UpsertReceipt
    <3> HIDE DEF manifest, receipt, row
    <3>2. /\ DOMAIN row.manifest \union {r.part} \subseteq Parts
          /\ manifest \in [DOMAIN row.manifest \union {r.part} -> Receipts]
      BY <1>2, <2>3, <2>4, <3>1
    <3> QED
      BY <3>1, <3>2, PartialMade
  <2>6. /\ next \in AttachmentRows /\ next.mint = row.mint /\ next.source = row.source
        /\ next.completed = row.completed /\ next.manifest = manifest
    <3> HIDE DEF manifest, row
    <3> QED
      BY <2>2, <2>5 DEF AttachmentRows
  <2>7. \A p \in DOMAIN row.manifest :
          p \in DOMAIN next.manifest /\ next.manifest[p].content = row.manifest[p].content
    <3> HIDE DEF manifest, row, next, receipt
    <3> QED
      BY <2>1, <2>4, <2>5, <2>6
  <2>8. /\ attachments' \in [Drafts -> [Slots -> AttachmentRows]] /\ attachments'[d][a] = next
        /\ RowsEvolve
        /\ \A e \in Drafts, b \in Slots : e # d \/ b # a => attachments'[e][b] = attachments[e][b]
    <3> HIDE DEF next, manifest
    <3> QED
      BY <1>2, <2>1, <2>6, <2>7, RowChanges
  <2>9. RowsTyped'
    BY <1>1, <1>4, <2>8, IntakeInvShapes DEF RowsTyped
  <2>10. AttachmentFits(d, a)'
    <3>1. IsFiniteSet(DOMAIN next.manifest)
      <4>1. IsFiniteSet(DOMAIN row.manifest)
        BY <2>2 DEF AttachmentFits
      <4> HIDE DEF row, manifest, next
      <4> QED
        BY <2>5, <2>6, <4>1, FS_AddElement
    <3>2. Exists(d, a)' /\ KeyOf(d, a)' = KeyOf(d, a)
      <4>1. attachments'[d][a].mint = row.mint
        BY <2>6, <2>8
      <4> QED
        BY <1>2, <4>1 DEF Exists, KeyOf
    <3>3. uploads'[d].stage # "none" /\ r2'[KeyOf(d, a)].session # "none"
      BY <1>1, <1>2, <1>4, <2>2 DEF AttachmentFits, UploadsEvolve, UploadsGoOn
    <3>4. ASSUME NEW p \in DOMAIN next.manifest
          PROVE  Backs(KeyOf(d, a), p, next.manifest[p])
      <4>1. CASE p = r.part
        <5>1. next.manifest[p] = receipt
          BY <2>5, <2>6, <4>1
        <5> HIDE DEF next, receipt
        <5> QED
          BY <1>2, <2>4, <4>1, <5>1 DEF Backs
      <4>2. CASE p # r.part
        <5>1. p \in DOMAIN row.manifest /\ next.manifest[p] = row.manifest[p]
          <6> HIDE DEF next, manifest, row
          <6> QED
            BY <2>5, <2>6, <3>4, <4>2
        <5> QED
          BY <2>2, <5>1 DEF AttachmentFits
      <4> QED
        BY <4>1, <4>2
    <3>5. ~next.completed
      BY <2>1, <2>6
    <3> HIDE DEF next
    <3> QED
      BY <1>1, <2>8, <3>1, <3>2, <3>3, <3>4, <3>5 DEF AttachmentFits, Exists, KeyOf, Backs
  <2>11. \A e \in Drafts, b \in Slots :
           attachments'[e][b] = attachments[e][b] \/ AttachmentFits(e, b)'
    BY <2>8, <2>10
  <2> QED
    BY <1>1, <1>3, <1>4, <2>8, <2>9, <2>11, IntakeKeeps DEF IntakeEvolves
<1> QED
  BY <1>5, <1>6

(* A completion begins with the manifest it read.                          *)
LEMMA ManifestKeeps ==
  ASSUME IntakeInv, NEW d \in Drafts, NEW a \in Slots, ReadManifest(d, a)
  PROVE  IntakeInv'
<1> DEFINE request == [op |-> "complete", draft |-> d, slot |-> a, key |-> KeyOf(d, a),
                       manifest |-> attachments[d][a].manifest, done |-> FALSE]
<1>1. UNCHANGED <<uploads, attachments, r2, sources>> /\ Exists(d, a)
  BY DEF ReadManifest
<1>2. AttachmentFits(d, a) /\ attachments[d][a].manifest \in Manifests
  BY IntakeInvShapes DEF IntakeInv, AttachmentRows, Manifests
<1>3. CompletionFits(request)
  BY <1>1, <1>2 DEF CompletionFits, AttachmentFits
<1>4. RequestFits(request)
  BY <1>3 DEF RequestFits
<1>5. RequestsFit' /\ \A q \in requests' : q \in requests \/ q = request
  BY SendingFits, IntakeInvShapes DEF ReadManifest
<1>6. RowsTyped'
  BY <1>1, IntakeInvShapes DEF RowsTyped
<1>7. /\ IntakeEvolves /\ \A e \in Drafts : UploadFits(e)'
      /\ \A e \in Drafts, b \in Slots : attachments'[e][b] = attachments[e][b] \/ AttachmentFits(e, b)'
      /\ \A k \in ObjectKeys : KeyFits(k)'
  BY <1>1, UploadsStill, RowsStill, BucketStill DEF IntakeEvolves
<1> HIDE DEF request
<1>8. \A q \in requests' : q \in requests \/ RequestFits(q)'
  <2>1. ASSUME NEW q \in requests', q = request PROVE RequestFits(q)'
    <3>1. RequestFits(q)
      BY <1>4, <2>1
    <3> QED
      BY <1>6, <1>7, <3>1, RequestStays DEF IntakeEvolves, UploadsEvolve
  <2> QED
    BY <1>5, <2>1
<1> QED
  BY <1>1, <1>5, <1>6, <1>7, <1>8, IntakeKeeps

(* R2 completes a session from the manifest a request carries.             *)
LEMMA VerificationKeeps ==
  ASSUME IntakeInv, NEW r, CompleteAndVerify(r)
  PROVE  IntakeInv'
<1> DEFINE k == r.key
           object == [p \in DOMAIN r.manifest |-> r2[k].stored[p].content]
           row == [r2[k] EXCEPT !.session = "completed", !.object = object]
           done == [r EXCEPT !.done = TRUE]
<1>1. r \in requests /\ r.op = "complete" /\ ~r.done /\ UNCHANGED <<uploads, attachments, sources>>
  BY DEF CompleteAndVerify
<1>2. RequestFits(r) /\ CompletionFits(r)
  BY <1>1, IntakeInvShapes DEF RequestFits
<1>3. /\ UploadsEvolve /\ RowsEvolve /\ \A e \in Drafts : UploadFits(e)'
      /\ \A e \in Drafts, b \in Slots : attachments'[e][b] = attachments[e][b] \/ AttachmentFits(e, b)'
  BY <1>1, UploadsStill, RowsStill
<1>4. CASE ~Completable(k, r.manifest)
  <2>1. /\ Finish(r) /\ UNCHANGED r2
    BY <1>4 DEF CompleteAndVerify
  <2>2. RequestsFit' /\ \A q \in requests' : q \in requests
    BY <1>1, <2>1, FinishingFits, IntakeInvShapes
  <2>3. RowsTyped'
    BY <1>1, <2>1, IntakeInvShapes DEF RowsTyped
  <2> QED
    BY <1>1, <1>3, <2>1, <2>2, <2>3, BucketStill, IntakeKeeps DEF IntakeEvolves
<1>5. CASE Completable(k, r.manifest)
  <2>1. /\ r2' = [r2 EXCEPT ![k] = row] /\ Becomes(r, done)
        /\ r2[k].session = "open"
        /\ \A p \in DOMAIN r.manifest :
             p \in DOMAIN r2[k].stored /\ r2[k].stored[p].etag = r.manifest[p].etag
    BY <1>5 DEF CompleteAndVerify, Completable
  <2>2. k \in ObjectKeys
    BY <1>2, KeyOfRow, IntakeInvShapes DEF CompletionFits
  <2>3. object = Bytes(r.manifest)
    <3>1. \A p \in DOMAIN r.manifest : r2[k].stored[p].content = r.manifest[p].content
      BY <1>2, <2>1 DEF CompletionFits, Backs
    <3> QED
      BY <3>1 DEF Bytes
  <2>4. object \in PartialFunctions(Parts, Contents)
    <3>1. DOMAIN r.manifest \subseteq Parts /\ r.manifest \in [DOMAIN r.manifest -> Receipts]
      <4>1. r.manifest \in PartialFunctions(Parts, Receipts)
        BY <1>2 DEF CompletionFits, Manifests
      <4> QED
        BY <4>1, PartialShape
    <3>2. Bytes(r.manifest) \in [DOMAIN r.manifest -> Contents]
      BY <3>1 DEF Bytes, Receipts
    <3> QED
      BY <2>3, <3>1, <3>2, PartialMade
  <2>5. r2[k] \in SessionStates /\ KeyFits(k)
    BY <2>2, IntakeInvShapes DEF IntakeInv
  <2> HIDE DEF object
  <2>6. /\ row \in SessionStates /\ row.session = "completed" /\ row.object = object
        /\ row.stored = r2[k].stored /\ ~row.collected
    BY <2>1, <2>4, <2>5 DEF SessionStates, KeyFits
  <2> HIDE DEF row
  <2>7. /\ r2' \in [ObjectKeys -> SessionStates] /\ r2'[k] = row /\ BucketEvolves
        /\ \A q \in ObjectKeys : KeyFits(q)'
    BY <2>1, <2>2, <2>6, SessionChanges
  <2>8. RowsTyped'
    BY <1>1, <2>7, IntakeInvShapes DEF RowsTyped
  <2>9. RequestsFit' /\ \A q \in requests' : q \in requests \/ q = done
    BY <1>1, <2>1, BecomingFits, IntakeInvShapes
  <2>10. RequestFits(r)'
    BY <1>2, <1>3, <2>7, <2>8, RequestStays DEF IntakeEvolves, UploadsEvolve
  <2>11. /\ done.op = "complete" /\ done.draft = r.draft /\ done.slot = r.slot /\ done.key = r.key
         /\ done.manifest = r.manifest
    BY <1>1
  <2>12. RequestFits(done)'
    <3>1. CompletionFits(r)'
      BY <1>1, <2>10 DEF RequestFits
    <3>2. r2'[k].session = "completed" /\ r2'[k].object = Bytes(r.manifest)
      BY <2>3, <2>6, <2>7
    <3> HIDE DEF done
    <3>3. CompletionFits(done)'
      BY <2>11, <3>1, <3>2 DEF CompletionFits
    <3> QED
      BY <2>11, <3>3 DEF RequestFits
  <2> HIDE DEF done
  <2>13. \A q \in requests' : q \in requests \/ RequestFits(q)'
    BY <2>9, <2>12
  <2> QED
    BY <1>1, <1>3, <2>7, <2>8, <2>9, <2>13, IntakeKeeps DEF IntakeEvolves
<1> QED
  BY <1>4, <1>5

(* The ledger records a completion when R2's object has as many parts as   *)
(* the manifest has by then: it is the same manifest.                      *)
LEMMA CompletionKeeps ==
  ASSUME IntakeInv, NEW r, CompleteAttachment(r)
  PROVE  IntakeInv'
<1> DEFINE d == r.draft
           a == r.slot
           row == attachments[d][a]
           next == [row EXCEPT !.completed = TRUE]
<1>1. /\ r \in requests /\ r.op = "complete" /\ r.done /\ UNCHANGED <<r2, sources>>
      /\ RequestsFit' /\ \A q \in requests' : q \in requests
  BY FinishingFits, IntakeInvShapes DEF CompleteAttachment
<1>2. CompletionFits(r)
  BY <1>1, IntakeInvShapes DEF RequestFits
<1>3. /\ d \in Drafts /\ a \in Slots /\ Exists(d, a) /\ r.key = KeyOf(d, a)
      /\ row \in AttachmentRows /\ AttachmentFits(d, a)
  BY <1>2, IntakeInvShapes DEF CompletionFits, IntakeInv
<1>4. BucketEvolves /\ \A k \in ObjectKeys : KeyFits(k)'
  BY <1>1, BucketStill
<1>5. CASE UNCHANGED <<attachments, uploads>>
  <2>1. RowsTyped'
    BY <1>1, <1>5, IntakeInvShapes DEF RowsTyped
  <2> QED
    BY <1>1, <1>4, <1>5, <2>1, UploadsStill, RowsStill, IntakeKeeps DEF IntakeEvolves
<1>6. CASE ~UNCHANGED <<attachments, uploads>>
  <2>1. /\ uploads[d].stage \in {"uploading", "finalized"}
        /\ row.completed \/ Cardinality(DOMAIN row.manifest) = Cardinality(DOMAIN r.manifest)
        /\ Rewrites(d, a, next) /\ uploads' = Touched(d)
    BY <1>6 DEF CompleteAttachment, Rewrites
  <2>2. uploads' \in [Drafts -> UploadRows] /\ UploadsEvolve /\ \A e \in Drafts : UploadFits(e)'
    <3> HIDE DEF d
    <3> QED
      BY <1>3, <2>1, Touching
  <2>3. /\ next \in AttachmentRows /\ next.mint = row.mint /\ next.source = row.source
        /\ next.completed /\ next.manifest = row.manifest
    <3> HIDE DEF row
    <3> QED
      BY <1>3 DEF AttachmentRows
  <2>4. /\ attachments' \in [Drafts -> [Slots -> AttachmentRows]] /\ attachments'[d][a] = next
        /\ RowsEvolve
        /\ \A e \in Drafts, b \in Slots : e # d \/ b # a => attachments'[e][b] = attachments[e][b]
    <3> HIDE DEF next
    <3> QED
      BY <1>3, <2>1, <2>3, RowChanges
  <2>5. RowsTyped'
    BY <1>1, <2>2, <2>4, IntakeInvShapes DEF RowsTyped
  <2>6. r2[KeyOf(d, a)].session = "completed" /\ r2[KeyOf(d, a)].object = Bytes(row.manifest)
    <3>1. CASE row.completed
      BY <1>3, <2>1, <3>1 DEF AttachmentFits
    <3>2. CASE ~row.completed
      <4>1. /\ DOMAIN r.manifest \subseteq DOMAIN row.manifest
            /\ \A p \in DOMAIN r.manifest : r.manifest[p].content = row.manifest[p].content
            /\ r2[r.key].session = "completed" /\ r2[r.key].object = Bytes(r.manifest)
        BY <1>1, <1>2, <2>1 DEF CompletionFits
      <4>2. IsFiniteSet(DOMAIN row.manifest)
        BY <1>3 DEF AttachmentFits
      <4>3. DOMAIN r.manifest = DOMAIN row.manifest
        <5> DEFINE S == DOMAIN r.manifest
                   U == DOMAIN row.manifest
        <5>1. S \subseteq U /\ IsFiniteSet(U) /\ Cardinality(U) = Cardinality(S)
          BY <2>1, <3>2, <4>1, <4>2
        <5> HIDE DEF S, U
        <5>2. S = U
          BY <5>1, FS_Subset
        <5> QED
          BY <5>2 DEF S, U
      <4>4. Bytes(r.manifest) = Bytes(row.manifest)
        BY <4>1, <4>3 DEF Bytes
      <4> QED
        BY <1>3, <4>1, <4>4
    <3> QED
      BY <3>1, <3>2
  <2>7. AttachmentFits(d, a)'
    <3>1. Exists(d, a)' /\ KeyOf(d, a)' = KeyOf(d, a)
      <4>1. attachments'[d][a].mint = row.mint
        BY <2>3, <2>4
      <4> QED
        BY <1>3, <4>1 DEF Exists, KeyOf
    <3>2. uploads'[d].stage # "none" /\ r2[KeyOf(d, a)].session # "none"
      BY <1>3, <2>2 DEF AttachmentFits, UploadsEvolve, UploadsGoOn
    <3>3. PICK k \in ObjectKeys : k = KeyOf(d, a)
      BY <1>3, KeyOfRow, IntakeInvShapes
    <3>4. PICK n \in AttachmentRows : n = next
      BY <2>3
    <3>5. attachments'[d][a] = n /\ KeyOf(d, a)' = k
      BY <2>4, <3>1, <3>3, <3>4
    <3>6. /\ IsFiniteSet(DOMAIN n.manifest) /\ n.completed
          /\ r2[k].session = "completed" /\ r2[k].object = Bytes(n.manifest)
          /\ \A p \in DOMAIN n.manifest : Backs(k, p, n.manifest[p])
      BY <1>3, <2>3, <2>6, <3>3, <3>4 DEF AttachmentFits
    <3> HIDE DEF next, row
    <3>7. \A p \in DOMAIN n.manifest : Backs(k, p, n.manifest[p])'
      BY <1>1, <3>6 DEF Backs
    <3> QED
      BY <1>1, <3>1, <3>2, <3>3, <3>5, <3>6, <3>7 DEF AttachmentFits, Backs, Bytes
  <2>8. \A e \in Drafts, b \in Slots :
          attachments'[e][b] = attachments[e][b] \/ AttachmentFits(e, b)'
    BY <2>4, <2>7
  <2> QED
    BY <1>1, <1>4, <2>2, <2>4, <2>5, <2>8, IntakeKeeps DEF IntakeEvolves
<1> QED
  BY <1>5, <1>6

(* Steps that write the upload rows alone.                                 *)
LEMMA UploadsKeep ==
  ASSUME IntakeInv, UNCHANGED <<attachments, r2, sources>>, RequestsFit',
         \A q \in requests' : q \in requests \/ RequestFits(q)',
         uploads' \in [Drafts -> UploadRows], UploadsEvolve, \A e \in Drafts : UploadFits(e)'
  PROVE  IntakeInv'
<1>1. RowsTyped'
  BY IntakeInvShapes DEF RowsTyped
<1> QED
  BY <1>1, RowsStill, BucketStill, IntakeKeeps DEF IntakeEvolves

LEMMA ReplayKeeps ==
  ASSUME IntakeInv, NEW d \in Drafts, NEW a \in Slots, ReplayComplete(d, a)
  PROVE  IntakeInv'
<1>1. UNCHANGED <<attachments, r2, requests, sources>> /\ uploads' = Touched(d)
  BY DEF ReplayComplete
<1>2. RequestsFit'
  BY <1>1, IntakeInvShapes DEF RequestsFit
<1> QED
  BY <1>1, <1>2, Touching, UploadsKeep

LEMMA FinalizeKeeps ==
  ASSUME IntakeInv, NEW d \in Drafts, FinalizeUpload(d)
  PROVE  IntakeInv'
<1> DEFINE row == [uploads[d] EXCEPT !.stage = "finalized", !.idle = 0,
                                     !.announced = uploads[d].announced + 1]
<1>1. /\ UNCHANGED <<attachments, r2, requests, sources>>
      /\ uploads' = [uploads EXCEPT ![d] = row] /\ uploads[d].stage = "uploading"
  BY DEF FinalizeUpload
<1>2. uploads[d] \in UploadRows /\ uploads[d].announced = 0
  BY <1>1, IntakeInvShapes DEF IntakeInv, UploadFits
<1>3. /\ row \in UploadRows /\ row.stage = "finalized" /\ row.declared = uploads[d].declared
  <2>1. ASSUME NEW i \in 0 .. 2, NEW n \in 0 .. 1,
               row = [uploads[d] EXCEPT !.stage = "finalized", !.idle = i, !.announced = n]
        PROVE  row \in UploadRows /\ row.stage = "finalized" /\ row.declared = uploads[d].declared
    <3> HIDE DEF row
    <3> QED
      BY <1>2, <2>1 DEF UploadRows, Stages
  <2>2. PICK i \in 0 .. 2, n \in 0 .. 1 : i = 0 /\ n = uploads[d].announced + 1
    BY <1>2
  <2>3. row = [uploads[d] EXCEPT !.stage = "finalized", !.idle = i, !.announced = n]
    BY <2>2
  <2> HIDE DEF row
  <2> QED
    BY <2>1, <2>3
<1> HIDE DEF row
<1>4. uploads' \in [Drafts -> UploadRows] /\ UploadsEvolve /\ \A e \in Drafts : UploadFits(e)'
  BY <1>1, <1>3, UploadChanges
<1>5. RequestsFit'
  BY <1>1, IntakeInvShapes DEF RequestsFit
<1> QED
  BY <1>1, <1>4, <1>5, UploadsKeep

LEMMA TimeKeeps ==
  ASSUME IntakeInv, TimePasses
  PROVE  IntakeInv'
<1>1. UNCHANGED <<attachments, r2, requests, sources>>
  BY DEF TimePasses
<1>2. ASSUME NEW d \in Drafts
      PROVE  /\ uploads'[d] \in UploadRows /\ uploads'[d].stage = uploads[d].stage
             /\ uploads'[d].declared = uploads[d].declared /\ uploads'[d].source = uploads[d].source
             /\ uploads'[d].announced = uploads[d].announced
  <2>1. uploads[d] \in UploadRows
    BY IntakeInvShapes
  <2>2. ASSUME NEW n \in 0 .. 2
        PROVE  LET row == [uploads[d] EXCEPT !.idle = n]
               IN /\ row \in UploadRows /\ row.stage = uploads[d].stage
                  /\ row.declared = uploads[d].declared /\ row.source = uploads[d].source
                  /\ row.announced = uploads[d].announced
    BY <2>1 DEF UploadRows
  <2>3. CASE uploads[d].stage \in {"none", "orphaned"} \/ uploads[d].idle = 2
    BY <2>1, <2>3 DEF TimePasses
  <2>4. CASE ~(uploads[d].stage \in {"none", "orphaned"} \/ uploads[d].idle = 2)
    <3>1. uploads[d].idle + 1 \in 0 .. 2
      BY <2>1, <2>4 DEF UploadRows
    <3>2. uploads'[d] = [uploads[d] EXCEPT !.idle = uploads[d].idle + 1]
      BY <2>4 DEF TimePasses
    <3> QED
      BY <2>2, <3>1, <3>2
  <2> QED
    BY <2>3, <2>4
<1>3. uploads' = [d \in Drafts |-> uploads'[d]]
  BY DEF TimePasses
<1>4. uploads' \in [Drafts -> UploadRows] /\ UploadsEvolve /\ \A e \in Drafts : UploadFits(e)'
  BY <1>2, <1>3 DEF UploadsEvolve, UploadsGoOn, UploadsStayBound, IntakeInv, UploadFits
<1>5. RequestsFit'
  BY <1>1, IntakeInvShapes DEF RequestsFit
<1> QED
  BY <1>1, <1>4, <1>5, UploadsKeep

LEMMA LosingKeeps ==
  ASSUME IntakeInv, NEW r, LoseRequest(r)
  PROVE  IntakeInv'
<1>1. /\ UNCHANGED <<uploads, attachments, r2, sources>>
      /\ RequestsFit' /\ \A q \in requests' : q \in requests
  BY FinishingFits, IntakeInvShapes DEF LoseRequest
<1>2. uploads' \in [Drafts -> UploadRows] /\ UploadsEvolve /\ \A e \in Drafts : UploadFits(e)'
  BY <1>1, UploadsStill, IntakeInvShapes
<1> QED
  BY <1>1, <1>2, UploadsKeep

(* A pass marks what expired; its keys are those of orphans.               *)
LEMMA ReconcileKeeps ==
  ASSUME IntakeInv, ReconcileUploads
  PROVE  IntakeInv'
<1> DEFINE collected == {d \in Drafts : Collects(uploads[d])}
           keys == UNION {{KeyOf(d, a) : a \in Begun(d)} : d \in collected}
           request == [op |-> "collect", keys |-> keys]
<1>1. /\ UNCHANGED <<attachments, r2, sources>> /\ Send(request)
      /\ uploads' = [d \in Drafts |-> IF d \in collected
                                      THEN [uploads[d] EXCEPT !.stage = "orphaned"] ELSE uploads[d]]
  BY DEF ReconcileUploads
<1>2. ASSUME NEW d \in Drafts
      PROVE  /\ uploads'[d] \in UploadRows /\ uploads'[d].declared = uploads[d].declared
             /\ uploads'[d].source = uploads[d].source /\ uploads'[d].announced = uploads[d].announced
             /\ uploads'[d].stage = IF d \in collected THEN "orphaned" ELSE uploads[d].stage
  <2>1. uploads[d] \in UploadRows
    BY IntakeInvShapes
  <2>2. LET row == [uploads[d] EXCEPT !.stage = "orphaned"]
        IN /\ row \in UploadRows /\ row.stage = "orphaned"
           /\ row.declared = uploads[d].declared /\ row.source = uploads[d].source
           /\ row.announced = uploads[d].announced
    BY <2>1 DEF UploadRows, Stages
  <2> HIDE DEF collected
  <2> QED
    BY <1>1, <2>1, <2>2
<1>3. \A d \in collected : uploads[d].source = NoSource /\ uploads[d].stage # "none"
  BY DEF Collects
<1>4. \A k \in keys : k \in ObjectKeys /\ k[1] \in collected
  <2>1. ASSUME NEW d \in collected, NEW a \in Begun(d)
        PROVE  KeyOf(d, a) \in ObjectKeys /\ KeyOf(d, a)[1] = d
    BY <2>1, KeyOfRow, IntakeInvShapes DEF Begun
  <2> HIDE DEF collected
  <2> QED
    BY <2>1
<1>5. collected \subseteq Drafts
  OBVIOUS
<1> HIDE DEF collected, keys
<1>6. uploads' \in [Drafts -> UploadRows] /\ UploadsEvolve /\ \A e \in Drafts : UploadFits(e)'
  <2>1. uploads' = [d \in Drafts |-> uploads'[d]]
    BY <1>1
  <2>2. uploads' \in [Drafts -> UploadRows]
    BY <1>2, <2>1
  <2> QED
    BY <1>2, <1>3, <2>2 DEF UploadsEvolve, UploadsGoOn, UploadsStayBound, IntakeInv, UploadFits
<1>7. RequestsFit' /\ \A q \in requests' : q \in requests \/ q = request
  BY <1>1, SendingFits, IntakeInvShapes
<1>8. ASSUME NEW q, q = request
      PROVE  RequestFits(q)'
  <2>1. q.op = "collect" /\ \A k \in q.keys : k \in ObjectKeys /\ uploads'[k[1]].stage = "orphaned"
    BY <1>2, <1>4, <1>5, <1>8
  <2> QED
    BY <2>1 DEF RequestFits, CollectionFits
<1> HIDE DEF request
<1> QED
  BY <1>1, <1>6, <1>7, <1>8, UploadsKeep

(* One key of a pass: its session cannot be completed any more.            *)
LEMMA CollectKeeps ==
  ASSUME IntakeInv, NEW r, CollectObjects(r)
  PROVE  IntakeInv'
<1>1. r \in requests /\ r.op = "collect" /\ UNCHANGED <<uploads, attachments, sources>>
  BY DEF CollectObjects
<1>2. CollectionFits(r)
  BY <1>1, IntakeInvShapes DEF RequestFits
<1>3. PICK k \in r.keys :
        /\ r2' = [r2 EXCEPT ![k] =
             [r2[k] EXCEPT !.session = IF r2[k].session = "open" THEN "aborted" ELSE r2[k].session,
                           !.object = Nothing, !.collected = TRUE]]
        /\ IF r.keys = {k} THEN Finish(r) ELSE Becomes(r, [r EXCEPT !.keys = r.keys \ {k}])
  BY DEF CollectObjects
<1> DEFINE session == IF r2[k].session = "open" THEN "aborted" ELSE r2[k].session
           row == [r2[k] EXCEPT !.session = session, !.object = Nothing, !.collected = TRUE]
           rest == [r EXCEPT !.keys = r.keys \ {k}]
<1>4. k \in ObjectKeys /\ uploads[k[1]].stage = "orphaned"
  BY <1>2 DEF CollectionFits
<1>5. r2[k] \in SessionStates
  BY <1>4, IntakeInvShapes
<1>6. /\ row \in SessionStates /\ row.session # "open" /\ row.object = Nothing
      /\ row.stored = r2[k].stored /\ (r2[k].session # "none" => row.session # "none")
  <2>1. session \in {"none", "completed", "aborted"} /\ (r2[k].session # "none" => session # "none")
    BY <1>5 DEF SessionStates
  <2>2. Nothing \in PartialFunctions(Parts, Contents)
    BY NothingShape
  <2> HIDE DEF session
  <2> QED
    BY <1>5, <2>1, <2>2 DEF SessionStates
<1>7. r2' = [r2 EXCEPT ![k] = row]
  BY <1>3
<1> HIDE DEF row
<1>8. /\ r2' \in [ObjectKeys -> SessionStates] /\ BucketEvolves
      /\ \A q \in ObjectKeys : KeyFits(q)'
  BY <1>4, <1>6, <1>7, SessionChanges
<1>9. RequestsFit' /\ \A q \in requests' : q \in requests \/ q = rest
  <2>1. CASE r.keys = {k}
    BY <1>1, <1>3, <2>1, FinishingFits, IntakeInvShapes
  <2>2. CASE r.keys # {k}
    BY <1>1, <1>3, <2>2, BecomingFits, IntakeInvShapes
  <2> QED
    BY <2>1, <2>2
<1>10. ASSUME NEW q, q = rest
       PROVE  RequestFits(q)'
  <2>1. q.op = "collect" /\ q.keys \subseteq r.keys
    <3>1. rest.op = r.op
      OBVIOUS
    <3>2. rest.keys = r.keys \ {k} \/ rest.keys = r.keys
      BY <1>3
    <3> QED
      BY <1>1, <1>10, <3>1, <3>2
  <2>2. \A j \in q.keys : j \in ObjectKeys /\ uploads'[j[1]].stage = "orphaned"
    BY <1>1, <1>2, <2>1 DEF CollectionFits
  <2> QED
    BY <2>1, <2>2 DEF RequestFits, CollectionFits
<1> HIDE DEF rest
<1>11. RowsTyped'
  BY <1>1, <1>8, IntakeInvShapes DEF RowsTyped
<1> QED
  BY <1>1, <1>8, <1>9, <1>10, <1>11, UploadsStill, RowsStill, IntakeKeeps DEF IntakeEvolves

(* Acceptance binds every attachment of a draft that nobody bound.         *)
LEMMA AcceptanceKeeps ==
  ASSUME IntakeInv, NEW d \in Drafts, NEW key \in AcceptanceKeys \union {NoKey}, NEW text \in Texts,
         AcceptSource(d, key, text)
  PROVE  IntakeInv'
<1>1. UNCHANGED <<r2, requests>> /\ AttachmentGate(d)
  BY DEF AcceptSource
<1>2. PICK s \in Sources \ DOMAIN sources :
        /\ sources' = [t \in DOMAIN sources \union {s} |->
                        IF t = s THEN [key |-> key, text |-> text, draft |-> d, media |-> Begun(d)]
                        ELSE sources[t]]
        /\ IF Begun(d) = {} THEN UNCHANGED <<attachments, uploads>>
           ELSE /\ attachments' = [attachments EXCEPT ![d] = [a \in Slots |->
                      IF a \in Begun(d) THEN [attachments[d][a] EXCEPT !.source = s]
                      ELSE attachments[d][a]]]
                /\ uploads' = [uploads EXCEPT ![d] = [uploads[d] EXCEPT !.source = s, !.idle = 0]]
  BY DEF AcceptSource
<1> DEFINE new == [key |-> key, text |-> text, draft |-> d, media |-> Begun(d)]
<1>3. /\ DOMAIN sources' = DOMAIN sources \union {s} /\ sources'[s] = new
      /\ \A t \in DOMAIN sources : sources'[t] = sources[t]
  <2> HIDE DEF new
  <2> QED
    BY <1>2 DEF new
<1>4. s # NoSource /\ s \in Sources
  BY <1>2, IntakeNothing
<1>5. new \in SourceRows /\ new.draft = d /\ new.media = Begun(d)
  BY DEF SourceRows, Begun
<1>6. Begun(d) # {} =>
        /\ uploads[d].stage = "finalized" /\ Verified(d) = Begun(d)
        /\ \A a \in Begun(d) : attachments[d][a].source = NoSource
  BY <1>1 DEF AttachmentGate
<1> HIDE DEF new
\* No other source carries media of the draft.
<1>7. \A t \in DOMAIN sources : sources[t].draft = d /\ Begun(d) # {} => sources[t].media = {}
  <2> SUFFICES ASSUME NEW t \in DOMAIN sources, sources[t].draft = d, Begun(d) # {},
                      NEW a \in sources[t].media
               PROVE  FALSE
    OBVIOUS
  <2>1. SourceFits(t) /\ attachments[d][a].source = t /\ t \in Sources
    BY DEF IntakeInv, MediaBelongsToOneSource, SourceFits
  <2>2. a \in Slots /\ Exists(d, a)
    BY <2>1 DEF SourceFits, SourceRows
  <2> QED
    BY <1>6, <2>1, <2>2, IntakeNothing DEF Begun
<1>8. /\ uploads' \in [Drafts -> UploadRows] /\ UploadsGoOn /\ \A e \in Drafts : UploadFits(e)'
      /\ Begun(d) # {} => uploads'[d].source = s /\ uploads'[d].stage = "finalized"
      /\ \A e \in Drafts : e # d => uploads'[e] = uploads[e]
  <2>1. CASE Begun(d) = {}
    BY <1>2, <2>1, UploadsStill, IntakeInvShapes DEF UploadsEvolve
  <2>2. CASE Begun(d) # {}
    <3> DEFINE row == [uploads[d] EXCEPT !.source = s, !.idle = 0]
    <3>1. uploads[d] \in UploadRows /\ uploads[d].stage = "finalized"
      BY <1>6, <2>2, IntakeInvShapes
    <3>2. uploads' = [uploads EXCEPT ![d] = row]
      BY <1>2, <2>2
    <3>3. /\ row \in UploadRows /\ row.stage = "finalized" /\ row.source = s
          /\ row.declared = uploads[d].declared
      <4>1. ASSUME NEW i \in 0 .. 2, row = [uploads[d] EXCEPT !.source = s, !.idle = i]
            PROVE  /\ row \in UploadRows /\ row.stage = "finalized" /\ row.source = s
                   /\ row.declared = uploads[d].declared
        <5> HIDE DEF row
        <5> QED
          BY <1>4, <3>1, <4>1 DEF UploadRows
      <4>2. 0 \in 0 .. 2
        OBVIOUS
      <4> QED
        BY <4>1, <4>2
    <3> HIDE DEF row
    <3>4. /\ uploads' \in [Drafts -> UploadRows] /\ uploads'[d] = row
          /\ \A e \in Drafts : e # d => uploads'[e] = uploads[e]
      BY <3>2, <3>3, IntakeInvShapes
    <3> QED
      BY <2>2, <3>1, <3>3, <3>4 DEF UploadsGoOn, UploadFits, IntakeInv
  <2> QED
    BY <2>1, <2>2
<1>9. /\ attachments' \in [Drafts -> [Slots -> AttachmentRows]] /\ RowsEvolve
      /\ \A e \in Drafts, a \in Slots :
           /\ attachments'[e][a].mint = attachments[e][a].mint
           /\ attachments'[e][a].manifest = attachments[e][a].manifest
           /\ attachments'[e][a].completed = attachments[e][a].completed
           /\ e # d => attachments'[e][a] = attachments[e][a]
           /\ e = d /\ a \in Begun(d) => attachments'[e][a].source = s
  <2>1. CASE Begun(d) = {}
    BY <1>2, <2>1, IntakeInvShapes DEF RowsEvolve
  <2>2. CASE Begun(d) # {}
    <3> DEFINE rows == [a \in Slots |->
                          IF a \in Begun(d) THEN [attachments[d][a] EXCEPT !.source = s]
                          ELSE attachments[d][a]]
    <3>1. ASSUME NEW a \in Slots
          PROVE  /\ rows[a] \in AttachmentRows /\ rows[a].mint = attachments[d][a].mint
                 /\ rows[a].manifest = attachments[d][a].manifest
                 /\ rows[a].completed = attachments[d][a].completed
                 /\ a \in Begun(d) => rows[a].source = s
      <4>1. attachments[d][a] \in AttachmentRows
        BY IntakeInvShapes
      <4> QED
        BY <1>4, <4>1 DEF AttachmentRows
    <3>2. attachments' = [attachments EXCEPT ![d] = rows]
      BY <1>2, <2>2
    <3>3. rows = [a \in Slots |-> rows[a]]
      OBVIOUS
    <3> HIDE DEF rows
    <3>4. rows \in [Slots -> AttachmentRows]
      BY <3>1, <3>3
    <3>5. /\ attachments' \in [Drafts -> [Slots -> AttachmentRows]] /\ attachments'[d] = rows
          /\ \A e \in Drafts : e # d => attachments'[e] = attachments[e]
      BY <3>2, <3>4, IntakeInvShapes
    <3>6. \A a \in Slots : Exists(d, a) => attachments[d][a].source = NoSource
      BY <1>6, <2>2 DEF Begun
    <3> QED
      BY <3>1, <3>5, <3>6 DEF RowsEvolve
  <2> QED
    BY <2>1, <2>2
<1>10. RowsTyped' /\ BucketEvolves /\ \A k \in ObjectKeys : KeyFits(k)'
  BY <1>1, <1>8, <1>9, BucketStill, IntakeInvShapes DEF RowsTyped
<1>11. RequestsFit' /\ \A r \in requests' : RequestFits(r)'
  BY <1>1, <1>8, <1>9, <1>10, RequestStays, IntakeInvShapes DEF RequestsFit
<1>12. \A e \in Drafts, a \in Slots : AttachmentFits(e, a)'
  BY <1>8, <1>9, <1>10, AttachmentStays
<1>13. \A e \in Drafts, a \in Slots : (Exists(e, a))' = Exists(e, a)
  BY <1>9 DEF Exists
<1>14. ASSUME NEW t \in DOMAIN sources'
       PROVE  SourceFits(t)'
  <2>1. CASE t = s
    <3>1. Begun(d) \subseteq Slots /\ \A a \in Begun(d) : Exists(d, a)
      BY DEF Begun
    <3>2. \A a \in Begun(d) : attachments[d][a].completed
      BY <1>6 DEF Verified
    <3> QED
      BY <1>3, <1>4, <1>5, <1>9, <1>13, <2>1, <3>1, <3>2 DEF SourceFits
  <2>2. CASE t \in DOMAIN sources
    <3>1. SourceFits(t) /\ sources[t].draft \in Drafts /\ sources[t].media \subseteq Slots
      BY <2>2 DEF IntakeInv, SourceFits, SourceRows
    <3>2. sources'[t] = sources[t]
      BY <1>3, <2>2
    <3>3. \A a \in sources[t].media :
            /\ attachments'[sources[t].draft][a].mint # 0
            /\ attachments'[sources[t].draft][a].completed
      <4>1. \A a \in sources[t].media :
              a \in Slots /\ Exists(sources[t].draft, a) /\ attachments[sources[t].draft][a].completed
        BY <3>1 DEF SourceFits
      <4> QED
        BY <1>9, <3>1, <4>1 DEF Exists
    <3> QED
      BY <3>1, <3>2, <3>3 DEF SourceFits, Exists
  <2> QED
    BY <1>3, <2>1, <2>2
<1>15. \A t \in DOMAIN sources :
         /\ sources[t].draft \in Drafts /\ sources[t].media \subseteq Slots
         /\ sources[t].media # {} /\ sources[t].draft = d => Begun(d) # {}
  <2> SUFFICES ASSUME NEW t \in DOMAIN sources
               PROVE  /\ sources[t].draft \in Drafts /\ sources[t].media \subseteq Slots
                      /\ sources[t].media # {} /\ sources[t].draft = d => Begun(d) # {}
    OBVIOUS
  <2>1. SourceFits(t)
    BY DEF IntakeInv
  <2> QED
    BY <2>1 DEF SourceFits, SourceRows, Begun
<1>16. \A t \in DOMAIN sources : sources[t].draft = d => sources[t].media = {}
  BY <1>7, <1>15
<1>17. MediaBelongsToOneSource'
  <2>1. ASSUME NEW t \in DOMAIN sources', sources'[t].media # {}
        PROVE  /\ uploads'[sources'[t].draft].source = t
               /\ uploads'[sources'[t].draft].stage = "finalized"
               /\ \A a \in sources'[t].media : attachments'[sources'[t].draft][a].source = t
    <3>1. CASE t = s
      <4>1. Begun(d) # {} /\ Begun(d) \subseteq Slots
        BY <1>3, <1>5, <2>1, <3>1 DEF Begun
      <4> QED
        BY <1>3, <1>5, <1>8, <1>9, <3>1, <4>1
    <3>2. CASE t \in DOMAIN sources
      <4>1. sources[t].media # {} /\ sources[t].draft # d
        BY <1>3, <1>16, <2>1, <3>2
      <4>2. /\ uploads[sources[t].draft].source = t /\ uploads[sources[t].draft].stage = "finalized"
            /\ \A a \in sources[t].media : attachments[sources[t].draft][a].source = t
        BY <3>2, <4>1 DEF IntakeInv, MediaBelongsToOneSource
      <4>3. sources'[t] = sources[t]
        BY <1>3, <3>2
      <4>4. /\ uploads'[sources[t].draft] = uploads[sources[t].draft]
            /\ \A a \in sources[t].media :
                 attachments'[sources[t].draft][a] = attachments[sources[t].draft][a]
        BY <1>8, <1>9, <1>15, <3>2, <4>1
      <4> QED
        BY <4>2, <4>3, <4>4
    <3> QED
      BY <1>3, <2>1, <3>1, <3>2
  <2>2. ASSUME NEW t \in DOMAIN sources', NEW u \in DOMAIN sources', t # u,
               sources'[t].draft = sources'[u].draft
        PROVE  sources'[t].media \intersect sources'[u].media = {}
    <3>1. \A p, q \in DOMAIN sources :
            p # q /\ sources[p].draft = sources[q].draft =>
              sources[p].media \intersect sources[q].media = {}
      BY DEF IntakeInv, MediaBelongsToOneSource
    <3> QED
      BY <1>3, <1>5, <1>16, <2>2, <3>1
  <2> QED
    BY <2>1, <2>2 DEF MediaBelongsToOneSource
<1> QED
  BY <1>8, <1>10, <1>11, <1>12, <1>14, <1>17 DEF IntakeInv, RequestsFit
-----------------------------------------------------------------------------
LEMMA IntakeInvInit ==
  ASSUME IntakeInit
  PROVE  IntakeInv
<1>1. /\ NoUpload \in UploadRows /\ NoUpload.stage = "none" /\ NoUpload.announced = 0
  <2>1. ASSUME NEW i \in 0 .. 2, NEW n \in 0 .. 1, i = 0, n = 0
        PROVE  [stage |-> "none", declared |-> {}, idle |-> i, source |-> NoSource,
                announced |-> n] \in UploadRows
    BY DEF UploadRows, Stages
  <2>2. 0 \in 0 .. 2 /\ 0 \in 0 .. 1
    OBVIOUS
  <2> QED
    BY <2>1, <2>2 DEF NoUpload
<1>2. /\ NoAttachment \in AttachmentRows /\ NoAttachment.mint = 0 /\ NoAttachment.manifest = Nothing
  BY NothingShape DEF NoAttachment, AttachmentRows
<1>3. NoSession \in SessionStates /\ ~NoSession.collected
  BY NothingShape DEF NoSession, SessionStates
<1> HIDE DEF NoUpload, NoAttachment, NoSession
<1>4. RowsTyped
  BY <1>1, <1>2, <1>3 DEF IntakeInit, RowsTyped
<1>5. IsFiniteSet(requests) /\ Cardinality(requests) <= MaxRequests /\ requests = {}
  BY FS_EmptySet, IntakeNumbers DEF IntakeInit
<1>6. DOMAIN sources = {}
  BY NothingShape DEF IntakeInit
<1>7. \A d \in Drafts : UploadFits(d)
  BY <1>1 DEF IntakeInit, UploadFits
<1>8. \A d \in Drafts, a \in Slots : AttachmentFits(d, a)
  <2>1. ASSUME NEW d \in Drafts, NEW a \in Slots
        PROVE  attachments[d][a].mint = 0 /\ attachments[d][a].manifest = Nothing
    BY <1>2 DEF IntakeInit
  <2>2. IsFiniteSet(DOMAIN Nothing) /\ DOMAIN Nothing = {}
    BY NothingShape
  <2> QED
    BY <2>1, <2>2 DEF AttachmentFits, Exists
<1>9. \A k \in ObjectKeys : KeyFits(k)
  BY <1>3 DEF IntakeInit, KeyFits
<1> QED
  BY <1>4, <1>5, <1>6, <1>7, <1>8, <1>9 DEF IntakeInv, MediaBelongsToOneSource

LEMMA IntakeInvStep ==
  ASSUME IntakeInv, [IntakeNext]_intakeVars
  PROVE  IntakeInv'
<1>1. CASE \E d \in Drafts, declared \in SUBSET Slots : Prepare(d, declared)
  BY <1>1, PrepareUploadKeeps
<1>2. CASE \E d \in Drafts, a \in Slots, p \in Parts, c \in Contents : StreamPart(d, a, p, c)
  BY <1>2, StreamKeeps
<1>3. CASE \E d \in Drafts, a \in Slots : ReadManifest(d, a)
  BY <1>3, ManifestKeeps
<1>4. CASE \E d \in Drafts, a \in Slots : ReplayComplete(d, a)
  BY <1>4, ReplayKeeps
<1>5. CASE \E d \in Drafts : FinalizeUpload(d)
  BY <1>5, FinalizeKeeps
<1>6. CASE \E d \in Drafts, key \in AcceptanceKeys \union {NoKey}, text \in Texts :
             AcceptSource(d, key, text)
  BY <1>6, AcceptanceKeeps
<1>7. CASE \E r \in requests : Begin(r)
  BY <1>7, BeginKeeps
<1>8. CASE \E r \in requests : RecordPart(r)
  BY <1>8, ReceiptKeeps
<1>9. CASE \E r \in requests : CompleteAndVerify(r)
  BY <1>9, VerificationKeeps
<1>10. CASE \E r \in requests : CompleteAttachment(r)
  BY <1>10, CompletionKeeps
<1>11. CASE \E r \in requests : CollectObjects(r)
  BY <1>11, CollectKeeps
<1>12. CASE \E r \in requests : LoseRequest(r)
  BY <1>12, LosingKeeps
<1>13. CASE ReconcileUploads
  BY <1>13, ReconcileKeeps
<1>14. CASE TimePasses
  BY <1>14, TimeKeeps
<1>15. CASE UNCHANGED intakeVars
  <2>1. UNCHANGED <<uploads, attachments, r2, requests, sources>>
    BY <1>15 DEF intakeVars
  <2>2. RequestsFit' /\ uploads' \in [Drafts -> UploadRows]
    BY <2>1, IntakeInvShapes DEF RequestsFit
  <2> QED
    BY <2>1, <2>2, UploadsStill, UploadsKeep
<1> QED
  BY <1>1, <1>2, <1>3, <1>4, <1>5, <1>6, <1>7, <1>8, <1>9, <1>10, <1>11, <1>12, <1>13, <1>14, <1>15
     DEF IntakeNext

LEMMA IntakeInvAlways == IntakeSpec => []IntakeInv
BY IntakeInvInit, IntakeInvStep, PTL DEF IntakeSpec

(* The rows, the sessions and the sources of intake have their types, and  *)
(* no more requests are in flight than may be.                             *)
THEOREM IntakeTypeCorrect == IntakeSpec => []IntakeTypeOK
<1>1. IntakeInv => IntakeTypeOK
  BY DEF IntakeInv, RowsTyped, SourceFits, IntakeTypeOK
<1> QED
  BY <1>1, IntakeInvAlways, PTL

(* What a collection pass dealt with never gets bytes again, whatever      *)
(* request that read the ledger before it is still in flight.              *)
THEOREM CollectedAlwaysStaysCollected == IntakeSpec => []CollectedStaysCollected
<1>1. IntakeInv => CollectedStaysCollected
  BY DEF IntakeInv, KeyFits, CollectedStaysCollected
<1> QED
  BY <1>1, IntakeInvAlways, PTL

(* No attachment is ever carried by two sources.                           *)
THEOREM MediaAlwaysBelongsToOneSource == IntakeSpec => []MediaBelongsToOneSource
<1>1. IntakeInv => MediaBelongsToOneSource
  BY DEF IntakeInv
<1> QED
  BY <1>1, IntakeInvAlways, PTL

(* What an accepted source carries is in R2 as its manifest records it.    *)
THEOREM AcceptedMediaIsAlwaysStored == IntakeSpec => []AcceptedMediaStored
<1>1. IntakeInv => AcceptedMediaStored
  <2> SUFFICES ASSUME IntakeInv, NEW s \in DOMAIN sources, NEW a \in sources[s].media
               PROVE  LET d == sources[s].draft
                          row == attachments[d][a]
                      IN r2[KeyOf(d, a)].object =
                           [p \in DOMAIN row.manifest |-> row.manifest[p].content]
    BY DEF AcceptedMediaStored
  <2> DEFINE d == sources[s].draft
  <2>1. d \in Drafts /\ a \in Slots /\ Exists(d, a) /\ attachments[d][a].completed
    BY DEF IntakeInv, SourceFits, SourceRows
  <2>2. uploads[d].stage = "finalized"
    BY DEF IntakeInv, MediaBelongsToOneSource
  <2>3. AttachmentFits(d, a)
    BY <2>1 DEF IntakeInv
  <2> QED
    BY <2>1, <2>2, <2>3 DEF AttachmentFits, Bytes
<1> QED
  BY <1>1, IntakeInvAlways, PTL
=============================================================================
