-------------------------------- MODULE Media --------------------------------
(***************************************************************************)
(* The normalization of the images of one accepted source                  *)
(* (convex/processing/images, apps/gateway/src/images): the representation *)
(* rows, the objects behind them, the durable job, the gateway drives that *)
(* convert, record, verify and clean up, and the readers: the media access *)
(* grant and the vision orders that anchor an extraction to a row.         *)
(*                                                                         *)
(* A ledger step is one transaction; a drive takes its steps one by one,   *)
(* dies between any two, and goes on after the job's action stopped        *)
(* waiting for it.  The encoder is a function of the received bytes, so    *)
(* two conversions that succeed write the same object under the same key.  *)
(***************************************************************************)
EXTENDS Naturals, FiniteSets

CONSTANTS
  Images,         \* the image attachments of the job
  MaxAttempts,    \* maxAttempts of the durable job
  Drives,         \* identities of drives
  NoImage

ASSUME MediaNumbers == MaxAttempts \in Nat \ {0} /\ IsFiniteSet(Drives)

VARIABLES
  job,      \* the durable job of the source's images
  reps,     \* mediaRepresentations, per image
  objects,  \* what the bucket holds, per image
  drives,   \* drives of the gateway between two of their steps
  vision    \* visionOrders, per image and retained row

mediaVars == <<job, reps, objects, drives, vision>>

\* `originals` counts the retained-original exception rows, which point at
\* the received object; `normalized` stands for the retained row and its
\* thumbnail, which are written, stamped and read together.
RepresentationRows == [removed : BOOLEAN, processing : BOOLEAN,
                       normalized : {"none", "recorded", "verified"},
                       originals : 0 .. Cardinality(Drives)]
ObjectRows == [received : BOOLEAN, derived : {"none", "retained", "both"}]
JobRows == [state : {"queued", "running", "succeeded", "failed"},
            attempts : 0 .. MaxAttempts, outcome : {"none", "failed", "uncertain"}]
RetentionSteps == {"normalize", "verify", "cleanup", "none"}
DriveSteps == {"called", "between", "convert", "thumbnail", "record", "except", "verify",
               "delete", "stamp", "ok", "retryable", "refused"}
DriveRows == [step : DriveSteps \union {"none"}, image : Images \union {NoImage}, heard : BOOLEAN,
              plan : [Images -> RetentionSteps]]
OrderStates == {"none", "pending", "read", "complete"}
RetainedRows == {"normalized", "original"}

MediaTypeOK ==
  /\ job \in JobRows
  /\ reps \in [Images -> RepresentationRows]
  /\ objects \in [Images -> ObjectRows]
  /\ drives \in [Drives -> DriveRows]
  /\ vision \in [Images -> [RetainedRows -> OrderStates]]

NoPlan == [i \in Images |-> "none"]
NoDrive == [step |-> "none", image |-> NoImage, heard |-> FALSE, plan |-> NoPlan]

MediaInit ==
  /\ job = [state |-> "queued", attempts |-> 0, outcome |-> "none"]
  /\ reps = [i \in Images |-> [removed |-> FALSE, processing |-> FALSE,
                               normalized |-> "none", originals |-> 0]]
  /\ objects = [i \in Images |-> [received |-> TRUE, derived |-> "none"]]
  /\ drives = [d \in Drives |-> NoDrive]
  /\ vision = [i \in Images |-> [r \in RetainedRows |-> "none"]]

(***************************************************************************)
(* The decisions of the protocol.                                          *)
(***************************************************************************)
\* A fault: recorded rows count as verified ones.
RecordedIsVerified(row) ==
  CASE row.normalized # "none" /\ ~row.removed -> "cleanup"
    [] row.normalized # "none" /\ row.removed -> "none"
    [] row.normalized = "none" /\ row.originals > 0 -> "none"
    [] OTHER -> "normalize"

RetentionStep(row) ==
  CASE row.normalized = "verified" /\ ~row.removed -> "cleanup"
    [] row.normalized = "verified" /\ row.removed -> "none"
    [] row.normalized = "recorded" -> "verify"
    [] row.normalized = "none" /\ row.originals > 0 -> "none"
    [] OTHER -> "normalize"

Terminal(i) == RetentionStep(reps[i]) = "none"

\* The verified retained row readers and vision anchors resolve to.
RetainedSelection(row) ==
  CASE row.normalized = "verified" -> "normalized"
    [] row.normalized # "verified" /\ row.originals > 0 -> "original"
    [] OTHER -> "none"

\* The extractions of images are anchored to retained rows, so none
\* references the received row, which is the only one this rule counts.
MayRemoveReceived(row) == ~row.removed /\ RetainedSelection(row) = "normalized"

ObjectOf(i, retained) ==
  IF retained = "normalized" THEN objects[i].derived # "none" ELSE objects[i].received

(***************************************************************************)
(* The job: the executor starts an attempt, the attempt's action calls the *)
(* gateway and records what it heard.                                      *)
(***************************************************************************)
StartDrive(d) ==
  /\ job.state = "queued" /\ job.attempts < MaxAttempts
  /\ drives[d].step = "none"
  /\ IF \A i \in Images : Terminal(i)
     THEN /\ job' = [job EXCEPT !.state = "succeeded", !.attempts = @ + 1]
          /\ UNCHANGED drives
     ELSE /\ job' = [job EXCEPT !.state = "running", !.attempts = @ + 1]
          /\ drives' = [drives EXCEPT ![d] = [NoDrive EXCEPT !.step = "called", !.heard = TRUE]]
  /\ UNCHANGED <<reps, objects, vision>>

\* What an attempt that ended so does to the job.
Recorded(outcome) ==
  CASE job.state = "succeeded" -> job
    [] job.state # "succeeded" /\ outcome = "ok" -> [job EXCEPT !.state = "succeeded", !.outcome = "none"]
    [] job.state # "succeeded" /\ outcome = "retryable" /\ job.attempts < MaxAttempts ->
         [job EXCEPT !.state = "queued"]
    [] job.state # "succeeded" /\ outcome = "uncertain" ->
         [job EXCEPT !.state = "failed", !.outcome = "uncertain"]
    [] OTHER -> [job EXCEPT !.state = "failed", !.outcome = "failed"]

RecordAttemptOutcome(d) ==
  /\ drives[d].step \in {"ok", "retryable", "refused"}
  /\ job' = IF drives[d].heard THEN Recorded(drives[d].step) ELSE job
  /\ drives' = [drives EXCEPT ![d].step = "none"]
  /\ UNCHANGED <<reps, objects, vision>>

\* The deadline of the call: the drive goes on, nobody hears its answer.
CallTimesOut(d) ==
  /\ drives[d].step # "none" /\ drives[d].heard
  /\ job' = Recorded("uncertain")
  /\ drives' = [drives EXCEPT ![d].heard = FALSE]
  /\ UNCHANGED <<reps, objects, vision>>

\* A drive dies; its caller hears a broken answer.
DriveDies(d) ==
  /\ drives[d].step \notin {"none", "ok", "retryable", "refused"}
  /\ job' = IF drives[d].heard THEN Recorded("uncertain") ELSE job
  /\ drives' = [drives EXCEPT ![d] = NoDrive]
  /\ UNCHANGED <<reps, objects, vision>>

Reconciled ==
  CASE \A i \in Images : Terminal(i) -> [job EXCEPT !.state = "succeeded", !.outcome = "none"]
    [] job.attempts >= MaxAttempts ->
         [job EXCEPT !.state = "failed", !.outcome = IF @ = "uncertain" THEN @ ELSE "failed"]
    [] OTHER -> [job EXCEPT !.state = "queued"]

\* It observes the rows; what awaits cleanup is left to ResumeCleanup.
ReconcileNormalization ==
  /\ job.state # "succeeded"
  /\ \A i \in Images : RetentionStep(reps[i]) # "cleanup"
  /\ job' = Reconciled
  /\ UNCHANGED <<reps, objects, drives, vision>>

\* The route's pass deletes what the reconciliation names, as a drive does.
ResumeCleanup(d) ==
  /\ job.state # "succeeded" /\ drives[d].step = "none"
  /\ \E i \in Images :
       /\ RetentionStep(reps[i]) = "cleanup"
       /\ drives' = [drives EXCEPT ![d] = [NoDrive EXCEPT !.step = "delete", !.image = i]]
  /\ UNCHANGED <<job, reps, objects, vision>>

(***************************************************************************)
(* A drive: prepare, then one image after the other.                       *)
(***************************************************************************)
Step(d, s) == drives' = [drives EXCEPT ![d].step = s]

PrepareNormalization(d) ==
  /\ drives[d].step = "called"
  /\ IF job.state \in {"running", "succeeded"}
     THEN /\ reps' = [i \in Images |-> IF RetentionStep(reps[i]) = "normalize"
                                       THEN [reps[i] EXCEPT !.processing = TRUE] ELSE reps[i]]
          /\ drives' = [drives EXCEPT ![d].step = "between",
                                      ![d].plan = [i \in Images |-> RetentionStep(reps[i])]]
     ELSE Step(d, "refused") /\ UNCHANGED reps
  /\ UNCHANGED <<job, objects, vision>>

\* Recorded and verified rows need evidence from the bucket; without the
\* objects the image is converted again.
TakeImage(d) ==
  /\ drives[d].step = "between"
  /\ \/ /\ drives[d].plan = NoPlan
        /\ Step(d, "ok")
     \/ \E i \in Images :
          /\ drives[d].plan[i] # "none"
          /\ drives' = [drives EXCEPT ![d].image = i, ![d].plan[i] = "none",
               ![d].step = IF drives[d].plan[i] = "normalize" \/ objects[i].derived # "both"
                           THEN "convert" ELSE "verify"]
  /\ UNCHANGED <<job, reps, objects, vision>>

\* The received bytes are gone, the conversion fails or the format is kept
\* as it is, or the retained object is written.
Convert(d) ==
  LET i == drives[d].image
  IN /\ drives[d].step = "convert"
     /\ \/ ~objects[i].received /\ Step(d, "retryable") /\ UNCHANGED objects
        \/ objects[i].received /\ Step(d, "except") /\ UNCHANGED objects
        \/ /\ objects[i].received /\ Step(d, "thumbnail")
           /\ objects' = [objects EXCEPT ![i].derived = IF @ = "none" THEN "retained" ELSE @]
     /\ UNCHANGED <<job, reps, vision>>

WriteThumbnail(d) ==
  /\ drives[d].step = "thumbnail"
  /\ objects' = [objects EXCEPT ![drives[d].image].derived = "both"]
  /\ Step(d, "record")
  /\ UNCHANGED <<job, reps, vision>>

RecordNormalization(d) ==
  LET i == drives[d].image
  IN /\ drives[d].step = "record"
     /\ reps' = IF reps[i].normalized # "none" THEN reps
                ELSE [reps EXCEPT ![i].normalized = "recorded", ![i].processing = FALSE]
     /\ Step(d, "verify")
     /\ UNCHANGED <<job, objects, vision>>

\* The exception row is born verified; only a normalized row stops another.
RecordException(d) ==
  LET i == drives[d].image
  IN /\ drives[d].step = "except"
     /\ reps' = IF reps[i].normalized # "none" THEN reps
                ELSE [reps EXCEPT ![i].originals = @ + 1, ![i].processing = FALSE]
     /\ Step(d, "between")
     /\ UNCHANGED <<job, objects, vision>>

VerifyNormalization(d) ==
  LET i == drives[d].image
      verified == [reps[i] EXCEPT !.normalized = "verified"]
  IN /\ drives[d].step = "verify"
     /\ IF reps[i].normalized = "none"
        THEN Step(d, "refused") /\ UNCHANGED reps
        ELSE /\ reps' = [reps EXCEPT ![i] = verified]
             /\ Step(d, IF MayRemoveReceived(verified) THEN "delete" ELSE "between")
     /\ UNCHANGED <<job, objects, vision>>

DeleteReceived(d) ==
  /\ drives[d].step = "delete"
  /\ objects' = [objects EXCEPT ![drives[d].image].received = FALSE]
  /\ Step(d, "stamp")
  /\ UNCHANGED <<job, reps, vision>>

\* The rule is checked again, after the object is gone.
CleanupReceived(d) ==
  LET i == drives[d].image
  IN /\ drives[d].step = "stamp"
     /\ IF reps[i].removed \/ MayRemoveReceived(reps[i])
        THEN reps' = [reps EXCEPT ![i].removed = TRUE] /\ Step(d, "between")
        ELSE Step(d, "refused") /\ UNCHANGED reps
     /\ UNCHANGED <<job, objects, vision>>

(***************************************************************************)
(* Vision: an order pins the selection of its moment; a pass reads the     *)
(* bytes of the pinned row and records its extraction later.               *)
(***************************************************************************)
OrderVision(i) ==
  LET pinned == RetainedSelection(reps[i])
  IN /\ pinned # "none" /\ vision[i][pinned] = "none"
     /\ vision' = [vision EXCEPT ![i][pinned] = "pending"]
     /\ UNCHANGED <<job, reps, objects, drives>>

ReadForVision(i, r) ==
  /\ vision[i][r] = "pending" /\ ObjectOf(i, r)
  /\ vision' = [vision EXCEPT ![i][r] = "read"]
  /\ UNCHANGED <<job, reps, objects, drives>>

\* The pass completes the order, or fails and leaves it pending.
RecordVisionOutcome(i, r) ==
  /\ vision[i][r] = "read"
  /\ \E state \in {"pending", "complete"} : vision' = [vision EXCEPT ![i][r] = state]
  /\ UNCHANGED <<job, reps, objects, drives>>

MediaNext ==
  \/ \E d \in Drives : StartDrive(d) \/ RecordAttemptOutcome(d) \/ CallTimesOut(d)
  \/ \E d \in Drives : DriveDies(d) \/ ResumeCleanup(d) \/ PrepareNormalization(d)
  \/ \E d \in Drives : TakeImage(d) \/ Convert(d) \/ WriteThumbnail(d)
  \/ \E d \in Drives : RecordNormalization(d) \/ RecordException(d) \/ VerifyNormalization(d)
  \/ \E d \in Drives : DeleteReceived(d) \/ CleanupReceived(d)
  \/ ReconcileNormalization
  \/ \E i \in Images : OrderVision(i)
  \/ \E i \in Images, r \in RetainedRows : ReadForVision(i, r) \/ RecordVisionOutcome(i, r)

MediaSpec == MediaInit /\ [][MediaNext]_mediaVars

(***************************************************************************)
(* Properties                                                              *)
(***************************************************************************)
(* What the readers resolve an image to is in the bucket: the newest       *)
(* verified retained row, else the received one, whose row says when its   *)
(* bytes were removed.  It holds between any two steps of any two drives.  *)
ReadersFindBytes ==
  \A i \in Images :
    IF RetainedSelection(reps[i]) = "none" THEN objects[i].received /\ ~reps[i].removed
    ELSE ObjectOf(i, RetainedSelection(reps[i]))

=============================================================================
