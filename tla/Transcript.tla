----------------------------- MODULE Transcript -----------------------------
(***************************************************************************)
(* The transcript of one audio attachment (convex/processing/audio): the   *)
(* order, its durable job, and the workflow that plans the manifest, takes *)
(* the segments one after the other, and assembles the extraction.         *)
(*                                                                         *)
(* A mutation is one action.  A provider pass is two: the attempt reads    *)
(* the segment and calls out, the record writes what it heard.  A workflow *)
(* step that throws ends the workflow; its completion runs in any case.    *)
(***************************************************************************)
EXTENDS Naturals, FiniteSets

CONSTANTS
  Segments,         \* segments of the manifest: 1 .. n
  SegmentAttempts,  \* SEGMENT_MAX_ATTEMPTS
  JobAttempts       \* maxAttempts of the durable job

ASSUME TranscriptNumbers ==
  /\ SegmentAttempts \in Nat /\ JobAttempts \in Nat
  /\ IsFiniteSet(Segments) /\ Segments = 1 .. Cardinality(Segments) /\ Segments # {}

VARIABLES
  transcript,  \* the audioTranscripts row
  segments,    \* audioSegments with the platform step of each
  sttJob,      \* durableJobs row of the order
  stt          \* the workflow of the job between two of its steps

transcriptVars == <<transcript, segments, sttJob, stt>>

Verdicts == {"none", "already_succeeded", "succeeded", "failed", "uncertain", "exhausted"}

TranscriptTypeOK ==
  /\ transcript \in [state : {"none", "planning", "pending", "partial", "complete"},
                     planned : BOOLEAN, error : BOOLEAN, extractions : 0 .. 2]
  /\ segments \in [Segments -> [state : {"pending", "failed", "succeeded"}, unsure : BOOLEAN,
                                attempts : 0 .. SegmentAttempts, step : {"none", "failed", "succeeded"}]]
  /\ sttJob \in [state : {"none", "queued", "running", "succeeded", "failed"},
                 unsure : BOOLEAN, attempts : 0 .. JobAttempts]
  /\ stt \in [step : {"none", "resolve", "plan", "attempt", "record", "assemble", "complete", "died"},
              at : Segments, verdict : Verdicts, readable : BOOLEAN,
              unsure : BOOLEAN, error : BOOLEAN, whole : BOOLEAN]

NoSegment == [state |-> "pending", unsure |-> FALSE, attempts |-> 0, step |-> "none"]
NoWorkflow == [step |-> "none", at |-> 1, verdict |-> "none", readable |-> FALSE,
               unsure |-> FALSE, error |-> FALSE, whole |-> FALSE]

TranscriptInit ==
  /\ transcript = [state |-> "none", planned |-> FALSE, error |-> FALSE, extractions |-> 0]
  /\ segments = [i \in Segments |-> NoSegment]
  /\ sttJob = [state |-> "none", unsure |-> FALSE, attempts |-> 0]
  /\ stt = NoWorkflow

(***************************************************************************)
(* The order.  An order of the same configuration is replayed: its job is  *)
(* queued again only after a failure that is known to be one.              *)
(***************************************************************************)
OrderAudioTranscript ==
  /\ IF transcript.state = "none"
     THEN /\ transcript' = [transcript EXCEPT !.state = "planning"]
          /\ sttJob' = [sttJob EXCEPT !.state = "queued"]
     ELSE /\ sttJob.state = "failed" /\ ~sttJob.unsure
          /\ sttJob' = [sttJob EXCEPT !.state = "queued"]
          /\ UNCHANGED transcript
  /\ UNCHANGED <<segments, stt>>

StartTranscription ==
  /\ sttJob.state = "queued"
  /\ IF sttJob.attempts < JobAttempts
     THEN /\ sttJob' = [sttJob EXCEPT !.state = "running", !.attempts = @ + 1]
          /\ stt' = [NoWorkflow EXCEPT !.step = "resolve"]
     ELSE sttJob' = [sttJob EXCEPT !.state = "failed"] /\ UNCHANGED stt
  /\ UNCHANGED <<transcript, segments>>

\* The media worker says how long the audio is, or why it cannot.
ResolveManifest ==
  /\ stt.step = "resolve"
  /\ \E readable \in BOOLEAN : stt' = [stt EXCEPT !.step = "plan", !.readable = readable]
  /\ UNCHANGED <<transcript, segments, sttJob>>

\* A manifest is planned once; a refusal leaves the order planning.
EnsureManifest ==
  /\ stt.step = "plan"
  /\ IF transcript.planned \/ stt.readable
     THEN /\ transcript' = IF transcript.planned THEN transcript
                           ELSE [transcript EXCEPT !.planned = TRUE, !.state = "pending", !.error = FALSE]
          /\ stt' = [stt EXCEPT !.step = "attempt", !.at = 1]
     ELSE /\ transcript' = [transcript EXCEPT !.error = TRUE]
          /\ stt' = [stt EXCEPT !.step = "complete", !.error = TRUE]
  /\ UNCHANGED <<segments, sttJob>>

Exhausted(row) == row.state # "succeeded" /\ row.attempts >= SegmentAttempts

AttemptSegment ==
  /\ stt.step = "attempt"
  /\ \E v \in Verdicts \ {"none"} :
       /\ v = "already_succeeded" <=> segments[stt.at].state = "succeeded"
       /\ v = "exhausted" <=> Exhausted(segments[stt.at])
       /\ stt' = [stt EXCEPT !.step = "record", !.verdict = v,
                             !.unsure = @ \/ v = "uncertain",
                             !.error = @ \/ v \in {"failed", "uncertain", "exhausted"}]
  /\ UNCHANGED <<transcript, segments, sttJob>>

\* A fault: a transcript is complete when one segment is.
DeriveFromAny(rows) ==
  IF \E i \in Segments : rows[i].state = "succeeded" THEN "complete" ELSE "pending"

DeriveTranscriptStatus(rows) ==
  CASE \A i \in Segments : rows[i].state = "succeeded" -> "complete"
    [] \A i \in Segments : rows[i].state # "succeeded" -> "pending"
    [] OTHER -> "partial"

\* The checkpoint of a segment and its step: what succeeded stays so.
SegmentAfter(row, v) ==
  CASE row.state = "succeeded" -> row
    [] row.state # "succeeded" /\ v = "exhausted" ->
         [row EXCEPT !.state = "failed", !.unsure = FALSE, !.step = "failed"]
    [] row.state # "succeeded" /\ v = "succeeded" ->
         [row EXCEPT !.state = "succeeded", !.unsure = FALSE, !.attempts = @ + 1, !.step = "succeeded"]
    [] OTHER -> [row EXCEPT !.state = "failed", !.unsure = v = "uncertain", !.attempts = @ + 1,
                            !.step = "failed"]

RecordSegmentOutcome ==
  /\ stt.step = "record"
  /\ LET rows == [segments EXCEPT ![stt.at] = SegmentAfter(@, stt.verdict)]
     IN /\ segments' = rows
        /\ transcript' = IF rows = segments /\ stt.verdict = "already_succeeded" THEN transcript
                         ELSE [transcript EXCEPT !.state = DeriveTranscriptStatus(rows)]
  /\ stt' = IF stt.at + 1 \in Segments
            THEN [stt EXCEPT !.step = "attempt", !.at = @ + 1, !.verdict = "none"]
            ELSE [stt EXCEPT !.step = "assemble", !.verdict = "none"]
  /\ UNCHANGED sttJob

\* The extraction with the interval of every segment, once.
AssembleTranscript ==
  /\ stt.step = "assemble"
  /\ LET status == DeriveTranscriptStatus(segments)
         fresh == status = "complete" /\ transcript.extractions = 0
     IN /\ transcript' = [transcript EXCEPT !.state = status,
                                            !.extractions = IF fresh THEN @ + 1 ELSE @]
        /\ stt' = [stt EXCEPT !.step = "complete", !.whole = status = "complete"]
  /\ UNCHANGED <<segments, sttJob>>

\* A step of the workflow throws, and the workflow with it.
TranscriptionDies ==
  /\ stt.step \notin {"none", "complete", "died"}
  /\ stt' = [stt EXCEPT !.step = "died"]
  /\ UNCHANGED <<transcript, segments, sttJob>>

\* The outcome of a workflow that died is not known to be uncertain.
CompleteTranscription ==
  /\ stt.step \in {"complete", "died"}
  /\ LET returned == stt.step = "complete"
     IN /\ sttJob' = IF returned /\ stt.whole THEN [sttJob EXCEPT !.state = "succeeded"]
                     ELSE [sttJob EXCEPT !.state = "failed", !.unsure = returned /\ stt.unsure]
        /\ transcript' = IF returned /\ transcript.state # "complete" /\ stt.error
                         THEN [transcript EXCEPT !.error = TRUE] ELSE transcript
  /\ stt' = NoWorkflow
  /\ UNCHANGED segments

TranscriptNext ==
  \/ OrderAudioTranscript \/ StartTranscription \/ ResolveManifest \/ EnsureManifest
  \/ AttemptSegment \/ RecordSegmentOutcome \/ AssembleTranscript
  \/ TranscriptionDies \/ CompleteTranscription

TranscriptSpec == TranscriptInit /\ [][TranscriptNext]_transcriptVars

(***************************************************************************)
(* What the analysis reads (packages/agent/extraction/coverage.ts): an     *)
(* order counts as heard when it is complete and has its extraction.       *)
(***************************************************************************)
\* A fault: what was heard of it so far counts as all of it.
StatusOfAnyPart ==
  IF transcript.state \in {"partial", "complete"} THEN "complete" ELSE "pending"

AudioStatus ==
  CASE transcript.state = "complete" /\ transcript.extractions > 0 -> "complete"
    [] transcript.state \in {"none", "pending", "partial"} -> "pending"
    [] transcript.state = "planning" /\ ~transcript.error -> "pending"
    [] transcript.state = "planning" /\ transcript.error -> "externally_blocked"
    [] OTHER -> "failed"

(* A transcript is whole or none: an extraction exists only over segments  *)
(* that were all heard, there is one whatever resumed, and the job that    *)
(* reports success has it.                                                 *)
TranscriptIsWhole ==
  /\ transcript.extractions <= 1
  /\ transcript.extractions = 1 =>
       /\ transcript.state = "complete"
       /\ \A i \in Segments : segments[i].state = "succeeded" /\ segments[i].step = "succeeded"
  /\ sttJob.state = "succeeded" => transcript.extractions = 1
=============================================================================
