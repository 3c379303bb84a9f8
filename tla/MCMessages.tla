----------------------------- MODULE MCMessages -----------------------------
(* A finite instance of the four modules a message goes through: Intake,   *)
(* Media, Transcript and Pipeline.  They share no variable: what one       *)
(* leaves is another's initial state, and a behaviour has the steps of one *)
(* of them (Transcript runs within Pipeline).                              *)
EXTENDS Intake, Media, Pipeline, TLC

CONSTANT i2

NoIntake == uploads = [d \in Drafts |-> NoUpload]
NoMedia == job.attempts = 0
NoPipeline == /\ runs[1].checkpoint = {} /\ flows[1]["text"].state = "none"
              /\ flows[1]["join"].state = "queued" /\ transcript.state = "none"
              /\ memory = [revision |-> 0, active |-> TRUE]

MCInit == IntakeInit /\ MediaInit /\ PipelineInit
MCNext ==
  \/ NoMedia /\ NoPipeline /\ IntakeNext /\ UNCHANGED <<mediaVars, pipelineVars>>
  \/ NoIntake /\ NoPipeline /\ MediaNext /\ UNCHANGED <<intakeVars, pipelineVars>>
  \/ NoIntake /\ NoMedia /\ PipelineNext /\ UNCHANGED <<intakeVars, mediaVars>>
MCSpec == MCInit /\ [][MCNext]_<<intakeVars, mediaVars, pipelineVars>>

(* Bounds of Intake: a source has media or words, and one without media is *)
(* the first and is accepted under a key.                                  *)
MCIntakeBound ==
  \A s \in DOMAIN sources :
    /\ sources[s].text = NoWords <=> sources[s].media # {}
    /\ sources[s].media = {} => s = 1 /\ sources[s].key # NoKey

(* Bounds of Media: two drives overlap on the first image, and only its    *)
(* selection is looked at; the second is what a drive also has to do.      *)
Busy(d) == drives[d].step \notin {"none", "ok", "retryable", "refused"}
MCMediaBound ==
  /\ vision[i2] = [r \in RetainedRows |-> "none"]
  /\ (\A d \in Drives : Busy(d)) => \A d \in Drives : drives[d].image # i2

(* Bounds of Pipeline: the two lanes meet in the run, the join and the     *)
(* transcription in the coverage.  The text lane runs over a transcript    *)
(* that is not moving, and a reanalysis follows a run that failed early.   *)
Still == stt.step = "none" /\ transcript.state \in {"none", "complete"}
MCPipelineBound ==
  /\ Still \/ flows[1]["text"].state = "none"
  /\ retries = 0 \/ (Still /\ memory.active)
  /\ memory.active \/ (Still /\ memory.revision = 0)
  /\ runs[2].state # "none" =>
       /\ retries = 0 /\ Still /\ memory.active
       /\ flows[1]["text"].state = "closed" /\ flows[1]["text"].stage = "load"
       /\ flows[1]["join"].state = "closed" /\ flows[1]["join"].stage = "evaluate"
       /\ \E l \in Lanes : flows[2][l].state \in {"queued", "closed"}

MCBound == MCIntakeBound /\ MCMediaBound /\ MCPipelineBound
MCSymmetry == Permutations(Contents) \union Permutations(Drives)
=============================================================================
