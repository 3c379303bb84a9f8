------------------------------ MODULE Pipeline ------------------------------
(***************************************************************************)
(* The analysis of one source with an audio attachment: the text lane      *)
(* (convex/processing/text) and the join lane (processing/multimodal) are  *)
(* two workflows over one processing run, and a game master may retry a    *)
(* failed stage or ask for a reanalysis (operations/processing).           *)
(*                                                                         *)
(* A stage of a workflow is one mutation and one action here; a stage that *)
(* throws rolls its mutation back and ends the workflow, whose completion  *)
(* runs later.  A restart replays the journal up to the stage it names.    *)
(***************************************************************************)
EXTENDS Transcript, Sequences

CONSTANTS
  Runs,         \* processing runs, in the order they are created: 1 .. n
  MaxGroups,    \* bound: publication groups of one plan
  MaxRevision,  \* bound: revisions of the finding the plans correct
  MaxRetries    \* bound: retries of the game master

ASSUME PipelineNumbers ==
  /\ MaxGroups \in Nat /\ MaxRevision \in Nat /\ MaxRetries \in Nat
  /\ IsFiniteSet(Runs) /\ Runs = 1 .. Cardinality(Runs) /\ Runs # {}

VARIABLES
  runs,       \* processingRuns: state and keys of the checkpoint
  flows,      \* the two workflows of a run: first stage their journal lacks
  steps,      \* processingSteps of the model and group stages
  published,  \* what the groups of a run wrote
  memory,     \* the company's finding, and the source it was told by
  retries

pipelineOwn == <<runs, flows, steps, published, memory, retries>>
pipelineVars == <<pipelineOwn, transcriptVars>>

Lanes == {"text", "join"}
FlowStages == {"load", "model", "publish", "done", "evaluate", "wait", "settle"}
Finished == {"succeeded", "failed"}
StepStates == {"none", "running", "succeeded", "failed"}
Indices == 1 .. MaxGroups

\* A group corrects the company's finding or opens a project; it may rest
\* on what the audio says.  The text lane has no media to rest on.
Groups(lane) == [key : {"company", "new_project"}, media : IF lane = "join" THEN BOOLEAN ELSE {FALSE}]
Plans(lane) == UNION {[1 .. n -> Groups(lane)] : n \in 0 .. MaxGroups}

PipelineTypeOK ==
  /\ runs \in [Runs -> [state : {"none", "running"} \cup Finished,
                        checkpoint : SUBSET {"workflow", "groups", "joinWorkflow", "join"}]]
  /\ \A r \in Runs : \A l \in Lanes :
       /\ flows[r][l].state \in {"none", "queued", "live", "threw", "closed"}
       /\ flows[r][l].stage \in FlowStages /\ flows[r][l].plan \in Plans(l)
       /\ flows[r][l].at \in 1 .. (MaxGroups + 1)
       /\ flows[r][l].revision \in 0 .. MaxRevision /\ flows[r][l].heard \in BOOLEAN
       /\ steps[r][l].model \in StepStates /\ steps[r][l].group \in [Indices -> StepStates]
       /\ published[r][l] \in [Indices -> [projects : Nat, revisions : Nat, claims : BOOLEAN]]
  /\ memory \in [revision : 0 .. MaxRevision, active : BOOLEAN]
  /\ retries \in 0 .. MaxRetries

Idle == [state |-> "none", stage |-> "load", plan |-> << >>, at |-> 1, revision |-> 0, heard |-> FALSE]

\* Acceptance created the run and registered the jobs of its two lanes.
PipelineInit ==
  /\ TranscriptInit
  /\ runs = [r \in Runs |-> [state |-> IF r = 1 THEN "running" ELSE "none", checkpoint |-> {}]]
  /\ flows = [r \in Runs |-> [l \in Lanes |-> IF r = 1 /\ l = "join" THEN [Idle EXCEPT !.state = "queued"]
                                              ELSE Idle]]
  /\ steps = [r \in Runs |-> [l \in Lanes |-> [model |-> "none", group |-> [i \in Indices |-> "none"]]]]
  /\ published = [r \in Runs |-> [l \in Lanes |->
                    [i \in Indices |-> [projects |-> 0, revisions |-> 0, claims |-> FALSE]]]]
  /\ memory = [revision |-> 0, active |-> TRUE]
  /\ retries = 0

Live(r, l, stage) == flows[r][l].state = "live" /\ flows[r][l].stage = stage
Goto(r, l, stage) == flows' = [flows EXCEPT ![r][l].stage = stage]
Throw(r, l) == flows' = [flows EXCEPT ![r][l].state = "threw"]

\* The whole-source fragment, and the analysis job of the same run.
ExtractFragments ==
  /\ runs[1].state # "none" /\ flows[1]["text"].state = "none"
  /\ memory.active
  /\ flows' = [flows EXCEPT ![1]["text"].state = "queued"]
  /\ UNCHANGED <<runs, steps, published, memory, retries, transcriptVars>>

\* The executor of the analysis replaces the checkpoint of the run.
AnalyzeChangePlan(r) ==
  /\ flows[r]["text"].state = "queued"
  /\ flows' = [flows EXCEPT ![r]["text"] = [Idle EXCEPT !.state = "live"]]
  /\ runs' = [runs EXCEPT ![r].checkpoint = {"workflow"}]
  /\ UNCHANGED <<steps, published, memory, retries, transcriptVars>>

\* The executor of the join merges its workflow into the checkpoint.
JoinMultimodal(r) ==
  /\ flows[r]["join"].state = "queued"
  /\ IF memory.active
     THEN /\ flows' = [flows EXCEPT ![r]["join"] = [Idle EXCEPT !.state = "live", !.stage = "evaluate"]]
          /\ runs' = [runs EXCEPT ![r].checkpoint = @ \cup {"joinWorkflow"}]
     ELSE flows' = [flows EXCEPT ![r]["join"].state = "closed"] /\ UNCHANGED runs
  /\ UNCHANGED <<steps, published, memory, retries, transcriptVars>>

\* Orders what was never ordered, before and after the bounded wait; the
\* author may have no session to order it by.
EvaluateMedia(r) ==
  \E stage \in {"evaluate", "settle"} :
    /\ Live(r, "join", stage)
    /\ IF ~memory.active THEN Throw(r, "join") /\ UNCHANGED transcriptVars
       ELSE /\ Goto(r, "join", IF stage = "evaluate" THEN "wait" ELSE "load")
            /\ \/ transcript.state = "none" /\ OrderAudioTranscript
               \/ UNCHANGED transcriptVars
    /\ UNCHANGED <<runs, steps, published, memory, retries>>

\* The wait ends when the audio is heard or refused, or the budget is spent.
WaitForMediaSettled(r) ==
  /\ Live(r, "join", "wait")
  /\ Goto(r, "join", "settle")
  /\ UNCHANGED <<runs, steps, published, memory, retries, transcriptVars>>

LoadContext(r) ==
  /\ Live(r, "text", "load")
  /\ IF ~memory.active THEN Throw(r, "text")
     ELSE flows' = [flows EXCEPT ![r]["text"] =
            [flows[r]["text"] EXCEPT !.stage = "model", !.revision = memory.revision]]
  /\ UNCHANGED <<runs, steps, published, memory, retries, transcriptVars>>

LoadJoinedContext(r) ==
  /\ Live(r, "join", "load")
  /\ flows' = [flows EXCEPT ![r]["join"] =
       [flows[r]["join"] EXCEPT !.stage = "model", !.revision = memory.revision,
                                !.heard = AudioStatus = "complete"]]
  /\ UNCHANGED <<runs, steps, published, memory, retries, transcriptVars>>

\* The first outcome of a stage stays; the join lets a failure be mended.
RecordStep(l, row, outcome) ==
  CASE row \in {"none", "running"} -> outcome
    [] l = "join" /\ row = "failed" /\ outcome = "succeeded" -> outcome
    [] OTHER -> row

\* The first provider call of the agent loop opens the row of its stage.
OpenModelStep(r, l) ==
  /\ Live(r, l, "model") /\ steps[r][l].model = "none"
  /\ steps' = [steps EXCEPT ![r][l].model = "running"]
  /\ UNCHANGED <<runs, flows, published, memory, retries, transcriptVars>>

RecordModelCall(r) == OpenModelStep(r, "text")
RecordJoinModelCall(r) == OpenModelStep(r, "join")

\* The loop ends with a plan, bounded into groups.
EndModelStage(r, l) ==
  /\ Live(r, l, "model") /\ steps[r][l].model # "none"
  /\ \E plan \in Plans(l) :
       flows' = [flows EXCEPT ![r][l] =
         [flows[r][l] EXCEPT !.stage = IF plan = << >> THEN "done" ELSE "publish",
                             !.plan = plan, !.at = 1]]
  /\ steps' = [steps EXCEPT ![r][l].model = RecordStep(l, @, "succeeded")]
  /\ UNCHANGED <<runs, published, memory, retries, transcriptVars>>

ModelStage(r) == EndModelStage(r, "text")
ModelJoinStage(r) == EndModelStage(r, "join")

(***************************************************************************)
(* One group, one mutation: a new project is identified first, then the    *)
(* revision the model read is compared with the current one, then the      *)
(* change set is prepared and published.  A refusal is an outcome that is  *)
(* recorded, and the project it may have identified stays.                 *)
(***************************************************************************)
FinishGroup(r, l, outcome, projects, revisions) ==
  LET f == flows[r][l]
      g == f.plan[f.at]
  IN /\ steps' = [steps EXCEPT ![r][l].group[f.at] = RecordStep(l, @, outcome)]
     /\ published' = [published EXCEPT ![r][l][f.at] =
          [projects |-> @.projects + projects, revisions |-> @.revisions + revisions,
           claims |-> @.claims \/ (revisions > 0 /\ g.media)]]
     /\ memory' = [memory EXCEPT !.revision = IF revisions > 0 /\ g.key = "company" THEN @ + 1 ELSE @]
     /\ flows' = [flows EXCEPT ![r][l] =
          [f EXCEPT !.at = f.at + 1, !.stage = IF f.at = Len(f.plan) THEN "done" ELSE f.stage]]
     /\ UNCHANGED <<runs, retries, transcriptVars>>

CommitGroup(r, l) ==
  LET f == flows[r][l]
      g == f.plan[f.at]
      opened == IF g.key = "new_project" THEN 1 ELSE 0
  IN \/ FinishGroup(r, l, "failed", 0, 0)
     \/ memory.revision # f.revision /\ FinishGroup(r, l, "succeeded", opened, 0)
     \/ memory.revision = f.revision /\ FinishGroup(r, l, "failed", opened, 0)
     \/ /\ memory.revision = f.revision /\ memory.active
        /\ g.key = "company" => memory.revision < MaxRevision
        /\ FinishGroup(r, l, "succeeded", opened, 1)

PublishGroup(r) == Live(r, "text", "publish") /\ CommitGroup(r, "text")

\* What the audio is said to say waits until the audio is heard, in the
\* context the model read and again when the group is published.
ClaimsBacked(f) == ~f.plan[f.at].media \/ (f.heard /\ AudioStatus = "complete")

PublishJoinGroup(r) ==
  /\ Live(r, "join", "publish")
  /\ IF ClaimsBacked(flows[r]["join"]) THEN CommitGroup(r, "join")
     ELSE FinishGroup(r, "join", "succeeded", 0, 0)

\* A stage throws: nothing of it is kept.
StageThrows(r, l) ==
  /\ flows[r][l].state = "live" /\ flows[r][l].stage # "done"
  /\ Throw(r, l)
  /\ UNCHANGED <<runs, steps, published, memory, retries, transcriptVars>>

Ended(r, l) == flows[r][l].state = "threw" \/ Live(r, l, "done")
Outcome(r, l) == IF flows[r][l].state = "threw" THEN "failed" ELSE "succeeded"
Close(r, l) == flows' = [flows EXCEPT ![r][l].state = "closed"]

\* The completion of the analysis owns the state of the run and replaces
\* its checkpoint, the identity of the workflow excepted.
CompleteAnalysisRun(r) ==
  /\ Ended(r, "text")
  /\ Close(r, "text")
  /\ runs' = [runs EXCEPT ![r].state = Outcome(r, "text"),
                          ![r].checkpoint = (@ \cap {"workflow"}) \cup {"groups"}]
  /\ UNCHANGED <<steps, published, memory, retries, transcriptVars>>

\* A fault: the join replaces the checkpoint of the run it shares.
JoinReplacesCheckpoint(r) ==
  /\ Ended(r, "join")
  /\ Close(r, "join")
  /\ runs' = [runs EXCEPT ![r].checkpoint = {"join"},
                          ![r].state = IF @ = "running" THEN Outcome(r, "join") ELSE @]
  /\ UNCHANGED <<steps, published, memory, retries, transcriptVars>>

CompleteJoinRun(r) ==
  /\ Ended(r, "join")
  /\ Close(r, "join")
  /\ runs' = [runs EXCEPT ![r].checkpoint = @ \cup {"join"},
                          ![r].state = IF @ = "running" THEN Outcome(r, "join") ELSE @]
  /\ UNCHANGED <<steps, published, memory, retries, transcriptVars>>

(***************************************************************************)
(* The game master (operations/processing): a failed stage, or one that is *)
(* still running in a run that failed, is retried from the analysis        *)
(* workflow's journal; a step of the join restarts it from its start.      *)
(***************************************************************************)
StepRetryable(r, row) == row = "failed" \/ (row \in {"running", "pending"} /\ runs[r].state = "failed")

DecideRetry(r, row) ==
  /\ runs[r].state \in Finished
  /\ StepRetryable(r, row)
  /\ "workflow" \in runs[r].checkpoint

Restart(r, f) ==
  /\ retries < MaxRetries
  /\ retries' = retries + 1
  /\ runs' = [runs EXCEPT ![r].state = "running"]
  /\ flows' = [flows EXCEPT ![r]["text"] = [f EXCEPT !.state = "live"]]
  /\ UNCHANGED <<steps, published, memory, transcriptVars>>

RetryProcessingStep(r) ==
  LET f == flows[r]["text"]
  IN \/ /\ DecideRetry(r, steps[r]["text"].model)
        /\ Restart(r, [f EXCEPT !.stage = "model"])
     \/ \E i \in DOMAIN f.plan, j \in DOMAIN f.plan :
          /\ DecideRetry(r, steps[r]["text"].group[i])
          /\ Restart(r, [f EXCEPT !.stage = "publish", !.at = j])
     \/ /\ \E row \in {steps[r]["join"].model} \cup {steps[r]["join"].group[i] : i \in Indices} :
             DecideRetry(r, row)
        /\ Restart(r, f)

RequestReanalysis(r) ==
  /\ memory.active
  /\ runs[r].state = "none" /\ r > 1 /\ runs[r - 1].state # "none"
  /\ runs' = [runs EXCEPT ![r].state = "running"]
  /\ flows' = [flows EXCEPT ![r] = [l \in Lanes |-> [Idle EXCEPT !.state = "queued"]]]
  /\ UNCHANGED <<steps, published, memory, retries, transcriptVars>>

\* A person corrects the finding; the author withdraws the source.
Correct ==
  /\ memory.revision < MaxRevision
  /\ memory' = [memory EXCEPT !.revision = @ + 1]
  /\ UNCHANGED <<runs, flows, steps, published, retries, transcriptVars>>

Withdraw ==
  /\ memory.active
  /\ memory' = [memory EXCEPT !.active = FALSE]
  /\ UNCHANGED <<runs, flows, steps, published, retries, transcriptVars>>

PipelineNext ==
  \/ TranscriptNext /\ UNCHANGED pipelineOwn
  \/ ExtractFragments \/ Correct \/ Withdraw
  \/ \E r \in Runs :
       \/ AnalyzeChangePlan(r) \/ LoadContext(r) \/ RecordModelCall(r) \/ ModelStage(r)
       \/ PublishGroup(r)
       \/ JoinMultimodal(r) \/ EvaluateMedia(r) \/ WaitForMediaSettled(r)
       \/ LoadJoinedContext(r) \/ RecordJoinModelCall(r) \/ ModelJoinStage(r)
       \/ PublishJoinGroup(r)
       \/ CompleteAnalysisRun(r) \/ CompleteJoinRun(r)
       \/ RetryProcessingStep(r) \/ RequestReanalysis(r)
       \/ \E l \in Lanes : StageThrows(r, l)

PipelineSpec == PipelineInit /\ [][PipelineNext]_pipelineVars

(***************************************************************************)
(* Properties                                                              *)
(***************************************************************************)

(* The two lanes share the checkpoint of the run, each completing when it  *)
(* does: whatever their order, a run whose analysis was started keeps the  *)
(* workflow identity the retry needs.                                      *)
WorkflowIdentityKept ==
  \A r \in Runs : flows[r]["text"].state \in {"live", "threw", "closed"} =>
    "workflow" \in runs[r].checkpoint

(* Nothing is published on the word of an audio attachment before every    *)
(* segment of it was heard, whatever the transcription did between the     *)
(* model's reading and the publication, and whatever was retried.          *)
ClaimsInspected ==
  \A r \in Runs, l \in Lanes, i \in Indices :
    published[r][l][i].claims => \A s \in Segments : segments[s].state = "succeeded"
=============================================================================
