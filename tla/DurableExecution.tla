-------------------------- MODULE DurableExecution --------------------------
(***************************************************************************)
(* The durable-execution engine of convex/platform: the transactional      *)
(* outbox, its drain, the durable job table and the scheduled executor     *)
(* entry, together with the external delivery of platform.echo_delivery    *)
(* and the reconciliation of its uncertain outcomes.                       *)
(*                                                                         *)
(* A Convex mutation is one serialisable transaction, so every mutation    *)
(* handler is one action.  A Convex action is not: deliverEcho is a small  *)
(* process that loads the job in one mutation, talks to the network, and   *)
(* records what it saw in another mutation, and it may die in between.     *)
(*                                                                         *)
(* A key is the semantic dedup identity that the outbox row, the job row   *)
(* and the external effects of one logical operation share.  Both tables   *)
(* are looked up by that key inside the writing transaction, so they are   *)
(* modelled as functions of the key.                                       *)
(***************************************************************************)
EXTENDS Naturals, FiniteSets, JobDecisions

CONSTANTS
  Keys,           \* dedup identities of logical operations
  Kind,           \* Kind[d]: how the job of d executes, or that d has no consumer
  SelfRegistered, \* keys whose publisher registers the job in its own transaction
  MaxAttempts,    \* the maxAttempts of every registration policy (3 in the code)
  BatchSize,      \* BATCH_SIZE of the drain (10 in the code)
  EagerReconcile, \* may reconcileDelivery run while an attempt is unsettled?
  CutAfterEffect, \* may a connection break after the target acted?
  RecordMayFail,  \* may the mutation that records an answer throw?
  ActionsMayDie,  \* may deliverEcho be lost between two of its steps?
  ExecutorsThrow  \* may an executor throw inside the runDurableJob mutation?

(* "echo": leaves the transaction; "flow": delegated to a workflow;        *)
(* "cleanup": in the transaction, its hooks flip the outbox row;           *)
(* "inline": in the transaction, no hooks; "silent": no consumer edge.     *)
JobKinds == {"echo", "flow", "cleanup", "inline"}

ASSUME KindAssumption == Kind \in [Keys -> JobKinds \union {"silent"}]
ASSUME SelfRegisteredAssumption ==
  SelfRegistered \subseteq {d \in Keys : Kind[d] # "silent"}
ASSUME MaxAttemptsAssumption == MaxAttempts \in Nat \ {0}
ASSUME BatchSizeAssumption == BatchSize \in Nat \ {0}
ASSUME EnvironmentAssumption ==
  {EagerReconcile, CutAfterEffect, RecordMayFail, ActionsMayDie, ExecutorsThrow}
    \subseteq BOOLEAN

VARIABLES
  outbox,    \* outboxEvents: delivery state and whether nextAttemptAtMs has passed
  jobs,      \* durableJobs
  drains,    \* scheduled drainOutbox runs
  runs,      \* runs[d]: scheduled runDurableJob runs for the job of d
  flows,     \* workflows that have not reported their terminal outcome yet
  attempts,  \* deliverEcho instances, one per (key, job attempt)
  requests   \* what became of the HTTP request of each attempt

vars == <<outbox, jobs, drains, runs, flows, attempts, requests>>

Tries == 1..MaxAttempts

DeliveryStates == {"none", "pending", "in_flight", "delivered", "failed"}
JobStates      == {"none", "queued", "running", "succeeded", "failed"}
Outcomes       == {"none", "succeeded", "failed", "timeout", "unknown"}

(* Phases of one deliverEcho instance.  The answer phases name what the    *)
(* instance is about to record with completeAttempt.                       *)
Answers == {"ok", "not2xx", "deadline", "refused", "unconfigured"}
Phases  == {"none", "scheduled", "prepared", "waiting", "done", "dead"} \union Answers

NoRow == [state |-> "none", due |-> FALSE]

OutboxRows == [state : DeliveryStates, due : BOOLEAN]
JobRows    == [state : JobStates, tries : 0..MaxAttempts, ext : Outcomes]

TypeOK ==
  /\ outbox \in [Keys -> OutboxRows]
  /\ jobs \in [Keys -> JobRows]
  /\ drains \in Nat
  /\ runs \in [Keys -> Nat]
  /\ flows \subseteq Keys
  /\ attempts \in [Keys -> [Tries -> Phases]]
  /\ requests \in [Keys -> [Tries -> {"none", "in_flight", "landed", "lost"}]]

-----------------------------------------------------------------------------
(* The decisions about a job row are in JobDecisions.                      *)

(* What a delivery attempt that did not succeed does to the row: an        *)
(* uncertain outcome stops, a definite one retries while attempts remain.  *)
NextDeliveryState(outcome, tries) ==
  IF outcome \in {"timeout", "unknown"} \/ tries >= MaxAttempts
    THEN "failed"
    ELSE "in_flight"

-----------------------------------------------------------------------------
(* A fault: the run is scheduled even when the registration is skipped.    *)
RegisterAlwaysSchedules(D) ==
  /\ jobs' = [d \in Keys |-> IF d \in D THEN RegisteredRow(jobs[d]) ELSE jobs[d]]
  /\ runs' = [d \in Keys |-> IF d \in D THEN runs[d] + 1 ELSE runs[d]]

(* registerDurableJob for every key of D in one transaction.               *)
RegisterJobs(D) ==
  /\ jobs' = [d \in Keys |-> IF d \in D THEN RegisteredRow(jobs[d]) ELSE jobs[d]]
  /\ runs' = [d \in Keys |->
       IF d \in D /\ DecideJobRegistration(jobs[d]) # "skip"
         THEN runs[d] + 1 ELSE runs[d]]

(* A fault: a publisher that registers its job leaves the drain to others. *)
PublishWithoutDrain(d) ==
  /\ IF outbox[d].state = "none"
       THEN /\ outbox' = [outbox EXCEPT ![d] = [state |-> "pending", due |-> TRUE]]
            /\ drains' = IF d \in SelfRegistered THEN drains ELSE drains + 1
       ELSE UNCHANGED <<outbox, drains>>
  /\ IF d \in SelfRegistered
       THEN RegisterJobs({d})
       ELSE UNCHANGED <<jobs, runs>>
  /\ UNCHANGED <<flows, attempts, requests>>

(* A publishing transaction: publishEvent dedups on the key and schedules  *)
(* a drain; the publisher may register the durable job atomically with it. *)
(* Replays of the same logical operation are the same action again.        *)
Publish(d) ==
  /\ IF outbox[d].state = "none"
       THEN /\ outbox' = [outbox EXCEPT ![d] = [state |-> "pending", due |-> TRUE]]
            /\ drains' = drains + 1
       ELSE UNCHANGED <<outbox, drains>>
  /\ IF d \in SelfRegistered
       THEN RegisterJobs({d})
       ELSE UNCHANGED <<jobs, runs>>
  /\ UNCHANGED <<flows, attempts, requests>>

PendingKeys == {d \in Keys : outbox[d].state = "pending"}
DueKeys     == {d \in PendingKeys : outbox[d].due}

(* At most BATCH_SIZE of the due rows, all of them when they fit.          *)
IsBatch(B) ==
  \/ Cardinality(B) = BatchSize
  \/ Cardinality(B) < BatchSize /\ B = DueKeys

DeliverRows(B) ==
  outbox' = [d \in Keys |->
    IF d \in B THEN [outbox[d] EXCEPT !.state = "delivered"] ELSE outbox[d]]

(* A fault: the drain delivers a row without registering the job that      *)
(* completes in its transaction.                                           *)
DrainForgetsInline(B) ==
  /\ drains > 0
  /\ IsBatch(B)
  /\ RegisterJobs({d \in B : Kind[d] \notin {"silent", "inline"}})
  /\ DeliverRows(B)
  /\ drains' = IF PendingKeys \ B # {} THEN drains ELSE drains - 1
  /\ UNCHANGED <<flows, attempts, requests>>

(* drainOutbox: a batch of due rows is projected onto its consumer edge,   *)
(* the edge's job is registered and the row is delivered; a drain that     *)
(* leaves pending rows behind schedules its successor.                     *)
DrainBatch(B) ==
  /\ drains > 0
  /\ IsBatch(B)
  /\ RegisterJobs({d \in B : Kind[d] # "silent"})
  /\ DeliverRows(B)
  /\ drains' = IF PendingKeys \ B # {} THEN drains ELSE drains - 1
  /\ UNCHANGED <<flows, attempts, requests>>

(* Time passes the nextAttemptAtMs of a row that a failed delivery put     *)
(* back to pending.                                                        *)
RowFallsDue(d) ==
  /\ outbox[d].state = "pending"
  /\ ~outbox[d].due
  /\ outbox' = [outbox EXCEPT ![d].due = TRUE]
  /\ UNCHANGED <<jobs, drains, runs, flows, attempts, requests>>

-----------------------------------------------------------------------------
(* runDurableJob: the single scheduled consumer of a job row.              *)

Runnable(job) ==
  /\ job.state # "succeeded"
  /\ ~IsUncertainJobFailure(job)

ConsumeRun(d) == runs[d] > 0 /\ runs' = [runs EXCEPT ![d] = @ - 1]

(* A fault: one attempt too many.                                          *)
StartsOneMore(d) == Runnable(jobs[d]) /\ jobs[d].tries <= MaxAttempts

StartsAttempt(d) == Runnable(jobs[d]) /\ jobs[d].tries < MaxAttempts

(* A terminal or uncertain row: the run is an idempotent replay.           *)
ReplayRun(d) ==
  /\ ConsumeRun(d)
  /\ ~Runnable(jobs[d])
  /\ UNCHANGED <<outbox, jobs, drains, flows, attempts, requests>>

(* max_attempts_exceeded: no executor runs and no hook is called.          *)
ExhaustRun(d) ==
  /\ ConsumeRun(d)
  /\ Runnable(jobs[d]) /\ jobs[d].tries >= MaxAttempts
  /\ jobs' = [jobs EXCEPT ![d].state = "failed"]
  /\ UNCHANGED <<outbox, drains, flows, attempts, requests>>

(* Outcome "external": the job stays running and deliverEcho is scheduled. *)
RunExternal(d) ==
  /\ ConsumeRun(d)
  /\ StartsAttempt(d) /\ Kind[d] = "echo"
  /\ jobs' = [jobs EXCEPT ![d].state = "running", ![d].tries = @ + 1]
  /\ attempts' = [attempts EXCEPT ![d][jobs[d].tries + 1] = "scheduled"]
  /\ UNCHANGED <<outbox, drains, flows, requests>>

(* Outcome "delegated": the workflow's onComplete records the outcome.     *)
RunDelegated(d) ==
  /\ ConsumeRun(d)
  /\ StartsAttempt(d) /\ Kind[d] = "flow"
  /\ jobs' = [jobs EXCEPT ![d].state = "running", ![d].tries = @ + 1]
  /\ flows' = flows \union {d}
  /\ UNCHANGED <<outbox, drains, attempts, requests>>

(* A fault: the executor defines no hooks.                                 *)
NoHook(d, state) == UNCHANGED outbox

(* The hooks of the cleanup executor flip the originating outbox row.      *)
FlipRow(d, state) ==
  outbox' = IF Kind[d] = "cleanup" /\ outbox[d].state # "none"
              THEN [outbox EXCEPT ![d].state = state] ELSE outbox

RunInlineSucceeds(d) ==
  /\ ConsumeRun(d)
  /\ StartsAttempt(d) /\ Kind[d] \in {"cleanup", "inline"}
  /\ jobs' = [jobs EXCEPT ![d].state = "succeeded", ![d].tries = @ + 1,
                          ![d].ext = "succeeded"]
  /\ FlipRow(d, "delivered")
  /\ UNCHANGED <<drains, flows, attempts, requests>>

(* A definite in-transaction failure: retried with backoff while attempts  *)
(* remain, terminal otherwise.  The cleanup executor never retries.        *)
RunInlineFails(d, retryable) ==
  /\ runs[d] > 0
  /\ StartsAttempt(d) /\ Kind[d] \in {"cleanup", "inline"}
  /\ Kind[d] = "cleanup" => ~retryable
  /\ IF retryable /\ jobs[d].tries + 1 < MaxAttempts
       THEN /\ jobs' = [jobs EXCEPT ![d].state = "queued", ![d].tries = @ + 1]
            /\ UNCHANGED <<runs, outbox>>
       ELSE /\ jobs' = [jobs EXCEPT ![d].state = "failed", ![d].tries = @ + 1]
            /\ runs' = [runs EXCEPT ![d] = @ - 1]
            /\ FlipRow(d, "failed")
  /\ UNCHANGED <<drains, flows, attempts, requests>>

(* executeJob does not catch: a throwing executor aborts the mutation, all *)
(* of its writes roll back and the scheduled run is spent.                 *)
RunThrows(d) ==
  /\ ExecutorsThrow
  /\ ConsumeRun(d)
  /\ StartsAttempt(d)
  /\ UNCHANGED <<outbox, jobs, drains, flows, attempts, requests>>

(* completeAnalysis, the onComplete hook of a delegated job.               *)
CompleteAnalysis(d, result) ==
  /\ d \in flows
  /\ flows' = flows \ {d}
  /\ jobs' = IF jobs[d].state = "succeeded" THEN jobs
             ELSE [jobs EXCEPT ![d].state = result]
  /\ UNCHANGED <<outbox, drains, runs, attempts, requests>>

-----------------------------------------------------------------------------
(* deliverEcho, attempt n of key d.                                        *)

AttemptMoves(d, n, from, to) ==
  /\ attempts[d][n] = from
  /\ attempts' = [attempts EXCEPT ![d][n] = to]

(* prepareAttempt: only a running job proceeds; the row turns in_flight.   *)
PrepareAttempt(d, n) ==
  /\ IF jobs[d].state = "running"
       THEN /\ AttemptMoves(d, n, "scheduled", "prepared")
            /\ outbox' = IF outbox[d].state = "none" THEN outbox
                         ELSE [outbox EXCEPT ![d].state = "in_flight"]
       ELSE /\ AttemptMoves(d, n, "scheduled", "done")
            /\ UNCHANGED outbox
  /\ UNCHANGED <<jobs, drains, runs, flows, requests>>

(* KIERO_ECHO_TARGET is not configured: nothing is sent.                   *)
TargetMissing(d, n) ==
  /\ AttemptMoves(d, n, "prepared", "unconfigured")
  /\ UNCHANGED <<outbox, jobs, drains, runs, flows, requests>>

Post(d, n) ==
  /\ AttemptMoves(d, n, "prepared", "waiting")
  /\ requests' = [requests EXCEPT ![d][n] = "in_flight"]
  /\ UNCHANGED <<outbox, jobs, drains, runs, flows>>

(* The target records the effect before it answers (recordEchoEffect)...   *)
RequestLands(d, n) ==
  /\ requests[d][n] = "in_flight"
  /\ requests' = [requests EXCEPT ![d][n] = "landed"]
  /\ UNCHANGED <<outbox, jobs, drains, runs, flows, attempts>>

(* ... or the request never reaches it.                                    *)
RequestLost(d, n) ==
  /\ requests[d][n] = "in_flight"
  /\ requests' = [requests EXCEPT ![d][n] = "lost"]
  /\ UNCHANGED <<outbox, jobs, drains, runs, flows, attempts>>

(* What the instance can observe: 2xx only after the effect, a non-2xx     *)
(* answer with or without it, the deadline at any time, and a connection   *)
(* failure, which the code takes to mean that nothing was delivered.       *)
Observe(d, n, answer) ==
  /\ CASE answer = "ok"       -> requests[d][n] = "landed"
       [] answer = "not2xx"   -> requests[d][n] \in {"landed", "lost"}
       [] answer = "deadline" -> TRUE
       [] answer = "refused"  -> \/ requests[d][n] = "lost"
                                 \/ CutAfterEffect /\ requests[d][n] = "landed"
       [] OTHER               -> FALSE
  /\ AttemptMoves(d, n, "waiting", answer)
  /\ UNCHANGED <<outbox, jobs, drains, runs, flows, requests>>

(* A fault: a non-2xx answer is taken for a delivery.                      *)
AnyAnswerIsSuccess(answer) ==
  CASE answer \in {"ok", "not2xx"} -> "succeeded"
    [] answer = "deadline"         -> "timeout"
    [] OTHER                       -> "failed"

OutcomeOf(answer) ==
  CASE answer = "ok"       -> "succeeded"
    [] answer = "not2xx"   -> "unknown"
    [] answer = "deadline" -> "timeout"
    [] OTHER               -> "failed"

(* A fault: the job is finished but its outbox row is not.                 *)
CompleteJobOnly(d, jobState, outcome, rowState) ==
  /\ jobs' = [jobs EXCEPT ![d].state = jobState, ![d].ext = outcome]
  /\ UNCHANGED outbox

(* completeDelivery: the job's terminal state and the outbox row's.        *)
CompleteDelivery(d, jobState, outcome, rowState) ==
  /\ jobs' = [jobs EXCEPT ![d].state = jobState, ![d].ext = outcome]
  /\ outbox' = IF outbox[d].state = "none" THEN outbox
               ELSE [outbox EXCEPT ![d].state = rowState]

(* A fault: the retry is recorded and never scheduled.                     *)
RequeueWithoutRun(d) ==
  /\ jobs' = [jobs EXCEPT ![d].state = "queued"]
  /\ outbox' = IF outbox[d].state = "none" THEN outbox
               ELSE [outbox EXCEPT ![d] = [state |-> "pending", due |-> FALSE]]
  /\ UNCHANGED runs

(* A definite failure with attempts left: both rows go back, with backoff. *)
RequeueAttempt(d) ==
  /\ jobs' = [jobs EXCEPT ![d].state = "queued"]
  /\ outbox' = IF outbox[d].state = "none" THEN outbox
               ELSE [outbox EXCEPT ![d] = [state |-> "pending", due |-> FALSE]]
  /\ runs' = [runs EXCEPT ![d] = @ + 1]

(* completeAttempt: records whatever the instance observed, whatever the   *)
(* job row has become in the meantime.                                     *)
CompleteAttempt(d, n, answer) ==
  LET outcome == OutcomeOf(answer) IN
  /\ AttemptMoves(d, n, answer, "done")
  /\ \/ /\ outcome = "succeeded"
        /\ CompleteDelivery(d, "succeeded", "succeeded", "delivered")
        /\ UNCHANGED runs
     \/ /\ outcome # "succeeded"
        /\ \/ answer = "unconfigured"
           \/ NextDeliveryState(outcome, jobs[d].tries) = "failed"
        /\ CompleteDelivery(d, "failed", outcome, "failed")
        /\ UNCHANGED runs
     \/ /\ outcome # "succeeded"
        /\ answer # "unconfigured"
        /\ NextDeliveryState(outcome, jobs[d].tries) = "in_flight"
        /\ RequeueAttempt(d)
  /\ UNCHANGED <<drains, flows, requests>>

(* completeAttempt is called inside the try block: when recording an       *)
(* answer throws, the catch block takes it for a failed connection.        *)
RecordFails(d, n) ==
  /\ RecordMayFail
  /\ \E answer \in {"ok", "not2xx"} : AttemptMoves(d, n, answer, "refused")
  /\ UNCHANGED <<outbox, jobs, drains, runs, flows, requests>>

(* The process running the instance is lost: nothing is recorded.          *)
AttemptDies(d, n) ==
  /\ ActionsMayDie
  /\ attempts[d][n] \notin {"none", "done", "dead"}
  /\ attempts' = [attempts EXCEPT ![d][n] = "dead"]
  /\ UNCHANGED <<outbox, jobs, drains, runs, flows, requests>>

-----------------------------------------------------------------------------
(* Reconciliation of an uncertain delivery.                                *)

EffectsOf(d)  == {n \in Tries : requests[d][n] = "landed"}
Settled(d, n) == /\ attempts[d][n] \in {"none", "done", "dead"}
                 /\ requests[d][n] # "in_flight"

(* reconcileDelivery is called by an operator for one job key.  The code   *)
(* does not ask whether an attempt is still unsettled; EagerReconcile      *)
(* says whether the operator waits for that.                               *)
ReconcileDelivery(d) ==
  /\ Kind[d] = "echo"
  /\ jobs[d].state \notin {"none", "succeeded"}
  /\ EagerReconcile \/ (runs[d] = 0 /\ \A n \in Tries : Settled(d, n))
  /\ \/ /\ EffectsOf(d) # {}
        /\ CompleteDelivery(d, "succeeded", "succeeded", "delivered")
        /\ UNCHANGED runs
     \/ /\ EffectsOf(d) = {}
        /\ jobs[d].tries < MaxAttempts
        /\ jobs' = [jobs EXCEPT ![d].state = "queued"]
        /\ runs' = [runs EXCEPT ![d] = @ + 1]
        /\ UNCHANGED outbox
  /\ UNCHANGED <<drains, flows, attempts, requests>>

-----------------------------------------------------------------------------
Init ==
  /\ outbox = [d \in Keys |-> NoRow]
  /\ jobs = [d \in Keys |-> NoJob]
  /\ drains = 0
  /\ runs = [d \in Keys |-> 0]
  /\ flows = {}
  /\ attempts = [d \in Keys |-> [n \in Tries |-> "none"]]
  /\ requests = [d \in Keys |-> [n \in Tries |-> "none"]]

Scheduler(d) ==
  \/ ReplayRun(d)
  \/ ExhaustRun(d)
  \/ RunExternal(d)
  \/ RunDelegated(d)
  \/ RunInlineSucceeds(d)
  \/ \E retryable \in BOOLEAN : RunInlineFails(d, retryable)

Instance(d, n) ==
  \/ PrepareAttempt(d, n)
  \/ TargetMissing(d, n)
  \/ Post(d, n)
  \/ \E answer \in Answers : Observe(d, n, answer)
  \/ \E answer \in Answers : CompleteAttempt(d, n, answer)

Next ==
  \/ \E B \in SUBSET DueKeys : DrainBatch(B)
  \/ \E d \in Keys :
       \/ Publish(d)
       \/ RowFallsDue(d)
       \/ Scheduler(d)
       \/ RunThrows(d)
       \/ \E result \in {"succeeded", "failed"} : CompleteAnalysis(d, result)
       \/ ReconcileDelivery(d)
       \/ \E n \in Tries :
            \/ Instance(d, n)
            \/ RequestLands(d, n)
            \/ RequestLost(d, n)
            \/ RecordFails(d, n)
            \/ AttemptDies(d, n)

(* The Convex scheduler runs every scheduled function, a workflow reports  *)
(* its outcome, a running action proceeds (its fetch has a deadline) and   *)
(* time passes.  Publishing and reconciling are the callers' choice.       *)
Fairness ==
  /\ WF_vars(\E B \in SUBSET DueKeys : DrainBatch(B))
  /\ \A d \in Keys :
       /\ WF_vars(RowFallsDue(d))
       /\ WF_vars(Scheduler(d) \/ RunThrows(d))
       /\ WF_vars(\E result \in {"succeeded", "failed"} : CompleteAnalysis(d, result))
       /\ \A n \in Tries : WF_vars(Instance(d, n) \/ AttemptDies(d, n))

Spec     == Init /\ [][Next]_vars
FairSpec == Spec /\ Fairness

-----------------------------------------------------------------------------
(* Safety.                                                                 *)

(* The external system sees one logical operation at most once: however    *)
(* often the publisher replays, the drain re-registers, the job retries or *)
(* the operator reconciles, no two attempts of one key take effect         *)
(* (echo.ts: "replays and reconciliations must leave exactly one").        *)
AtMostOneEffect ==
  \A d \in Keys : \A m, n \in EffectsOf(d) : m = n

(* A delivery is reported successful only when the effect really happened. *)
SuccessIsReal ==
  \A d \in Keys :
    Kind[d] = "echo" /\ jobs[d].state = "succeeded" => EffectsOf(d) # {}

(* The publication record and the job row never disagree on a finished     *)
(* delivery, although the drain, the publisher, the executor hooks and the *)
(* delivery action write them from different transactions in any order: a  *)
(* failed reaction is visible on the row, a successful one is delivered.   *)
RowReportsOutcome ==
  \A d \in Keys :
    Kind[d] \in {"echo", "cleanup"} /\ outbox[d].state # "none" =>
      /\ jobs[d].state = "failed"    => outbox[d].state = "failed"
      /\ jobs[d].state = "succeeded" => outbox[d].state = "delivered"

(* Publication leaves no orphan: an event row that is no longer pending    *)
(* has its durable reaction registered, unless nothing consumes it.        *)
DeliveredIsRegistered ==
  \A d \in Keys :
    outbox[d].state \notin {"none", "pending"} /\ Kind[d] # "silent" =>
      jobs[d].state # "none"

(* The instances of d that have not ended.                                 *)
LiveInstances(d) == {n \in Tries : attempts[d][n] \notin {"none", "done", "dead"}}

(* Somebody is always on the way to a job that is not finished: a queued   *)
(* row has its run scheduled, a running row its delivery instance or its   *)
(* workflow, and never two of them, so no row is executed twice at once.   *)
OneDriver ==
  \A d \in Keys :
    /\ jobs[d].state = "queued" => runs[d] = 1
    /\ jobs[d].state = "running" =>
         /\ runs[d] = 0
         /\ Kind[d] = "echo" => \E n \in Tries : LiveInstances(d) = {n}
         /\ Kind[d] = "flow" => d \in flows

(* A pending row is never forgotten: a drain is scheduled, or it is an     *)
(* echo row put back to pending whose job is about to take it over.        *)
PendingRowIsDriven ==
  \A d \in PendingKeys :
    \/ drains > 0
    \/ Kind[d] = "echo" /\ jobs[d].state \in {"queued", "running"}

-----------------------------------------------------------------------------
(* The inductive invariant behind the safety properties, for an operator   *)
(* who waits before reconciling and a connection that does not break after *)
(* the effect.                                                             *)

(* Attempts are numbered by the job's counter; only echo jobs have any.    *)
NumberedAttempts(d) ==
  /\ jobs[d].state = "none" => jobs[d].tries = 0
  /\ \A n \in Tries :
       n > jobs[d].tries \/ Kind[d] # "echo" =>
         attempts[d][n] = "none" /\ requests[d][n] = "none"

(* At most one of a scheduled run, a live instance and a workflow drives a *)
(* job, and each only in the job state that belongs to it.                 *)
AtMostOneDriver(d) ==
  /\ runs[d] \in {0, 1}
  /\ runs[d] = 1 => jobs[d].state = "queued"
  /\ \A n \in LiveInstances(d) : n = jobs[d].tries /\ jobs[d].state = "running"
  /\ d \in flows => jobs[d].state = "running" /\ Kind[d] = "flow"

(* Only the latest attempt can have reached the target, and no attempt has *)
(* while the job may start another one.                                    *)
MayRunAgain(job) ==
  \/ job.state = "queued"
  \/ job.state = "failed" /\ ~IsUncertainJobFailure(job)
OnlyLatestActed(d) ==
  \A n \in Tries :
    n # jobs[d].tries \/ MayRunAgain(jobs[d]) => requests[d][n] \in {"none", "lost"}

(* What an instance has observed is true of its request.                   *)
ObservationsHold(d) ==
  \A n \in Tries :
    /\ attempts[d][n] \in {"none", "scheduled", "prepared", "unconfigured"} =>
         requests[d][n] = "none"
    /\ attempts[d][n] = "ok" => requests[d][n] = "landed"
    /\ attempts[d][n] = "refused" => requests[d][n] = "lost"

(* The publication record follows the job: a job row implies its event row *)
(* (and a row that left pending its job), and a finished or exhausted job  *)
(* has its row in the matching state.                                      *)
RowFollowsJob(d) ==
  /\ jobs[d].state # "none" => outbox[d].state # "none" /\ Kind[d] # "silent"
  /\ outbox[d].state \notin {"none", "pending"} /\ Kind[d] # "silent" =>
       jobs[d].state # "none"
  /\ d \in SelfRegistered /\ outbox[d].state # "none" => jobs[d].state # "none"
  /\ Kind[d] \in {"echo", "cleanup"} =>
       /\ jobs[d].state = "failed"    => outbox[d].state = "failed"
       /\ jobs[d].state = "succeeded" => outbox[d].state = "delivered"
       /\ jobs[d].state = "queued" /\ jobs[d].tries = MaxAttempts =>
            outbox[d].state = "failed"
  /\ jobs[d].state = "succeeded" /\ Kind[d] = "echo" => EffectsOf(d) # {}

KeyInv(d) ==
  /\ NumberedAttempts(d)
  /\ AtMostOneDriver(d)
  /\ OnlyLatestActed(d)
  /\ ObservationsHold(d)
  /\ RowFollowsJob(d)

DeliveryInv == \A d \in Keys : KeyInv(d)

-----------------------------------------------------------------------------
(* Action properties.                                                      *)

(* A succeeded job stays succeeded, although late answers of its earlier   *)
(* attempts, replays and re-registrations may still arrive.                *)
SucceededIsFinal ==
  [][\A d \in Keys : jobs[d].state = "succeeded" => jobs'[d] = jobs[d]]_vars

(* No blind retry: a job that failed with a timeout or an unknown outcome  *)
(* changes only after the external system was observed, to succeeded when  *)
(* the effect is there and to queued when no attempt produced it.          *)
UncertainNeedsObservation ==
  [][\A d \in Keys :
       IsUncertainJobFailure(jobs[d]) /\ jobs'[d] # jobs[d] =>
         \/ jobs'[d].state = "succeeded" /\ EffectsOf(d) # {}
         \/ jobs'[d].state = "queued" /\ EffectsOf(d) = {}]_vars

-----------------------------------------------------------------------------
(* Refinement.                                                             *)

EchoKeys == {d \in Keys : Kind[d] = "echo"}

(* What the job row of an operation says about its effect.                 *)
ReportOf(job) ==
  CASE job.state = "none"                  -> "none"
    [] job.state \in {"queued", "running"} -> "open"
    [] job.state = "succeeded"             -> "confirmed"
    [] IsUncertainJobFailure(job)          -> "uncertain"
    [] OTHER                               -> "failed"

Delivery == INSTANCE ExternalDelivery WITH
  Ops        <- EchoKeys,
  AttemptIds <- Tries,
  report     <- [d \in EchoKeys |-> ReportOf(jobs[d])],
  effects    <- [d \in EchoKeys |-> EffectsOf(d)]

(* The engine keeps its promise: seen through the job rows and the effects *)
(* the target recorded, it is an at-most-once delivery.  In particular a   *)
(* job row that failed definitely has no effect and no call under way.     *)
DeliversAtMostOnce == Delivery!Spec

-----------------------------------------------------------------------------
(* Liveness.                                                               *)

(* Every registered job reaches a terminal state.                          *)
JobSettles ==
  \A d \in Keys :
    jobs[d].state \in {"queued", "running"} ~> jobs[d].state \in {"succeeded", "failed"}

(* Every published event leaves pending, and none stays in_flight.         *)
RowSettles ==
  \A d \in Keys :
    outbox[d].state \in {"pending", "in_flight"} ~>
      outbox[d].state \in {"delivered", "failed"}
=============================================================================
