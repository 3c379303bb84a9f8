--------------------------- MODULE Platform_proofs ---------------------------
(***************************************************************************)
(* What the platform guarantees for every value of its constants:          *)
(* DurableExecution for every set of keys, every assignment of kinds and   *)
(* every bound on attempts and batches; SearchIndex for every set of       *)
(* findings, sources and generations, every bound on revisions and         *)
(* attempts, and whether or not passes are lost.                           *)
(***************************************************************************)
EXTENDS DurableExecution, SearchIndex, FiniteSetTheorems, TLAPS

USE DEF Tries

-----------------------------------------------------------------------------
(* Type correctness.                                                       *)

LEMMA RegisteredRowType ==
  ASSUME NEW job \in JobRows
  PROVE  RegisteredRow(job) \in JobRows
<1>1. CASE DecideJobRegistration(job) = "insert"
  <2>1. RegisteredRow(job) = [state |-> "queued", tries |-> 0, ext |-> "none"]
    BY <1>1 DEF RegisteredRow, NoJob
  <2> QED
    BY <2>1, MaxAttemptsAssumption DEF JobRows, JobStates, Outcomes
<1>2. CASE DecideJobRegistration(job) = "requeue"
  <2>1. RegisteredRow(job) = [job EXCEPT !.state = "queued", !.ext = "none"]
    BY <1>2 DEF RegisteredRow
  <2> QED
    BY <2>1 DEF JobRows, JobStates, Outcomes
<1>3. CASE DecideJobRegistration(job) \notin {"insert", "requeue"}
  BY <1>3 DEF RegisteredRow
<1> QED
  BY <1>1, <1>2, <1>3

LEMMA RegisterJobsType ==
  ASSUME TypeOK, NEW D, RegisterJobs(D)
  PROVE  /\ jobs' \in [Keys -> JobRows]
         /\ runs' \in [Keys -> Nat]
<1>1. \A d \in Keys : RegisteredRow(jobs[d]) \in JobRows
  BY RegisteredRowType DEF TypeOK
<1> QED
  BY <1>1 DEF TypeOK, RegisterJobs

LEMMA AttemptMovesType ==
  ASSUME TypeOK, NEW d \in Keys, NEW n \in Tries, NEW from, NEW to \in Phases,
         AttemptMoves(d, n, from, to)
  PROVE  attempts' \in [Keys -> [Tries -> Phases]]
BY DEF TypeOK, AttemptMoves

LEMMA CompleteDeliveryType ==
  ASSUME TypeOK, NEW d \in Keys,
         NEW jobState \in JobStates, NEW outcome \in Outcomes,
         NEW rowState \in DeliveryStates,
         CompleteDelivery(d, jobState, outcome, rowState)
  PROVE  /\ jobs' \in [Keys -> JobRows]
         /\ outbox' \in [Keys -> OutboxRows]
BY DEF TypeOK, CompleteDelivery, JobRows, OutboxRows

LEMMA TypeInit == Init => TypeOK
BY MaxAttemptsAssumption
   DEF Init, TypeOK, OutboxRows, JobRows, NoRow, NoJob, DeliveryStates,
       JobStates, Outcomes, Phases

LEMMA TypeStep == TypeOK /\ [Next]_vars => TypeOK'
<1> SUFFICES ASSUME TypeOK, [Next]_vars PROVE TypeOK'
  OBVIOUS
<1>0. outbox \in [Keys -> OutboxRows] /\ drains \in Nat /\ jobs \in [Keys -> JobRows]
  BY DEF TypeOK
<1>1. ASSUME NEW B \in SUBSET DueKeys, DrainBatch(B) PROVE TypeOK'
  <2>1. jobs' \in [Keys -> JobRows] /\ runs' \in [Keys -> Nat]
    BY <1>1, RegisterJobsType DEF DrainBatch
  <2>2. outbox' \in [Keys -> OutboxRows]
    BY <1>1 DEF DrainBatch, DeliverRows, TypeOK, OutboxRows, DeliveryStates
  <2>3. drains' \in Nat
    BY <1>1 DEF DrainBatch, TypeOK
  <2> QED
    BY <2>1, <2>2, <2>3, <1>1 DEF DrainBatch, TypeOK
<1>2. ASSUME NEW d \in Keys, Publish(d) PROVE TypeOK'
  <2>1. jobs' \in [Keys -> JobRows] /\ runs' \in [Keys -> Nat]
    BY <1>2, RegisterJobsType DEF Publish, TypeOK
  <2>2. \/ outbox' = outbox /\ drains' = drains
        \/ /\ outbox' = [outbox EXCEPT ![d] = [state |-> "pending", due |-> TRUE]]
           /\ drains' = drains + 1
    BY <1>2 DEF Publish
  <2>3. outbox' \in [Keys -> OutboxRows] /\ drains' \in Nat
    <3>1. CASE outbox' = [outbox EXCEPT ![d] = [state |-> "pending", due |-> TRUE]]
      BY <1>0, <3>1, <2>2 DEF OutboxRows, DeliveryStates
    <3> QED
      BY <1>0, <3>1, <2>2
  <2> QED
    BY <2>1, <2>3, <1>2 DEF Publish, TypeOK
<1>3. ASSUME NEW d \in Keys, RowFallsDue(d) PROVE TypeOK'
  BY <1>3 DEF RowFallsDue, TypeOK, OutboxRows
<1>4. ASSUME NEW d \in Keys, Scheduler(d) PROVE TypeOK'
  <2>1. CASE ReplayRun(d)
    BY <2>1 DEF ReplayRun, ConsumeRun, TypeOK
  <2>2. CASE ExhaustRun(d)
    <3>1. jobs' \in [Keys -> JobRows]
      BY <1>0, <2>2 DEF ExhaustRun, JobRows, JobStates
    <3> QED
      BY <3>1, <2>2 DEF ExhaustRun, ConsumeRun, TypeOK
  <2>3. CASE RunExternal(d)
    <3>1. jobs' \in [Keys -> JobRows]
      <4>1. /\ jobs[d].tries < MaxAttempts
            /\ jobs' = [jobs EXCEPT ![d].state = "running", ![d].tries = @ + 1]
        BY <2>3 DEF RunExternal, StartsAttempt
      <4> QED
        BY <1>0, <4>1, MaxAttemptsAssumption DEF JobRows, JobStates
    <3>2. attempts' \in [Keys -> [Tries -> Phases]]
      BY <2>3 DEF RunExternal, TypeOK, Phases
    <3> QED
      BY <3>1, <3>2, <2>3 DEF RunExternal, ConsumeRun, TypeOK
  <2>4. CASE RunDelegated(d)
    <3>1. jobs' \in [Keys -> JobRows]
      <4>1. /\ jobs[d].tries < MaxAttempts
            /\ jobs' = [jobs EXCEPT ![d].state = "running", ![d].tries = @ + 1]
        BY <2>4 DEF RunDelegated, StartsAttempt
      <4> QED
        BY <1>0, <4>1, MaxAttemptsAssumption DEF JobRows, JobStates
    <3> QED
      BY <3>1, <2>4 DEF RunDelegated, ConsumeRun, TypeOK
  <2>5. CASE RunInlineSucceeds(d)
    <3>1. outbox' \in [Keys -> OutboxRows]
      <4>1. outbox' = outbox \/ outbox' = [outbox EXCEPT ![d].state = "delivered"]
        BY <2>5 DEF RunInlineSucceeds, FlipRow
      <4> QED
        BY <1>0, <4>1 DEF OutboxRows, DeliveryStates
    <3>2. jobs' \in [Keys -> JobRows]
      <4>1. /\ jobs[d].tries < MaxAttempts
            /\ jobs' = [jobs EXCEPT ![d].state = "succeeded", ![d].tries = @ + 1,
                                    ![d].ext = "succeeded"]
        BY <2>5 DEF RunInlineSucceeds, StartsAttempt
      <4> QED
        BY <1>0, <4>1, MaxAttemptsAssumption DEF JobRows, JobStates, Outcomes
    <3> QED
      BY <3>1, <3>2, <2>5 DEF RunInlineSucceeds, ConsumeRun, TypeOK
  <2>6. ASSUME NEW retryable \in BOOLEAN, RunInlineFails(d, retryable) PROVE TypeOK'
    <3>1. outbox' \in [Keys -> OutboxRows]
      <4>1. outbox' = outbox \/ outbox' = [outbox EXCEPT ![d].state = "failed"]
        BY <2>6 DEF RunInlineFails, FlipRow
      <4> QED
        BY <1>0, <4>1 DEF OutboxRows, DeliveryStates
    <3>2. jobs' \in [Keys -> JobRows]
      <4>1. jobs[d].tries < MaxAttempts
        BY <2>6 DEF RunInlineFails, StartsAttempt
      <4>2. \/ jobs' = [jobs EXCEPT ![d].state = "queued", ![d].tries = @ + 1]
            \/ jobs' = [jobs EXCEPT ![d].state = "failed", ![d].tries = @ + 1]
        BY <2>6 DEF RunInlineFails
      <4> QED
        BY <1>0, <4>1, <4>2, MaxAttemptsAssumption DEF JobRows, JobStates
    <3>3. runs' \in [Keys -> Nat]
      BY <2>6 DEF RunInlineFails, TypeOK
    <3> QED
      BY <3>1, <3>2, <3>3, <2>6 DEF RunInlineFails, TypeOK
  <2> QED
    BY <1>4, <2>1, <2>2, <2>3, <2>4, <2>5, <2>6 DEF Scheduler
<1>5. ASSUME NEW d \in Keys, RunThrows(d) PROVE TypeOK'
  BY <1>5 DEF RunThrows, ConsumeRun, TypeOK
<1>6. ASSUME NEW d \in Keys, NEW result \in {"succeeded", "failed"},
             CompleteAnalysis(d, result)
      PROVE  TypeOK'
  BY <1>6 DEF CompleteAnalysis, TypeOK, JobRows, JobStates
<1>7. ASSUME NEW d \in Keys, ReconcileDelivery(d) PROVE TypeOK'
  <2>1. CASE CompleteDelivery(d, "succeeded", "succeeded", "delivered") /\ UNCHANGED runs
    BY <1>7, <2>1, CompleteDeliveryType
       DEF ReconcileDelivery, TypeOK, JobStates, Outcomes, DeliveryStates
  <2>2. CASE /\ jobs' = [jobs EXCEPT ![d].state = "queued"]
             /\ runs' = [runs EXCEPT ![d] = @ + 1]
             /\ UNCHANGED outbox
    <3>1. jobs' \in [Keys -> JobRows]
      BY <1>0, <2>2 DEF JobRows, JobStates
    <3> QED
      BY <3>1, <1>7, <2>2 DEF ReconcileDelivery, TypeOK
  <2> QED
    BY <1>7, <2>1, <2>2 DEF ReconcileDelivery
<1>8. ASSUME NEW d \in Keys, NEW n \in Tries, Instance(d, n) PROVE TypeOK'
  <2>1. CASE PrepareAttempt(d, n)
    <3>1. outbox' \in [Keys -> OutboxRows]
      <4>1. outbox' = outbox \/ outbox' = [outbox EXCEPT ![d].state = "in_flight"]
        BY <2>1 DEF PrepareAttempt
      <4> QED
        BY <1>0, <4>1 DEF OutboxRows, DeliveryStates
    <3>2. attempts' \in [Keys -> [Tries -> Phases]]
      BY <2>1, AttemptMovesType DEF PrepareAttempt, Phases
    <3> QED
      BY <3>1, <3>2, <2>1 DEF PrepareAttempt, TypeOK
  <2>2. CASE TargetMissing(d, n)
    BY <2>2, AttemptMovesType DEF TargetMissing, TypeOK, Phases, Answers
  <2>3. CASE Post(d, n)
    BY <2>3, AttemptMovesType DEF Post, TypeOK, Phases
  <2>4. ASSUME NEW answer \in Answers, Observe(d, n, answer) PROVE TypeOK'
    BY <2>4, AttemptMovesType DEF Observe, TypeOK, Phases
  <2>5. ASSUME NEW answer \in Answers, CompleteAttempt(d, n, answer) PROVE TypeOK'
    <3>1. attempts' \in [Keys -> [Tries -> Phases]]
      BY <2>5, AttemptMovesType DEF CompleteAttempt, Phases
    <3>2. OutcomeOf(answer) \in Outcomes
      BY DEF OutcomeOf, Outcomes
    <3>3. CASE CompleteDelivery(d, "succeeded", "succeeded", "delivered") /\ UNCHANGED runs
      BY <2>5, <3>1, <3>3, CompleteDeliveryType
         DEF CompleteAttempt, TypeOK, JobStates, Outcomes, DeliveryStates
    <3>4. CASE CompleteDelivery(d, "failed", OutcomeOf(answer), "failed") /\ UNCHANGED runs
      BY <2>5, <3>1, <3>2, <3>4, CompleteDeliveryType
         DEF CompleteAttempt, TypeOK, JobStates, DeliveryStates
    <3>5. CASE RequeueAttempt(d)
      <4>1. jobs' \in [Keys -> JobRows]
        BY <1>0, <3>5 DEF RequeueAttempt, JobRows, JobStates
      <4>2. \/ outbox' = outbox
            \/ outbox' = [outbox EXCEPT ![d] = [state |-> "pending", due |-> FALSE]]
        BY <3>5 DEF RequeueAttempt
      <4>3. outbox' \in [Keys -> OutboxRows]
        <5>1. CASE outbox' = [outbox EXCEPT ![d] = [state |-> "pending", due |-> FALSE]]
          BY <1>0, <5>1 DEF OutboxRows, DeliveryStates
        <5> QED
          BY <1>0, <5>1, <4>2
      <4> QED
        BY <2>5, <3>1, <3>5, <4>1, <4>3 DEF CompleteAttempt, RequeueAttempt, TypeOK
    <3> QED
      BY <2>5, <3>3, <3>4, <3>5 DEF CompleteAttempt
  <2> QED
    BY <1>8, <2>1, <2>2, <2>3, <2>4, <2>5 DEF Instance
<1>9. ASSUME NEW d \in Keys, NEW n \in Tries, RequestLands(d, n) PROVE TypeOK'
  BY <1>9 DEF RequestLands, TypeOK
<1>10. ASSUME NEW d \in Keys, NEW n \in Tries, RequestLost(d, n) PROVE TypeOK'
  BY <1>10 DEF RequestLost, TypeOK
<1>11. ASSUME NEW d \in Keys, NEW n \in Tries, AttemptDies(d, n) PROVE TypeOK'
  BY <1>11 DEF AttemptDies, TypeOK, Phases
<1>12. ASSUME NEW d \in Keys, NEW n \in Tries, RecordFails(d, n) PROVE TypeOK'
  BY <1>12, AttemptMovesType DEF RecordFails, TypeOK, Phases, Answers
<1>13. CASE UNCHANGED vars
  BY <1>13 DEF vars, TypeOK
<1> QED
  BY <1>1, <1>2, <1>3, <1>4, <1>5, <1>6, <1>7, <1>8, <1>9, <1>10, <1>11, <1>12,
     <1>13
     DEF Next

(* The rows, counters and instances keep their types in every step.        *)
THEOREM TypeCorrect == Spec => []TypeOK
BY TypeInit, TypeStep, PTL DEF Spec

-----------------------------------------------------------------------------
(* The inductive invariant, key by key.                                    *)

(* The operator waits for the instances before reconciling, no connection  *)
(* breaks after the effect and no record of an answer fails.               *)
Patient == ~EagerReconcile /\ ~CutAfterEffect /\ ~RecordMayFail

Same(e) ==
  /\ jobs'[e] = jobs[e]
  /\ outbox'[e] = outbox[e]
  /\ runs'[e] = runs[e]
  /\ (e \in flows') = (e \in flows)
  /\ attempts'[e] = attempts[e]
  /\ requests'[e] = requests[e]

(* A key that a step does not touch keeps its invariant.                   *)
LEMMA Untouched ==
  ASSUME NEW e \in Keys, KeyInv(e), Same(e)
  PROVE  KeyInv(e)'
<1>1. NumberedAttempts(e)'
  BY DEF KeyInv, Same, NumberedAttempts
<1>2. AtMostOneDriver(e)'
  BY DEF KeyInv, Same, AtMostOneDriver, LiveInstances
<1>3. OnlyLatestActed(e)'
  BY DEF KeyInv, Same, OnlyLatestActed
<1>4. ObservationsHold(e)'
  BY DEF KeyInv, Same, ObservationsHold
<1>5. RowFollowsJob(e)'
  BY DEF KeyInv, Same, RowFollowsJob, EffectsOf
<1> QED
  BY <1>1, <1>2, <1>3, <1>4, <1>5 DEF KeyInv

LEMMA OneKey ==
  ASSUME DeliveryInv, NEW d \in Keys, KeyInv(d)', \A e \in Keys \ {d} : Same(e)
  PROVE  DeliveryInv'
BY Untouched DEF DeliveryInv

(* The registration of one row, seen from its key.                         *)
LEMMA RegisterKey ==
  ASSUME TypeOK, NEW D, RegisterJobs(D), NEW d \in D \cap Keys
  PROVE  \/ /\ jobs[d].state \notin {"none", "failed"}
            /\ jobs'[d] = jobs[d]
            /\ runs'[d] = runs[d]
         \/ /\ IsUncertainJobFailure(jobs[d])
            /\ jobs'[d] = jobs[d]
            /\ runs'[d] = runs[d]
         \/ /\ jobs[d].state = "none"
            /\ jobs'[d] = [state |-> "queued", tries |-> 0, ext |-> "none"]
            /\ runs'[d] = runs[d] + 1
         \/ /\ jobs[d].state = "failed" /\ ~IsUncertainJobFailure(jobs[d])
            /\ jobs'[d] = [jobs[d] EXCEPT !.state = "queued", !.ext = "none"]
            /\ runs'[d] = runs[d] + 1
<1>1. jobs'[d] = RegisteredRow(jobs[d])
  BY DEF RegisterJobs
<1>2. runs'[d] = IF DecideJobRegistration(jobs[d]) # "skip" THEN runs[d] + 1 ELSE runs[d]
  BY DEF RegisterJobs
<1>3. jobs[d] \in JobRows
  BY DEF TypeOK
<1>4. CASE jobs[d].state = "none"
  <2>1. DecideJobRegistration(jobs[d]) = "insert"
    BY <1>4 DEF DecideJobRegistration, IsUncertainJobFailure
  <2>2. RegisteredRow(jobs[d]) = [state |-> "queued", tries |-> 0, ext |-> "none"]
    BY <2>1 DEF RegisteredRow, NoJob
  <2> QED
    BY <1>1, <1>2, <1>4, <2>1, <2>2
<1>5. CASE jobs[d].state \in {"queued", "running", "succeeded"}
  <2>1. DecideJobRegistration(jobs[d]) = "skip"
    BY <1>5 DEF DecideJobRegistration, IsUncertainJobFailure
  <2>2. RegisteredRow(jobs[d]) = jobs[d]
    BY <2>1 DEF RegisteredRow
  <2> QED
    BY <1>1, <1>2, <1>5, <2>1, <2>2
<1>6. CASE IsUncertainJobFailure(jobs[d])
  <2>1. DecideJobRegistration(jobs[d]) = "skip"
    BY <1>6 DEF DecideJobRegistration, IsUncertainJobFailure
  <2>2. RegisteredRow(jobs[d]) = jobs[d]
    BY <2>1 DEF RegisteredRow
  <2> QED
    BY <1>1, <1>2, <1>6, <2>1, <2>2
<1>7. CASE jobs[d].state = "failed" /\ ~IsUncertainJobFailure(jobs[d])
  <2>1. DecideJobRegistration(jobs[d]) = "requeue"
    BY <1>7 DEF DecideJobRegistration
  <2>2. RegisteredRow(jobs[d]) = [jobs[d] EXCEPT !.state = "queued", !.ext = "none"]
    BY <2>1 DEF RegisteredRow
  <2> QED
    BY <1>1, <1>2, <1>7, <2>1, <2>2
<1> QED
  BY <1>3, <1>4, <1>5, <1>6, <1>7 DEF JobRows, JobStates

(* Registration preserves the invariant of a key whose row exists and      *)
(* changes only from absent or pending.                                    *)
LEMMA RegisteredKeeps ==
  ASSUME TypeOK, NEW D, RegisterJobs(D), NEW d \in D \cap Keys, KeyInv(d),
         Kind[d] # "silent",
         outbox'[d].state # "none",
         outbox'[d].state # outbox[d].state => outbox[d].state \in {"none", "pending"},
         (d \in flows') = (d \in flows),
         attempts'[d] = attempts[d],
         requests'[d] = requests[d]
  PROVE  KeyInv(d)'
<1>1. /\ jobs[d] \in JobRows /\ runs[d] \in Nat
      /\ NumberedAttempts(d) /\ AtMostOneDriver(d) /\ OnlyLatestActed(d)
      /\ ObservationsHold(d) /\ RowFollowsJob(d)
  BY DEF TypeOK, KeyInv
<1>2. ObservationsHold(d)'
  BY <1>1 DEF ObservationsHold
<1>3. CASE jobs'[d] = jobs[d] /\ runs'[d] = runs[d] /\ jobs[d].state # "none"
  <2>1. NumberedAttempts(d)' /\ AtMostOneDriver(d)' /\ OnlyLatestActed(d)'
    BY <1>1, <1>3 DEF NumberedAttempts, AtMostOneDriver, OnlyLatestActed, LiveInstances
  <2>2. RowFollowsJob(d)'
    BY <1>1, <1>3 DEF RowFollowsJob, EffectsOf
  <2> QED
    BY <1>2, <2>1, <2>2 DEF KeyInv
<1>4. CASE /\ jobs[d].state = "none"
           /\ jobs'[d] = [state |-> "queued", tries |-> 0, ext |-> "none"]
           /\ runs'[d] = runs[d] + 1
  <2>1. jobs'[d].state = "queued" /\ jobs'[d].tries = 0
    BY <1>4
  <2>2. \A n \in Tries : attempts[d][n] = "none" /\ requests[d][n] = "none"
    BY <1>1, <1>4, MaxAttemptsAssumption DEF NumberedAttempts
  <2>3. NumberedAttempts(d)' /\ OnlyLatestActed(d)'
    BY <2>1, <2>2 DEF NumberedAttempts, OnlyLatestActed
  <2>4. AtMostOneDriver(d)'
    BY <1>1, <1>4, <2>1, <2>2 DEF AtMostOneDriver, LiveInstances
  <2>5. RowFollowsJob(d)'
    BY <1>1, <2>1, MaxAttemptsAssumption DEF RowFollowsJob
  <2> QED
    BY <1>2, <2>3, <2>4, <2>5 DEF KeyInv
<1>5. CASE /\ jobs[d].state = "failed" /\ ~IsUncertainJobFailure(jobs[d])
           /\ jobs'[d] = [jobs[d] EXCEPT !.state = "queued", !.ext = "none"]
           /\ runs'[d] = runs[d] + 1
  <2>1. jobs'[d].state = "queued" /\ jobs'[d].tries = jobs[d].tries
    BY <1>1, <1>5 DEF JobRows
  <2>2. NumberedAttempts(d)'
    BY <1>1, <2>1 DEF NumberedAttempts
  <2>3. AtMostOneDriver(d)'
    BY <1>1, <1>5, <2>1 DEF AtMostOneDriver, LiveInstances
  <2>4. OnlyLatestActed(d)'
    BY <1>1, <1>5, <2>1 DEF OnlyLatestActed, MayRunAgain
  <2>5. RowFollowsJob(d)'
    BY <1>1, <1>5, <2>1 DEF RowFollowsJob
  <2> QED
    BY <1>2, <2>2, <2>3, <2>4, <2>5 DEF KeyInv
<1> QED
  BY <1>3, <1>4, <1>5, RegisterKey DEF IsUncertainJobFailure

LEMMA PublishKeeps ==
  ASSUME TypeOK, DeliveryInv, NEW d \in Keys, Publish(d)
  PROVE  DeliveryInv'
<1>1. \A e \in Keys \ {d} : Same(e)
  BY DEF Publish, RegisterJobs, Same, TypeOK
<1>2. /\ outbox[d] \in OutboxRows /\ KeyInv(d) /\ RowFollowsJob(d)
      /\ attempts'[d] = attempts[d] /\ requests'[d] = requests[d]
      /\ (d \in flows') = (d \in flows)
  BY DEF DeliveryInv, KeyInv, Publish, TypeOK
<1>3. \/ outbox[d].state # "none" /\ outbox'[d] = outbox[d]
      \/ outbox[d].state = "none" /\ outbox'[d].state = "pending"
  BY DEF Publish, TypeOK
<1>4. CASE d \in SelfRegistered
  <2>1. RegisterJobs({d}) /\ Kind[d] # "silent"
    BY <1>4, SelfRegisteredAssumption DEF Publish
  <2>2. KeyInv(d)'
    BY <1>2, <1>3, <2>1, RegisteredKeeps
  <2> QED
    BY <1>1, <2>2, OneKey
<1>5. CASE d \notin SelfRegistered
  <2>1. jobs'[d] = jobs[d] /\ runs'[d] = runs[d]
    BY <1>5 DEF Publish
  <2>2. /\ NumberedAttempts(d)' /\ AtMostOneDriver(d)' /\ OnlyLatestActed(d)'
        /\ ObservationsHold(d)'
    BY <1>2, <2>1
       DEF KeyInv, NumberedAttempts, AtMostOneDriver, OnlyLatestActed,
           ObservationsHold, LiveInstances
  <2>3. RowFollowsJob(d)'
    BY <1>2, <1>3, <1>5, <2>1 DEF RowFollowsJob, EffectsOf
  <2> QED
    BY <1>1, <2>2, <2>3, OneKey DEF KeyInv
<1> QED
  BY <1>4, <1>5

LEMMA DrainKeeps ==
  ASSUME TypeOK, DeliveryInv, NEW B \in SUBSET DueKeys, DrainBatch(B)
  PROVE  DeliveryInv'
<1> DEFINE D == {d \in B : Kind[d] # "silent"}
<1> SUFFICES ASSUME NEW d \in Keys PROVE KeyInv(d)'
  BY DEF DeliveryInv
<1>1. /\ RegisterJobs(D) /\ DeliverRows(B)
      /\ UNCHANGED <<flows, attempts, requests>>
  BY DEF DrainBatch
<1>2. outbox[d] \in OutboxRows /\ KeyInv(d)
  BY DEF DeliveryInv, TypeOK
<1>3. CASE d \notin B
  <2>1. Same(d)
    BY <1>1, <1>3 DEF RegisterJobs, DeliverRows, Same
  <2> QED
    BY <1>2, <2>1, Untouched
<1>4. CASE d \in B
  <2>1. outbox[d].state = "pending" /\ outbox'[d].state = "delivered"
    BY <1>1, <1>2, <1>4 DEF DueKeys, PendingKeys, DeliverRows, OutboxRows
  <2>2. CASE Kind[d] # "silent"
    BY <1>1, <1>2, <1>4, <2>1, <2>2, RegisteredKeeps
  <2>3. CASE Kind[d] = "silent"
    <3>1. jobs'[d] = jobs[d] /\ runs'[d] = runs[d]
      BY <1>1, <2>3 DEF RegisterJobs
    <3>2. /\ NumberedAttempts(d)' /\ AtMostOneDriver(d)' /\ OnlyLatestActed(d)'
          /\ ObservationsHold(d)'
      BY <1>1, <1>2, <3>1
         DEF KeyInv, NumberedAttempts, AtMostOneDriver, OnlyLatestActed,
             ObservationsHold, LiveInstances
    <3>3. RowFollowsJob(d)'
      BY <1>2, <2>1, <2>3, <3>1, SelfRegisteredAssumption DEF KeyInv, RowFollowsJob
    <3> QED
      BY <3>2, <3>3 DEF KeyInv
  <2> QED
    BY <2>2, <2>3
<1> QED
  BY <1>3, <1>4

LEMMA RowFallsDueKeeps ==
  ASSUME TypeOK, DeliveryInv, NEW d \in Keys, RowFallsDue(d)
  PROVE  DeliveryInv'
<1>1. \A e \in Keys \ {d} : Same(e)
  BY DEF RowFallsDue, Same, TypeOK
<1>2. outbox'[d].state = outbox[d].state
  BY DEF RowFallsDue, TypeOK, OutboxRows
<1>3. KeyInv(d)
  BY DEF DeliveryInv
<1>4. KeyInv(d)'
  BY <1>2, <1>3
     DEF RowFallsDue, KeyInv, NumberedAttempts, AtMostOneDriver, OnlyLatestActed,
         ObservationsHold, RowFollowsJob, LiveInstances, EffectsOf
<1> QED
  BY <1>1, <1>4, OneKey

(* The scheduler's runs.  A scheduled run means a queued row, so no        *)
(* instance and no workflow is on its way.                                 *)
LEMMA ScheduledIsQueued ==
  ASSUME TypeOK, NEW d \in Keys, KeyInv(d), ConsumeRun(d)
  PROVE  /\ jobs[d] \in JobRows /\ jobs[d].state = "queued"
         /\ runs[d] = 1 /\ runs'[d] = 0
         /\ LiveInstances(d) = {} /\ d \notin flows
BY DEF TypeOK, KeyInv, AtMostOneDriver, ConsumeRun

LEMMA ReplayRunKeeps ==
  ASSUME TypeOK, DeliveryInv, NEW d \in Keys, ReplayRun(d) \/ RunThrows(d)
  PROVE  DeliveryInv'
<1>1. \A e \in Keys \ {d} : Same(e)
  BY DEF ReplayRun, RunThrows, ConsumeRun, Same, TypeOK
<1>2. KeyInv(d) /\ ConsumeRun(d)
  BY DEF DeliveryInv, ReplayRun, RunThrows
<1>3. UNCHANGED <<outbox, jobs, flows, attempts, requests>>
  BY DEF ReplayRun, RunThrows
<1>4. AtMostOneDriver(d)'
  BY <1>2, <1>3, ScheduledIsQueued DEF AtMostOneDriver, LiveInstances
<1>5. /\ NumberedAttempts(d)' /\ OnlyLatestActed(d)' /\ ObservationsHold(d)'
      /\ RowFollowsJob(d)'
  BY <1>2, <1>3
     DEF KeyInv, NumberedAttempts, OnlyLatestActed, ObservationsHold, RowFollowsJob,
         EffectsOf
<1> QED
  BY <1>1, <1>4, <1>5, OneKey DEF KeyInv

LEMMA ExhaustRunKeeps ==
  ASSUME TypeOK, DeliveryInv, NEW d \in Keys, ExhaustRun(d)
  PROVE  DeliveryInv'
<1>1. \A e \in Keys \ {d} : Same(e)
  BY DEF ExhaustRun, ConsumeRun, Same, TypeOK
<1>2. /\ KeyInv(d) /\ jobs[d] \in JobRows /\ jobs[d].state = "queued"
      /\ runs'[d] = 0 /\ LiveInstances(d) = {} /\ d \notin flows
  BY ScheduledIsQueued DEF DeliveryInv, ExhaustRun
<1>3. /\ jobs'[d].state = "failed" /\ jobs'[d].tries = jobs[d].tries
      /\ jobs[d].tries = MaxAttempts
      /\ UNCHANGED <<outbox, flows, attempts, requests>>
  BY <1>2, MaxAttemptsAssumption DEF ExhaustRun, TypeOK, JobRows
<1>4. NumberedAttempts(d)' /\ ObservationsHold(d)'
  BY <1>2, <1>3 DEF KeyInv, NumberedAttempts, ObservationsHold
<1>5. AtMostOneDriver(d)'
  BY <1>2, <1>3 DEF AtMostOneDriver, LiveInstances
<1>6. OnlyLatestActed(d)'
  BY <1>2, <1>3 DEF KeyInv, OnlyLatestActed, MayRunAgain
<1>7. RowFollowsJob(d)'
  BY <1>2, <1>3 DEF KeyInv, RowFollowsJob
<1> QED
  BY <1>1, <1>4, <1>5, <1>6, <1>7, OneKey DEF KeyInv

LEMMA RunExternalKeeps ==
  ASSUME TypeOK, DeliveryInv, NEW d \in Keys, RunExternal(d)
  PROVE  DeliveryInv'
<1>1. \A e \in Keys \ {d} : Same(e)
  BY DEF RunExternal, ConsumeRun, Same, TypeOK
<1>2. /\ KeyInv(d) /\ jobs[d] \in JobRows /\ jobs[d].state = "queued"
      /\ runs'[d] = 0 /\ LiveInstances(d) = {} /\ d \notin flows
  BY ScheduledIsQueued DEF DeliveryInv, RunExternal
<1>3. /\ jobs'[d].state = "running" /\ jobs'[d].tries = jobs[d].tries + 1
      /\ jobs[d].tries + 1 \in Tries
      /\ Kind[d] = "echo"
      /\ UNCHANGED <<outbox, flows, requests>>
  BY <1>2, MaxAttemptsAssumption DEF RunExternal, StartsAttempt, TypeOK, JobRows
<1>4. \A n \in Tries :
        attempts'[d][n] = IF n = jobs[d].tries + 1 THEN "scheduled" ELSE attempts[d][n]
  BY <1>3 DEF RunExternal, TypeOK
<1>5. \A n \in Tries : requests[d][n] \in {"none", "lost"}
  BY <1>2 DEF KeyInv, OnlyLatestActed, MayRunAgain
<1>6. NumberedAttempts(d)'
  BY <1>2, <1>3, <1>4 DEF KeyInv, NumberedAttempts, JobRows
<1>7. AtMostOneDriver(d)'
  BY <1>2, <1>3, <1>4 DEF AtMostOneDriver, LiveInstances
<1>8. OnlyLatestActed(d)'
  BY <1>3, <1>5 DEF OnlyLatestActed
<1>9. ObservationsHold(d)'
  <2>1. requests[d][jobs[d].tries + 1] = "none"
    BY <1>2, <1>3 DEF KeyInv, NumberedAttempts, JobRows
  <2> QED
    BY <1>2, <1>3, <1>4, <2>1 DEF KeyInv, ObservationsHold
<1>10. RowFollowsJob(d)'
  BY <1>2, <1>3 DEF KeyInv, RowFollowsJob
<1> QED
  BY <1>1, <1>6, <1>7, <1>8, <1>9, <1>10, OneKey DEF KeyInv

LEMMA RunDelegatedKeeps ==
  ASSUME TypeOK, DeliveryInv, NEW d \in Keys, RunDelegated(d)
  PROVE  DeliveryInv'
<1>1. \A e \in Keys \ {d} : Same(e)
  BY DEF RunDelegated, ConsumeRun, Same, TypeOK
<1>2. /\ KeyInv(d) /\ jobs[d] \in JobRows /\ jobs[d].state = "queued"
      /\ runs'[d] = 0 /\ LiveInstances(d) = {}
  BY ScheduledIsQueued DEF DeliveryInv, RunDelegated
<1>3. /\ jobs'[d].state = "running" /\ jobs'[d].tries = jobs[d].tries + 1
      /\ Kind[d] = "flow" /\ UNCHANGED <<outbox, attempts, requests>>
  BY <1>2, MaxAttemptsAssumption DEF RunDelegated, StartsAttempt, TypeOK, JobRows
<1>4. \A n \in Tries : attempts[d][n] = "none" /\ requests[d][n] = "none"
  BY <1>2, <1>3 DEF KeyInv, NumberedAttempts
<1>5. /\ NumberedAttempts(d)' /\ AtMostOneDriver(d)' /\ OnlyLatestActed(d)'
      /\ ObservationsHold(d)'
  BY <1>2, <1>3, <1>4
     DEF NumberedAttempts, AtMostOneDriver, OnlyLatestActed, ObservationsHold,
         LiveInstances
<1>6. RowFollowsJob(d)'
  BY <1>2, <1>3 DEF KeyInv, RowFollowsJob
<1> QED
  BY <1>1, <1>5, <1>6, OneKey DEF KeyInv

(* A job that completes or fails in its own transaction.                   *)
LEMMA InlineKeeps ==
  ASSUME TypeOK, DeliveryInv, NEW d \in Keys,
         \/ RunInlineSucceeds(d)
         \/ \E retryable \in BOOLEAN : RunInlineFails(d, retryable)
  PROVE  DeliveryInv'
<1>1. /\ runs[d] > 0 /\ StartsAttempt(d) /\ Kind[d] \in {"cleanup", "inline"}
      /\ UNCHANGED <<flows, attempts, requests>>
  BY DEF RunInlineSucceeds, RunInlineFails, ConsumeRun
<1>2. \A e \in Keys \ {d} : Same(e)
  BY DEF RunInlineSucceeds, RunInlineFails, ConsumeRun, FlipRow, Same, TypeOK
<1>3. /\ KeyInv(d) /\ jobs[d] \in JobRows /\ jobs[d].state = "queued"
      /\ runs[d] = 1 /\ LiveInstances(d) = {} /\ d \notin flows
      /\ jobs[d].tries < MaxAttempts /\ outbox[d] \in OutboxRows
  BY <1>1 DEF DeliveryInv, KeyInv, AtMostOneDriver, StartsAttempt, TypeOK
<1>4. outbox[d].state # "none"
  BY <1>3 DEF KeyInv, RowFollowsJob
<1>5. \/ /\ jobs'[d].state = "succeeded" /\ runs'[d] = 0
         /\ Kind[d] = "cleanup" => outbox'[d].state = "delivered"
      \/ /\ jobs'[d].state = "failed" /\ runs'[d] = 0
         /\ Kind[d] = "cleanup" => outbox'[d].state = "failed"
      \/ /\ jobs'[d].state = "queued" /\ runs'[d] = 1
         /\ Kind[d] = "inline" /\ outbox' = outbox
  <2>1. CASE RunInlineSucceeds(d)
    BY <1>3, <1>4, <2>1 DEF RunInlineSucceeds, ConsumeRun, FlipRow, TypeOK, OutboxRows, JobRows
  <2>2. ASSUME NEW retryable \in BOOLEAN, RunInlineFails(d, retryable)
        PROVE  <1>5!2 \/ <1>5!3
    BY <1>3, <1>4, <2>2 DEF RunInlineFails, FlipRow, TypeOK, OutboxRows, JobRows
  <2> QED
    BY <2>1, <2>2
<1>6. outbox'[d].state # "none" /\ (Kind[d] # "cleanup" => outbox' = outbox)
  BY <1>4, <1>5 DEF RunInlineSucceeds, RunInlineFails, FlipRow
<1>7. \A n \in Tries : attempts[d][n] = "none" /\ requests[d][n] = "none"
  BY <1>1, <1>3 DEF KeyInv, NumberedAttempts
<1>8. /\ NumberedAttempts(d)' /\ OnlyLatestActed(d)' /\ ObservationsHold(d)'
  BY <1>1, <1>5, <1>7 DEF NumberedAttempts, OnlyLatestActed, ObservationsHold
<1>9. AtMostOneDriver(d)'
  BY <1>1, <1>3, <1>5, <1>7 DEF AtMostOneDriver, LiveInstances
<1>10. RowFollowsJob(d)'
  BY <1>1, <1>3, <1>4, <1>5, <1>6 DEF KeyInv, RowFollowsJob
<1> QED
  BY <1>2, <1>8, <1>9, <1>10, OneKey DEF KeyInv

LEMMA CompleteAnalysisKeeps ==
  ASSUME TypeOK, DeliveryInv, NEW d \in Keys, NEW result \in {"succeeded", "failed"},
         CompleteAnalysis(d, result)
  PROVE  DeliveryInv'
<1>1. \A e \in Keys \ {d} : Same(e)
  BY DEF CompleteAnalysis, Same, TypeOK
<1>2. /\ KeyInv(d) /\ jobs[d] \in JobRows /\ jobs[d].state = "running"
      /\ Kind[d] = "flow" /\ d \in flows
  BY DEF DeliveryInv, KeyInv, AtMostOneDriver, CompleteAnalysis, TypeOK
<1>3. /\ jobs'[d].state \in {"succeeded", "failed"} /\ jobs'[d].tries = jobs[d].tries
      /\ d \notin flows' /\ UNCHANGED <<outbox, runs, attempts, requests>>
  BY <1>2 DEF CompleteAnalysis, TypeOK, JobRows
<1>4. \A n \in Tries : attempts[d][n] = "none" /\ requests[d][n] = "none"
  BY <1>2 DEF KeyInv, NumberedAttempts
<1>5. /\ NumberedAttempts(d)' /\ OnlyLatestActed(d)' /\ ObservationsHold(d)'
  BY <1>3, <1>4 DEF NumberedAttempts, OnlyLatestActed, ObservationsHold
<1>6. AtMostOneDriver(d)'
  BY <1>2, <1>3, <1>4 DEF KeyInv, AtMostOneDriver, LiveInstances
<1>7. RowFollowsJob(d)'
  BY <1>2, <1>3 DEF KeyInv, RowFollowsJob
<1> QED
  BY <1>1, <1>5, <1>6, <1>7, OneKey DEF KeyInv

-----------------------------------------------------------------------------
(* The delivery instance.  A live instance is the attempt that the running *)
(* job counts, so every record it writes meets the row it was started for. *)
LEMMA LiveIsLatest ==
  ASSUME TypeOK, NEW d \in Keys, KeyInv(d), NEW n \in Tries,
         attempts[d][n] \notin {"none", "done", "dead"}
  PROVE  /\ jobs[d] \in JobRows /\ jobs[d].state = "running" /\ jobs[d].tries = n
         /\ runs[d] = 0 /\ d \notin flows /\ Kind[d] = "echo"
         /\ LiveInstances(d) = {n}
<1>1. /\ jobs[d] \in JobRows /\ jobs[d].state = "running" /\ jobs[d].tries = n
      /\ runs[d] = 0 /\ LiveInstances(d) = {n}
  BY DEF TypeOK, KeyInv, AtMostOneDriver, LiveInstances
<1>2. Kind[d] = "echo"
  BY DEF KeyInv, NumberedAttempts
<1> QED
  BY <1>1, <1>2 DEF KeyInv, AtMostOneDriver

(* An instance moves on without touching its job or its workflow.          *)
LEMMA InstanceMoves ==
  ASSUME TypeOK, NEW d \in Keys, KeyInv(d), NEW n \in Tries, NEW to \in Phases,
         attempts[d][n] \notin {"none", "done", "dead"},
         attempts' = [attempts EXCEPT ![d][n] = to],
         UNCHANGED <<jobs, runs, flows>>,
         \A m \in Tries \ {n} : requests'[d][m] = requests[d][m],
         /\ to \in {"none", "scheduled", "prepared", "unconfigured"} =>
              requests'[d][n] = "none"
         /\ to = "ok" => requests'[d][n] = "landed"
         /\ to = "refused" => requests'[d][n] = "lost",
         outbox'[d].state = outbox[d].state \/ outbox'[d].state = "in_flight"
  PROVE  KeyInv(d)'
<1>1. /\ jobs[d] \in JobRows /\ jobs[d].state = "running" /\ jobs[d].tries = n
      /\ runs[d] = 0 /\ d \notin flows /\ Kind[d] = "echo"
      /\ LiveInstances(d) = {n}
  BY LiveIsLatest
<1>2. \A m \in Tries : attempts'[d][m] = IF m = n THEN to ELSE attempts[d][m]
  BY DEF TypeOK
<1>3. NumberedAttempts(d)'
  BY <1>1, <1>2 DEF KeyInv, NumberedAttempts, JobRows
<1>4. AtMostOneDriver(d)'
  BY <1>1, <1>2 DEF AtMostOneDriver, LiveInstances
<1>5. OnlyLatestActed(d)'
  BY <1>1 DEF KeyInv, OnlyLatestActed, MayRunAgain
<1>6. ObservationsHold(d)'
  BY <1>2 DEF KeyInv, ObservationsHold
<1>7. RowFollowsJob(d)'
  BY <1>1 DEF KeyInv, RowFollowsJob
<1> QED
  BY <1>3, <1>4, <1>5, <1>6, <1>7 DEF KeyInv

LEMMA PrepareKeeps ==
  ASSUME TypeOK, DeliveryInv, NEW d \in Keys, NEW n \in Tries, PrepareAttempt(d, n)
  PROVE  DeliveryInv'
<1>1. \A e \in Keys \ {d} : Same(e)
  BY DEF PrepareAttempt, AttemptMoves, Same, TypeOK
<1>2. /\ KeyInv(d) /\ attempts[d][n] = "scheduled" /\ requests[d][n] = "none"
      /\ UNCHANGED <<jobs, runs, flows, requests>>
  BY DEF DeliveryInv, KeyInv, ObservationsHold, PrepareAttempt, AttemptMoves
<1>3. jobs[d].state = "running"
  BY <1>2, LiveIsLatest
<1>4. attempts' = [attempts EXCEPT ![d][n] = "prepared"]
  BY <1>3 DEF PrepareAttempt, AttemptMoves
<1>5. outbox'[d].state = outbox[d].state \/ outbox'[d].state = "in_flight"
  BY <1>3 DEF PrepareAttempt, TypeOK, OutboxRows
<1>6. KeyInv(d)'
  BY <1>2, <1>4, <1>5, InstanceMoves DEF Phases
<1> QED
  BY <1>1, <1>6, OneKey

LEMMA TargetMissingKeeps ==
  ASSUME TypeOK, DeliveryInv, NEW d \in Keys, NEW n \in Tries, TargetMissing(d, n)
  PROVE  DeliveryInv'
<1>1. \A e \in Keys \ {d} : Same(e)
  BY DEF TargetMissing, AttemptMoves, Same, TypeOK
<1>2. /\ KeyInv(d) /\ attempts[d][n] = "prepared" /\ requests[d][n] = "none"
  BY DEF DeliveryInv, KeyInv, ObservationsHold, TargetMissing, AttemptMoves
<1>3. KeyInv(d)'
  BY <1>2, InstanceMoves DEF TargetMissing, AttemptMoves, Phases, Answers
<1> QED
  BY <1>1, <1>3, OneKey

LEMMA PostKeeps ==
  ASSUME TypeOK, DeliveryInv, NEW d \in Keys, NEW n \in Tries, Post(d, n)
  PROVE  DeliveryInv'
<1>1. \A e \in Keys \ {d} : Same(e)
  BY DEF Post, AttemptMoves, Same, TypeOK
<1>2. KeyInv(d) /\ attempts[d][n] = "prepared"
  BY DEF DeliveryInv, Post, AttemptMoves
<1>3. \A m \in Tries \ {n} : requests'[d][m] = requests[d][m]
  BY DEF Post, TypeOK
<1>4. KeyInv(d)'
  BY <1>2, <1>3, InstanceMoves DEF Post, AttemptMoves, Phases
<1> QED
  BY <1>1, <1>4, OneKey

LEMMA ObserveKeeps ==
  ASSUME TypeOK, DeliveryInv, Patient, NEW d \in Keys, NEW n \in Tries,
         NEW answer \in Answers, Observe(d, n, answer)
  PROVE  DeliveryInv'
<1>1. \A e \in Keys \ {d} : Same(e)
  BY DEF Observe, AttemptMoves, Same, TypeOK
<1>2. KeyInv(d) /\ attempts[d][n] = "waiting"
  BY DEF DeliveryInv, Observe, AttemptMoves
<1>3. /\ answer = "ok" => requests[d][n] = "landed"
      /\ answer = "refused" => requests[d][n] = "lost"
      /\ answer # "unconfigured"
  BY DEF Observe, Patient
<1>4. KeyInv(d)'
  BY <1>2, <1>3, InstanceMoves DEF Observe, AttemptMoves, Phases, Answers
<1> QED
  BY <1>1, <1>4, OneKey

LEMMA AttemptDiesKeeps ==
  ASSUME TypeOK, DeliveryInv, NEW d \in Keys, NEW n \in Tries, AttemptDies(d, n)
  PROVE  DeliveryInv'
<1>1. \A e \in Keys \ {d} : Same(e)
  BY DEF AttemptDies, Same, TypeOK
<1>2. KeyInv(d)
  BY DEF DeliveryInv
<1>3. KeyInv(d)'
  BY <1>2, InstanceMoves DEF AttemptDies, Phases
<1> QED
  BY <1>1, <1>3, OneKey

(* The request reaches the target, or does not, whenever it likes.         *)
LEMMA RequestKeeps ==
  ASSUME TypeOK, DeliveryInv, NEW d \in Keys, NEW n \in Tries,
         RequestLands(d, n) \/ RequestLost(d, n)
  PROVE  DeliveryInv'
<1>1. \A e \in Keys \ {d} : Same(e)
  BY DEF RequestLands, RequestLost, Same, TypeOK
<1>2. /\ KeyInv(d) /\ jobs[d] \in JobRows /\ requests[d][n] = "in_flight"
      /\ UNCHANGED <<outbox, jobs, runs, flows, attempts>>
  BY DEF DeliveryInv, RequestLands, RequestLost, TypeOK
<1>3. \A m \in Tries \ {n} : requests'[d][m] = requests[d][m]
  <2>1. CASE RequestLands(d, n)
    BY <2>1 DEF RequestLands, TypeOK
  <2>2. CASE RequestLost(d, n)
    BY <2>2 DEF RequestLost, TypeOK
  <2> QED
    BY <2>1, <2>2
<1>4. n = jobs[d].tries /\ ~MayRunAgain(jobs[d])
  BY <1>2 DEF KeyInv, OnlyLatestActed
<1>5. NumberedAttempts(d)'
  BY <1>2, <1>3 DEF KeyInv, NumberedAttempts
<1>6. AtMostOneDriver(d)'
  BY <1>2 DEF KeyInv, AtMostOneDriver, LiveInstances
<1>7. OnlyLatestActed(d)'
  BY <1>2, <1>3, <1>4 DEF KeyInv, OnlyLatestActed
<1>8. ObservationsHold(d)'
  BY <1>2, <1>3 DEF KeyInv, ObservationsHold
<1>9. EffectsOf(d) \subseteq EffectsOf(d)'
  BY <1>2, <1>3 DEF EffectsOf
<1>10. RowFollowsJob(d)'
  BY <1>2, <1>9 DEF KeyInv, RowFollowsJob
<1> QED
  BY <1>1, <1>5, <1>6, <1>7, <1>8, <1>10, OneKey DEF KeyInv

LEMMA CompleteAttemptKeeps ==
  ASSUME TypeOK, DeliveryInv, NEW d \in Keys, NEW n \in Tries,
         NEW answer \in Answers, CompleteAttempt(d, n, answer)
  PROVE  DeliveryInv'
<1>1. \A e \in Keys \ {d} : Same(e)
  BY DEF CompleteAttempt, CompleteDelivery, RequeueAttempt, AttemptMoves, Same, TypeOK
<1>2. /\ attempts[d][n] = answer /\ attempts' = [attempts EXCEPT ![d][n] = "done"]
      /\ UNCHANGED <<flows, requests>> /\ KeyInv(d)
  BY DEF CompleteAttempt, AttemptMoves, DeliveryInv
<1>3. /\ jobs[d] \in JobRows /\ jobs[d].state = "running" /\ jobs[d].tries = n
      /\ runs[d] = 0 /\ d \notin flows /\ Kind[d] = "echo"
      /\ LiveInstances(d) = {n}
  BY <1>2, LiveIsLatest DEF Answers
<1>4. outbox[d] \in OutboxRows /\ outbox[d].state # "none"
  BY <1>2, <1>3 DEF KeyInv, RowFollowsJob, TypeOK
<1>5. \A m \in Tries : attempts'[d][m] = IF m = n THEN "done" ELSE attempts[d][m]
  BY <1>2 DEF TypeOK
<1>6. \/ /\ jobs'[d].state = "succeeded" /\ outbox'[d].state = "delivered"
         /\ runs'[d] = 0 /\ requests[d][n] = "landed"
      \/ /\ jobs'[d].state = "failed" /\ outbox'[d].state = "failed" /\ runs'[d] = 0
         /\ \/ jobs'[d].ext \in {"timeout", "unknown"}
            \/ requests[d][n] \in {"none", "lost"}
      \/ /\ jobs'[d].state = "queued" /\ outbox'[d].state = "pending" /\ runs'[d] = 1
         /\ requests[d][n] = "lost" /\ n < MaxAttempts
  <2>0. /\ answer = "ok" => requests[d][n] = "landed"
        /\ answer = "refused" => requests[d][n] = "lost"
        /\ answer = "unconfigured" => requests[d][n] = "none"
    BY <1>2 DEF KeyInv, ObservationsHold
  <2>1. CASE OutcomeOf(answer) = "succeeded"
    <3>1. answer = "ok"
      BY <2>1 DEF OutcomeOf
    <3>2. CompleteDelivery(d, "succeeded", "succeeded", "delivered") /\ UNCHANGED runs
      BY <2>1 DEF CompleteAttempt
    <3> QED
      BY <1>3, <1>4, <2>0, <3>1, <3>2 DEF CompleteDelivery, TypeOK, JobRows, OutboxRows
  <2>2. CASE /\ OutcomeOf(answer) # "succeeded"
             /\ CompleteDelivery(d, "failed", OutcomeOf(answer), "failed")
             /\ UNCHANGED runs
    <3>1. OutcomeOf(answer) \in {"timeout", "unknown"} \/ answer \in {"refused", "unconfigured"}
      BY <2>2 DEF OutcomeOf, Answers
    <3>2. /\ jobs'[d].state = "failed" /\ jobs'[d].ext = OutcomeOf(answer)
          /\ outbox'[d].state = "failed" /\ runs'[d] = 0
      BY <1>3, <1>4, <2>2 DEF CompleteDelivery, TypeOK, JobRows, OutboxRows
    <3> QED
      BY <2>0, <3>1, <3>2
  <2>3. CASE /\ OutcomeOf(answer) # "succeeded" /\ answer # "unconfigured"
             /\ NextDeliveryState(OutcomeOf(answer), jobs[d].tries) = "in_flight"
             /\ RequeueAttempt(d)
    <3>1. OutcomeOf(answer) \notin {"timeout", "unknown"} /\ ~(n >= MaxAttempts)
      BY <1>3, <2>3 DEF NextDeliveryState
    <3>2. answer = "refused" /\ n < MaxAttempts
      BY <2>3, <3>1, MaxAttemptsAssumption DEF OutcomeOf, Answers
    <3>3. jobs'[d].state = "queued" /\ outbox'[d].state = "pending" /\ runs'[d] = 1
      BY <1>3, <1>4, <2>3 DEF RequeueAttempt, TypeOK, JobRows, OutboxRows
    <3> QED
      BY <2>0, <3>2, <3>3
  <2> QED
    BY <2>1, <2>2, <2>3 DEF CompleteAttempt
<1>7. jobs'[d].tries = n
  BY <1>3 DEF CompleteAttempt, CompleteDelivery, RequeueAttempt, TypeOK, JobRows
<1>8. NumberedAttempts(d)'
  BY <1>2, <1>3, <1>5, <1>6, <1>7 DEF KeyInv, NumberedAttempts
<1>9. AtMostOneDriver(d)'
  BY <1>2, <1>3, <1>5, <1>6 DEF AtMostOneDriver, LiveInstances
<1>10. OnlyLatestActed(d)'
  BY <1>2, <1>3, <1>6, <1>7 DEF KeyInv, OnlyLatestActed, MayRunAgain, IsUncertainJobFailure
<1>11. ObservationsHold(d)'
  BY <1>2, <1>5 DEF KeyInv, ObservationsHold
<1>12. RowFollowsJob(d)'
  BY <1>2, <1>3, <1>6, <1>7 DEF KeyInv, RowFollowsJob, EffectsOf
<1> QED
  BY <1>1, <1>8, <1>9, <1>10, <1>11, <1>12, OneKey DEF KeyInv

LEMMA ReconcileKeeps ==
  ASSUME TypeOK, DeliveryInv, Patient, NEW d \in Keys, ReconcileDelivery(d)
  PROVE  DeliveryInv'
<1>1. \A e \in Keys \ {d} : Same(e)
  BY DEF ReconcileDelivery, CompleteDelivery, Same, TypeOK
<1>2. /\ KeyInv(d) /\ jobs[d] \in JobRows /\ outbox[d] \in OutboxRows
      /\ runs[d] = 0 /\ Kind[d] = "echo" /\ jobs[d].state \notin {"none", "succeeded"}
      /\ UNCHANGED <<flows, attempts, requests>>
  BY DEF DeliveryInv, ReconcileDelivery, Patient, TypeOK
<1>3. /\ LiveInstances(d) = {} /\ d \notin flows /\ outbox[d].state # "none"
      /\ \A n \in Tries : requests[d][n] # "in_flight"
  BY <1>2
     DEF ReconcileDelivery, Patient, Settled, LiveInstances, KeyInv, AtMostOneDriver,
         RowFollowsJob
<1>4. \/ /\ jobs'[d].state = "succeeded" /\ outbox'[d].state = "delivered"
         /\ runs'[d] = 0 /\ EffectsOf(d) # {}
      \/ /\ jobs'[d].state = "queued" /\ outbox'[d].state = outbox[d].state
         /\ runs'[d] = 1 /\ EffectsOf(d) = {} /\ jobs[d].tries < MaxAttempts
  <2>1. CASE /\ EffectsOf(d) # {}
             /\ CompleteDelivery(d, "succeeded", "succeeded", "delivered")
             /\ UNCHANGED runs
    BY <1>2, <1>3, <2>1 DEF CompleteDelivery, TypeOK, JobRows, OutboxRows
  <2>2. CASE /\ EffectsOf(d) = {} /\ jobs[d].tries < MaxAttempts
             /\ jobs' = [jobs EXCEPT ![d].state = "queued"]
             /\ runs' = [runs EXCEPT ![d] = @ + 1]
             /\ UNCHANGED outbox
    BY <1>2, <2>2 DEF TypeOK, JobRows
  <2> QED
    BY <2>1, <2>2 DEF ReconcileDelivery
<1>5. jobs'[d].tries = jobs[d].tries
  BY <1>2 DEF ReconcileDelivery, CompleteDelivery, TypeOK, JobRows
<1>6. NumberedAttempts(d)' /\ ObservationsHold(d)'
  BY <1>2, <1>4, <1>5 DEF KeyInv, NumberedAttempts, ObservationsHold
<1>7. AtMostOneDriver(d)'
  BY <1>2, <1>3, <1>4 DEF AtMostOneDriver, LiveInstances
<1>8. OnlyLatestActed(d)'
  <2>1. CASE EffectsOf(d) = {}
    <3>1. ASSUME NEW n \in Tries
          PROVE  requests[d][n] \in {"none", "lost"}
      <4>1. requests[d][n] \in {"none", "in_flight", "landed", "lost"}
        BY DEF TypeOK
      <4>2. requests[d][n] # "in_flight"
        BY <1>3
      <4>3. requests[d][n] # "landed"
        BY <2>1 DEF EffectsOf
      <4> QED
        BY <4>1, <4>2, <4>3
    <3> QED
      BY <1>2, <3>1 DEF OnlyLatestActed
  <2>2. CASE EffectsOf(d) # {}
    BY <1>2, <1>4, <1>5, <2>2 DEF KeyInv, OnlyLatestActed, MayRunAgain
  <2> QED
    BY <2>1, <2>2
<1>9. RowFollowsJob(d)'
  <2>1. jobs[d].tries < MaxAttempts => jobs[d].tries # MaxAttempts
    BY <1>2, MaxAttemptsAssumption DEF JobRows
  <2>2. EffectsOf(d)' = EffectsOf(d)
    BY <1>2 DEF EffectsOf
  <2> QED
    BY <1>2, <1>3, <1>4, <1>5, <2>1, <2>2 DEF KeyInv, RowFollowsJob
<1> QED
  BY <1>1, <1>6, <1>7, <1>8, <1>9, OneKey DEF KeyInv

-----------------------------------------------------------------------------
(* The invariant of the specification.                                     *)

LEMMA DeliveryInvInit == Init => DeliveryInv
<1> SUFFICES ASSUME Init, NEW d \in Keys PROVE KeyInv(d)
  BY DEF DeliveryInv
<1>1. /\ jobs[d].state = "none" /\ jobs[d].tries = 0 /\ outbox[d].state = "none"
      /\ runs[d] = 0 /\ d \notin flows
      /\ \A n \in Tries : attempts[d][n] = "none" /\ requests[d][n] = "none"
  BY DEF Init, NoJob, NoRow
<1> QED
  BY <1>1
     DEF KeyInv, NumberedAttempts, AtMostOneDriver, OnlyLatestActed, ObservationsHold,
         RowFollowsJob, LiveInstances

LEMMA DeliveryInvStep ==
  ASSUME Patient, TypeOK, DeliveryInv, [Next]_vars
  PROVE  DeliveryInv'
<1>1. ASSUME NEW d \in Keys, Scheduler(d) PROVE DeliveryInv'
  BY <1>1, ReplayRunKeeps, ExhaustRunKeeps, RunExternalKeeps, RunDelegatedKeeps,
     InlineKeeps
     DEF Scheduler
<1>2. ASSUME NEW d \in Keys, NEW n \in Tries, Instance(d, n) PROVE DeliveryInv'
  BY <1>2, PrepareKeeps, TargetMissingKeeps, PostKeeps, ObserveKeeps, CompleteAttemptKeeps
     DEF Instance
<1>3. CASE UNCHANGED vars
  <2>1. \A d \in Keys : Same(d)
    BY <1>3 DEF vars, Same
  <2> QED
    BY <2>1, Untouched DEF DeliveryInv
<1> QED
  BY <1>1, <1>2, <1>3, DrainKeeps, PublishKeeps, RowFallsDueKeeps, ReplayRunKeeps,
     CompleteAnalysisKeeps, ReconcileKeeps, RequestKeeps, AttemptDiesKeeps
     DEF Next, RecordFails, Patient

(* With patient reconciliation, in every reachable state each job has at   *)
(* most one driver, only its latest attempt can have acted, and its        *)
(* publication record follows it.                                          *)
THEOREM DeliveryInvariant ==
  ASSUME Patient
  PROVE  Spec => [](TypeOK /\ DeliveryInv)
<1>1. Init => TypeOK /\ DeliveryInv
  BY DeliveryInvInit, TypeInit
<1>2. TypeOK /\ DeliveryInv /\ [Next]_vars => (TypeOK /\ DeliveryInv)'
  BY DeliveryInvStep, TypeStep
<1> QED
  BY <1>1, <1>2, PTL DEF Spec

-----------------------------------------------------------------------------
(* The safety properties.                                                  *)

(* No two attempts of one key ever take effect on the external system.     *)
THEOREM EffectTakenOnce ==
  ASSUME Patient
  PROVE  Spec => []AtMostOneEffect
<1>1. TypeOK /\ DeliveryInv => AtMostOneEffect
  BY DEF DeliveryInv, KeyInv, OnlyLatestActed, AtMostOneEffect, EffectsOf
<1> QED
  BY <1>1, DeliveryInvariant, PTL

(* A delivery is reported successful only after its effect.                *)
THEOREM SuccessReported ==
  ASSUME Patient
  PROVE  Spec => []SuccessIsReal
<1>1. TypeOK /\ DeliveryInv => SuccessIsReal
  BY DEF DeliveryInv, KeyInv, RowFollowsJob, SuccessIsReal
<1> QED
  BY <1>1, DeliveryInvariant, PTL

(* A finished delivery shows in its publication record.                    *)
THEOREM RowsReport ==
  ASSUME Patient
  PROVE  Spec => []RowReportsOutcome
<1>1. TypeOK /\ DeliveryInv => RowReportsOutcome
  BY DEF DeliveryInv, KeyInv, RowFollowsJob, RowReportsOutcome
<1> QED
  BY <1>1, DeliveryInvariant, PTL

(* An event that left pending has its reaction registered.                 *)
THEOREM NoOrphans ==
  ASSUME Patient
  PROVE  Spec => []DeliveredIsRegistered
<1>1. TypeOK /\ DeliveryInv => DeliveredIsRegistered
  BY DEF DeliveryInv, KeyInv, RowFollowsJob, DeliveredIsRegistered
<1> QED
  BY <1>1, DeliveryInvariant, PTL

-----------------------------------------------------------------------------
(* What a step may do to a job row.                                        *)

IsOpen(job) == job.state \in {"queued", "running"}

Opens(e) ==
  /\ jobs[e].state \in {"none", "failed"} /\ EffectsOf(e) = {}
  /\ jobs'[e].state = "queued" /\ UNCHANGED requests

JobStep(e) ==
  \/ jobs'[e] = jobs[e]
  \/ IsOpen(jobs[e]) /\ IsOpen(jobs'[e]) /\ UNCHANGED requests
  \/ Opens(e)
  \/ /\ IsOpen(jobs[e]) \/ (IsUncertainJobFailure(jobs[e]) /\ EffectsOf(e) # {})
     /\ jobs'[e].state = "succeeded" /\ UNCHANGED requests
     /\ Kind[e] = "echo" => EffectsOf(e) # {}
  \/ /\ IsOpen(jobs[e]) /\ jobs'[e].state = "failed" /\ UNCHANGED requests
     /\ IsUncertainJobFailure(jobs'[e]) \/ EffectsOf(e) = {}

(* A job that may run again has had no effect.                             *)
LEMMA QuietHasNoEffect ==
  ASSUME NEW d \in Keys, KeyInv(d), MayRunAgain(jobs[d])
  PROVE  EffectsOf(d) = {}
BY DEF KeyInv, OnlyLatestActed, EffectsOf

LEMMA RegisterStep ==
  ASSUME TypeOK, DeliveryInv, NEW D, RegisterJobs(D), UNCHANGED requests, NEW e \in Keys
  PROVE  jobs'[e] = jobs[e] \/ Opens(e)
<1>1. KeyInv(e)
  BY DEF DeliveryInv
<1>2. CASE e \notin D
  BY <1>2 DEF RegisterJobs
<1>3. CASE e \in D /\ jobs[e].state = "none" /\ jobs'[e].state = "queued"
  <2>1. EffectsOf(e) = {}
    BY <1>1, <1>3, MaxAttemptsAssumption DEF KeyInv, NumberedAttempts, EffectsOf
  <2> QED
    BY <1>3, <2>1 DEF Opens, IsOpen
<1>4. CASE /\ e \in D /\ jobs[e].state = "failed" /\ ~IsUncertainJobFailure(jobs[e])
           /\ jobs'[e].state = "queued"
  <2>1. EffectsOf(e) = {}
    BY <1>1, <1>4, QuietHasNoEffect DEF MayRunAgain
  <2> QED
    BY <1>4, <2>1 DEF Opens, IsOpen
<1>5. CASE jobs'[e] = jobs[e]
  BY <1>5
<1>6. jobs[e] \in JobRows
  BY DEF TypeOK
<1>7. CASE e \in D
  <2>1. \/ jobs'[e] = jobs[e]
        \/ jobs[e].state = "none" /\ jobs'[e].state = "queued"
        \/ /\ jobs[e].state = "failed" /\ ~IsUncertainJobFailure(jobs[e])
           /\ jobs'[e].state = "queued"
    <3>1. e \in D \cap Keys
      BY <1>7
    <3>2. /\ [jobs[e] EXCEPT !.state = "queued", !.ext = "none"].state = "queued"
          /\ [state |-> "queued", tries |-> 0, ext |-> "none"].state = "queued"
      BY <1>6 DEF JobRows
    <3> HIDE <1>6
    <3> QED
      BY <3>1, <3>2, RegisterKey
  <2> QED
    BY <1>3, <1>4, <1>5, <1>7, <2>1
<1> QED
  BY <1>2, <1>7

LEMMA SchedulerStep ==
  ASSUME TypeOK, DeliveryInv, NEW d \in Keys, Scheduler(d) \/ RunThrows(d)
  PROVE  JobStep(d) /\ UNCHANGED requests
<1>1. /\ KeyInv(d) /\ runs[d] > 0 /\ UNCHANGED requests
  BY DEF Scheduler, RunThrows, ReplayRun, ExhaustRun, RunExternal, RunDelegated,
         RunInlineSucceeds, RunInlineFails, ConsumeRun, DeliveryInv
<1>2. jobs[d] \in JobRows /\ jobs[d].state = "queued"
  BY <1>1 DEF KeyInv, AtMostOneDriver, TypeOK
<1>3. EffectsOf(d) = {}
  BY <1>1, <1>2, QuietHasNoEffect DEF MayRunAgain
<1>4. CASE ReplayRun(d) \/ RunThrows(d)
  BY <1>1, <1>4 DEF ReplayRun, RunThrows, JobStep
<1>5. CASE ExhaustRun(d)
  <2>1. jobs'[d].state = "failed"
    BY <1>2, <1>5 DEF ExhaustRun, TypeOK, JobRows
  <2> QED
    BY <1>1, <1>2, <1>3, <2>1 DEF JobStep, IsOpen
<1>6. CASE RunExternal(d) \/ RunDelegated(d)
  <2>1. jobs'[d].state = "running"
    BY <1>2, <1>6 DEF RunExternal, RunDelegated, TypeOK, JobRows
  <2> QED
    BY <1>1, <1>2, <2>1 DEF JobStep, IsOpen
<1>7. CASE RunInlineSucceeds(d)
  <2>1. jobs'[d].state = "succeeded" /\ Kind[d] # "echo"
    BY <1>2, <1>7 DEF RunInlineSucceeds, TypeOK, JobRows
  <2> QED
    BY <1>1, <1>2, <2>1 DEF JobStep, IsOpen
<1>8. ASSUME NEW retryable \in BOOLEAN, RunInlineFails(d, retryable) PROVE JobStep(d)
  <2>1. jobs'[d].state \in {"queued", "failed"}
    BY <1>2, <1>8 DEF RunInlineFails, TypeOK, JobRows
  <2> QED
    BY <1>1, <1>2, <1>3, <2>1 DEF JobStep, IsOpen
<1> QED
  BY <1>1, <1>4, <1>5, <1>6, <1>7, <1>8 DEF Scheduler

LEMMA CompleteAnalysisStep ==
  ASSUME TypeOK, DeliveryInv, NEW d \in Keys, NEW result \in {"succeeded", "failed"},
         CompleteAnalysis(d, result)
  PROVE  JobStep(d) /\ UNCHANGED requests
<1>1. /\ KeyInv(d) /\ jobs[d].state = "running" /\ Kind[d] = "flow"
      /\ UNCHANGED requests
  BY DEF DeliveryInv, KeyInv, AtMostOneDriver, CompleteAnalysis
<1>2. EffectsOf(d) = {}
  BY <1>1 DEF KeyInv, NumberedAttempts, EffectsOf
<1>3. jobs'[d].state \in {"succeeded", "failed"}
  BY <1>1 DEF CompleteAnalysis, TypeOK, JobRows
<1> QED
  BY <1>1, <1>2, <1>3 DEF JobStep, IsOpen

LEMMA CompleteAttemptStep ==
  ASSUME TypeOK, DeliveryInv, NEW d \in Keys, NEW n \in Tries, NEW answer \in Answers,
         CompleteAttempt(d, n, answer)
  PROVE  JobStep(d) /\ UNCHANGED requests
<1>1. /\ KeyInv(d) /\ attempts[d][n] = answer /\ UNCHANGED requests
  BY DEF DeliveryInv, CompleteAttempt, AttemptMoves
<1>2. /\ jobs[d] \in JobRows /\ jobs[d].state = "running" /\ jobs[d].tries = n
  BY <1>1, LiveIsLatest DEF Answers
<1>3. CASE OutcomeOf(answer) = "succeeded"
  <2>1. answer = "ok" /\ n \in EffectsOf(d)
    BY <1>1, <1>3 DEF OutcomeOf, KeyInv, ObservationsHold, EffectsOf
  <2>2. jobs'[d].state = "succeeded"
    BY <1>2, <1>3 DEF CompleteAttempt, CompleteDelivery, TypeOK, JobRows
  <2> QED
    BY <1>1, <1>2, <2>1, <2>2 DEF JobStep, IsOpen
<1>4. CASE OutcomeOf(answer) # "succeeded" /\ RequeueAttempt(d)
  <2>1. jobs'[d].state = "queued"
    BY <1>2, <1>4 DEF RequeueAttempt, TypeOK, JobRows
  <2> QED
    BY <1>1, <1>2, <2>1 DEF JobStep, IsOpen
<1>5. CASE /\ OutcomeOf(answer) # "succeeded"
           /\ CompleteDelivery(d, "failed", OutcomeOf(answer), "failed")
  <2>1. jobs'[d].state = "failed" /\ jobs'[d].ext = OutcomeOf(answer)
    BY <1>2, <1>5 DEF CompleteDelivery, TypeOK, JobRows
  <2>2. CASE OutcomeOf(answer) \in {"timeout", "unknown"}
    BY <1>1, <1>2, <2>1, <2>2 DEF JobStep, IsOpen, IsUncertainJobFailure
  <2>3. CASE answer \in {"refused", "unconfigured"}
    <3>1. EffectsOf(d) = {}
      BY <1>1, <1>2, <2>3 DEF KeyInv, OnlyLatestActed, ObservationsHold, EffectsOf
    <3> QED
      BY <1>1, <1>2, <2>1, <3>1 DEF JobStep, IsOpen
  <2> QED
    BY <1>5, <2>2, <2>3 DEF OutcomeOf, Answers
<1> QED
  BY <1>1, <1>3, <1>4, <1>5 DEF CompleteAttempt

LEMMA ReconcileStep ==
  ASSUME TypeOK, DeliveryInv, NEW d \in Keys, ReconcileDelivery(d)
  PROVE  JobStep(d) /\ UNCHANGED requests
<1>1. /\ KeyInv(d) /\ jobs[d] \in JobRows /\ UNCHANGED requests
      /\ jobs[d].state \in {"queued", "running", "failed"}
  BY DEF DeliveryInv, ReconcileDelivery, TypeOK, JobRows, JobStates
<1>2. CASE /\ EffectsOf(d) # {}
           /\ CompleteDelivery(d, "succeeded", "succeeded", "delivered")
  <2>1. jobs'[d].state = "succeeded"
    BY <1>1, <1>2 DEF CompleteDelivery, TypeOK, JobRows
  <2>2. ~MayRunAgain(jobs[d])
    BY <1>1, <1>2, QuietHasNoEffect
  <2> QED
    BY <1>1, <1>2, <2>1, <2>2 DEF JobStep, IsOpen, MayRunAgain
<1>3. CASE EffectsOf(d) = {} /\ jobs' = [jobs EXCEPT ![d].state = "queued"]
  <2>1. jobs'[d].state = "queued"
    BY <1>1, <1>3 DEF TypeOK, JobRows
  <2> QED
    BY <1>1, <1>3, <2>1 DEF JobStep, Opens, IsOpen
<1> QED
  BY <1>1, <1>2, <1>3 DEF ReconcileDelivery

(* The steps of one key leave the other job rows alone.                    *)
LEMMA OneJobStep ==
  ASSUME TypeOK, DeliveryInv, NEW d \in Keys,
         \/ Scheduler(d) \/ RunThrows(d)
         \/ \E result \in {"succeeded", "failed"} : CompleteAnalysis(d, result)
         \/ ReconcileDelivery(d)
         \/ \E n \in Tries, answer \in Answers : CompleteAttempt(d, n, answer)
  PROVE  /\ JobStep(d) /\ UNCHANGED requests
         /\ \A e \in Keys \ {d} : jobs'[e] = jobs[e]
<1>1. JobStep(d) /\ UNCHANGED requests
  BY SchedulerStep, CompleteAnalysisStep, ReconcileStep, CompleteAttemptStep
<1>2. \A e \in Keys \ {d} : jobs'[e] = jobs[e]
  BY DEF Scheduler, ReplayRun, ExhaustRun, RunExternal, RunDelegated, RunInlineSucceeds,
         RunInlineFails, RunThrows, CompleteAnalysis, ReconcileDelivery, CompleteAttempt,
         CompleteDelivery, RequeueAttempt, TypeOK
<1> QED
  BY <1>1, <1>2

LEMMA RegistrationStep ==
  ASSUME TypeOK, DeliveryInv,
         \/ \E B \in SUBSET DueKeys : DrainBatch(B)
         \/ \E d \in Keys : Publish(d)
  PROVE  UNCHANGED requests /\ \A e \in Keys : jobs'[e] = jobs[e] \/ Opens(e)
<1>1. UNCHANGED requests
  BY DEF DrainBatch, Publish
<1>2. jobs' = jobs \/ \E D : RegisterJobs(D)
  BY DEF DrainBatch, Publish
<1> QED
  BY <1>1, <1>2, RegisterStep

(* The remaining steps leave every job row alone.                          *)
QuietStep ==
  \E d \in Keys :
    \/ RowFallsDue(d)
    \/ \E n \in Tries :
         \/ PrepareAttempt(d, n)
         \/ TargetMissing(d, n)
         \/ Post(d, n)
         \/ \E answer \in Answers : Observe(d, n, answer)
         \/ RequestLost(d, n)
         \/ RecordFails(d, n)
         \/ AttemptDies(d, n)

LEMMA NextCases ==
  ASSUME Next
  PROVE  \/ \E B \in SUBSET DueKeys : DrainBatch(B)
         \/ \E d \in Keys : Publish(d)
         \/ \E d \in Keys :
              \/ Scheduler(d) \/ RunThrows(d)
              \/ \E result \in {"succeeded", "failed"} : CompleteAnalysis(d, result)
              \/ ReconcileDelivery(d)
              \/ \E n \in Tries, answer \in Answers : CompleteAttempt(d, n, answer)
         \/ \E d \in Keys : \E n \in Tries : RequestLands(d, n)
         \/ QuietStep
BY DEF Next, Instance, QuietStep

LEMMA NextJobStep ==
  ASSUME TypeOK, DeliveryInv, [Next]_vars, NEW e \in Keys
  PROVE  JobStep(e)
<1>1. CASE UNCHANGED vars
  BY <1>1 DEF vars, JobStep
<1>2. CASE \/ \E B \in SUBSET DueKeys : DrainBatch(B)
           \/ \E d \in Keys : Publish(d)
  BY <1>2, RegistrationStep DEF JobStep
<1>3. ASSUME NEW d \in Keys,
             \/ Scheduler(d) \/ RunThrows(d)
             \/ \E result \in {"succeeded", "failed"} : CompleteAnalysis(d, result)
             \/ ReconcileDelivery(d)
             \/ \E n \in Tries, answer \in Answers : CompleteAttempt(d, n, answer)
      PROVE  JobStep(e)
  BY <1>3, OneJobStep DEF JobStep
<1>4. CASE QuietStep \/ \E d \in Keys : \E n \in Tries : RequestLands(d, n)
  <2>1. UNCHANGED jobs
    BY <1>4 DEF QuietStep, RowFallsDue, PrepareAttempt, TargetMissing, Post, Observe,
                RequestLost, RequestLands, RecordFails, AttemptDies
  <2> QED
    BY <2>1 DEF JobStep
<1> QED
  BY <1>1, <1>2, <1>3, <1>4, NextCases

(* A succeeded job stays succeeded.                                        *)
THEOREM SucceededStays ==
  ASSUME Patient
  PROVE  Spec => SucceededIsFinal
<1>1. TypeOK /\ DeliveryInv /\ [Next]_vars =>
        [\A d \in Keys : jobs[d].state = "succeeded" => jobs'[d] = jobs[d]]_vars
  <2> SUFFICES ASSUME TypeOK, DeliveryInv, [Next]_vars,
                      NEW d \in Keys, jobs[d].state = "succeeded"
               PROVE  jobs'[d] = jobs[d]
    OBVIOUS
  <2>1. JobStep(d)
    BY NextJobStep
  <2> QED
    BY <2>1 DEF JobStep, Opens, IsOpen, IsUncertainJobFailure
<1> QED
  BY <1>1, DeliveryInvariant, PTL DEF Spec, SucceededIsFinal

(* An uncertain failure is left only for what was observed.                *)
THEOREM NoBlindRetry ==
  ASSUME Patient
  PROVE  Spec => UncertainNeedsObservation
<1>1. TypeOK /\ DeliveryInv /\ [Next]_vars =>
        [\A d \in Keys :
           IsUncertainJobFailure(jobs[d]) /\ jobs'[d] # jobs[d] =>
             \/ jobs'[d].state = "succeeded" /\ EffectsOf(d) # {}
             \/ jobs'[d].state = "queued" /\ EffectsOf(d) = {}]_vars
  <2> SUFFICES ASSUME TypeOK, DeliveryInv, [Next]_vars, NEW d \in Keys,
                      IsUncertainJobFailure(jobs[d]), jobs'[d] # jobs[d]
               PROVE  \/ jobs'[d].state = "succeeded" /\ EffectsOf(d) # {}
                      \/ jobs'[d].state = "queued" /\ EffectsOf(d) = {}
    OBVIOUS
  <2>1. JobStep(d)
    BY NextJobStep
  <2> QED
    BY <2>1 DEF JobStep, Opens, IsOpen, IsUncertainJobFailure
<1> QED
  BY <1>1, DeliveryInvariant, PTL DEF Spec, UncertainNeedsObservation

-----------------------------------------------------------------------------
(* The refinement of ExternalDelivery.                                     *)

LEMMA ReportValues ==
  ASSUME NEW job \in JobRows
  PROVE  /\ job.state = "none" => ReportOf(job) = "none"
         /\ IsOpen(job) => ReportOf(job) = "open"
         /\ job.state = "succeeded" => ReportOf(job) = "confirmed"
         /\ IsUncertainJobFailure(job) => ReportOf(job) = "uncertain"
         /\ job.state = "failed" /\ ~IsUncertainJobFailure(job) => ReportOf(job) = "failed"
BY DEF ReportOf, IsOpen, IsUncertainJobFailure

LEMMA RefinesInit == Init => Delivery!Init
<1> SUFFICES ASSUME Init PROVE Delivery!Init
  OBVIOUS
<1>1. \A d \in EchoKeys : ReportOf(jobs[d]) = "none" /\ EffectsOf(d) = {}
  <2> TAKE d \in EchoKeys
  <2>1. jobs[d].state = "none" /\ \A n \in Tries : requests[d][n] = "none"
    BY DEF Init, NoJob, EchoKeys
  <2>2. EffectsOf(d) = {}
    BY <2>1 DEF EffectsOf
  <2>3. ReportOf(jobs[d]) = "none"
    BY <2>1 DEF ReportOf, IsUncertainJobFailure
  <2> QED
    BY <2>2, <2>3
<1> QED
  BY <1>1 DEF Delivery!Init

(* A batch of registrations opens the echo operations it re-queues.        *)
LEMMA RefinesOpen ==
  ASSUME TypeOK, TypeOK', UNCHANGED requests,
         \A e \in Keys : jobs'[e] = jobs[e] \/ Opens(e)
  PROVE  \E D \in SUBSET EchoKeys : Delivery!Open(D)
<1> DEFINE D == {d \in EchoKeys : jobs'[d] # jobs[d]}
<1>1. \A d \in EchoKeys : EffectsOf(d)' = EffectsOf(d) /\ d \in Keys
  BY DEF EffectsOf, EchoKeys
<1>2. \A d \in D : /\ ReportOf(jobs'[d]) = "open" /\ EffectsOf(d) = {}
                   /\ ReportOf(jobs[d]) \in {"none", "failed", "uncertain"}
  <2> TAKE d \in D
  <2>1. Opens(d) /\ jobs[d] \in JobRows /\ jobs'[d] \in JobRows
    BY DEF EchoKeys, TypeOK
  <2> QED
    BY <2>1, ReportValues DEF Opens, IsOpen
<1>3. [d \in EchoKeys |-> ReportOf(jobs[d])]'
        = [d \in EchoKeys |-> IF d \in D THEN "open"
                              ELSE [e \in EchoKeys |-> ReportOf(jobs[e])][d]]
  BY <1>2
<1>4. Delivery!Open(D)
  BY <1>1, <1>2, <1>3 DEF Delivery!Open
<1> QED
  BY <1>4

(* A step of one job row.                                                  *)
LEMMA RefinesOneJob ==
  ASSUME TypeOK, TypeOK', NEW d \in Keys, JobStep(d), UNCHANGED requests,
         \A e \in Keys \ {d} : jobs'[e] = jobs[e]
  PROVE  [Delivery!Next]_<<[e \in EchoKeys |-> ReportOf(jobs[e])],
                           [e \in EchoKeys |-> EffectsOf(e)]>>
<1> DEFINE report  == [e \in EchoKeys |-> ReportOf(jobs[e])]
           effects == [e \in EchoKeys |-> EffectsOf(e)]
<1>1. effects' = effects
  BY DEF EffectsOf
<1>2. CASE d \notin EchoKeys \/ ReportOf(jobs'[d]) = ReportOf(jobs[d])
  <2>1. report' = report
    BY <1>2 DEF EchoKeys
  <2> QED
    BY <1>1, <2>1
<1>3. CASE d \in EchoKeys /\ Opens(d)
  <2>1. \A e \in Keys : jobs'[e] = jobs[e] \/ Opens(e)
    BY <1>3
  <2> QED
    BY <2>1, RefinesOpen DEF Delivery!Next
<1>4. CASE d \in EchoKeys /\ ~Opens(d) /\ ReportOf(jobs'[d]) # ReportOf(jobs[d])
  <2>1. jobs[d] \in JobRows /\ jobs'[d] \in JobRows /\ Kind[d] = "echo"
    BY <1>4 DEF EchoKeys, TypeOK
  <2>2. report' = [report EXCEPT ![d] = ReportOf(jobs'[d])]
    BY <1>4 DEF EchoKeys
  <2>3. \/ /\ ReportOf(jobs[d]) \in {"open", "uncertain"} /\ EffectsOf(d) # {}
           /\ ReportOf(jobs'[d]) = "confirmed"
        \/ /\ ReportOf(jobs[d]) = "open" /\ EffectsOf(d) = {}
           /\ ReportOf(jobs'[d]) = "failed"
        \/ ReportOf(jobs[d]) = "open" /\ ReportOf(jobs'[d]) = "uncertain"
    BY <1>4, <2>1, ReportValues DEF JobStep
  <2>4. Delivery!Confirm(d) \/ Delivery!Fail(d) \/ Delivery!GiveUp(d)
    BY <1>1, <1>4, <2>2, <2>3 DEF Delivery!Confirm, Delivery!Fail, Delivery!GiveUp
  <2> QED
    BY <1>4, <2>4 DEF Delivery!Next
<1> QED
  BY <1>2, <1>3, <1>4

(* A request that lands is the effect of an open or uncertain operation.   *)
LEMMA RefinesLanding ==
  ASSUME TypeOK, DeliveryInv, NEW d \in Keys, NEW n \in Tries, RequestLands(d, n)
  PROVE  d \in EchoKeys /\ Delivery!TakeEffect(d, n)
<1>1. /\ KeyInv(d) /\ jobs[d] \in JobRows /\ requests[d][n] = "in_flight"
      /\ UNCHANGED jobs
  BY DEF DeliveryInv, RequestLands, TypeOK
<1>2. d \in EchoKeys /\ n = jobs[d].tries /\ jobs[d].state # "none" /\ ~MayRunAgain(jobs[d])
  BY <1>1, MaxAttemptsAssumption
     DEF KeyInv, NumberedAttempts, OnlyLatestActed, EchoKeys, JobRows
<1>3. EffectsOf(d) = {}
  BY <1>1, <1>2 DEF KeyInv, OnlyLatestActed, EffectsOf
<1>4. jobs[d].state # "succeeded"
  BY <1>1, <1>2, <1>3 DEF KeyInv, RowFollowsJob, EchoKeys
<1>5. ReportOf(jobs[d]) \in {"open", "uncertain"}
  BY <1>1, <1>2, <1>4, ReportValues DEF MayRunAgain, JobRows, JobStates, IsOpen
<1>6. EffectsOf(d)' = {n}
  <2>1. \A m \in Tries :
          requests'[d][m] = IF m = n THEN "landed" ELSE requests[d][m]
    BY DEF RequestLands, TypeOK
  <2> QED
    BY <1>3, <2>1 DEF EffectsOf
<1>7. \A e \in EchoKeys \ {d} : EffectsOf(e)' = EffectsOf(e)
  BY DEF RequestLands, EffectsOf, TypeOK, EchoKeys
<1>8. [e \in EchoKeys |-> EffectsOf(e)]'
        = [[e \in EchoKeys |-> EffectsOf(e)] EXCEPT ![d] = {n}]
  BY <1>2, <1>6, <1>7
<1> QED
  BY <1>1, <1>2, <1>3, <1>5, <1>8 DEF Delivery!TakeEffect

LEMMA RefinesQuiet ==
  ASSUME TypeOK, DeliveryInv, QuietStep
  PROVE  /\ UNCHANGED jobs
         /\ \A e \in Keys : EffectsOf(e)' = EffectsOf(e)
<1>1. UNCHANGED jobs
  BY DEF QuietStep, RowFallsDue, PrepareAttempt, TargetMissing, Post, Observe,
         RequestLost, RecordFails, AttemptDies
<1>2. ASSUME NEW d \in Keys, NEW n \in Tries, Post(d, n) \/ RequestLost(d, n),
             NEW e \in Keys
      PROVE  EffectsOf(e)' = EffectsOf(e)
  <2>1. requests[d][n] # "landed"
    BY <1>2 DEF DeliveryInv, KeyInv, ObservationsHold, Post, RequestLost, AttemptMoves
  <2>2. \E r \in {"in_flight", "lost"} : requests' = [requests EXCEPT ![d][n] = r]
    BY <1>2 DEF Post, RequestLost
  <2>3. \A m \in Tries : requests'[e][m] = "landed" <=> requests[e][m] = "landed"
    BY <2>1, <2>2 DEF TypeOK
  <2> QED
    BY <2>3 DEF EffectsOf
<1>3. ASSUME UNCHANGED requests, NEW e \in Keys
      PROVE  EffectsOf(e)' = EffectsOf(e)
  BY <1>3 DEF EffectsOf
<1>4. \/ UNCHANGED requests
      \/ \E d \in Keys : \E n \in Tries : Post(d, n) \/ RequestLost(d, n)
  BY DEF QuietStep, RowFallsDue, PrepareAttempt, TargetMissing, Observe, RecordFails,
         AttemptDies
<1> QED
  BY <1>1, <1>2, <1>3, <1>4

(* The engine implements at-most-once delivery.                            *)
THEOREM Implements ==
  ASSUME Patient
  PROVE  Spec => DeliversAtMostOnce
<1>1. TypeOK /\ TypeOK' /\ DeliveryInv /\ [Next]_vars =>
        [Delivery!Next]_<<[d \in EchoKeys |-> ReportOf(jobs[d])],
                          [d \in EchoKeys |-> EffectsOf(d)]>>
  <2> DEFINE report  == [d \in EchoKeys |-> ReportOf(jobs[d])]
             effects == [d \in EchoKeys |-> EffectsOf(d)]
  <2> SUFFICES ASSUME TypeOK, TypeOK', DeliveryInv, [Next]_vars
               PROVE  [Delivery!Next]_<<report, effects>>
    OBVIOUS
  <2>1. CASE UNCHANGED vars
    BY <2>1 DEF vars, EffectsOf
  <2>2. CASE \/ \E B \in SUBSET DueKeys : DrainBatch(B)
             \/ \E d \in Keys : Publish(d)
    BY <2>2, RegistrationStep, RefinesOpen DEF Delivery!Next
  <2>3. ASSUME NEW d \in Keys,
               \/ Scheduler(d) \/ RunThrows(d)
               \/ \E result \in {"succeeded", "failed"} : CompleteAnalysis(d, result)
               \/ ReconcileDelivery(d)
               \/ \E n \in Tries, answer \in Answers : CompleteAttempt(d, n, answer)
        PROVE  [Delivery!Next]_<<report, effects>>
    BY <2>3, OneJobStep, RefinesOneJob
  <2>4. ASSUME NEW d \in Keys, NEW n \in Tries, RequestLands(d, n)
        PROVE  [Delivery!Next]_<<report, effects>>
    BY <2>4, RefinesLanding DEF Delivery!Next
  <2>5. CASE QuietStep
    <3>1. report' = report /\ effects' = effects
      BY <2>5, RefinesQuiet DEF EchoKeys
    <3> QED
      BY <3>1
  <2> QED
    BY <2>1, <2>2, <2>3, <2>4, <2>5, NextCases
<1> QED
  BY <1>1, RefinesInit, DeliveryInvariant, TypeCorrect, PTL
     DEF Spec, DeliversAtMostOnce, Delivery!Spec


-----------------------------------------------------------------------------
(* Somebody drives every unfinished job, and every pending row.            *)

(* The steps of one key.                                                   *)
KeyStep(d) ==
  \/ RowFallsDue(d)
  \/ Scheduler(d)
  \/ RunThrows(d)
  \/ \E result \in {"succeeded", "failed"} : CompleteAnalysis(d, result)
  \/ ReconcileDelivery(d)
  \/ \E n \in Tries :
       \/ Instance(d, n)
       \/ RequestLands(d, n) \/ RequestLost(d, n)
       \/ RecordFails(d, n)
       \/ AttemptDies(d, n)

LEMMA StepCases ==
  ASSUME [Next]_vars
  PROVE  \/ UNCHANGED vars
         \/ \E B \in SUBSET DueKeys : DrainBatch(B)
         \/ \E d \in Keys : Publish(d) \/ KeyStep(d)
BY DEF Next, KeyStep

LEMMA OthersSame ==
  ASSUME TypeOK, NEW d \in Keys, KeyStep(d)
  PROVE  drains' = drains /\ \A e \in Keys \ {d} : Same(e)
<1> DEFINE Goal == drains' = drains /\ \A e \in Keys \ {d} : Same(e)
<1>1. CASE RowFallsDue(d) \/ RunThrows(d)
  BY <1>1 DEF RowFallsDue, RunThrows, ConsumeRun, Same, TypeOK
<1>2. CASE Scheduler(d)
  <2>1. CASE ReplayRun(d) \/ ExhaustRun(d) \/ RunExternal(d) \/ RunDelegated(d)
    BY <2>1 DEF ReplayRun, ExhaustRun, RunExternal, RunDelegated, ConsumeRun, Same, TypeOK
  <2>2. CASE RunInlineSucceeds(d)
    BY <2>2 DEF RunInlineSucceeds, FlipRow, ConsumeRun, Same, TypeOK
  <2>3. ASSUME NEW retryable \in BOOLEAN, RunInlineFails(d, retryable) PROVE Goal
    BY <2>3 DEF RunInlineFails, FlipRow, Same, TypeOK
  <2> QED
    BY <1>2, <2>1, <2>2, <2>3 DEF Scheduler
<1>3. ASSUME NEW result \in {"succeeded", "failed"}, CompleteAnalysis(d, result) PROVE Goal
  BY <1>3 DEF CompleteAnalysis, Same, TypeOK
<1>4. CASE ReconcileDelivery(d)
  BY <1>4 DEF ReconcileDelivery, CompleteDelivery, Same, TypeOK
<1>5. ASSUME NEW n \in Tries, Instance(d, n) PROVE Goal
  <2>1. CASE PrepareAttempt(d, n)
    BY <2>1 DEF PrepareAttempt, AttemptMoves, Same, TypeOK
  <2>2. CASE TargetMissing(d, n) \/ Post(d, n)
    BY <2>2 DEF TargetMissing, Post, AttemptMoves, Same, TypeOK
  <2>3. ASSUME NEW answer \in Answers, Observe(d, n, answer) PROVE Goal
    BY <2>3 DEF Observe, AttemptMoves, Same, TypeOK
  <2>4. ASSUME NEW answer \in Answers, CompleteAttempt(d, n, answer) PROVE Goal
    BY <2>4 DEF CompleteAttempt, CompleteDelivery, RequeueAttempt, AttemptMoves, Same, TypeOK
  <2> QED
    BY <1>5, <2>1, <2>2, <2>3, <2>4 DEF Instance
<1>6. ASSUME NEW n \in Tries, RequestLands(d, n) \/ RequestLost(d, n) \/ RecordFails(d, n)
                              \/ AttemptDies(d, n)
      PROVE  Goal
  BY <1>6 DEF RequestLands, RequestLost, RecordFails, AttemptDies, AttemptMoves, Same, TypeOK
<1> QED
  BY <1>1, <1>2, <1>3, <1>4, <1>5, <1>6 DEF KeyStep

(* What a completed attempt and a reconciliation leave behind.             *)
LEMMA CompletedRows ==
  ASSUME TypeOK, NEW d \in Keys, KeyInv(d), NEW n \in Tries, NEW answer \in Answers,
         CompleteAttempt(d, n, answer)
  PROVE  /\ Kind[d] = "echo"
         /\ \/ jobs'[d].state \in {"succeeded", "failed"} /\ outbox'[d].state # "pending"
            \/ jobs'[d].state = "queued" /\ runs'[d] = 1
<1>1. attempts[d][n] = answer
  BY DEF CompleteAttempt, AttemptMoves
<1>2. /\ jobs[d] \in JobRows /\ runs[d] = 0 /\ Kind[d] = "echo"
      /\ jobs \in [Keys -> JobRows] /\ outbox \in [Keys -> OutboxRows] /\ runs \in [Keys -> Nat]
  BY <1>1, LiveIsLatest DEF Answers, TypeOK
<1>3. ASSUME NEW state, NEW outcome, NEW row, row # "pending",
             CompleteDelivery(d, state, outcome, row)
      PROVE  jobs'[d].state = state /\ outbox'[d].state # "pending"
  BY <1>2, <1>3 DEF CompleteDelivery, JobRows, OutboxRows
<1>4. CASE RequeueAttempt(d)
  BY <1>2, <1>4 DEF RequeueAttempt, JobRows
<1> QED
  BY <1>2, <1>3, <1>4 DEF CompleteAttempt

LEMMA PendingKeeps ==
  ASSUME TypeOK, DeliveryInv, PendingRowIsDriven, [Next]_vars
  PROVE  PendingRowIsDriven'
<1>0. /\ outbox \in [Keys -> OutboxRows] /\ jobs \in [Keys -> JobRows] /\ drains \in Nat
  BY DEF TypeOK
<1> DEFINE Driven(e) == drains > 0 \/ (Kind[e] = "echo" /\ jobs[e].state \in {"queued", "running"})
<1> SUFFICES ASSUME NEW e \in Keys, outbox'[e].state = "pending" PROVE Driven(e)'
  BY DEF PendingRowIsDriven, PendingKeys
<1>a. outbox[e].state = "pending" => Driven(e)
  BY DEF PendingRowIsDriven, PendingKeys
<1>1. CASE UNCHANGED vars
  BY <1>1, <1>a DEF vars
<1>2. ASSUME NEW B \in SUBSET DueKeys, DrainBatch(B) PROVE Driven(e)'
  <2>1. e \in PendingKeys \ B
    BY <1>0, <1>2 DEF DrainBatch, DeliverRows, PendingKeys, OutboxRows
  <2> QED
    BY <1>2, <2>1 DEF DrainBatch
<1>3. ASSUME NEW d \in Keys, Publish(d) PROVE Driven(e)'
  <2>1. CASE drains' = drains + 1
    BY <1>0, <2>1
  <2>2. CASE drains' = drains /\ outbox' = outbox
    <3>1. CASE jobs' = jobs
      BY <1>a, <2>2, <3>1
    <3>2. CASE RegisterJobs({d}) /\ jobs[e].state \in {"queued", "running"}
      <4>1. jobs'[e] = jobs[e]
        BY <3>2 DEF RegisterJobs, RegisteredRow, DecideJobRegistration
      <4> QED
        BY <1>a, <2>2, <4>1
    <3> QED
      BY <1>3, <1>a, <2>2, <3>1, <3>2 DEF Publish
  <2> QED
    BY <1>3, <2>1, <2>2 DEF Publish
<1>4. ASSUME NEW d \in Keys, KeyStep(d) PROVE Driven(e)'
  <2>0. drains' = drains
    BY <1>4, OthersSame
  <2>1. CASE e # d
    BY <1>4, <1>a, <2>0, <2>1, OthersSame DEF Same
  <2>2. CASE e = d /\ drains = 0
    <3>0. KeyInv(d) /\ (outbox[d].state = "pending" => Kind[d] = "echo"
                          /\ jobs[d].state \in {"queued", "running"})
      BY <1>0, <1>a, <2>2 DEF DeliveryInv
    <3>1. CASE jobs'[d] = jobs[d] /\ outbox'[d].state \in {outbox[d].state, "in_flight"}
      BY <2>2, <3>0, <3>1
    <3>2. CASE RowFallsDue(d) \/ RunThrows(d) \/ ReplayRun(d)
      BY <1>0, <3>1, <3>2 DEF RowFallsDue, RunThrows, ReplayRun, OutboxRows
    <3>3. CASE ExhaustRun(d)
      <4>1. jobs[d].state = "queued" /\ jobs[d].tries = MaxAttempts
        <5>1. ConsumeRun(d) /\ jobs[d].tries >= MaxAttempts
          BY <3>3 DEF ExhaustRun
        <5>2. jobs[d] \in JobRows /\ jobs[d].state = "queued"
          BY <3>0, <5>1, ScheduledIsQueued
        <5> QED
          BY <5>1, <5>2, MaxAttemptsAssumption DEF JobRows
      <4>2. outbox[d].state # "pending"
        BY <3>0, <4>1 DEF KeyInv, RowFollowsJob
      <4> QED
        BY <2>2, <3>3, <4>2 DEF ExhaustRun
    <3>4. CASE RunExternal(d) \/ RunDelegated(d)
      <4>1. outbox'[d] = outbox[d] /\ jobs'[d].state = "running"
        BY <1>0, <3>4 DEF RunExternal, RunDelegated, JobRows
      <4> QED
        BY <2>2, <3>0, <4>1
    <3>5. CASE RunInlineSucceeds(d) \/ \E retryable \in BOOLEAN : RunInlineFails(d, retryable)
      <4>1. Kind[d] # "echo"
        BY <3>5 DEF RunInlineSucceeds, RunInlineFails
      <4>2. outbox' = outbox \/ \E state \in {"delivered", "failed"} :
                                 outbox' = [outbox EXCEPT ![d].state = state]
        BY <3>5 DEF RunInlineSucceeds, RunInlineFails, FlipRow
      <4>3. outbox'[d].state = "pending" => outbox[d].state = "pending"
        BY <1>0, <4>2 DEF OutboxRows
      <4> QED
        BY <2>2, <3>0, <4>1, <4>3
    <3>6. ASSUME NEW result \in {"succeeded", "failed"}, CompleteAnalysis(d, result)
          PROVE  Driven(e)'
      BY <2>2, <3>0, <3>6 DEF CompleteAnalysis, KeyInv, AtMostOneDriver
    <3>7. CASE ReconcileDelivery(d)
      <4>1. Kind[d] = "echo"
        BY <3>7 DEF ReconcileDelivery
      <4>2. \/ outbox'[d].state # "pending"
            \/ jobs'[d].state = "queued"
        BY <1>0, <3>7 DEF ReconcileDelivery, CompleteDelivery, OutboxRows, JobRows
      <4> QED
        BY <2>2, <4>1, <4>2
    <3>8. ASSUME NEW n \in Tries, NEW answer \in Answers, CompleteAttempt(d, n, answer)
          PROVE  Driven(e)'
      BY <2>2, <3>0, <3>8, CompletedRows
    <3>9. ASSUME NEW n \in Tries,
                 \/ PrepareAttempt(d, n) \/ TargetMissing(d, n) \/ Post(d, n)
                 \/ \E answer \in Answers : Observe(d, n, answer)
                 \/ RequestLands(d, n) \/ RequestLost(d, n)
                 \/ RecordFails(d, n) \/ AttemptDies(d, n)
          PROVE  Driven(e)'
      BY <1>0, <3>1, <3>9
         DEF PrepareAttempt, TargetMissing, Post, Observe, RequestLands, RequestLost,
             RecordFails, AttemptDies, OutboxRows
    <3> QED
      BY <1>4, <3>2, <3>3, <3>4, <3>5, <3>6, <3>7, <3>8, <3>9
         DEF KeyStep, Scheduler, Instance
  <2>3. CASE drains > 0
    BY <2>0, <2>3
  <2> QED
    BY <1>0, <2>1, <2>2, <2>3
<1> QED
  BY <1>1, <1>2, <1>3, <1>4, StepCases

(* No pending event is forgotten, whatever the size of a batch and however *)
(* many rows wait, and although actions die and executors throw.           *)
THEOREM PendingRowsDriven ==
  ASSUME Patient
  PROVE  Spec => []PendingRowIsDriven
<1>1. Init => PendingRowIsDriven
  BY DEF Init, PendingRowIsDriven, PendingKeys, NoRow
<1> QED
  BY <1>1, PendingKeeps, DeliveryInvariant, PTL DEF Spec

(* With actions that survive and executors that do not throw, every        *)
(* unfinished job has the driver that its state calls for.                 *)
Reliable == ~ActionsMayDie /\ ~ExecutorsThrow

HasDriver(d) ==
  /\ jobs[d].state = "queued" => runs[d] = 1
  /\ jobs[d].state = "running" /\ Kind[d] = "echo" => LiveInstances(d) # {}
  /\ jobs[d].state = "running" /\ Kind[d] = "flow" => d \in flows

LEMMA SameDriver ==
  ASSUME NEW e \in Keys, HasDriver(e), Same(e)
  PROVE  HasDriver(e)'
BY DEF HasDriver, Same, LiveInstances

LEMMA RegisteredHasDriver ==
  ASSUME TypeOK, NEW D, RegisterJobs(D), UNCHANGED <<flows, attempts>>,
         NEW e \in Keys, KeyInv(e), HasDriver(e)
  PROVE  HasDriver(e)'
<1>1. CASE e \notin D
  <2>1. jobs'[e] = jobs[e] /\ runs'[e] = runs[e]
    BY <1>1 DEF RegisterJobs
  <2> QED
    BY <2>1 DEF HasDriver, LiveInstances
<1>2. CASE e \in D
  <2>0. runs[e] \in {0, 1} /\ (runs[e] = 1 => jobs[e].state = "queued")
    BY DEF KeyInv, AtMostOneDriver
  <2>1. CASE jobs'[e] = jobs[e] /\ runs'[e] = runs[e]
    BY <2>1 DEF HasDriver, LiveInstances
  <2>2. CASE /\ jobs[e].state \in {"none", "failed"}
             /\ jobs'[e].state = "queued" /\ runs'[e] = runs[e] + 1
    BY <2>0, <2>2 DEF HasDriver
  <2>3. jobs[e] \in JobRows
    BY DEF TypeOK
  <2>4. /\ [jobs[e] EXCEPT !.state = "queued", !.ext = "none"].state = "queued"
        /\ [state |-> "queued", tries |-> 0, ext |-> "none"].state = "queued"
    BY <2>3 DEF JobRows
  <2>5. e \in D \cap Keys
    BY <1>2
  <2> HIDE <2>3
  <2> QED
    BY <2>1, <2>2, <2>4, <2>5, RegisterKey
<1> QED
  BY <1>1, <1>2

LEMMA DriverKeeps ==
  ASSUME Patient, Reliable, TypeOK, DeliveryInv, [Next]_vars,
         \A d \in Keys : HasDriver(d)
  PROVE  \A d \in Keys : HasDriver(d)'
<1>0. /\ jobs \in [Keys -> JobRows] /\ runs \in [Keys -> Nat]
      /\ attempts \in [Keys -> [Tries -> Phases]]
  BY DEF TypeOK
<1> SUFFICES ASSUME NEW e \in Keys PROVE HasDriver(e)'
  OBVIOUS
<1>a. KeyInv(e) /\ HasDriver(e)
  BY DEF DeliveryInv
<1>1. CASE UNCHANGED vars
  BY <1>1, <1>a, SameDriver DEF vars, Same
<1>2. ASSUME NEW B \in SUBSET DueKeys, DrainBatch(B) PROVE HasDriver(e)'
  BY <1>2, <1>a, RegisteredHasDriver DEF DrainBatch
<1>3. ASSUME NEW d \in Keys, Publish(d) PROVE HasDriver(e)'
  <2>1. CASE RegisterJobs({d}) /\ UNCHANGED <<flows, attempts>>
    BY <1>a, <2>1, RegisteredHasDriver
  <2>2. CASE UNCHANGED <<jobs, runs, flows, attempts>>
    BY <1>a, <2>2 DEF HasDriver, LiveInstances
  <2> QED
    BY <1>3, <2>1, <2>2 DEF Publish
<1>4. ASSUME NEW d \in Keys, KeyStep(d) PROVE HasDriver(e)'
  <2>1. CASE e # d
    BY <1>4, <1>a, <2>1, OthersSame, SameDriver
  <2>2. CASE e = d
    <3>0. KeyInv(d) /\ HasDriver(d)
      BY <1>a, <2>2
    <3>1. CASE RowFallsDue(d)
      BY <2>2, <3>0, <3>1 DEF RowFallsDue, HasDriver, LiveInstances
    <3>2. CASE ReplayRun(d)
      <4>1. ConsumeRun(d) /\ ~Runnable(jobs[d])
        BY <3>2 DEF ReplayRun
      <4>2. jobs[d].state = "queued"
        BY <3>0, <4>1, ScheduledIsQueued
      <4> QED
        BY <4>1, <4>2 DEF Runnable, IsUncertainJobFailure
    <3>3. CASE ExhaustRun(d)
      BY <1>0, <2>2, <3>3 DEF ExhaustRun, HasDriver, JobRows
    <3>4. CASE RunExternal(d)
      <4>1. ConsumeRun(d) /\ StartsAttempt(d) /\ Kind[d] = "echo"
            /\ jobs' = [jobs EXCEPT ![d].state = "running", ![d].tries = @ + 1]
            /\ attempts' = [attempts EXCEPT ![d][jobs[d].tries + 1] = "scheduled"]
        BY <3>4 DEF RunExternal
      <4>2. jobs'[d].state = "running" /\ jobs[d].tries + 1 \in Tries
        BY <1>0, <4>1, MaxAttemptsAssumption DEF StartsAttempt, JobRows
      <4>3. attempts'[d][jobs[d].tries + 1] = "scheduled"
        BY <1>0, <4>1, <4>2
      <4> QED
        BY <2>2, <4>1, <4>2, <4>3 DEF HasDriver, LiveInstances
    <3>5. CASE RunDelegated(d)
      <4>1. jobs'[d].state = "running" /\ d \in flows' /\ Kind[d] = "flow"
        BY <1>0, <3>5 DEF RunDelegated, JobRows
      <4> QED
        BY <2>2, <4>1 DEF HasDriver
    <3>6. CASE RunInlineSucceeds(d)
      BY <1>0, <2>2, <3>6 DEF RunInlineSucceeds, HasDriver, JobRows
    <3>7. ASSUME NEW retryable \in BOOLEAN, RunInlineFails(d, retryable) PROVE HasDriver(e)'
      <4>1. runs[d] = 1
        BY <1>0, <3>0, <3>7 DEF RunInlineFails, KeyInv, AtMostOneDriver
      <4>2. jobs'[d].state \in {"queued", "failed"}
            /\ (jobs'[d].state = "queued" => runs'[d] = runs[d])
        BY <1>0, <3>7 DEF RunInlineFails, JobRows
      <4> QED
        BY <2>2, <4>1, <4>2 DEF HasDriver
    <3>8. ASSUME NEW result \in {"succeeded", "failed"}, CompleteAnalysis(d, result)
          PROVE  HasDriver(e)'
      <4>1. jobs[d].state = "running"
        BY <3>0, <3>8 DEF CompleteAnalysis, KeyInv, AtMostOneDriver
      <4>2. jobs'[d].state \in {"succeeded", "failed"}
        BY <1>0, <3>8, <4>1 DEF CompleteAnalysis, JobRows
      <4> QED
        BY <2>2, <4>2 DEF HasDriver
    <3>9. CASE ReconcileDelivery(d)
      <4>1. runs[d] = 0 /\ jobs[d] \in JobRows
        BY <1>0, <3>9 DEF ReconcileDelivery, Patient
      <4>2. \/ jobs'[d].state = "succeeded"
            \/ jobs'[d].state = "queued" /\ runs'[d] = runs[d] + 1
        BY <1>0, <3>9 DEF ReconcileDelivery, CompleteDelivery, JobRows
      <4> QED
        BY <2>2, <4>1, <4>2 DEF HasDriver
    <3>10. ASSUME NEW n \in Tries, NEW answer \in Answers, CompleteAttempt(d, n, answer)
           PROVE  HasDriver(e)'
      BY <2>2, <3>0, <3>10, CompletedRows DEF HasDriver
    <3>11. ASSUME NEW n \in Tries, PrepareAttempt(d, n) PROVE HasDriver(e)'
      <4>1. attempts[d][n] = "scheduled"
        BY <3>11 DEF PrepareAttempt, AttemptMoves
      <4>2. jobs[d].state = "running" /\ Kind[d] = "echo"
        BY <3>0, <4>1, LiveIsLatest
      <4>3. attempts'[d][n] = "prepared" /\ UNCHANGED jobs
        BY <1>0, <3>11, <4>2 DEF PrepareAttempt, AttemptMoves
      <4> QED
        BY <2>2, <4>2, <4>3 DEF HasDriver, LiveInstances
    <3>12. ASSUME NEW n \in Tries,
                  \/ TargetMissing(d, n) \/ Post(d, n)
                  \/ \E answer \in Answers : Observe(d, n, answer)
           PROVE  HasDriver(e)'
      <4>1. attempts[d][n] \in {"prepared", "waiting"} /\ UNCHANGED jobs
        BY <3>12 DEF TargetMissing, Post, Observe, AttemptMoves
      <4>2. jobs[d].state = "running" /\ Kind[d] = "echo"
        BY <3>0, <4>1, LiveIsLatest
      <4>3. attempts'[d][n] \in {"unconfigured", "waiting"} \union Answers
        <5>1. \E to \in {"unconfigured", "waiting"} \union Answers :
                attempts' = [attempts EXCEPT ![d][n] = to]
          BY <3>12 DEF TargetMissing, Post, Observe, AttemptMoves
        <5> QED
          BY <1>0, <5>1
      <4>4. n \in LiveInstances(d)'
        BY <4>3 DEF LiveInstances, Answers
      <4> QED
        BY <2>2, <4>1, <4>2, <4>4 DEF HasDriver
    <3>13. ASSUME NEW n \in Tries, RequestLands(d, n) \/ RequestLost(d, n)
           PROVE  HasDriver(e)'
      BY <2>2, <3>0, <3>13 DEF RequestLands, RequestLost, HasDriver, LiveInstances
    <3> QED
      BY <1>4, <2>2, <3>1, <3>2, <3>3, <3>4, <3>5, <3>6, <3>7, <3>8, <3>9, <3>10, <3>11,
         <3>12, <3>13
         DEF KeyStep, Scheduler, Instance, RunThrows, RecordFails, AttemptDies, Patient,
             Reliable
  <2> QED
    BY <2>1, <2>2
<1> QED
  BY <1>1, <1>2, <1>3, <1>4, StepCases

(* Every unfinished job has one driver and no second one.                  *)
THEOREM OneDriverEach ==
  ASSUME Patient, Reliable
  PROVE  Spec => []OneDriver
<1> DEFINE Drivers == \A d \in Keys : HasDriver(d)
<1>1. Init => Drivers
  BY DEF Init, HasDriver, NoJob
<1>2. TypeOK /\ DeliveryInv /\ Drivers /\ [Next]_vars => Drivers'
  BY DriverKeeps DEF HasDriver
<1>3. TypeOK /\ DeliveryInv /\ Drivers => OneDriver
  <2> SUFFICES ASSUME TypeOK, DeliveryInv, Drivers, NEW d \in Keys
               PROVE  /\ jobs[d].state = "queued" => runs[d] = 1
                      /\ jobs[d].state = "running" =>
                           /\ runs[d] = 0
                           /\ Kind[d] = "echo" => \E n \in Tries : LiveInstances(d) = {n}
                           /\ Kind[d] = "flow" => d \in flows
    BY DEF OneDriver
  <2>1. KeyInv(d) /\ HasDriver(d)
    BY DEF DeliveryInv
  <2>2. CASE jobs[d].state = "running" /\ Kind[d] = "echo"
    <3>1. PICK n \in Tries : n \in LiveInstances(d)
      BY <2>1, <2>2 DEF HasDriver, LiveInstances
    <3>2. LiveInstances(d) = {n}
      BY <2>1, <3>1, LiveIsLatest DEF LiveInstances
    <3> QED
      BY <2>1, <2>2, <3>2 DEF KeyInv, AtMostOneDriver
  <2> QED
    BY <2>1, <2>2 DEF HasDriver, KeyInv, AtMostOneDriver
<1> HIDE DEF Drivers
<1> QED
  BY <1>1, <1>2, <1>3, DeliveryInvariant, PTL DEF Spec

(****************************************************************************)
(* The index.                                                               *)
(****************************************************************************)

-----------------------------------------------------------------------------
(* Type correctness.                                                       *)

LEMMA KeysAreKeys ==
  /\ \A g \in Generations : BuildKey(g) \in JobKeys
  /\ \A f \in Findings : FindingKey(f) \in JobKeys
  /\ \A s \in Sources : SourceKey(s) \in JobKeys
BY DEF JobKeys

LEMMA RegisteredIndexRowType ==
  ASSUME NEW job \in IndexJobRows
  PROVE  RegisteredRow(job) \in IndexJobRows
<1>1. CASE DecideJobRegistration(job) = "insert"
  <2>1. RegisteredRow(job) = [state |-> "queued", tries |-> 0, ext |-> "none"]
    BY <1>1 DEF RegisteredRow, NoJob
  <2> QED
    BY <2>1, BoundAssumption DEF IndexJobRows
<1>2. CASE DecideJobRegistration(job) = "requeue"
  <2>1. RegisteredRow(job) = [job EXCEPT !.state = "queued", !.ext = "none"]
    BY <1>2 DEF RegisteredRow
  <2> QED
    BY <2>1 DEF IndexJobRows
<1>3. CASE DecideJobRegistration(job) \notin {"insert", "requeue"}
  BY <1>3 DEF RegisteredRow
<1> QED
  BY <1>1, <1>2, <1>3

LEMMA DraftsAreRows ==
  ASSUME IndexTypeOK, NEW k \in JobKeys
  PROVE  DraftsOf(k) \subseteq Rows
<1>1. ASSUME NEW g \in Generations PROVE BuildDrafts(g) \subseteq Rows
  BY <1>1, BoundAssumption DEF BuildDrafts, Rows, IndexTypeOK, Items
<1>2. ASSUME NEW f \in Findings PROVE FindingDrafts(f) \subseteq Rows
  BY <1>2, BoundAssumption DEF FindingDrafts, Rows, IndexTypeOK, Items, InState
<1>3. CASE k \in {BuildKey(g) : g \in Generations}
  <2>1. PICK g \in Generations : k = BuildKey(g)
    BY <1>3
  <2>2. k[1] = "build" /\ k[2] = g
    BY <2>1 DEF BuildKey
  <2>3. k \notin {FindingKey(f) : f \in Findings}
    BY <2>2 DEF FindingKey
  <2>4. DraftsOf(k) = BuildDrafts(k[2])
    BY <1>3, <2>3 DEF DraftsOf
  <2> QED
    BY <2>2, <2>4, <1>1
<1>4. CASE k \in {FindingKey(f) : f \in Findings} /\ k \notin {BuildKey(g) : g \in Generations}
  <2>1. PICK f \in Findings : k = FindingKey(f)
    BY <1>4
  <2>2. k[2] = f
    BY <2>1 DEF FindingKey
  <2>3. DraftsOf(k) = FindingDrafts(k[2])
    BY <1>4 DEF DraftsOf
  <2> QED
    BY <2>2, <2>3, <1>2
<1>5. CASE k \notin {BuildKey(g) : g \in Generations} \union {FindingKey(f) : f \in Findings}
  BY <1>5 DEF DraftsOf
<1> QED
  BY <1>3, <1>4, <1>5

LEMMA IndexTypeInit == IndexInit => IndexTypeOK
BY BoundAssumption
   DEF IndexInit, IndexTypeOK, IndexJobRows, PassStates, QueryStates, NoJob, NoPass, NoQuery

(* The parts of a step that several actions share.                         *)
LEMMA SchedulePassType ==
  ASSUME IndexTypeOK, NEW k \in JobKeys, Starts(k), SchedulePass(k)
  PROVE  indexJobs' \in [JobKeys -> IndexJobRows] /\ passes' \in [JobKeys -> PassStates]
<1>1. /\ indexJobs \in [JobKeys -> IndexJobRows] /\ passes \in [JobKeys -> PassStates]
      /\ indexJobs[k].tries + 1 \in 0..IndexAttempts
  BY BoundAssumption DEF IndexTypeOK, Starts, IndexJobRows
<1>2. indexJobs' \in [JobKeys -> IndexJobRows]
  BY <1>1 DEF SchedulePass, IndexJobRows
<1>3. passes' \in [JobKeys -> PassStates]
  BY <1>1 DEF SchedulePass, PassStates
<1> QED
  BY <1>2, <1>3

LEMMA EndsType ==
  ASSUME IndexTypeOK, NEW k \in JobKeys, NEW state \in {"succeeded", "failed"},
         Starts(k), Ends(k, state)
  PROVE  indexJobs' \in [JobKeys -> IndexJobRows]
<1>1. indexJobs \in [JobKeys -> IndexJobRows] /\ indexJobs[k].tries + 1 \in 0..IndexAttempts
  BY BoundAssumption DEF IndexTypeOK, Starts, IndexJobRows
<1> QED
  BY <1>1 DEF Ends, IndexJobRows

LEMMA PassEndsType ==
  ASSUME IndexTypeOK, NEW k \in JobKeys, NEW state \in {"succeeded", "failed"},
         PassEnds(k, state)
  PROVE  indexJobs' \in [JobKeys -> IndexJobRows] /\ passes' \in [JobKeys -> PassStates]
<1>1. indexJobs \in [JobKeys -> IndexJobRows] /\ passes \in [JobKeys -> PassStates]
  BY DEF IndexTypeOK
<1>2. indexJobs' \in [JobKeys -> IndexJobRows]
  BY <1>1 DEF PassEnds, IndexJobRows
<1>3. passes' \in [JobKeys -> PassStates]
  BY <1>1 DEF PassEnds, PassStates, NoPass
<1> QED
  BY <1>2, <1>3

LEMMA IndexTypeStep == IndexTypeOK /\ [IndexNext]_indexVars => IndexTypeOK'
<1> SUFFICES ASSUME IndexTypeOK, [IndexNext]_indexVars PROVE IndexTypeOK'
  OBVIOUS
<1>0. /\ indexJobs \in [JobKeys -> IndexJobRows] /\ passes \in [JobKeys -> PassStates]
      /\ entries \subseteq Rows /\ query \in QueryStates
  BY DEF IndexTypeOK
<1>1. ASSUME NEW s \in Sources, AcceptSource(s) \/ WithdrawSource(s) \/ PurgeSource(s)
      PROVE  IndexTypeOK'
  <2>1. CASE AcceptSource(s)
    BY <2>1 DEF AcceptSource, IndexTypeOK
  <2>2. CASE WithdrawSource(s)
    BY <2>2, BoundAssumption DEF WithdrawSource, IndexTypeOK, Events, Items
  <2>3. CASE PurgeSource(s)
    BY <2>3, BoundAssumption DEF PurgeSource, IndexTypeOK, Events, Items
  <2> QED
    BY <1>1, <2>1, <2>2, <2>3
<1>2. ASSUME NEW f \in Findings, ReviseFinding(f) PROVE IndexTypeOK'
  BY <1>2, BoundAssumption DEF ReviseFinding, IndexTypeOK, Events, Items
<1>3. ASSUME NEW E \in SUBSET events, DrainEvents(E) PROVE IndexTypeOK'
  <2>1. \A k \in JobKeys : RegisteredRow(indexJobs[k]) \in IndexJobRows
    BY <1>0, RegisteredIndexRowType
  <2>2. indexJobs' \in [JobKeys -> IndexJobRows]
    BY <1>0, <1>3, <2>1 DEF DrainEvents
  <2> QED
    BY <1>3, <2>2 DEF DrainEvents, IndexTypeOK, canonical
<1>4. ASSUME NEW g \in Generations, StartIndexGeneration(g) PROVE IndexTypeOK'
  <2>1. RegisteredRow(indexJobs[BuildKey(g)]) \in IndexJobRows
    BY <1>0, RegisteredIndexRowType, KeysAreKeys
  <2>2. indexJobs' \in [JobKeys -> IndexJobRows]
    BY <1>0, <1>4, <2>1 DEF StartIndexGeneration
  <2>3. generation' \in [Generations -> {"none", "building", "active", "retired"}]
    BY <1>4 DEF StartIndexGeneration, IndexTypeOK
  <2> QED
    BY <1>4, <2>2, <2>3 DEF StartIndexGeneration, IndexTypeOK, canonical
<1>5. ASSUME NEW g \in Generations, CutOverIndexGeneration(g) PROVE IndexTypeOK'
  <2>1. generation' \in [Generations -> {"none", "building", "active", "retired"}]
    BY <1>5 DEF CutOverIndexGeneration, IndexTypeOK
  <2> QED
    BY <1>5, <2>1 DEF CutOverIndexGeneration, IndexTypeOK, canonical
<1>6. ASSUME NEW k \in JobKeys, RunJob(k) PROVE IndexTypeOK'
  <2>1. CASE RunExhausted(k)
    <3>1. indexJobs' \in [JobKeys -> IndexJobRows]
      BY <1>0, <2>1 DEF RunExhausted, IndexJobRows
    <3> QED
      BY <2>1, <3>1 DEF RunExhausted, IndexTypeOK, canonical
  <2>2. ASSUME NEW s \in Sources, RunRefreshSource(s) PROVE IndexTypeOK'
    <3>1. indexJobs' \in [JobKeys -> IndexJobRows]
      BY <2>2, EndsType, KeysAreKeys DEF RunRefreshSource
    <3> QED
      BY <2>2, <3>1 DEF RunRefreshSource, DropRows, IndexTypeOK, canonical
  <2>3. ASSUME NEW f \in Findings, RunRefreshFinding(f) PROVE IndexTypeOK'
    <3>1. indexJobs' \in [JobKeys -> IndexJobRows] /\ passes' \in [JobKeys -> PassStates]
      BY <1>0, <2>3, EndsType, SchedulePassType, KeysAreKeys DEF RunRefreshFinding
    <3> QED
      BY <2>3, <3>1 DEF RunRefreshFinding, DropRows, IndexTypeOK, canonical
  <2>4. ASSUME NEW g \in Generations, RunBuild(g) PROVE IndexTypeOK'
    <3>1. indexJobs' \in [JobKeys -> IndexJobRows] /\ passes' \in [JobKeys -> PassStates]
      BY <1>0, <2>4, EndsType, SchedulePassType, KeysAreKeys DEF RunBuild
    <3> QED
      BY <2>4, <3>1 DEF RunBuild, IndexTypeOK, canonical
  <2> QED
    BY <1>6, <2>1, <2>2, <2>3, <2>4 DEF RunJob
<1>7. ASSUME NEW k \in JobKeys, Pass(k) \/ PassDies(k) PROVE IndexTypeOK'
  <2>1. CASE LoadWork(k)
    <3>1. passes' \in [JobKeys -> PassStates]
      BY <1>0, <2>1, DraftsAreRows DEF LoadWork, PassStates
    <3> QED
      BY <2>1, <3>1 DEF LoadWork, IndexTypeOK, canonical
  <2>2. CASE RejectOutput(k)
    <3>1. indexJobs' \in [JobKeys -> IndexJobRows] /\ passes' \in [JobKeys -> PassStates]
      BY <2>2, PassEndsType DEF RejectOutput
    <3> QED
      BY <2>2, <3>1 DEF RejectOutput, IndexTypeOK, canonical
  <2>3. CASE RecordEntries(k)
    <3>1. indexJobs' \in [JobKeys -> IndexJobRows] /\ passes' \in [JobKeys -> PassStates]
      BY <2>3, PassEndsType DEF RecordEntries
    <3>2. entries' \subseteq Rows
      BY <1>0, <2>3 DEF RecordEntries, Written, PassStates
    <3> QED
      BY <2>3, <3>1, <3>2 DEF RecordEntries, IndexTypeOK, canonical
  <2>4. CASE PassDies(k)
    <3>1. passes' \in [JobKeys -> PassStates]
      BY <1>0, <2>4 DEF PassDies, PassStates
    <3> QED
      BY <2>4, <3>1 DEF PassDies, IndexTypeOK, canonical
  <2> QED
    BY <1>7, <2>1, <2>2, <2>3, <2>4 DEF Pass
<1>8. CASE QueryScope \/ QueryRows \/ QueryHydrate
  <2>1. query' \in QueryStates
    <3>1. CASE QueryScope
      BY <3>1 DEF QueryScope, QueryStates, InState
    <3>2. CASE QueryRows
      BY <1>0, <3>2 DEF QueryRows, QueryStates
    <3>3. CASE QueryHydrate
      BY <1>0, <3>3 DEF QueryHydrate, QueryStates
    <3> QED
      BY <1>8, <3>1, <3>2, <3>3
  <2> QED
    BY <1>8, <2>1 DEF QueryScope, QueryRows, QueryHydrate, IndexTypeOK, canonical
<1>9. CASE UNCHANGED indexVars
  BY <1>9 DEF indexVars, IndexTypeOK
<1> QED
  BY <1>1, <1>2, <1>3, <1>4, <1>5, <1>6, <1>7, <1>8, <1>9 DEF IndexNext

(* Every variable keeps its type, whatever the order of the transactions.  *)
THEOREM IndexTypeCorrect == IndexSpec => []IndexTypeOK
<1> QED
  BY IndexTypeInit, IndexTypeStep, PTL DEF IndexSpec

-----------------------------------------------------------------------------
(* The inductive invariant.  A step changes generations, jobs and passes,  *)
(* rows or the query; each group of conjuncts has its lemma.               *)

LEMMA IndexInvInit == IndexInit => IndexInv
<1> SUFFICES ASSUME IndexInit PROVE IndexInv
  OBVIOUS
<1>1. InState("building") = {} /\ InState("active") = {}
  BY DEF IndexInit, InState
<1>2. \A k \in JobKeys : ~LivePass(k) /\ passes[k].drafts = {}
  BY DEF IndexInit, LivePass, NoPass
<1>3. QueryIsOfOne
  BY DEF IndexInit, NoQuery, QueryIsOfOne, AtMostOne, OnePerItem
<1>4. entries = {}
  BY DEF IndexInit
<1> QED
  BY <1>1, <1>2, <1>3, <1>4 DEF IndexInv, AtMostOne, PassesRun, ActiveIsBuilt, OnePerItem

(* Only the start and the cutover change a generation.                     *)
LEMMA GenerationCases ==
  ASSUME [IndexNext]_indexVars
  PROVE  \/ generation' = generation
         \/ \E g \in Generations : StartIndexGeneration(g) \/ CutOverIndexGeneration(g)
BY DEF IndexNext, indexVars, AcceptSource, WithdrawSource, PurgeSource, ReviseFinding, DrainEvents,
       RunJob, RunExhausted, RunRefreshSource, RunRefreshFinding, RunBuild, Pass,
       LoadWork, RejectOutput, RecordEntries, PassDies, QueryScope, QueryRows, QueryHydrate

LEMMA StartedStates ==
  ASSUME IndexTypeOK, NEW g \in Generations, StartIndexGeneration(g)
  PROVE  /\ InState("building")' = {g}
         /\ InState("active")' = InState("active")
<1> QED
  BY DEF IndexTypeOK, StartIndexGeneration, InState

LEMMA CutOverStates ==
  ASSUME IndexTypeOK, NEW g \in Generations, CutOverIndexGeneration(g)
  PROVE  /\ InState("building")' \subseteq InState("building")
         /\ InState("active")' = {g}
<1> QED
  BY DEF IndexTypeOK, CutOverIndexGeneration, InState

LEMMA GenerationsKeep ==
  ASSUME IndexTypeOK, AtMostOne(InState("building")), AtMostOne(InState("active")), [IndexNext]_indexVars
  PROVE  AtMostOne(InState("building")') /\ AtMostOne(InState("active")')
<1>1. CASE generation' = generation
  BY <1>1 DEF InState, AtMostOne
<1>2. ASSUME NEW g \in Generations, StartIndexGeneration(g)
      PROVE  AtMostOne(InState("building")') /\ AtMostOne(InState("active")')
  BY <1>2, StartedStates DEF AtMostOne
<1>3. ASSUME NEW g \in Generations, CutOverIndexGeneration(g)
      PROVE  AtMostOne(InState("building")') /\ AtMostOne(InState("active")')
  BY <1>3, CutOverStates DEF AtMostOne
<1> QED
  BY <1>1, <1>2, <1>3, GenerationCases

(* A registration leaves a row alone that runs or succeeded.               *)
LEMMA RegistrationKeeps ==
  ASSUME NEW job, job.state \in {"running", "succeeded"}
  PROVE  RegisteredRow(job) = job
BY DEF RegisteredRow, DecideJobRegistration

(* What a step does to a job and to its pass.                              *)
IndexJobStep(k) ==
  \/ indexJobs'[k] \in {indexJobs[k], RegisteredRow(indexJobs[k])} /\ passes'[k] = passes[k]
  \/ indexJobs[k].state = "queued" /\ passes'[k] = passes[k]
  \/ indexJobs[k].state = "queued" /\ indexJobs'[k].state = "running"
  \/ LivePass(k) /\ indexJobs'[k] = indexJobs[k]
  \/ LivePass(k) /\ ~LivePass(k)'

LEMMA JobSteps ==
  ASSUME IndexTypeOK, [IndexNext]_indexVars, NEW k \in JobKeys
  PROVE  IndexJobStep(k)
<1>0. indexJobs \in [JobKeys -> IndexJobRows] /\ passes \in [JobKeys -> PassStates]
  BY DEF IndexTypeOK
<1>1. CASE UNCHANGED <<indexJobs, passes>>
  BY <1>1 DEF IndexJobStep
<1>2. ASSUME NEW E \in SUBSET events, DrainEvents(E) PROVE IndexJobStep(k)
  BY <1>0, <1>2 DEF DrainEvents, IndexJobStep
<1>3. ASSUME NEW g \in Generations, StartIndexGeneration(g) PROVE IndexJobStep(k)
  BY <1>0, <1>3, KeysAreKeys DEF StartIndexGeneration, IndexJobStep
<1>4. ASSUME NEW j \in JobKeys, RunJob(j) PROVE IndexJobStep(k)
  <2>1. CASE RunExhausted(j)
    BY <1>0, <2>1 DEF RunExhausted, IndexJobStep
  <2>2. ASSUME NEW i \in JobKeys, NEW state, Starts(i), Ends(i, state), UNCHANGED passes
        PROVE  IndexJobStep(k)
    BY <1>0, <2>2 DEF Starts, Ends, IndexJobStep
  <2>3. ASSUME NEW i \in JobKeys, Starts(i), SchedulePass(i) PROVE IndexJobStep(k)
    <3>1. CASE i = k
      <4>1. indexJobs'[k].state = "running"
        BY <1>0, <2>3, <3>1 DEF SchedulePass, IndexJobRows
      <4> QED
        BY <4>1, <2>3, <3>1 DEF Starts, IndexJobStep
    <3>2. CASE i # k
      BY <1>0, <2>3, <3>2 DEF SchedulePass, IndexJobStep
    <3> QED
      BY <3>1, <3>2
  <2>4. ASSUME NEW s \in Sources, RunRefreshSource(s) PROVE IndexJobStep(k)
    BY <2>2, <2>4, KeysAreKeys DEF RunRefreshSource
  <2>5. ASSUME NEW f \in Findings, RunRefreshFinding(f) PROVE IndexJobStep(k)
    BY <2>2, <2>3, <2>5, KeysAreKeys DEF RunRefreshFinding
  <2>6. ASSUME NEW g \in Generations, RunBuild(g) PROVE IndexJobStep(k)
    BY <2>2, <2>3, <2>6, KeysAreKeys DEF RunBuild
  <2> QED
    BY <1>4, <2>1, <2>4, <2>5, <2>6 DEF RunJob
<1>5. ASSUME NEW j \in JobKeys, Pass(j) \/ PassDies(j) PROVE IndexJobStep(k)
  <2>1. CASE LoadWork(j)
    BY <1>0, <2>1 DEF LoadWork, LivePass, IndexJobStep
  <2>2. ASSUME NEW state, PassEnds(j, state) PROVE IndexJobStep(k)
    BY <1>0, <2>2 DEF PassEnds, NoPass, LivePass, IndexJobStep
  <2>3. CASE PassDies(j)
    BY <1>0, <2>3 DEF PassDies, LivePass, IndexJobStep
  <2> QED
    BY <1>5, <2>1, <2>2, <2>3 DEF Pass, RejectOutput, RecordEntries
<1> QED
  BY <1>1, <1>2, <1>3, <1>4, <1>5
     DEF IndexNext, indexVars, AcceptSource, WithdrawSource, PurgeSource, ReviseFinding,
         CutOverIndexGeneration, QueryScope, QueryRows, QueryHydrate

LEMMA PassesRunKeeps ==
  ASSUME IndexTypeOK, PassesRun, [IndexNext]_indexVars
  PROVE  PassesRun'
<1> SUFFICES ASSUME NEW k \in JobKeys, LivePass(k)' PROVE indexJobs'[k].state = "running"
  BY DEF PassesRun
<1>1. LivePass(k) => indexJobs[k].state = "running"
  BY DEF PassesRun
<1>2. passes'[k] = passes[k] => LivePass(k)
  BY DEF LivePass
<1> QED
  BY <1>1, <1>2, JobSteps, RegistrationKeeps DEF IndexJobStep

(* A succeeded job stays succeeded.                                        *)
LEMMA SucceededKeeps ==
  ASSUME IndexTypeOK, PassesRun, [IndexNext]_indexVars, NEW k \in JobKeys, indexJobs[k].state = "succeeded"
  PROVE  indexJobs'[k].state = "succeeded"
<1>1. ~LivePass(k)
  BY DEF PassesRun
<1> QED
  BY <1>1, JobSteps, RegistrationKeeps DEF IndexJobStep

LEMMA ActiveIsBuiltKeeps ==
  ASSUME IndexTypeOK, PassesRun, ActiveIsBuilt, [IndexNext]_indexVars
  PROVE  ActiveIsBuilt'
<1> SUFFICES ASSUME NEW h \in InState("active")'
             PROVE  indexJobs'[BuildKey(h)].state = "succeeded"
  BY DEF ActiveIsBuilt, BuildKey
<1>0. h \in Generations /\ BuildKey(h) \in JobKeys
  BY KeysAreKeys DEF InState
<1>1. CASE h \in InState("active")
  BY <1>0, <1>1, SucceededKeeps DEF ActiveIsBuilt
<1>2. CASE h \notin InState("active")
  <2>1. CutOverIndexGeneration(h)
    <3>1. generation' # generation
      BY <1>2 DEF InState
    <3>2. ASSUME NEW g \in Generations, StartIndexGeneration(g) PROVE FALSE
      BY <1>2, <3>2, StartedStates
    <3>3. ASSUME NEW g \in Generations, CutOverIndexGeneration(g) PROVE g = h
      BY <3>3, CutOverStates
    <3> QED
      BY <3>1, <3>2, <3>3, GenerationCases
  <2> QED
    BY <1>0, <2>1, SucceededKeeps DEF CutOverIndexGeneration
<1> QED
  BY <1>1, <1>2

(* What a pass reads names an item once per generation, because an item    *)
(* is a source or a finding and has one current revision.                  *)
LEMMA DraftsAreOnePerItem ==
  ASSUME NEW k \in JobKeys
  PROVE  OnePerItem(DraftsOf(k))
<1>1. ASSUME NEW g PROVE OnePerItem(BuildDrafts(g))
  <2> SUFFICES ASSUME NEW d \in BuildDrafts(g), NEW e \in BuildDrafts(g), d.item = e.item
               PROVE  d = e
    BY DEF OnePerItem
  <2>1. CASE d.item \in Sources
    BY <2>1, ItemsAssumption DEF BuildDrafts
  <2>2. CASE d.item \notin Sources
    BY <2>2, ItemsAssumption DEF BuildDrafts
  <2> QED
    BY <2>1, <2>2
<1>2. ASSUME NEW f PROVE OnePerItem(FindingDrafts(f))
  BY DEF FindingDrafts, OnePerItem
<1>3. OnePerItem({})
  BY DEF OnePerItem
<1>4. CASE k \in {BuildKey(g) : g \in Generations}
  <2>1. PICK g \in Generations : k = BuildKey(g)
    BY <1>4
  <2>2. k \notin {FindingKey(f) : f \in Findings}
    BY <2>1 DEF BuildKey, FindingKey
  <2>3. DraftsOf(k) = BuildDrafts(k[2])
    BY <1>4, <2>2 DEF DraftsOf
  <2> QED
    BY <2>3, <1>1
<1>5. CASE k \in {FindingKey(f) : f \in Findings} /\ k \notin {BuildKey(g) : g \in Generations}
  <2>1. DraftsOf(k) = FindingDrafts(k[2])
    BY <1>5 DEF DraftsOf
  <2> QED
    BY <2>1, <1>2
<1>6. CASE k \notin {BuildKey(g) : g \in Generations} \union {FindingKey(f) : f \in Findings}
  <2>1. DraftsOf(k) = {}
    BY <1>6 DEF DraftsOf
  <2> QED
    BY <2>1, <1>3
<1> QED
  BY <1>4, <1>5, <1>6

LEMMA DraftsKeep ==
  ASSUME IndexTypeOK, [IndexNext]_indexVars, NEW k \in JobKeys, OnePerItem(passes[k].drafts)
  PROVE  OnePerItem(passes'[k].drafts)
<1>0. passes \in [JobKeys -> PassStates] /\ OnePerItem({})
  BY DEF IndexTypeOK, OnePerItem
<1>1. CASE passes'[k].drafts \in {passes[k].drafts, {}, DraftsOf(k)}
  BY <1>0, <1>1, DraftsAreOnePerItem
<1>2. passes'[k].drafts \in {passes[k].drafts, {}, DraftsOf(k)}
  <2>1. CASE UNCHANGED passes
    BY <2>1
  <2>2. ASSUME NEW j \in JobKeys, SchedulePass(j)
        PROVE  passes'[k].drafts \in {passes[k].drafts, {}}
    BY <1>0, <2>2 DEF SchedulePass
  <2>3. ASSUME NEW j \in JobKeys, RunJob(j)
        PROVE  passes'[k].drafts \in {passes[k].drafts, {}}
    BY <2>2, <2>3, KeysAreKeys
       DEF RunJob, RunExhausted, RunRefreshSource, RunRefreshFinding, RunBuild
  <2>4. ASSUME NEW j \in JobKeys, Pass(j) \/ PassDies(j)
        PROVE  passes'[k].drafts \in {passes[k].drafts, {}, DraftsOf(k)}
    <3>1. CASE LoadWork(j)
      BY <1>0, <3>1 DEF LoadWork
    <3>2. ASSUME NEW state, PassEnds(j, state)
          PROVE  passes'[k].drafts \in {passes[k].drafts, {}}
      BY <1>0, <3>2 DEF PassEnds, NoPass
    <3>3. CASE PassDies(j)
      BY <1>0, <3>3 DEF PassDies
    <3> QED
      BY <2>4, <3>1, <3>2, <3>3 DEF Pass, RejectOutput, RecordEntries
  <2> QED
    BY <2>1, <2>3, <2>4
       DEF IndexNext, indexVars, AcceptSource, WithdrawSource, PurgeSource, ReviseFinding, DrainEvents,
           StartIndexGeneration, CutOverIndexGeneration, QueryScope, QueryRows, QueryHydrate
<1> QED
  BY <1>1, <1>2

(* Rows are dropped, or written by a pass that is not refused.             *)
LEMMA EntriesCases ==
  ASSUME [IndexNext]_indexVars
  PROVE  \/ entries' \subseteq entries
         \/ \E k \in JobKeys : /\ ~Refused(passes[k].drafts)
                              /\ entries' = Written(passes[k].drafts)
<1>1. ASSUME NEW k \in JobKeys, RunJob(k) PROVE entries' \subseteq entries
  BY <1>1 DEF RunJob, RunExhausted, RunRefreshSource, RunRefreshFinding, RunBuild, DropRows
<1>2. ASSUME NEW k \in JobKeys, Pass(k) \/ PassDies(k)
      PROVE  \/ entries' = entries
             \/ ~Refused(passes[k].drafts) /\ entries' = Written(passes[k].drafts)
  BY <1>2 DEF Pass, LoadWork, RejectOutput, RecordEntries, PassDies
<1> QED
  BY <1>1, <1>2
     DEF IndexNext, indexVars, AcceptSource, WithdrawSource, PurgeSource, ReviseFinding, DrainEvents,
         StartIndexGeneration, CutOverIndexGeneration, QueryScope, QueryRows, QueryHydrate

LEMMA EntriesKeep ==
  ASSUME [IndexNext]_indexVars, OnePerItem(entries), \A k \in JobKeys : OnePerItem(passes[k].drafts)
  PROVE  OnePerItem(entries')
<1>1. CASE entries' \subseteq entries
  BY <1>1 DEF OnePerItem
<1>2. ASSUME NEW k \in JobKeys, entries' = Written(passes[k].drafts)
      PROVE  OnePerItem(entries')
  BY <1>2 DEF Written, OnePerItem
<1> QED
  BY <1>1, <1>2, EntriesCases

LEMMA QueryKeeps ==
  ASSUME IndexTypeOK, AtMostOne(InState("active")), OnePerItem(entries), QueryIsOfOne, [IndexNext]_indexVars
  PROVE  QueryIsOfOne'
<1>0. query \in QueryStates
  BY DEF IndexTypeOK
<1>1. CASE query' = query
  BY <1>1 DEF QueryIsOfOne, AtMostOne, OnePerItem
<1>2. CASE QueryScope
  <2>1. query'.gen = InState("active") /\ query'.rows = {}
    BY <1>2 DEF QueryScope
  <2> QED
    BY <2>1 DEF QueryIsOfOne, AtMostOne, OnePerItem
<1>3. CASE QueryRows
  <2>1. query'.gen = query.gen /\ query'.rows = {e \in entries : e.gen \in query.gen}
    BY <1>0, <1>3 DEF QueryRows, QueryStates
  <2> QED
    BY <2>1 DEF QueryIsOfOne, AtMostOne, OnePerItem
<1>4. CASE QueryHydrate
  <2>1. query'.gen = query.gen /\ query'.rows = {e \in query.rows : Keep(e)}
    BY <1>0, <1>4 DEF QueryHydrate, QueryStates
  <2> QED
    BY <2>1 DEF QueryIsOfOne, AtMostOne, OnePerItem
<1> QED
  BY <1>1, <1>2, <1>3, <1>4
     DEF IndexNext, indexVars, AcceptSource, WithdrawSource, PurgeSource, ReviseFinding, DrainEvents,
         StartIndexGeneration, CutOverIndexGeneration, RunJob, RunExhausted,
         RunRefreshSource, RunRefreshFinding, RunBuild, Pass, LoadWork, RejectOutput,
         RecordEntries, PassDies

LEMMA IndexInvStep == IndexTypeOK /\ IndexInv /\ [IndexNext]_indexVars => IndexInv'
<1> SUFFICES ASSUME IndexTypeOK, IndexInv, [IndexNext]_indexVars PROVE IndexInv'
  OBVIOUS
<1>1. AtMostOne(InState("building"))' /\ AtMostOne(InState("active"))'
  BY GenerationsKeep DEF IndexInv, AtMostOne
<1>2. PassesRun' /\ ActiveIsBuilt'
  BY PassesRunKeeps, ActiveIsBuiltKeeps DEF IndexInv
<1>3. (\A k \in JobKeys : OnePerItem(passes[k].drafts))'
  BY DraftsKeep DEF IndexInv, OnePerItem
<1>4. OnePerItem(entries)'
  BY EntriesKeep DEF IndexInv, OnePerItem
<1>5. QueryIsOfOne'
  BY QueryKeeps DEF IndexInv
<1> QED
  BY <1>1, <1>2, <1>3, <1>4, <1>5 DEF IndexInv

(* The invariant from which the safety theorems follow, whatever passes    *)
(* are lost and however transactions interleave with the external passes.  *)
THEOREM IndexInvariant == IndexSpec => []IndexInv
<1> QED
  BY IndexTypeCorrect, IndexInvInit, IndexInvStep, PTL DEF IndexSpec

-----------------------------------------------------------------------------
(* The safety properties.                                                  *)

LEMMA AtMostOneCardinality ==
  ASSUME NEW S, AtMostOne(S)
  PROVE  Cardinality(S) <= 1
<1>1. CASE S = {}
  <2>1. Cardinality(S) = 0
    BY <1>1, FS_EmptySet
  <2> QED
    BY <2>1
<1>2. ASSUME NEW x \in S PROVE Cardinality(S) <= 1
  <2>1. S = {x}
    BY <1>2 DEF AtMostOne
  <2>2. Cardinality({x}) = 1
    BY FS_Singleton
  <2> QED
    BY <2>1, <2>2
<1> QED
  BY <1>1, <1>2

(* The gate of the start and the atomic switch of the cutover keep one     *)
(* generation building and one serving, for any number of generations.     *)
THEOREM OneOfEach == IndexSpec => []OneBuildsOneServes
<1>1. IndexInv => OneBuildsOneServes
  BY AtMostOneCardinality DEF IndexInv, OneBuildsOneServes
<1> QED
  BY <1>1, IndexInvariant, PTL

(* No generation serves without a finished, successful build.              *)
THEOREM ServingVerified == IndexSpec => []ServingIsVerified
<1>1. IndexInv => ServingIsVerified
  <2> SUFFICES ASSUME IndexInv, NEW g \in InState("active")
               PROVE  indexJobs[BuildKey(g)].state = "succeeded" /\ ~LivePass(BuildKey(g))
    BY DEF ServingIsVerified
  <2>1. BuildKey(g) \in JobKeys
    BY KeysAreKeys DEF InState
  <2> QED
    BY <2>1 DEF IndexInv, ActiveIsBuilt, PassesRun
<1> QED
  BY <1>1, IndexInvariant, PTL

(* Builds and refreshes, in any order, leave one row of an item per        *)
(* generation.                                                             *)
THEOREM OneRowEach == IndexSpec => []FindingHasOneRow
<1>1. IndexInv => FindingHasOneRow
  BY DEF IndexInv, FindingHasOneRow
<1> QED
  BY <1>1, IndexInvariant, PTL

-----------------------------------------------------------------------------
(* The action properties.                                                  *)

(* No start and no cutover leaves the company without a serving index.     *)
THEOREM ServiceGoesOn == IndexSpec => ServingContinues
<1>1. IndexTypeOK /\ [IndexNext]_indexVars => [InState("active") # {} => InState("active")' # {}]_indexVars
  <2> SUFFICES ASSUME IndexTypeOK, [IndexNext]_indexVars, InState("active") # {}
               PROVE  InState("active")' # {}
    OBVIOUS
  <2>1. CASE generation' = generation
    BY <2>1 DEF InState
  <2>2. ASSUME NEW g \in Generations, StartIndexGeneration(g) PROVE InState("active")' # {}
    BY <2>2, StartedStates
  <2>3. ASSUME NEW g \in Generations, CutOverIndexGeneration(g) PROVE InState("active")' # {}
    BY <2>3, CutOverStates
  <2> QED
    BY <2>1, <2>2, <2>3, GenerationCases
<1> QED
  BY <1>1, IndexTypeCorrect, PTL DEF IndexSpec, ServingContinues

(* A pass that outlives the generation it read for writes nothing to it.   *)
THEOREM RetiredStaysAsItIs == IndexSpec => RetiredGainsNothing
<1>1. [IndexNext]_indexVars => [\A e \in entries' \ entries : generation[e.gen] # "retired"]_indexVars
  <2> SUFFICES ASSUME [IndexNext]_indexVars, NEW e \in entries' \ entries
               PROVE  generation[e.gen] # "retired"
    OBVIOUS
  <2>1. PICK k \in JobKeys : /\ ~Refused(passes[k].drafts)
                             /\ entries' = Written(passes[k].drafts)
    BY EntriesCases
  <2>2. e \in passes[k].drafts
    BY <2>1 DEF Written
  <2> QED
    BY <2>1, <2>2 DEF Refused
<1> QED
  BY <1>1, PTL DEF IndexSpec, RetiredGainsNothing

(* Whatever changed between the three reads of a query, its answer has     *)
(* only current evidence and each item once.                               *)
THEOREM AnswersAreCurrent == IndexSpec => AnswerIsCurrent
<1> DEFINE Current ==
      query.phase = "hydrate" /\ query'.phase = "done" =>
        /\ \A e \in query'.rows :
             IF e.item \in Sources THEN lifecycle[e.item] = "active"
                                   ELSE e.rev = revision[e.item]
        /\ \A d, e \in query'.rows : d.item = e.item => d = e
<1>1. IndexTypeOK /\ IndexInv /\ IndexInv' /\ [IndexNext]_indexVars => [Current]_indexVars
  <2> SUFFICES ASSUME IndexTypeOK, IndexInv', [IndexNext]_indexVars,
                      query.phase = "hydrate", query'.phase = "done"
               PROVE  Current
    OBVIOUS
  <2>1. QueryHydrate
    BY DEF IndexNext, indexVars, AcceptSource, WithdrawSource, PurgeSource, ReviseFinding, DrainEvents,
           StartIndexGeneration, CutOverIndexGeneration, RunJob, RunExhausted,
           RunRefreshSource, RunRefreshFinding, RunBuild, Pass, LoadWork, RejectOutput,
           RecordEntries, PassDies, QueryScope, QueryRows
  <2>2. query'.rows = {e \in query.rows : Keep(e)}
    BY <2>1 DEF QueryHydrate, IndexTypeOK, QueryStates
  <2>3. ASSUME NEW e \in query'.rows
        PROVE  IF e.item \in Sources THEN lifecycle[e.item] = "active"
                                     ELSE e.rev = revision[e.item]
    BY <2>2, <2>3, ItemsAssumption DEF Keep
  <2>4. ASSUME NEW d \in query'.rows, NEW e \in query'.rows, d.item = e.item
        PROVE  d = e
    BY <2>4 DEF IndexInv, QueryIsOfOne, AtMostOne, OnePerItem
  <2> QED
    BY <2>3, <2>4
<1> QED
  BY <1>1, IndexTypeCorrect, IndexInvariant, PTL DEF IndexSpec, AnswerIsCurrent
=============================================================================
