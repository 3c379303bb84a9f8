---------------------------- MODULE JobDecisions ----------------------------
(***************************************************************************)
(* The pure decisions about a durable job row that every component of the  *)
(* durable-execution engine shares (packages/runtime/src/outbox.ts and     *)
(* registerDurableJob of convex/platform/publish.ts).  A job row is looked *)
(* up by its dedup key inside the registering transaction; the row of a    *)
(* key that was never registered is NoJob.                                 *)
(*                                                                         *)
(* The operators named as faults are the ways these decisions could be     *)
(* wrong; no specification uses them.                                      *)
(***************************************************************************)
EXTENDS Naturals

NoJob == [state |-> "none", tries |-> 0, ext |-> "none"]

(* A fault: an ambiguous answer is taken for a definite failure.           *)
UnknownIsDefinite(job) ==
  job.state = "failed" /\ job.ext = "timeout"

IsUncertainJobFailure(job) ==
  job.state = "failed" /\ job.ext \in {"timeout", "unknown"}

(* Two faulty decisions: an uncertain failure is re-queued like a definite *)
(* one; a succeeded row is re-queued on replay.                            *)
DecideForgetsUncertain(job) ==
  CASE job.state = "none"                             -> "insert"
    [] job.state \in {"succeeded", "queued", "running"} -> "skip"
    [] OTHER                                          -> "requeue"
DecideForgetsSuccess(job) ==
  CASE job.state = "none"                -> "insert"
    [] job.state \in {"queued", "running"} -> "skip"
    [] IsUncertainJobFailure(job)        -> "skip"
    [] OTHER                             -> "requeue"

DecideJobRegistration(job) ==
  CASE job.state = "none"                             -> "insert"
    [] job.state \in {"succeeded", "queued", "running"} -> "skip"
    [] IsUncertainJobFailure(job)                     -> "skip"
    [] OTHER                                          -> "requeue"

(* What a registration leaves in the table: one row per key; a definitely  *)
(* failed row is re-queued and keeps its attempt count.                    *)
RegisteredRow(job) ==
  CASE DecideJobRegistration(job) = "insert"  -> [NoJob EXCEPT !.state = "queued"]
    [] DecideJobRegistration(job) = "requeue" ->
         [job EXCEPT !.state = "queued", !.ext = "none"]
    [] OTHER                                  -> job
=============================================================================
