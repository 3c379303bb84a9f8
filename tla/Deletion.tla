------------------------------- MODULE Deletion -------------------------------
(***************************************************************************)
(* The permanent deletion of a source (convex/operations/deletion): the    *)
(* tombstone, one stage row per family of derivatives, the durable purge   *)
(* job with its five stages inside the transaction and the media stage     *)
(* through the gateway (apps/gateway/src/purge), beside the clarification  *)
(* cases that quote sources (convex/memory/findings), an image             *)
(* normalization that is still under way, and the exports of module        *)
(* Exports.                                                                *)
(*                                                                         *)
(* A case keeps the sources its conflicting fragments belong to, and those *)
(* its resolution cites.  Of its text the model knows whether it stands or *)
(* is replaced by the redaction copy, and from which sources it came.      *)
(***************************************************************************)
EXTENDS Exports, Sequences

CONSTANTS
  Cases,          \* identities of clarification cases
  PurgeAttempts   \* maxAttempts of the purge job

ASSUME DeletionNumbers == PurgeAttempts \in Nat \ {0}

VARIABLES
  stages,     \* deletionPurgeStages.state by source and kind
  purgeJobs,  \* durable jobs of kind deletion.purge_source
  mediaCalls, \* the runMediaPurge action of the current attempt
  keys,       \* objectKeysJson of the media stage
  recorded,   \* object keys of attachments and representations
  bytes,      \* objects of the source in the media bucket
  imaging,    \* an image normalization of the source under way
  cases       \* clarifications

deletionVars == <<stages, purgeJobs, mediaCalls, keys, recorded, bytes, imaging, cases>>

InTransaction == <<"transcripts", "findings_marking", "search_index", "notification_work",
                   "exports">>
InTransactionKinds == {InTransaction[n] : n \in DOMAIN InTransaction}
StageKinds == InTransactionKinds \union {"media_objects"}
Files == {"received", "derived"}
Texts == {"none", "shown", "redacted"}
CaseRows == [state : {"none", "open", "resolved"}, links : SUBSET Sources,
             cites : SUBSET Sources, basis : {"none", "manual", "source_backed", "legacy"},
             question : Texts, note : Texts, asked : SUBSET Sources, answered : SUBSET Sources]

DeletionTypeOK ==
  /\ ExportTypeOK
  /\ stages \in [Sources -> [StageKinds -> {"none", "pending", "failed", "purged"}]]
  /\ purgeJobs \in [Sources -> [state : {"none", "queued", "running", "succeeded", "failed"},
                                attempts : 0 .. PurgeAttempts]]
  /\ mediaCalls \in [Sources -> {"none", "scheduled", "ok", "retry", "uncertain"}]
  /\ keys \in [Sources -> (SUBSET Files) \union {{"undefined"}}]
  /\ recorded \in [Sources -> SUBSET Files] /\ bytes \in [Sources -> SUBSET Files]
  /\ imaging \in [Sources -> {"none", "reading", "stored"}]
  /\ cases \in [Cases -> CaseRows]

NoCase == [state |-> "none", links |-> {}, cites |-> {}, basis |-> "none", question |-> "none",
           note |-> "none", asked |-> {}, answered |-> {}]

\* An older row has a resolution without a basis.
LegacyCase(s) ==
  [NoCase EXCEPT !.state = "resolved", !.links = {s}, !.basis = "legacy", !.question = "shown",
                 !.note = "shown", !.asked = {s}, !.answered = {s}]

DeletionInit ==
  /\ ExportInit
  /\ stages = [s \in Sources |-> [k \in StageKinds |-> "none"]]
  /\ purgeJobs = [s \in Sources |-> [state |-> "none", attempts |-> 0]]
  /\ mediaCalls = [s \in Sources |-> "none"]
  /\ keys = [s \in Sources |-> {"undefined"}]
  /\ recorded \in [Sources -> {{}, {"received"}}]
  /\ bytes = recorded
  /\ imaging = [s \in Sources |-> IF recorded[s] = {} THEN "none" ELSE "reading"]
  /\ cases \in [Cases -> {NoCase} \union {LegacyCase(s) : s \in Sources}]

(***************************************************************************)
(* Clarification cases.                                                    *)
(***************************************************************************)
RaiseClarification(c) ==
  /\ cases[c].state = "none"
  /\ \E links \in SUBSET (Sources \ purged) \ {{}} :
       cases' = [cases EXCEPT ![c] = [NoCase EXCEPT !.state = "open", !.links = links,
                                        !.question = "shown", !.asked = links]]
  /\ UNCHANGED <<exportVars, stages, purgeJobs, mediaCalls, keys, recorded, bytes, imaging>>

QuestionRedacted(case) == case.question = "redacted" \/ case.links \intersect purged # {}

NoteRedacted(case) ==
  \/ case.note = "redacted"
  \/ /\ case.state = "resolved"
     /\ case.cites \intersect purged # {} \/ (case.basis = "legacy" /\ QuestionRedacted(case))

Actionable(case) == case.state # "open" \/ ~QuestionRedacted(case)

ResolveClarification(c) ==
  /\ cases[c].state = "open" /\ Actionable(cases[c])
  /\ \E cites \in SUBSET (Sources \ purged) :
       cases' = [cases EXCEPT ![c] =
                   [cases[c] EXCEPT !.state = "resolved", !.cites = cites, !.note = "shown",
                                    !.basis = IF cites = {} THEN "manual" ELSE "source_backed",
                                    !.answered = cites]]
  /\ UNCHANGED <<exportVars, stages, purgeJobs, mediaCalls, keys, recorded, bytes, imaging>>

\* A fault: the fragments are deleted first, and no case is found through them.
LinksWithoutFragments(case, s) == s \in case.cites

LinksToSource(case, s) == s \in case.links \union case.cites

\* Every dead link goes, those to another purged source too.
Redacted(case) ==
  [case EXCEPT !.question = IF QuestionRedacted(case) THEN "redacted" ELSE @,
               !.note = IF NoteRedacted(case) THEN "redacted" ELSE @,
               !.links = @ \ purged, !.cites = @ \ purged]

PurgeClarificationContent(s) ==
  [c \in Cases |-> IF LinksToSource(cases[c], s) THEN Redacted(cases[c]) ELSE cases[c]]

(***************************************************************************)
(* An image normalization: it looks at no lifecycle.                       *)
(***************************************************************************)
StoreDerived(s) ==
  /\ imaging[s] = "reading"
  /\ imaging' = [imaging EXCEPT ![s] = "stored"]
  /\ bytes' = [bytes EXCEPT ![s] = @ \union {"derived"}]
  /\ UNCHANGED <<exportVars, stages, purgeJobs, mediaCalls, keys, recorded, cases>>

RecordDerived(s) ==
  /\ imaging[s] = "stored"
  /\ imaging' = [imaging EXCEPT ![s] = "none"]
  /\ recorded' = [recorded EXCEPT ![s] = @ \union {"derived"}]
  /\ UNCHANGED <<exportVars, stages, purgeJobs, mediaCalls, keys, bytes, cases>>

(***************************************************************************)
(* The purge.                                                              *)
(***************************************************************************)
PurgeSource(s) ==
  /\ Tombstone(s)
  /\ stages' = [stages EXCEPT ![s] = [k \in StageKinds |-> "pending"]]
  /\ purgeJobs' = [purgeJobs EXCEPT ![s].state = "queued"]
  /\ UNCHANGED <<buildJobs, drives, builds, archives,
                 mediaCalls, keys, recorded, bytes, imaging, cases>>

LinkedExportsAreTerminal(s) ==
  \A x \in Exports : s \in exports[x].links => exports[x].state \notin PreTerminal

\* The stages the attempt leaves purged, when the marking may refuse.
Reached(s, refuses) ==
  {InTransaction[n] : n \in {m \in DOMAIN InTransaction :
     \A i \in 1 .. m : /\ InTransaction[i] \in refuses => stages[s][InTransaction[i]] = "purged"
                       /\ InTransaction[i] = "exports" => LinkedExportsAreTerminal(s)}}

\* The first stage the attempt does not get through is marked failed.
Stopped(done) == CHOOSE n \in DOMAIN InTransaction :
                   /\ InTransaction[n] \notin done
                   /\ \A i \in 1 .. n - 1 : InTransaction[i] \in done

AfterStages(s, done) ==
  [k \in StageKinds |->
     CASE k \in done -> "purged"
       [] done # InTransactionKinds /\ k = InTransaction[Stopped(done)] -> "failed"
       [] OTHER -> stages[s][k]]

AttemptsLeft(s) == purgeJobs[s].attempts < PurgeAttempts

\* One attempt inside its transaction: a stage that refuses ends it, and when
\* all are through the media stage records its keys and leaves for the gateway.
RunPurge(s) ==
  /\ purgeJobs[s].state = "queued" /\ AttemptsLeft(s)
  /\ \E refuses \in {{}, {"findings_marking"}} :
       LET done == Reached(s, refuses)
           through == done = InTransactionKinds
           tries == purgeJobs[s].attempts + 1
           after == AfterStages(s, done)
           media == IF recorded[s] = {} THEN "purged" ELSE "pending"
       IN /\ stages' = [stages EXCEPT ![s] = IF through THEN [after EXCEPT !["media_objects"] = media]
                                             ELSE after]
          /\ keys' = IF through /\ (keys[s] = {"undefined"} \/ stages[s]["media_objects"] = "failed")
                       THEN [keys EXCEPT ![s] = recorded[s]]
                       ELSE keys
          /\ purgeJobs' = [purgeJobs EXCEPT ![s] =
               [state |-> IF through THEN IF media = "purged" THEN "succeeded" ELSE "running"
                          ELSE IF tries < PurgeAttempts THEN "queued" ELSE "failed",
                attempts |-> tries]]
          /\ mediaCalls' = [mediaCalls EXCEPT ![s] =
               IF through /\ media = "pending" THEN "scheduled" ELSE @]
          /\ cases' = IF "transcripts" \in done /\ stages[s]["transcripts"] # "purged"
                        THEN PurgeClarificationContent(s)
                        ELSE cases
  /\ UNCHANGED <<exportVars, recorded, bytes, imaging>>

\* A retry of the media stage counts no attempts itself; the next run does.
ExhaustPurge(s) ==
  /\ purgeJobs[s].state = "queued" /\ ~AttemptsLeft(s)
  /\ purgeJobs' = [purgeJobs EXCEPT ![s].state = "failed"]
  /\ UNCHANGED <<exportVars, stages, mediaCalls, keys, recorded, bytes, imaging, cases>>

\* The gateway asks for the recorded keys and deletes them; when the answer is
\* bad or does not come, any of them may be gone.
CallPurgeRoute(s) ==
  /\ mediaCalls[s] = "scheduled"
  /\ \E gone \in SUBSET keys[s], outcome \in {"ok", "retry", "uncertain"} :
       /\ outcome = "ok" => gone = keys[s]
       /\ mediaCalls' = [mediaCalls EXCEPT ![s] = outcome]
       /\ bytes' = [bytes EXCEPT ![s] = @ \ gone]
  /\ UNCHANGED <<exportVars, stages, purgeJobs, keys, recorded, imaging, cases>>

\* A fault: an uncertain outcome fails the job and leaves its stage pending.
FailsRetriesOnly(outcome) ==
  CASE outcome = "ok" -> "purged" [] outcome = "retry" -> "failed" [] OTHER -> "pending"

StageAfterCall(outcome) == IF outcome = "ok" THEN "purged" ELSE "failed"

\* mediaPurgeDone, or recordOutcome with the failure of the stage.
RecordPurgeOutcome(s) ==
  /\ mediaCalls[s] \in {"ok", "retry", "uncertain"}
  /\ stages' = [stages EXCEPT ![s]["media_objects"] = StageAfterCall(mediaCalls[s])]
  /\ purgeJobs' = [purgeJobs EXCEPT ![s].state =
                     CASE mediaCalls[s] = "ok" -> "succeeded"
                       [] mediaCalls[s] = "retry" -> "queued"
                       [] OTHER -> "failed"]
  /\ mediaCalls' = [mediaCalls EXCEPT ![s] = "none"]
  /\ UNCHANGED <<exportVars, keys, recorded, bytes, imaging, cases>>

DeletionNext ==
  \/ ExportSteps /\ UNCHANGED deletionVars
  \/ \E c \in Cases : RaiseClarification(c) \/ ResolveClarification(c)
  \/ \E s \in Sources :
       \/ StoreDerived(s) \/ RecordDerived(s) \/ PurgeSource(s) \/ RunPurge(s)
       \/ ExhaustPurge(s) \/ CallPurgeRoute(s) \/ RecordPurgeOutcome(s)

DeletionSpec == DeletionInit /\ [][DeletionNext]_<<exportVars, deletionVars>>

(***************************************************************************)
(* Properties.                                                             *)
(***************************************************************************)

(* Once the transcripts stage of a deleted source is through, no stored    *)
(* text of a clarification stems from it, also when another source of the  *)
(* case is being deleted at the time and its links went with the first     *)
(* redaction (purgeClarificationContentForSource,                          *)
(* clarificationContentRuleOf).                                            *)
PurgedTextIsRedacted ==
  \A s \in Sources, c \in Cases :
    stages[s]["transcripts"] = "purged" =>
      /\ s \in cases[c].asked => cases[c].question = "redacted"
      /\ s \in cases[c].answered => cases[c].note = "redacted"

(* A purge job that failed shows a failed stage, and one that succeeded    *)
(* leaves none behind: what is not purged can be seen (PURGE_DEADLINE_MS,  *)
(* recordPurgeOutcome, runStage).                                          *)
PurgeIsVisible ==
  \A s \in Sources :
    /\ purgeJobs[s].state = "failed" => \E k \in StageKinds : stages[s][k] = "failed"
    /\ purgeJobs[s].state = "succeeded" => \A k \in StageKinds : stages[s][k] = "purged"

(* A source whose media stage is purged has no bytes left in the bucket    *)
(* (the stage of the derivatives of its attachments).                      *)
PurgedMediaIsGone ==
  \A s \in Sources : stages[s]["media_objects"] = "purged" => bytes[s] = {}
===============================================================================
