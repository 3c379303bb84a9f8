------------------------------- MODULE Exports -------------------------------
(***************************************************************************)
(* The export of a company (convex/operations/exports, apps/export-worker):*)
(* an export row, its durable build job, the action that drives one        *)
(* attempt, and the worker that reads a snapshot, stores the archive and   *)
(* publishes it.  A source may be deleted for good at any moment.          *)
(*                                                                         *)
(* An attempt is known by its build token, here the number of the attempt, *)
(* and an archive by its export and token: the object key has both.  The   *)
(* download refuses what its window or its links forbid and changes        *)
(* nothing that the expiry and the eager invalidation do not change too.   *)
(***************************************************************************)
EXTENDS Naturals, FiniteSets

CONSTANTS
  Exports,        \* identities of export rows
  Sources,        \* accepted messages of the company
  BuildAttempts   \* maxAttempts of the build job

ASSUME ExportNumbers == BuildAttempts \in Nat \ {0}

VARIABLES
  exports,   \* rows of the exports table with their source links
  buildJobs, \* durable jobs of kind exports.build_archive
  drives,    \* the runBuild action of the current attempt
  builds,    \* what the worker does for each token
  archives,  \* objects in the bucket: <<export, token>>
  cleanups,  \* the cleanupExport action of each export
  purged     \* sources with the lifecycle purged

exportVars == <<exports, buildJobs, drives, builds, archives, cleanups, purged>>

Tokens == 1 .. BuildAttempts
InFlight == {"requested", "building"}
PreTerminal == InFlight \union {"available"}
ExportRows == [state : {"none", "expired", "invalidated", "failed"} \union PreTerminal,
               token : {0} \union Tokens, object : {0} \union Tokens,
               links : SUBSET Sources, cleaned : BOOLEAN]
Answers == {"none", "ok", "refused", "retry"}
BuildSteps == {"none", "requested", "assembling", "stored", "published", "discarding",
               "answered", "lost"}

ExportTypeOK ==
  /\ exports \in [Exports -> ExportRows]
  /\ buildJobs \in [Exports -> [state : {"none", "queued", "running", "succeeded", "failed"},
                                attempts : {0} \union Tokens]]
  /\ drives \in [Exports -> [step : {"none", "scheduled", "posted", "observed"},
                             outcome : {"none", "succeeded", "failed", "retry", "uncertain"}]]
  /\ builds \in [Exports -> [Tokens -> [step : BuildSteps, answer : Answers,
                                        holds : SUBSET Sources]]]
  /\ archives \subseteq Exports \X Tokens
  /\ cleanups \in [Exports -> {"none", "scheduled", "over"}]
  /\ purged \subseteq Sources

NoExport == [state |-> "none", token |-> 0, object |-> 0, links |-> {}, cleaned |-> FALSE]
NoDrive == [step |-> "none", outcome |-> "none"]

ExportInit ==
  /\ exports = [x \in Exports |-> NoExport]
  /\ buildJobs = [x \in Exports |-> [state |-> "none", attempts |-> 0]]
  /\ drives = [x \in Exports |-> NoDrive]
  /\ builds = [x \in Exports |-> [t \in Tokens |->
                  [step |-> "none", answer |-> "none", holds |-> {}]]]
  /\ archives = {}
  /\ cleanups = [x \in Exports |-> "none"]
  /\ purged = {}

(***************************************************************************)
(* The row and its job.                                                    *)
(***************************************************************************)
MayRequest == \A x \in Exports : exports[x].state \notin InFlight

RequestExport(x) ==
  /\ exports[x].state = "none" /\ MayRequest
  /\ exports' = [exports EXCEPT ![x].state = "requested"]
  /\ buildJobs' = [buildJobs EXCEPT ![x].state = "queued"]
  /\ UNCHANGED <<drives, builds, archives, cleanups, purged>>

\* The executor: a fresh token for each attempt, nothing for a terminal row.
BeginBuild(x) ==
  /\ buildJobs[x].state = "queued"
  /\ LET t == buildJobs[x].attempts + 1
         begins == exports[x].state \in InFlight
     IN /\ buildJobs' = [buildJobs EXCEPT ![x] =
                           [state |-> IF begins THEN "running" ELSE "succeeded", attempts |-> t]]
        /\ exports' = IF begins
                        THEN [exports EXCEPT ![x] = [exports[x] EXCEPT !.state = "building", !.token = t]]
                        ELSE exports
        /\ drives' = IF begins THEN [drives EXCEPT ![x].step = "scheduled"] ELSE drives
  /\ UNCHANGED <<builds, archives, cleanups, purged>>

\* runBuild reads the row and posts its token to the worker.  The row is
\* still building: nobody knows the fresh token yet.
PostBuild(x) ==
  /\ drives[x].step = "scheduled"
  /\ exports[x].state = "building"
  /\ drives' = [drives EXCEPT ![x].step = "posted"]
  /\ builds' = [builds EXCEPT ![x][exports[x].token].step = "requested"]
  /\ UNCHANGED <<exports, buildJobs, archives, cleanups, purged>>

Classified(answer) ==
  CASE answer = "ok" -> "succeeded" [] answer = "retry" -> "retry" [] OTHER -> "failed"

\* The worker answers, or the connection breaks, the deadline passes or the
\* answer cannot be read; then the row is read again.
ObserveBuild(x) ==
  /\ drives[x].step = "posted"
  /\ \E outcome \in {"retry", "uncertain"} \union
                    {Classified(b.answer) : b \in {c \in {builds[x][exports[x].token]} :
                                                   c.step = "answered"}} :
       drives' = [drives EXCEPT ![x] =
                    [step |-> "observed",
                     outcome |-> IF exports[x].state = "available" THEN "succeeded"
                                 ELSE outcome]]
  /\ UNCHANGED <<exports, buildJobs, builds, archives, cleanups, purged>>

FailBuild(x, t) ==
  IF exports[x].state = "building" /\ exports[x].token = t
    THEN [exports EXCEPT ![x].state = "failed"]
    ELSE exports

RecordBuildOutcome(x) ==
  /\ drives[x].step = "observed"
  /\ LET outcome == drives[x].outcome
         again == outcome = "retry" /\ buildJobs[x].attempts < BuildAttempts
     IN /\ buildJobs' = [buildJobs EXCEPT ![x].state =
                           CASE outcome = "succeeded" -> "succeeded"
                             [] again -> "queued"
                             [] OTHER -> "failed"]
        /\ exports' = IF outcome = "succeeded" \/ again THEN exports
                      ELSE FailBuild(x, exports[x].token)
  /\ drives' = [drives EXCEPT ![x] = NoDrive]
  /\ UNCHANGED <<builds, archives, cleanups, purged>>

(***************************************************************************)
(* The worker.  Its request may arrive late, when the action has given up. *)
(***************************************************************************)
Answered(x, t, answer) ==
  [builds EXCEPT ![x][t] = [builds[x][t] EXCEPT !.step = "answered", !.answer = answer]]

\* One query reads the whole company; a purged source is not in it.
ReadSnapshot(x, t) ==
  /\ builds[x][t].step = "requested"
  /\ \/ /\ exports[x].state = "building" /\ exports[x].token = t
        /\ builds' = [builds EXCEPT ![x][t] = [builds[x][t] EXCEPT !.step = "assembling",
                                                                  !.holds = Sources \ purged]]
     \/ /\ exports[x].state # "building" \/ exports[x].token # t
        /\ builds' = Answered(x, t, "refused")
     \/ builds' = Answered(x, t, "retry")
  /\ UNCHANGED <<exports, buildJobs, drives, archives, cleanups, purged>>

\* Any file that is missing or has drifted aborts the archive.
StoreArchive(x, t) ==
  /\ builds[x][t].step = "assembling"
  /\ \/ /\ archives' = archives \union {<<x, t>>}
        /\ builds' = [builds EXCEPT ![x][t].step = "stored"]
     \/ /\ builds' = Answered(x, t, "refused")
        /\ UNCHANGED archives
     \/ /\ builds' = Answered(x, t, "retry")
        /\ UNCHANGED archives
  /\ UNCHANGED <<exports, buildJobs, drives, cleanups, purged>>

Discarding(x, t, answer) ==
  [builds EXCEPT ![x][t] = [builds[x][t] EXCEPT !.step = "discarding", !.answer = answer]]

\* A fault: the publish trusts what the snapshot has read.
PublishesAll(x, t) ==
  IF exports[x].state # "building" \/ exports[x].token # t THEN "refuse" ELSE "publish"

DecidePublish(x, t) ==
  IF exports[x].state # "building" \/ exports[x].token # t THEN "refuse"
  ELSE IF builds[x][t].holds \intersect purged # {} THEN "invalidate"
  ELSE "publish"

PublishArchive(x, t) ==
  /\ builds[x][t].step = "stored"
  /\ \/ /\ DecidePublish(x, t) = "publish"
        /\ exports' = [exports EXCEPT ![x] = [exports[x] EXCEPT !.state = "available", !.object = t,
                                                              !.links = builds[x][t].holds]]
        /\ builds' = [builds EXCEPT ![x][t].step = "published"]
        /\ UNCHANGED cleanups
     \/ /\ DecidePublish(x, t) = "invalidate"
        /\ exports' = [exports EXCEPT ![x] = [exports[x] EXCEPT !.state = "invalidated", !.object = t]]
        /\ \E answer \in {"ok", "refused"} : builds' = Discarding(x, t, answer)
        /\ cleanups' = [cleanups EXCEPT ![x] = "scheduled"]
     \/ /\ DecidePublish(x, t) = "refuse"
        /\ builds' = Discarding(x, t, "refused")
        /\ UNCHANGED <<exports, cleanups>>
  /\ UNCHANGED <<buildJobs, drives, archives, purged>>

\* Every error of the bridge, a lost answer too, makes the worker remove its
\* object.
HearPublish(x, t) ==
  /\ \/ /\ builds[x][t].step = "published"
        /\ builds' = Answered(x, t, "ok")
     \/ /\ builds[x][t].step \in {"stored", "published"}
        /\ builds' = Discarding(x, t, "refused")
  /\ UNCHANGED <<exports, buildJobs, drives, archives, cleanups, purged>>

\* A delete that the store refuses is not repeated.
DiscardArchive(x, t) ==
  /\ builds[x][t].step = "discarding"
  /\ \/ /\ archives' = archives \ {<<x, t>>}
        /\ builds' = [builds EXCEPT ![x][t].step = "answered"]
     \/ /\ builds' = [builds EXCEPT ![x][t].step = "lost"]
        /\ UNCHANGED archives
  /\ UNCHANGED <<exports, buildJobs, drives, cleanups, purged>>

WorkerDies(x, t) ==
  /\ builds[x][t].step \in {"assembling", "stored", "published", "discarding"}
  /\ builds' = [builds EXCEPT ![x][t].step = "lost"]
  /\ UNCHANGED <<exports, buildJobs, drives, archives, cleanups, purged>>

(***************************************************************************)
(* The end of an archive.                                                  *)
(***************************************************************************)
ExpireExport(x) ==
  /\ exports[x].state = "available"
  /\ exports' = [exports EXCEPT ![x].state = "expired"]
  /\ cleanups' = [cleanups EXCEPT ![x] = "scheduled"]
  /\ UNCHANGED <<buildJobs, drives, builds, archives, purged>>

Invalidated(s) == {x \in Exports : s \in exports[x].links /\ exports[x].state \in PreTerminal}

\* A fault: an invalidation schedules no cleanup.
InvalidatesRowsOnly(s) ==
  /\ exports' = [x \in Exports |-> IF x \in Invalidated(s)
                                     THEN [exports[x] EXCEPT !.state = "invalidated"]
                                     ELSE exports[x]]
  /\ cleanups' = cleanups

InvalidateExportsForSource(s) ==
  /\ exports' = [x \in Exports |-> IF x \in Invalidated(s)
                                     THEN [exports[x] EXCEPT !.state = "invalidated"]
                                     ELSE exports[x]]
  /\ cleanups' = [x \in Exports |-> IF x \in Invalidated(s) /\ exports[x].object # 0
                                      THEN "scheduled"
                                      ELSE cleanups[x]]

\* What a permanent deletion does to exports.
Tombstone(s) ==
  /\ s \notin purged
  /\ purged' = purged \union {s}
  /\ InvalidateExportsForSource(s)

SourcePurged(s) ==
  /\ Tombstone(s)
  /\ UNCHANGED <<buildJobs, drives, builds, archives>>

\* The row is marked whenever the worker answers, and it answers a delete
\* that the store refused as well; an action that fails is not run again.
CleanupExport(x) ==
  /\ cleanups[x] = "scheduled"
  /\ \/ /\ archives' = archives \ {<<x, exports[x].object>>}
        /\ exports' = [exports EXCEPT ![x].cleaned = TRUE]
     \/ /\ exports' = [exports EXCEPT ![x].cleaned = TRUE]
        /\ UNCHANGED archives
     \/ UNCHANGED <<exports, archives>>
  /\ cleanups' = [cleanups EXCEPT ![x] = "over"]
  /\ UNCHANGED <<buildJobs, drives, builds, purged>>

ExportSteps ==
  \/ \E x \in Exports :
       \/ RequestExport(x) \/ BeginBuild(x) \/ PostBuild(x) \/ ObserveBuild(x)
       \/ RecordBuildOutcome(x) \/ ExpireExport(x) \/ CleanupExport(x)
  \/ \E x \in Exports, t \in Tokens :
       \/ ReadSnapshot(x, t) \/ StoreArchive(x, t) \/ PublishArchive(x, t)
       \/ HearPublish(x, t) \/ DiscardArchive(x, t) \/ WorkerDies(x, t)

ExportNext == ExportSteps \/ \E s \in Sources : SourcePurged(s)

ExportSpec == ExportInit /\ [][ExportNext]_exportVars

(***************************************************************************)
(* Properties.                                                             *)
(***************************************************************************)

(* An archive that can be downloaded holds nothing of a source that was    *)
(* deleted for good, not even when the deletion came between the snapshot  *)
(* and the publish (decidePublish, invalidateExportsForSourceCore).        *)
PurgedLeavesNoArchive ==
  \A x \in Exports :
    exports[x].state = "available" => builds[x][exports[x].object].holds \intersect purged = {}

(* No archive is left to itself: it is the one its row offers, a worker    *)
(* still holds it, its cleanup was scheduled, or the worker died with it   *)
(* or was refused its deletion (publishArchiveCore, expireExportCore,      *)
(* invalidateExportCore, handleBuild).                                     *)
NoStrandedArchive ==
  \A x \in Exports, t \in Tokens :
    <<x, t>> \in archives =>
      \/ exports[x].object = t /\ (exports[x].state = "available" \/ cleanups[x] # "none")
      \/ builds[x][t].step \in {"stored", "discarding", "lost"}
==============================================================================
