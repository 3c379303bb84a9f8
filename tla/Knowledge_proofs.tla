--------------------------- MODULE Knowledge_proofs ---------------------------
(***************************************************************************)
(* What exports, permanent deletion, task reminders and the copies in a    *)
(* Google calendar guarantee for every set of exports, sources, cases,     *)
(* tasks, persons, copies and accounts, and every number of attempts, days *)
(* and epochs.                                                             *)
(***************************************************************************)
EXTENDS Deletion, Reminders, CalendarCopies, WellFoundedInduction, TLAPS

-----------------------------------------------------------------------------
(* Exports.  A token is fresh when its build is posted; an archive that no *)
(* worker holds belongs to the row that names its token.                   *)

BuildRows == [step : BuildSteps, answer : Answers, holds : SUBSET Sources]
BuildJobRows == [state : {"none", "queued", "running", "succeeded", "failed"},
                 attempts : {0} \union Tokens]
DriveRows == [step : {"none", "scheduled", "posted", "observed"},
              outcome : {"none", "succeeded", "failed", "retry", "uncertain"}]

ExportFits(x) ==
  /\ buildJobs[x].state = "running" <=> drives[x].step # "none"
  /\ exports[x].state = "none" => buildJobs[x].state = "none"
  /\ buildJobs[x].state = "none" => buildJobs[x].attempts = 0
  /\ buildJobs[x].state = "queued" => buildJobs[x].attempts < BuildAttempts
  /\ drives[x].step # "none" =>
       exports[x].token = buildJobs[x].attempts /\ exports[x].token \in Tokens
  /\ drives[x].step = "scheduled" => builds[x][exports[x].token].step = "none"
  /\ exports[x].state \in {"none", "requested", "building", "failed"} => exports[x].object = 0
  /\ exports[x].state = "available" =>
       /\ exports[x].object \in Tokens
       /\ exports[x].links = builds[x][exports[x].object].holds
       /\ exports[x].links \intersect purged = {}
       /\ builds[x][exports[x].object].step \notin {"none", "requested"}

Owned(x, t) == exports[x].object = t /\ (exports[x].state = "available" \/ cleanups[x] # "none")

BuildFits(x, t) ==
  /\ t > buildJobs[x].attempts => builds[x][t].step = "none"
  /\ builds[x][t].step \in {"none", "requested", "assembling"} => <<x, t>> \notin archives
  /\ builds[x][t].step = "published" => Owned(x, t)
  /\ <<x, t>> \in archives => Owned(x, t) \/ builds[x][t].step \in {"stored", "discarding", "lost"}

ExportInv ==
  /\ ExportTypeOK
  /\ \A x \in Exports : ExportFits(x)
  /\ \A x \in Exports, t \in Tokens : BuildFits(x, t)

LEMMA TokensAreNumbers ==
  /\ Tokens \subseteq Nat /\ BuildAttempts \in Nat /\ BuildAttempts > 0
  /\ 0 \notin Tokens
  /\ \A n \in {0} \union Tokens : n < BuildAttempts => n + 1 \in Tokens
BY ExportNumbers DEF Tokens

LEMMA ExportTypes ==
  /\ ExportTypeOK <=>
       /\ exports \in [Exports -> ExportRows]
       /\ buildJobs \in [Exports -> BuildJobRows]
       /\ drives \in [Exports -> DriveRows]
       /\ builds \in [Exports -> [Tokens -> BuildRows]]
       /\ archives \subseteq Exports \X Tokens
       /\ cleanups \in [Exports -> {"none", "scheduled", "over"}]
       /\ purged \subseteq Sources
BY DEF ExportTypeOK, BuildRows, BuildJobRows, DriveRows

LEMMA ExportInvInit ==
  ASSUME ExportInit
  PROVE  ExportInv
<1>1. NoExport \in ExportRows /\ NoExport.state = "none" /\ NoExport.object = 0
  BY DEF NoExport, ExportRows, PreTerminal, InFlight
<1>2. NoDrive \in DriveRows /\ NoDrive.step = "none"
  BY DEF NoDrive, DriveRows
<1> HIDE DEF NoExport, NoDrive
<1>3. ExportTypeOK
  <2>1. [step |-> "none", answer |-> "none", holds |-> {}] \in BuildRows
    BY DEF BuildRows, BuildSteps, Answers
  <2>2. [state |-> "none", attempts |-> 0] \in BuildJobRows
    BY DEF BuildJobRows
  <2> QED
    BY <1>1, <1>2, <2>1, <2>2, ExportTypes DEF ExportInit
<1>4. \A x \in Exports : ExportFits(x)
  BY <1>1, <1>2 DEF ExportInit, ExportFits
<1>5. \A x \in Exports, t \in Tokens : BuildFits(x, t)
  BY DEF ExportInit, BuildFits
<1> QED
  BY <1>3, <1>4, <1>5 DEF ExportInv

(* One export row, one job, one drive or one build changes.                *)
LEMMA ExportChanges ==
  ASSUME ExportInv, NEW x \in Exports, NEW row \in ExportRows, exports' = [exports EXCEPT ![x] = row]
  PROVE  /\ exports' \in [Exports -> ExportRows] /\ exports'[x] = row
         /\ \A y \in Exports : y # x => exports'[y] = exports[y]
BY DEF ExportInv, ExportTypeOK

LEMMA JobChanges ==
  ASSUME ExportInv, NEW x \in Exports, NEW job \in BuildJobRows,
         buildJobs' = [buildJobs EXCEPT ![x] = job]
  PROVE  /\ buildJobs' \in [Exports -> BuildJobRows] /\ buildJobs'[x] = job
         /\ \A y \in Exports : y # x => buildJobs'[y] = buildJobs[y]
BY ExportTypes DEF ExportInv

LEMMA DriveChanges ==
  ASSUME ExportInv, NEW x \in Exports, NEW drive \in DriveRows, drives' = [drives EXCEPT ![x] = drive]
  PROVE  /\ drives' \in [Exports -> DriveRows] /\ drives'[x] = drive
         /\ \A y \in Exports : y # x => drives'[y] = drives[y]
BY ExportTypes DEF ExportInv

Builds(x, t, build) == builds' = [builds EXCEPT ![x] = [builds[x] EXCEPT ![t] = build]]

LEMMA BuildChanges ==
  ASSUME ExportInv, NEW x \in Exports, NEW t \in Tokens, NEW build \in BuildRows, Builds(x, t, build)
  PROVE  /\ builds' \in [Exports -> [Tokens -> BuildRows]] /\ builds'[x][t] = build
         /\ \A u \in Tokens : u # t => builds'[x][u] = builds[x][u]
         /\ \A y \in Exports : y # x => builds'[y] = builds[y]
BY ExportTypes DEF ExportInv, Builds

LEMMA RowsOfExports ==
  ASSUME ExportInv, NEW x \in Exports
  PROVE  /\ exports[x] \in ExportRows /\ buildJobs[x] \in BuildJobRows /\ drives[x] \in DriveRows
         /\ \A t \in Tokens : builds[x][t] \in BuildRows
         /\ ExportFits(x) /\ \A t \in Tokens : BuildFits(x, t)
BY ExportTypes DEF ExportInv

(* A build keeps what it is when one of its fields changes.                *)
LEMMA BuildRow ==
  ASSUME NEW b \in BuildRows, NEW step \in BuildSteps, NEW answer \in Answers
  PROVE  /\ [b EXCEPT !.step = step] \in BuildRows /\ [b EXCEPT !.step = step].step = step
         /\ [b EXCEPT !.step = step].holds = b.holds
         /\ [b EXCEPT !.step = step, !.answer = answer] \in BuildRows
         /\ [b EXCEPT !.step = step, !.answer = answer].step = step
         /\ [b EXCEPT !.step = step, !.answer = answer].holds = b.holds
BY DEF BuildRows

(* Only the state of one export row changes, and it does not become        *)
(* available.                                                              *)
LEMMA StateRow ==
  ASSUME NEW row \in ExportRows,
         NEW state \in {"requested", "building", "expired", "invalidated", "failed"}
  PROVE  /\ [row EXCEPT !.state = state] \in ExportRows
         /\ [row EXCEPT !.state = state].state = state
         /\ [row EXCEPT !.state = state].object = row.object
         /\ [row EXCEPT !.state = state].token = row.token
         /\ [row EXCEPT !.state = state].links = row.links
BY DEF ExportRows, PreTerminal, InFlight

(* A step of one export leaves the others as they are.                     *)
Apart(x) ==
  \A y \in Exports : y # x =>
    /\ exports'[y] = exports[y] /\ buildJobs'[y] = buildJobs[y] /\ drives'[y] = drives[y]
    /\ builds'[y] = builds[y] /\ cleanups'[y] = cleanups[y]
    /\ \A t \in Tokens : <<y, t>> \in archives' <=> <<y, t>> \in archives

LEMMA ExportStep ==
  ASSUME ExportInv, NEW x \in Exports, ExportTypeOK', UNCHANGED purged, Apart(x),
         ExportFits(x)', \A t \in Tokens : BuildFits(x, t)'
  PROVE  ExportInv'
<1>1. ASSUME NEW y \in Exports, y # x
      PROVE  ExportFits(y)' /\ \A t \in Tokens : BuildFits(y, t)'
  <2>1. ExportFits(y) /\ \A t \in Tokens : BuildFits(y, t)
    BY RowsOfExports
  <2>2. ExportFits(y)'
    BY <1>1, <2>1 DEF Apart, ExportFits
  <2>3. \A t \in Tokens : BuildFits(y, t)'
    BY <1>1, <2>1 DEF Apart, BuildFits, Owned
  <2> QED
    BY <2>2, <2>3
<1> QED
  BY <1>1 DEF ExportInv

LEMMA RequestExportKeeps ==
  ASSUME ExportInv, NEW x \in Exports, RequestExport(x)
  PROVE  ExportInv'
<1> DEFINE row == [exports[x] EXCEPT !.state = "requested"]
           job == [buildJobs[x] EXCEPT !.state = "queued"]
<1>1. /\ UNCHANGED <<drives, builds, archives, cleanups, purged>> /\ exports[x].state = "none"
      /\ exports' = [exports EXCEPT ![x] = row] /\ buildJobs' = [buildJobs EXCEPT ![x] = job]
  BY DEF RequestExport
<1>2. /\ exports[x] \in ExportRows /\ buildJobs[x] \in BuildJobRows /\ drives[x] \in DriveRows
      /\ ExportFits(x) /\ \A t \in Tokens : BuildFits(x, t)
  BY RowsOfExports
<1>3. row \in ExportRows /\ row.state = "requested" /\ row.object = 0
  BY <1>1, <1>2, StateRow DEF ExportFits
<1>4. /\ job \in BuildJobRows /\ job.state = "queued" /\ job.attempts = 0
      /\ buildJobs[x].attempts = 0 /\ drives[x].step = "none"
  BY <1>1, <1>2 DEF ExportFits, BuildJobRows
<1> HIDE DEF row, job
<1>5. /\ exports' \in [Exports -> ExportRows] /\ exports'[x] = row
      /\ \A y \in Exports : y # x => exports'[y] = exports[y]
  BY <1>1, <1>3, ExportChanges
<1>6. /\ buildJobs' \in [Exports -> BuildJobRows] /\ buildJobs'[x] = job
      /\ \A y \in Exports : y # x => buildJobs'[y] = buildJobs[y]
  BY <1>1, <1>4, JobChanges
<1>7. ExportTypeOK'
  BY <1>1, <1>5, <1>6 DEF ExportInv, ExportTypeOK, BuildJobRows
<1>8. Apart(x)
  BY <1>1, <1>5, <1>6 DEF Apart
<1>9. ExportFits(x)' /\ \A t \in Tokens : BuildFits(x, t)'
  BY <1>1, <1>2, <1>3, <1>4, <1>5, <1>6, TokensAreNumbers DEF ExportFits, BuildFits, Owned
<1> QED
  BY <1>1, <1>7, <1>8, <1>9, ExportStep

LEMMA BeginBuildKeeps ==
  ASSUME ExportInv, NEW x \in Exports, BeginBuild(x)
  PROVE  ExportInv'
<1> DEFINE t == buildJobs[x].attempts + 1
           begins == exports[x].state \in InFlight
           row == IF begins THEN [exports[x] EXCEPT !.state = "building", !.token = t] ELSE exports[x]
           job == [state |-> IF begins THEN "running" ELSE "succeeded", attempts |-> t]
           drive == IF begins THEN [drives[x] EXCEPT !.step = "scheduled"] ELSE drives[x]
<1>1. /\ UNCHANGED <<builds, archives, cleanups, purged>> /\ buildJobs[x].state = "queued"
  BY DEF BeginBuild
<1>2. /\ exports[x] \in ExportRows /\ buildJobs[x] \in BuildJobRows /\ drives[x] \in DriveRows
      /\ ExportFits(x) /\ \A u \in Tokens : BuildFits(x, u)
  BY RowsOfExports
<1>3. /\ exports' = [exports EXCEPT ![x] = row] /\ buildJobs' = [buildJobs EXCEPT ![x] = job]
      /\ drives' = [drives EXCEPT ![x] = drive]
  BY DEF BeginBuild, ExportInv, ExportTypeOK
<1>4. buildJobs[x].attempts \in {0} \union Tokens /\ buildJobs[x].attempts < BuildAttempts
  BY <1>1, <1>2 DEF ExportFits, BuildJobRows
<1>5. t \in Tokens /\ t > buildJobs[x].attempts /\ drives[x].step = "none"
  <2>1. t \in Tokens /\ t > buildJobs[x].attempts
    <3>1. PICK n \in {0} \union Tokens : n = buildJobs[x].attempts
      BY <1>4
    <3>2. n + 1 \in Tokens /\ n + 1 > n
      BY <1>4, <3>1, TokensAreNumbers
    <3> QED
      BY <3>1, <3>2
  <2>2. drives[x].step = "none"
    BY <1>1, <1>2 DEF ExportFits
  <2> QED
    BY <2>1, <2>2
<1> HIDE DEF t
<1>6. /\ row \in ExportRows /\ row.object = exports[x].object /\ row.links = exports[x].links
      /\ begins => row.state = "building" /\ row.token = t
      /\ ~begins => row = exports[x]
  BY <1>2, <1>5 DEF ExportRows, PreTerminal, InFlight
<1>7. /\ job \in BuildJobRows /\ job.attempts = t
      /\ job.state = IF begins THEN "running" ELSE "succeeded"
  BY <1>5 DEF BuildJobRows
<1>8. drive \in DriveRows /\ drive.step = IF begins THEN "scheduled" ELSE "none"
  BY <1>2, <1>5 DEF DriveRows
<1>9. builds[x][t].step = "none" /\ (begins => exports[x].object = 0)
      /\ (begins => exports[x].state # "available")
  BY <1>2, <1>5 DEF BuildFits, ExportFits, InFlight
<1>10. exports[x].state = "building" => begins
  BY DEF InFlight
<1> HIDE DEF begins, row, job, drive
<1>11. /\ exports' \in [Exports -> ExportRows] /\ exports'[x] = row
       /\ \A y \in Exports : y # x => exports'[y] = exports[y]
  BY <1>3, <1>6, ExportChanges
<1>12. /\ buildJobs' \in [Exports -> BuildJobRows] /\ buildJobs'[x] = job
       /\ \A y \in Exports : y # x => buildJobs'[y] = buildJobs[y]
  BY <1>3, <1>7, JobChanges
<1>13. /\ drives' \in [Exports -> DriveRows] /\ drives'[x] = drive
       /\ \A y \in Exports : y # x => drives'[y] = drives[y]
  BY <1>3, <1>8, DriveChanges
<1>14. ExportTypeOK'
  BY <1>1, <1>11, <1>12, <1>13 DEF ExportInv, ExportTypeOK, BuildJobRows, DriveRows
<1>15. Apart(x)
  BY <1>1, <1>11, <1>12, <1>13 DEF Apart
<1>16. ExportFits(x)'
  <2>1. CASE begins
    BY <1>1, <1>2, <1>5, <1>6, <1>7, <1>8, <1>9, <1>11, <1>12, <1>13, <2>1, TokensAreNumbers DEF ExportFits
  <2>2. CASE ~begins
    BY <1>1, <1>2, <1>5, <1>6, <1>7, <1>8, <1>9, <1>10, <1>11, <1>12, <1>13, <2>2, TokensAreNumbers DEF ExportFits
  <2> QED
    BY <2>1, <2>2
<1>17. ASSUME NEW u \in Tokens
       PROVE  BuildFits(x, u)'
  <2>1. BuildFits(x, u) /\ (u > t => u > buildJobs[x].attempts)
    BY <1>2, <1>4, <1>5, TokensAreNumbers
  <2>2. Owned(x, u) <=> (Owned(x, u))'
    BY <1>1, <1>6, <1>9, <1>11, TokensAreNumbers DEF Owned
  <2> QED
    BY <1>1, <1>7, <1>12, <2>1, <2>2 DEF BuildFits, Owned
<1> QED
  BY <1>1, <1>14, <1>15, <1>16, <1>17, ExportStep

LEMMA PostBuildKeeps ==
  ASSUME ExportInv, NEW x \in Exports, PostBuild(x)
  PROVE  ExportInv'
<1> DEFINE t == exports[x].token
           drive == [drives[x] EXCEPT !.step = "posted"]
           build == [builds[x][t] EXCEPT !.step = "requested"]
<1>1. /\ UNCHANGED <<exports, buildJobs, archives, cleanups, purged>>
      /\ drives[x].step = "scheduled" /\ exports[x].state = "building"
      /\ drives' = [drives EXCEPT ![x] = drive] /\ Builds(x, t, build)
  BY DEF PostBuild, Builds
<1>2. /\ exports[x] \in ExportRows /\ buildJobs[x] \in BuildJobRows /\ drives[x] \in DriveRows
      /\ ExportFits(x) /\ \A u \in Tokens : builds[x][u] \in BuildRows /\ BuildFits(x, u)
  BY RowsOfExports
<1>3. t \in Tokens /\ t = buildJobs[x].attempts /\ builds[x][t].step = "none"
  BY <1>1, <1>2 DEF ExportFits
<1>4. drive \in DriveRows /\ drive.step = "posted"
  BY <1>2 DEF DriveRows
<1>5. build \in BuildRows /\ build.step = "requested"
  BY <1>2, <1>3 DEF BuildRows, BuildSteps
<1> HIDE DEF t, drive, build
<1>6. /\ drives' \in [Exports -> DriveRows] /\ drives'[x] = drive
      /\ \A y \in Exports : y # x => drives'[y] = drives[y]
  BY <1>1, <1>4, DriveChanges
<1>7. /\ builds' \in [Exports -> [Tokens -> BuildRows]] /\ builds'[x][t] = build
      /\ \A u \in Tokens : u # t => builds'[x][u] = builds[x][u]
      /\ \A y \in Exports : y # x => builds'[y] = builds[y]
  BY <1>1, <1>3, <1>5, BuildChanges
<1>8. ExportTypeOK'
  BY <1>1, <1>6, <1>7 DEF ExportInv, ExportTypeOK, DriveRows, BuildRows
<1>9. Apart(x)
  BY <1>1, <1>6, <1>7 DEF Apart
<1>10. ExportFits(x)'
  BY <1>1, <1>2, <1>3, <1>4, <1>6 DEF ExportFits
<1>11. ASSUME NEW u \in Tokens
       PROVE  BuildFits(x, u)'
  <2>1. BuildFits(x, u)
    BY <1>2
  <2>2. CASE u = t
    BY <1>1, <1>3, <1>5, <1>7, <2>1, <2>2, TokensAreNumbers DEF BuildFits, Owned
  <2>3. CASE u # t
    BY <1>1, <1>7, <2>1, <2>3 DEF BuildFits, Owned
  <2> QED
    BY <2>2, <2>3
<1> QED
  BY <1>1, <1>8, <1>9, <1>10, <1>11, ExportStep

(* The drive and the job of one export change, and perhaps its state.      *)
LEMMA DriveStep ==
  ASSUME ExportInv, NEW x \in Exports, UNCHANGED <<builds, archives, cleanups, purged>>,
         NEW row \in ExportRows, exports' = [exports EXCEPT ![x] = row],
         NEW job \in BuildJobRows, buildJobs' = [buildJobs EXCEPT ![x] = job],
         NEW drive \in DriveRows, drives' = [drives EXCEPT ![x] = drive],
         exports[x].state # "none",
         row = exports[x] \/ /\ exports[x].state = "building" /\ row.state = "failed"
                             /\ row.token = exports[x].token /\ row.object = exports[x].object,
         job.attempts = buildJobs[x].attempts, job.state # "none",
         job.state = "queued" => job.attempts < BuildAttempts,
         job.state = "running" <=> drive.step # "none",
         drive.step # "none" => drives[x].step # "none", drive.step # "scheduled"
  PROVE  ExportInv'
<1>1. /\ exports[x] \in ExportRows /\ buildJobs[x] \in BuildJobRows /\ drives[x] \in DriveRows
      /\ ExportFits(x) /\ \A u \in Tokens : builds[x][u] \in BuildRows /\ BuildFits(x, u)
  BY RowsOfExports
<1>2. /\ exports' \in [Exports -> ExportRows] /\ exports'[x] = row
      /\ \A y \in Exports : y # x => exports'[y] = exports[y]
  BY ExportChanges
<1>3. /\ buildJobs' \in [Exports -> BuildJobRows] /\ buildJobs'[x] = job
      /\ \A y \in Exports : y # x => buildJobs'[y] = buildJobs[y]
  BY JobChanges
<1>4. /\ drives' \in [Exports -> DriveRows] /\ drives'[x] = drive
      /\ \A y \in Exports : y # x => drives'[y] = drives[y]
  BY DriveChanges
<1>5. ExportTypeOK'
  BY <1>2, <1>3, <1>4 DEF ExportInv, ExportTypeOK, DriveRows, BuildJobRows
<1>6. Apart(x)
  BY <1>2, <1>3, <1>4 DEF Apart
<1>7. ExportFits(x)'
  BY <1>1, <1>2, <1>3, <1>4 DEF ExportFits
<1>8. \A u \in Tokens : BuildFits(x, u)'
  BY <1>1, <1>2, <1>3 DEF BuildFits, Owned, ExportFits
<1> QED
  BY <1>5, <1>6, <1>7, <1>8, ExportStep

LEMMA ObserveBuildKeeps ==
  ASSUME ExportInv, NEW x \in Exports, ObserveBuild(x)
  PROVE  ExportInv'
<1>1. UNCHANGED <<exports, buildJobs, builds, archives, cleanups, purged>> /\ drives[x].step = "posted"
  BY DEF ObserveBuild
<1>2. /\ exports[x] \in ExportRows /\ buildJobs[x] \in BuildJobRows
      /\ ExportFits(x) /\ exports' = [exports EXCEPT ![x] = exports[x]]
      /\ buildJobs' = [buildJobs EXCEPT ![x] = buildJobs[x]]
  BY <1>1, RowsOfExports DEF ExportInv, ExportTypeOK
<1>3. \A answer : Classified(answer) \in {"succeeded", "retry", "failed"}
  BY DEF Classified
<1>4. PICK outcome \in {"retry", "uncertain", "succeeded", "failed"} :
        drives' = [drives EXCEPT ![x] =
                     [step |-> "observed",
                      outcome |-> IF exports[x].state = "available" THEN "succeeded" ELSE outcome]]
  BY <1>3 DEF ObserveBuild
<1> DEFINE drive == [step |-> "observed",
                     outcome |-> IF exports[x].state = "available" THEN "succeeded" ELSE outcome]
<1>5. drive \in DriveRows /\ drive.step = "observed" /\ drives' = [drives EXCEPT ![x] = drive]
  BY <1>4 DEF DriveRows
<1>6. /\ exports[x].state # "none" /\ buildJobs[x].state = "running"
      /\ buildJobs[x].state # "none" /\ buildJobs[x].state # "queued"
  BY <1>1, <1>2 DEF ExportFits
<1> HIDE DEF drive
<1> QED
  BY <1>1, <1>2, <1>5, <1>6, DriveStep

LEMMA RecordBuildOutcomeKeeps ==
  ASSUME ExportInv, NEW x \in Exports, RecordBuildOutcome(x)
  PROVE  ExportInv'
<1> DEFINE outcome == drives[x].outcome
           again == outcome = "retry" /\ buildJobs[x].attempts < BuildAttempts
           state == CASE outcome = "succeeded" -> "succeeded" [] again -> "queued" [] OTHER -> "failed"
           job == [buildJobs[x] EXCEPT !.state = state]
           fails == /\ ~(outcome = "succeeded" \/ again)
                    /\ exports[x].state = "building" /\ exports[x].token = exports[x].token
           row == IF fails THEN [exports[x] EXCEPT !.state = "failed"] ELSE exports[x]
<1>1. /\ UNCHANGED <<builds, archives, cleanups, purged>> /\ drives[x].step = "observed"
      /\ drives' = [drives EXCEPT ![x] = NoDrive] /\ buildJobs' = [buildJobs EXCEPT ![x] = job]
  BY DEF RecordBuildOutcome
<1>2. /\ exports[x] \in ExportRows /\ buildJobs[x] \in BuildJobRows /\ ExportFits(x)
  BY RowsOfExports
<1>3. exports' = [exports EXCEPT ![x] = row]
  BY DEF RecordBuildOutcome, FailBuild, ExportInv, ExportTypeOK
<1>4. /\ row \in ExportRows
      /\ row = exports[x] \/ /\ exports[x].state = "building" /\ row.state = "failed"
                             /\ row.token = exports[x].token /\ row.object = exports[x].object
  BY <1>2, StateRow
<1>5. state \in {"succeeded", "queued", "failed"} /\ (state = "queued" => again)
  OBVIOUS
<1>6. again => buildJobs[x].attempts < BuildAttempts
  OBVIOUS
<1> HIDE DEF state, again
<1>7. /\ job \in BuildJobRows /\ job.attempts = buildJobs[x].attempts /\ job.state = state
  BY <1>2, <1>5 DEF BuildJobRows
<1>8. exports[x].state # "none"
  BY <1>1, <1>2 DEF ExportFits
<1>9. NoDrive \in DriveRows /\ NoDrive.step = "none"
  BY DEF NoDrive, DriveRows
<1> HIDE DEF row, job, NoDrive
<1>10. /\ job.state # "none" /\ job.state # "running"
       /\ job.state = "queued" => job.attempts < BuildAttempts
  BY <1>5, <1>6, <1>7
<1>11. /\ NoDrive.step # "none" => drives[x].step # "none"
       /\ NoDrive.step # "scheduled" /\ (job.state = "running" <=> NoDrive.step # "none")
  BY <1>9, <1>10
<1> QED
  BY <1>1, <1>3, <1>4, <1>7, <1>8, <1>9, <1>10, <1>11, DriveStep

(* The worker moves one build, and nothing but it and its archive.         *)
LEMMA WorkerStep ==
  ASSUME ExportInv, NEW x \in Exports, NEW t \in Tokens, NEW build \in BuildRows,
         Builds(x, t, build), UNCHANGED <<exports, buildJobs, drives, cleanups, purged>>,
         archives' = archives \/ archives' = archives \union {<<x, t>>}
           \/ archives' = archives \ {<<x, t>>},
         builds[x][t].step # "none",
         build.step \in {"assembling", "stored", "discarding", "answered", "lost"},
         build.holds = builds[x][t].holds \/ builds[x][t].step = "requested",
         build.step = "assembling" => <<x, t>> \notin archives',
         <<x, t>> \in archives' => Owned(x, t) \/ build.step \in {"stored", "discarding", "lost"}
  PROVE  ExportInv'
<1>1. /\ exports[x] \in ExportRows /\ buildJobs[x] \in BuildJobRows /\ drives[x] \in DriveRows
      /\ ExportFits(x) /\ \A u \in Tokens : builds[x][u] \in BuildRows /\ BuildFits(x, u)
  BY RowsOfExports
<1>2. /\ builds' \in [Exports -> [Tokens -> BuildRows]] /\ builds'[x][t] = build
      /\ \A u \in Tokens : u # t => builds'[x][u] = builds[x][u]
      /\ \A y \in Exports : y # x => builds'[y] = builds[y]
  BY BuildChanges
<1>3. ExportTypeOK'
  <2>1. archives' \subseteq Exports \X Tokens
    BY DEF ExportInv, ExportTypeOK
  <2> QED
    BY <1>2, <2>1 DEF ExportInv, ExportTypeOK, BuildRows
<1>4. Apart(x)
  BY <1>2 DEF Apart
<1>5. ExportFits(x)'
  BY <1>1, <1>2 DEF ExportFits
<1>6. ASSUME NEW u \in Tokens
      PROVE  BuildFits(x, u)'
  <2>1. BuildFits(x, u) /\ (Owned(x, u) <=> (Owned(x, u))')
    BY <1>1 DEF Owned
  <2>2. CASE u = t
    BY <1>2, <2>1, <2>2 DEF BuildFits, Owned
  <2>3. CASE u # t
    BY <1>2, <2>1, <2>3 DEF BuildFits, Owned
  <2> QED
    BY <2>2, <2>3
<1> QED
  BY <1>3, <1>4, <1>5, <1>6, ExportStep

LEMMA ReadSnapshotKeeps ==
  ASSUME ExportInv, NEW x \in Exports, NEW t \in Tokens, ReadSnapshot(x, t)
  PROVE  ExportInv'
<1>1. /\ builds[x][t].step = "requested" /\ UNCHANGED <<exports, buildJobs, drives, archives, cleanups, purged>>
  BY DEF ReadSnapshot
<1>2. builds[x][t] \in BuildRows /\ BuildFits(x, t)
  BY RowsOfExports
<1>3. <<x, t>> \notin archives
  BY <1>1, <1>2 DEF BuildFits
<1>4. PICK build \in BuildRows : Builds(x, t, build) /\ build.step \in {"assembling", "answered"}
  <2> DEFINE read == [builds[x][t] EXCEPT !.step = "assembling", !.holds = Sources \ purged]
  <2>1. read \in BuildRows /\ read.step = "assembling"
    BY <1>2 DEF BuildRows, BuildSteps
  <2>2. \A answer \in Answers :
          /\ [builds[x][t] EXCEPT !.step = "answered", !.answer = answer] \in BuildRows
          /\ [builds[x][t] EXCEPT !.step = "answered", !.answer = answer].step = "answered"
    BY <1>2 DEF BuildRows, BuildSteps
  <2>3. "refused" \in Answers /\ "retry" \in Answers
    BY DEF Answers
  <2>4. \/ Builds(x, t, read)
        \/ Builds(x, t, [builds[x][t] EXCEPT !.step = "answered", !.answer = "refused"])
        \/ Builds(x, t, [builds[x][t] EXCEPT !.step = "answered", !.answer = "retry"])
    BY DEF ReadSnapshot, Answered, Builds
  <2> HIDE DEF read
  <2> QED
    BY <2>1, <2>2, <2>3, <2>4
<1> QED
  BY <1>1, <1>3, <1>4, WorkerStep

LEMMA StoreArchiveKeeps ==
  ASSUME ExportInv, NEW x \in Exports, NEW t \in Tokens, StoreArchive(x, t)
  PROVE  ExportInv'
<1>1. /\ builds[x][t].step = "assembling" /\ UNCHANGED <<exports, buildJobs, drives, cleanups, purged>>
  BY DEF StoreArchive
<1>2. builds[x][t] \in BuildRows /\ BuildFits(x, t)
  BY RowsOfExports
<1>3. <<x, t>> \notin archives
  BY <1>1, <1>2 DEF BuildFits
<1>4. PICK build \in BuildRows :
        /\ Builds(x, t, build) /\ build.holds = builds[x][t].holds
        /\ \/ build.step = "stored" /\ archives' = archives \union {<<x, t>>}
           \/ build.step = "answered" /\ archives' = archives
  <2>1. \A answer \in Answers :
          /\ [builds[x][t] EXCEPT !.step = "answered", !.answer = answer] \in BuildRows
          /\ [builds[x][t] EXCEPT !.step = "answered", !.answer = answer].step = "answered"
          /\ [builds[x][t] EXCEPT !.step = "answered", !.answer = answer].holds = builds[x][t].holds
    BY <1>2 DEF BuildRows, BuildSteps
  <2>2. /\ [builds[x][t] EXCEPT !.step = "stored"] \in BuildRows
        /\ [builds[x][t] EXCEPT !.step = "stored"].step = "stored"
        /\ [builds[x][t] EXCEPT !.step = "stored"].holds = builds[x][t].holds
    BY <1>2 DEF BuildRows, BuildSteps
  <2>3. "refused" \in Answers /\ "retry" \in Answers
    BY DEF Answers
  <2>4. \/ /\ Builds(x, t, [builds[x][t] EXCEPT !.step = "stored"])
           /\ archives' = archives \union {<<x, t>>}
        \/ /\ Builds(x, t, [builds[x][t] EXCEPT !.step = "answered", !.answer = "refused"])
           /\ archives' = archives
        \/ /\ Builds(x, t, [builds[x][t] EXCEPT !.step = "answered", !.answer = "retry"])
           /\ archives' = archives
    BY DEF StoreArchive, Answered, Builds
  <2> QED
    BY <2>1, <2>2, <2>3, <2>4
<1> QED
  BY <1>1, <1>3, <1>4, WorkerStep

LEMMA HearPublishKeeps ==
  ASSUME ExportInv, NEW x \in Exports, NEW t \in Tokens, HearPublish(x, t)
  PROVE  ExportInv'
<1>1. /\ builds[x][t].step \in {"stored", "published"}
      /\ UNCHANGED <<exports, buildJobs, drives, archives, cleanups, purged>>
  BY DEF HearPublish
<1>2. builds[x][t] \in BuildRows /\ BuildFits(x, t)
  BY RowsOfExports
<1>3. PICK build \in BuildRows :
        /\ Builds(x, t, build) /\ build.holds = builds[x][t].holds
        /\ \/ build.step = "answered" /\ builds[x][t].step = "published"
           \/ build.step = "discarding"
  <2>1. \A answer \in Answers :
          /\ [builds[x][t] EXCEPT !.step = "answered", !.answer = answer] \in BuildRows
          /\ [builds[x][t] EXCEPT !.step = "answered", !.answer = answer].step = "answered"
          /\ [builds[x][t] EXCEPT !.step = "answered", !.answer = answer].holds = builds[x][t].holds
          /\ [builds[x][t] EXCEPT !.step = "discarding", !.answer = answer] \in BuildRows
          /\ [builds[x][t] EXCEPT !.step = "discarding", !.answer = answer].step = "discarding"
          /\ [builds[x][t] EXCEPT !.step = "discarding", !.answer = answer].holds = builds[x][t].holds
    BY <1>2 DEF BuildRows, BuildSteps
  <2>2. "refused" \in Answers /\ "ok" \in Answers
    BY DEF Answers
  <2>3. \/ /\ Builds(x, t, [builds[x][t] EXCEPT !.step = "answered", !.answer = "ok"])
           /\ builds[x][t].step = "published"
        \/ Builds(x, t, [builds[x][t] EXCEPT !.step = "discarding", !.answer = "refused"])
    BY DEF HearPublish, Answered, Discarding, Builds
  <2> QED
    BY <2>1, <2>2, <2>3
<1>4. build.step = "answered" => Owned(x, t)
  BY <1>2, <1>3 DEF BuildFits
<1> QED
  BY <1>1, <1>3, <1>4, WorkerStep

LEMMA DiscardArchiveKeeps ==
  ASSUME ExportInv, NEW x \in Exports, NEW t \in Tokens, DiscardArchive(x, t)
  PROVE  ExportInv'
<1>1. /\ builds[x][t].step = "discarding" /\ UNCHANGED <<exports, buildJobs, drives, cleanups, purged>>
  BY DEF DiscardArchive
<1>2. builds[x][t] \in BuildRows
  BY RowsOfExports
<1>3. PICK build \in BuildRows :
        /\ Builds(x, t, build) /\ build.holds = builds[x][t].holds
        /\ \/ build.step = "answered" /\ archives' = archives \ {<<x, t>>}
           \/ build.step = "lost" /\ archives' = archives
  <2>1. \A step \in {"answered", "lost"} :
          /\ [builds[x][t] EXCEPT !.step = step] \in BuildRows
          /\ [builds[x][t] EXCEPT !.step = step].step = step
          /\ [builds[x][t] EXCEPT !.step = step].holds = builds[x][t].holds
    BY <1>2 DEF BuildRows, BuildSteps
  <2>2. \/ /\ Builds(x, t, [builds[x][t] EXCEPT !.step = "answered"])
           /\ archives' = archives \ {<<x, t>>}
        \/ /\ Builds(x, t, [builds[x][t] EXCEPT !.step = "lost"])
           /\ archives' = archives
    BY DEF DiscardArchive, Builds
  <2> QED
    BY <2>1, <2>2
<1> QED
  BY <1>1, <1>3, WorkerStep

LEMMA WorkerDiesKeeps ==
  ASSUME ExportInv, NEW x \in Exports, NEW t \in Tokens, WorkerDies(x, t)
  PROVE  ExportInv'
<1> DEFINE build == [builds[x][t] EXCEPT !.step = "lost"]
<1>1. /\ builds[x][t].step # "none" /\ Builds(x, t, build)
      /\ UNCHANGED <<exports, buildJobs, drives, archives, cleanups, purged>>
  BY DEF WorkerDies, Builds
<1>2. builds[x][t] \in BuildRows
  BY RowsOfExports
<1>3. build \in BuildRows /\ build.step = "lost" /\ build.holds = builds[x][t].holds
  BY <1>2 DEF BuildRows, BuildSteps
<1> HIDE DEF build
<1> QED
  BY <1>1, <1>3, WorkerStep

LEMMA PublishArchiveKeeps ==
  ASSUME ExportInv, NEW x \in Exports, NEW t \in Tokens, PublishArchive(x, t)
  PROVE  ExportInv'
<1>1. builds[x][t].step = "stored" /\ UNCHANGED <<buildJobs, drives, archives, purged>>
  BY DEF PublishArchive
<1>2. /\ exports[x] \in ExportRows /\ buildJobs[x] \in BuildJobRows /\ drives[x] \in DriveRows
      /\ ExportFits(x) /\ \A u \in Tokens : builds[x][u] \in BuildRows /\ BuildFits(x, u)
  BY RowsOfExports
<1>3. CASE DecidePublish(x, t) = "refuse"
  <2> DEFINE build == [builds[x][t] EXCEPT !.step = "discarding", !.answer = "refused"]
  <2>1. Builds(x, t, build) /\ UNCHANGED <<exports, cleanups>>
    BY <1>3 DEF PublishArchive, Discarding, Builds
  <2>2. build \in BuildRows /\ build.step = "discarding" /\ build.holds = builds[x][t].holds
    BY <1>2 DEF BuildRows, BuildSteps, Answers
  <2> HIDE DEF build
  <2> QED
    BY <1>1, <2>1, <2>2, WorkerStep
<1>4. CASE DecidePublish(x, t) # "refuse"
  <2>1. /\ exports[x].state = "building" /\ exports[x].token = t /\ exports[x].object = 0
    <3>1. exports[x].state = "building" /\ exports[x].token = t
      BY <1>4 DEF DecidePublish
    <3> QED
      BY <1>2, <3>1 DEF ExportFits
  <2>2. \E row \in ExportRows, build \in BuildRows :
          /\ exports' = [exports EXCEPT ![x] = row] /\ Builds(x, t, build)
          /\ row.object = t /\ row.token = exports[x].token /\ build.holds = builds[x][t].holds
          /\ \/ /\ row.state = "available" /\ build.step = "published" /\ cleanups' = cleanups
                /\ row.links = build.holds /\ build.holds \intersect purged = {}
             \/ /\ row.state = "invalidated" /\ build.step = "discarding"
                /\ cleanups' = [cleanups EXCEPT ![x] = "scheduled"]
    <3>1. CASE DecidePublish(x, t) = "publish"
      <4> DEFINE row == [exports[x] EXCEPT !.state = "available", !.object = t,
                                           !.links = builds[x][t].holds]
                 build == [builds[x][t] EXCEPT !.step = "published"]
      <4>1. exports' = [exports EXCEPT ![x] = row] /\ Builds(x, t, build) /\ cleanups' = cleanups
        BY <3>1 DEF PublishArchive, Builds
      <4>2. build \in BuildRows /\ build.step = "published" /\ build.holds = builds[x][t].holds
        BY <1>2 DEF BuildRows, BuildSteps
      <4>3. /\ row \in ExportRows /\ row.state = "available" /\ row.object = t
            /\ row.token = exports[x].token /\ row.links = builds[x][t].holds
        BY <1>2 DEF ExportRows, BuildRows, PreTerminal, InFlight
      <4>4. builds[x][t].holds \intersect purged = {}
        BY <2>1, <3>1 DEF DecidePublish
      <4> HIDE DEF row, build
      <4> QED
        BY <4>1, <4>2, <4>3, <4>4
    <3>2. CASE DecidePublish(x, t) = "invalidate"
      <4> DEFINE row == [exports[x] EXCEPT !.state = "invalidated", !.object = t]
      <4>1. PICK answer \in Answers :
              /\ exports' = [exports EXCEPT ![x] = row]
              /\ Builds(x, t, [builds[x][t] EXCEPT !.step = "discarding", !.answer = answer])
              /\ cleanups' = [cleanups EXCEPT ![x] = "scheduled"]
        BY <3>2 DEF PublishArchive, Discarding, Builds, Answers
      <4> DEFINE build == [builds[x][t] EXCEPT !.step = "discarding", !.answer = answer]
      <4>2. build \in BuildRows /\ build.step = "discarding" /\ build.holds = builds[x][t].holds
        BY <1>2 DEF BuildRows, BuildSteps
      <4>3. /\ row \in ExportRows /\ row.state = "invalidated" /\ row.object = t
            /\ row.token = exports[x].token
        BY <1>2 DEF ExportRows, PreTerminal, InFlight
      <4> HIDE DEF row, build
      <4> QED
        BY <4>1, <4>2, <4>3 DEF build
    <3> QED
      BY <1>4, <3>1, <3>2 DEF DecidePublish
  <2>3. PICK row \in ExportRows, build \in BuildRows :
          /\ exports' = [exports EXCEPT ![x] = row] /\ Builds(x, t, build)
          /\ row.object = t /\ row.token = exports[x].token /\ build.holds = builds[x][t].holds
          /\ \/ /\ row.state = "available" /\ build.step = "published" /\ cleanups' = cleanups
                /\ row.links = build.holds /\ build.holds \intersect purged = {}
             \/ /\ row.state = "invalidated" /\ build.step = "discarding"
                /\ cleanups' = [cleanups EXCEPT ![x] = "scheduled"]
    BY <2>2
  <2>4. /\ exports' \in [Exports -> ExportRows] /\ exports'[x] = row
        /\ \A y \in Exports : y # x => exports'[y] = exports[y]
    BY <2>3, ExportChanges
  <2>5. /\ builds' \in [Exports -> [Tokens -> BuildRows]] /\ builds'[x][t] = build
        /\ \A u \in Tokens : u # t => builds'[x][u] = builds[x][u]
        /\ \A y \in Exports : y # x => builds'[y] = builds[y]
    BY <2>3, BuildChanges
  <2>6. /\ cleanups' \in [Exports -> {"none", "scheduled", "over"}]
        /\ \A y \in Exports : y # x => cleanups'[y] = cleanups[y]
        /\ row.state = "available" \/ cleanups'[x] = "scheduled"
    BY <2>3 DEF ExportInv, ExportTypeOK
  <2>7. ExportTypeOK'
    BY <1>1, <2>4, <2>5, <2>6 DEF ExportInv, ExportTypeOK, BuildRows
  <2>8. Apart(x)
    BY <1>1, <2>4, <2>5, <2>6 DEF Apart
  <2>9. ExportFits(x)'
    BY <1>1, <1>2, <2>1, <2>3, <2>4, <2>5 DEF ExportFits
  <2>10. ASSUME NEW u \in Tokens
         PROVE  BuildFits(x, u)'
    <3>1. BuildFits(x, u)
      BY <1>2
    <3>2. CASE u = t
      BY <1>1, <2>3, <2>4, <2>5, <2>6, <3>1, <3>2 DEF BuildFits, Owned
    <3>3. CASE u # t
      BY <1>1, <2>1, <2>3, <2>4, <2>5, <2>6, <3>1, <3>3, TokensAreNumbers DEF BuildFits, Owned
    <3> QED
      BY <3>2, <3>3
  <2> QED
    BY <1>1, <2>7, <2>8, <2>9, <2>10, ExportStep
<1> QED
  BY <1>3, <1>4

(* The end of an archive: the row leaves what it offered to a cleanup.     *)
LEMMA EndStep ==
  ASSUME ExportInv, NEW x \in Exports, NEW row \in ExportRows, exports' = [exports EXCEPT ![x] = row],
         UNCHANGED <<buildJobs, drives, builds, purged>>,
         row.token = exports[x].token, row.object = exports[x].object, row.links = exports[x].links,
         row.state = exports[x].state \/ (exports[x].state = "available" /\ row.state = "expired"),
         cleanups' \in [Exports -> {"none", "scheduled", "over"}],
         cleanups'[x] # "none", \A y \in Exports : y # x => cleanups'[y] = cleanups[y],
         archives' = archives \/ archives' = archives \ {<<x, exports[x].object>>}
  PROVE  ExportInv'
<1>1. /\ exports[x] \in ExportRows /\ buildJobs[x] \in BuildJobRows /\ drives[x] \in DriveRows
      /\ ExportFits(x) /\ \A u \in Tokens : builds[x][u] \in BuildRows /\ BuildFits(x, u)
  BY RowsOfExports
<1>2. /\ exports' \in [Exports -> ExportRows] /\ exports'[x] = row
      /\ \A y \in Exports : y # x => exports'[y] = exports[y]
  BY ExportChanges
<1>3. archives' \subseteq archives /\ \A y \in Exports, t \in Tokens : y # x =>
        (<<y, t>> \in archives' <=> <<y, t>> \in archives)
  OBVIOUS
<1>4. ExportTypeOK'
  BY <1>2, <1>3 DEF ExportInv, ExportTypeOK
<1>5. Apart(x)
  BY <1>2, <1>3 DEF Apart
<1>6. ExportFits(x)'
  BY <1>1, <1>2 DEF ExportFits
<1>7. \A u \in Tokens : BuildFits(x, u)'
  BY <1>1, <1>2, <1>3 DEF BuildFits, Owned
<1> QED
  BY <1>4, <1>5, <1>6, <1>7, ExportStep

LEMMA ExpireExportKeeps ==
  ASSUME ExportInv, NEW x \in Exports, ExpireExport(x)
  PROVE  ExportInv'
<1> DEFINE row == [exports[x] EXCEPT !.state = "expired"]
<1>1. /\ exports[x].state = "available" /\ exports' = [exports EXCEPT ![x] = row]
      /\ cleanups' = [cleanups EXCEPT ![x] = "scheduled"]
      /\ UNCHANGED <<buildJobs, drives, builds, archives, purged>>
  BY DEF ExpireExport
<1>2. exports[x] \in ExportRows
  BY RowsOfExports
<1>3. /\ row \in ExportRows /\ row.state = "expired" /\ row.token = exports[x].token
      /\ row.object = exports[x].object /\ row.links = exports[x].links
  BY <1>2, StateRow
<1>4. /\ cleanups' \in [Exports -> {"none", "scheduled", "over"}] /\ cleanups'[x] # "none"
      /\ \A y \in Exports : y # x => cleanups'[y] = cleanups[y]
  BY <1>1 DEF ExportInv, ExportTypeOK
<1> HIDE DEF row
<1> QED
  BY <1>1, <1>3, <1>4, EndStep

LEMMA CleanupExportKeeps ==
  ASSUME ExportInv, NEW x \in Exports, CleanupExport(x)
  PROVE  ExportInv'
<1> DEFINE cleaned == [exports[x] EXCEPT !.cleaned = TRUE]
<1>1. /\ cleanups' = [cleanups EXCEPT ![x] = "over"] /\ UNCHANGED <<buildJobs, drives, builds, purged>>
      /\ archives' = archives \/ archives' = archives \ {<<x, exports[x].object>>}
  BY DEF CleanupExport
<1>2. exports[x] \in ExportRows
  BY RowsOfExports
<1>3. PICK row \in {exports[x], cleaned} : exports' = [exports EXCEPT ![x] = row]
  <2>1. exports' = exports \/ exports' = [exports EXCEPT ![x] = cleaned]
    BY DEF CleanupExport
  <2> HIDE DEF cleaned
  <2> QED
    BY <2>1 DEF ExportInv, ExportTypeOK
<1>4. /\ cleaned \in ExportRows /\ cleaned.state = exports[x].state /\ cleaned.token = exports[x].token
      /\ cleaned.object = exports[x].object /\ cleaned.links = exports[x].links
  BY <1>2 DEF ExportRows
<1> HIDE DEF cleaned
<1>5. /\ row \in ExportRows /\ row.state = exports[x].state /\ row.token = exports[x].token
      /\ row.object = exports[x].object /\ row.links = exports[x].links
  BY <1>2, <1>3, <1>4
<1>6. /\ cleanups' \in [Exports -> {"none", "scheduled", "over"}] /\ cleanups'[x] # "none"
      /\ \A y \in Exports : y # x => cleanups'[y] = cleanups[y]
  BY <1>1 DEF ExportInv, ExportTypeOK
<1> QED
  BY <1>1, <1>3, <1>5, <1>6, EndStep

(* A tombstone invalidates every export that is linked to the source.      *)
LEMMA TombstoneKeeps ==
  ASSUME ExportInv, NEW s \in Sources, Tombstone(s), UNCHANGED <<buildJobs, drives, builds, archives>>
  PROVE  ExportInv'
<1>1. /\ purged' = purged \union {s}
      /\ exports' = [x \in Exports |-> IF x \in Invalidated(s)
                       THEN [exports[x] EXCEPT !.state = "invalidated"] ELSE exports[x]]
      /\ cleanups' = [x \in Exports |-> IF x \in Invalidated(s) /\ exports[x].object # 0
                        THEN "scheduled" ELSE cleanups[x]]
  BY DEF Tombstone, InvalidateExportsForSource
<1>2. ASSUME NEW x \in Exports
      PROVE  /\ exports'[x] \in ExportRows /\ exports'[x].token = exports[x].token
             /\ exports'[x].object = exports[x].object /\ exports'[x].links = exports[x].links
             /\ IF x \in Invalidated(s) THEN exports'[x].state = "invalidated"
                ELSE exports'[x].state = exports[x].state
             /\ cleanups'[x] = IF x \in Invalidated(s) /\ exports[x].object # 0
                                 THEN "scheduled" ELSE cleanups[x]
  <2>1. exports[x] \in ExportRows
    BY RowsOfExports
  <2> QED
    BY <1>1, <2>1, StateRow
<1>3. ExportTypeOK'
  <2>1. exports' \in [Exports -> ExportRows]
    BY <1>1, <1>2
  <2>2. cleanups' \in [Exports -> {"none", "scheduled", "over"}]
    BY <1>1 DEF ExportInv, ExportTypeOK
  <2> QED
    BY <1>1, <2>1, <2>2 DEF ExportInv, ExportTypeOK
<1>4. ASSUME NEW x \in Exports
      PROVE  ExportFits(x)' /\ \A t \in Tokens : BuildFits(x, t)'
  <2>1. /\ exports[x] \in ExportRows /\ buildJobs[x] \in BuildJobRows /\ drives[x] \in DriveRows
        /\ ExportFits(x) /\ \A u \in Tokens : builds[x][u] \in BuildRows /\ BuildFits(x, u)
    BY RowsOfExports
  <2>2. exports'[x].state = "available" => s \notin exports[x].links
    BY <1>2 DEF Invalidated, PreTerminal
  <2>3. ExportFits(x)'
    BY <1>1, <1>2, <2>1, <2>2 DEF ExportFits
  <2>4. \A u \in Tokens : Owned(x, u) => (Owned(x, u))'
    BY <1>2, TokensAreNumbers DEF Owned
  <2>5. \A u \in Tokens : BuildFits(x, u)'
    BY <2>1, <2>4 DEF BuildFits
  <2> QED
    BY <2>3, <2>5
<1> QED
  BY <1>3, <1>4 DEF ExportInv

LEMMA ExportInvStep ==
  ASSUME ExportInv, ExportSteps \/ UNCHANGED exportVars
  PROVE  ExportInv'
<1>1. CASE UNCHANGED exportVars
  BY <1>1 DEF exportVars, ExportInv, ExportTypeOK, ExportFits, BuildFits, Owned
<1>2. CASE \E x \in Exports :
             \/ RequestExport(x) \/ BeginBuild(x) \/ PostBuild(x) \/ ObserveBuild(x)
             \/ RecordBuildOutcome(x) \/ ExpireExport(x) \/ CleanupExport(x)
  BY <1>2, RequestExportKeeps, BeginBuildKeeps, PostBuildKeeps, ObserveBuildKeeps,
     RecordBuildOutcomeKeeps, ExpireExportKeeps, CleanupExportKeeps
<1>3. CASE \E x \in Exports, t \in Tokens :
             \/ ReadSnapshot(x, t) \/ StoreArchive(x, t) \/ PublishArchive(x, t)
             \/ HearPublish(x, t) \/ DiscardArchive(x, t) \/ WorkerDies(x, t)
  BY <1>3, ReadSnapshotKeeps, StoreArchiveKeeps, PublishArchiveKeeps, HearPublishKeeps,
     DiscardArchiveKeeps, WorkerDiesKeeps
<1> QED
  BY <1>1, <1>2, <1>3 DEF ExportSteps

LEMMA ExportInvShows == ExportInv => PurgedLeavesNoArchive /\ NoStrandedArchive
<1> SUFFICES ASSUME ExportInv PROVE PurgedLeavesNoArchive /\ NoStrandedArchive
  OBVIOUS
<1>1. PurgedLeavesNoArchive
  BY RowsOfExports DEF ExportFits, PurgedLeavesNoArchive
<1>2. NoStrandedArchive
  <2> SUFFICES ASSUME NEW x \in Exports, NEW t \in Tokens, <<x, t>> \in archives
               PROVE  \/ exports[x].object = t /\ (exports[x].state = "available" \/ cleanups[x] # "none")
                      \/ builds[x][t].step \in {"stored", "discarding", "lost"}
    BY DEF NoStrandedArchive
  <2>1. BuildFits(x, t)
    BY RowsOfExports
  <2> QED
    BY <2>1 DEF BuildFits, Owned
<1> QED
  BY <1>1, <1>2

-----------------------------------------------------------------------------
(* Permanent deletion.  A source that was asked or cited keeps its link    *)
(* until the text is redacted; a job ends only with its stages.            *)

CaseFits(c) ==
  /\ cases[c].state # "resolved" =>
       cases[c].cites = {} /\ cases[c].answered = {} /\ cases[c].basis # "legacy"
  /\ \A s \in cases[c].asked : s \in cases[c].links \/ cases[c].question = "redacted"
  /\ \A s \in cases[c].answered :
       \/ s \in cases[c].cites
       \/ cases[c].note = "redacted"
       \/ cases[c].basis = "legacy" /\ s \in cases[c].links

PurgeFits(s) ==
  /\ s \notin purged =>
       /\ purgeJobs[s].state = "none" /\ purgeJobs[s].attempts = 0 /\ mediaCalls[s] = "none"
       /\ \A k \in StageKinds : stages[s][k] = "none"
  /\ mediaCalls[s] # "none" =>
       purgeJobs[s].state = "running" /\ \A k \in InTransactionKinds : stages[s][k] = "purged"
  /\ purgeJobs[s].state = "queued" /\ purgeJobs[s].attempts >= PurgeAttempts =>
       \E k \in StageKinds : stages[s][k] = "failed"
  /\ purgeJobs[s].state = "failed" => \E k \in StageKinds : stages[s][k] = "failed"
  /\ purgeJobs[s].state = "succeeded" => \A k \in StageKinds : stages[s][k] = "purged"

TextFits(s, c) ==
  stages[s]["transcripts"] = "purged" =>
    /\ s \in cases[c].asked => cases[c].question = "redacted"
    /\ s \in cases[c].answered => cases[c].note = "redacted"

DeletionInv ==
  /\ ExportInv /\ DeletionTypeOK
  /\ \A c \in Cases : CaseFits(c)
  /\ \A s \in Sources : PurgeFits(s)
  /\ \A s \in Sources, c \in Cases : TextFits(s, c)

StageRows == [StageKinds -> {"none", "pending", "failed", "purged"}]
PurgeJobRows == [state : {"none", "queued", "running", "succeeded", "failed"},
                 attempts : 0 .. PurgeAttempts]
Calls == {"none", "scheduled", "ok", "retry", "uncertain"}

LEMMA DeletionTypes ==
  DeletionTypeOK <=>
    /\ ExportTypeOK
    /\ stages \in [Sources -> StageRows]
    /\ purgeJobs \in [Sources -> PurgeJobRows]
    /\ mediaCalls \in [Sources -> Calls]
    /\ keys \in [Sources -> (SUBSET Files) \union {{"undefined"}}]
    /\ recorded \in [Sources -> SUBSET Files] /\ bytes \in [Sources -> SUBSET Files]
    /\ imaging \in [Sources -> {"none", "reading", "stored"}]
    /\ cases \in [Cases -> CaseRows]
BY DEF DeletionTypeOK, StageRows, PurgeJobRows, Calls

LEMMA StageNames ==
  /\ DOMAIN InTransaction = 1 .. 5 /\ InTransaction[1] = "transcripts"
  /\ \A n \in 1 .. 5 : InTransaction[n] \in InTransactionKinds
  /\ InTransactionKinds = {"transcripts", "findings_marking", "search_index", "notification_work",
                           "exports"}
  /\ StageKinds = InTransactionKinds \union {"media_objects"}
  /\ "media_objects" \notin InTransactionKinds
<1>1. DOMAIN InTransaction = 1 .. 5 /\ InTransaction[1] = "transcripts" /\ InTransaction[2] = "findings_marking"
      /\ InTransaction[3] = "search_index" /\ InTransaction[4] = "notification_work"
      /\ InTransaction[5] = "exports"
  BY DEF InTransaction
<1>2. InTransactionKinds = {InTransaction[n] : n \in 1 .. 5}
  BY <1>1 DEF InTransactionKinds
<1>3. \A k : k \in InTransactionKinds <=>
               k \in {"transcripts", "findings_marking", "search_index", "notification_work", "exports"}
  <2>1. \A n \in 1 .. 5 : n = 1 \/ n = 2 \/ n = 3 \/ n = 4 \/ n = 5
    OBVIOUS
  <2>2. 1 \in 1 .. 5 /\ 2 \in 1 .. 5 /\ 3 \in 1 .. 5 /\ 4 \in 1 .. 5 /\ 5 \in 1 .. 5
    OBVIOUS
  <2> QED
    BY <1>1, <1>2, <2>1, <2>2
<1> QED
  BY <1>1, <1>2, <1>3 DEF StageKinds

LEMMA RowsOfPurge ==
  ASSUME DeletionInv, NEW s \in Sources
  PROVE  /\ stages[s] \in StageRows /\ purgeJobs[s] \in PurgeJobRows /\ mediaCalls[s] \in Calls
         /\ recorded[s] \in SUBSET Files /\ bytes[s] \in SUBSET Files
         /\ PurgeFits(s) /\ \A c \in Cases : TextFits(s, c)
         /\ purged \subseteq Sources /\ (stages[s]["transcripts"] = "purged" => s \in purged)
<1>1. PurgeFits(s) /\ \A c \in Cases : TextFits(s, c)
  BY DEF DeletionInv
<1>2. stages[s]["transcripts"] = "purged" => s \in purged
  BY <1>1, StageNames DEF PurgeFits
<1> QED
  BY <1>1, <1>2, DeletionTypes, ExportTypes DEF DeletionInv

LEMMA RowsOfCase ==
  ASSUME DeletionInv, NEW c \in Cases
  PROVE  cases[c] \in CaseRows /\ CaseFits(c) /\ \A s \in Sources : TextFits(s, c)
BY DeletionTypes DEF DeletionInv

LEMMA DeletionInvInit ==
  ASSUME DeletionInit
  PROVE  DeletionInv
<1>1. ExportInv
  BY ExportInvInit DEF DeletionInit
<1>2. NoCase \in CaseRows /\ NoCase.state = "none" /\ NoCase.asked = {} /\ NoCase.answered = {}
      /\ NoCase.cites = {} /\ NoCase.basis = "none"
  BY DEF NoCase, CaseRows, Texts
<1>3. ASSUME NEW s \in Sources
      PROVE  /\ LegacyCase(s) \in CaseRows /\ LegacyCase(s).state = "resolved"
             /\ LegacyCase(s).asked = {s} /\ LegacyCase(s).links = {s} /\ LegacyCase(s).basis = "legacy"
             /\ LegacyCase(s).answered = {s}
  BY DEF LegacyCase, NoCase, CaseRows, Texts
<1>4. DeletionTypeOK
  <2>1. stages \in [Sources -> StageRows] /\ mediaCalls \in [Sources -> Calls]
    BY DEF DeletionInit, StageRows, Calls
  <2>2. purgeJobs \in [Sources -> PurgeJobRows]
    BY DeletionNumbers DEF DeletionInit, PurgeJobRows
  <2>3. keys \in [Sources -> (SUBSET Files) \union {{"undefined"}}]
    BY DEF DeletionInit
  <2>4. recorded \in [Sources -> SUBSET Files] /\ bytes \in [Sources -> SUBSET Files]
    BY DEF DeletionInit, Files
  <2>5. imaging \in [Sources -> {"none", "reading", "stored"}]
    BY DEF DeletionInit
  <2>6. cases \in [Cases -> CaseRows]
    BY <1>2, <1>3 DEF DeletionInit
  <2> QED
    BY <1>1, <2>1, <2>2, <2>3, <2>4, <2>5, <2>6, DeletionTypes DEF ExportInv
<1>5. ASSUME NEW c \in Cases
      PROVE  CaseFits(c)
  <2>1. cases[c] = NoCase \/ \E s \in Sources : cases[c] = LegacyCase(s)
    BY DEF DeletionInit
  <2> QED
    BY <1>2, <1>3, <2>1 DEF CaseFits
<1>6. \A s \in Sources : PurgeFits(s)
  BY StageNames DEF DeletionInit, PurgeFits
<1>7. \A s \in Sources, c \in Cases : TextFits(s, c)
  BY StageNames DEF DeletionInit, TextFits
<1> QED
  BY <1>1, <1>4, <1>5, <1>6, <1>7 DEF DeletionInv

(* The steps of the exports leave the lifecycle of every source alone.     *)
LEMMA ExportStepsKeep ==
  ASSUME DeletionInv, ExportSteps \/ UNCHANGED exportVars, UNCHANGED deletionVars
  PROVE  DeletionInv'
<1>1. ExportInv'
  BY ExportInvStep DEF DeletionInv
<1>2. UNCHANGED purged
  <2>1. CASE UNCHANGED exportVars
    BY <2>1 DEF exportVars
  <2>2. ASSUME NEW x \in Exports,
               \/ RequestExport(x) \/ BeginBuild(x) \/ PostBuild(x) \/ ObserveBuild(x)
               \/ RecordBuildOutcome(x) \/ ExpireExport(x) \/ CleanupExport(x)
        PROVE  UNCHANGED purged
    BY <2>2 DEF RequestExport, BeginBuild, PostBuild, ObserveBuild, RecordBuildOutcome,
                ExpireExport, CleanupExport
  <2>3. ASSUME NEW x \in Exports, NEW t \in Tokens,
               \/ ReadSnapshot(x, t) \/ StoreArchive(x, t) \/ PublishArchive(x, t)
               \/ HearPublish(x, t) \/ DiscardArchive(x, t) \/ WorkerDies(x, t)
        PROVE  UNCHANGED purged
    BY <2>3 DEF ReadSnapshot, StoreArchive, PublishArchive, HearPublish, DiscardArchive, WorkerDies
  <2> QED
    BY <2>1, <2>2, <2>3 DEF ExportSteps
<1>3. UNCHANGED <<stages, purgeJobs, mediaCalls, keys, recorded, bytes, imaging, cases>>
  BY DEF deletionVars
<1>4. DeletionTypeOK'
  BY <1>1, <1>3 DEF DeletionInv, DeletionTypeOK, ExportInv
<1> QED
  BY <1>1, <1>2, <1>3, <1>4 DEF DeletionInv, CaseFits, PurgeFits, TextFits

(* One case changes.                                                       *)
LEMMA CaseStep ==
  ASSUME DeletionInv, NEW c \in Cases, NEW case \in CaseRows, cases' = [cases EXCEPT ![c] = case],
         UNCHANGED <<exportVars, stages, purgeJobs, mediaCalls, keys, recorded, bytes, imaging>>,
         CaseFits(c)', \A s \in Sources : TextFits(s, c)'
  PROVE  DeletionInv'
<1>1. ExportInv'
  BY ExportInvStep DEF DeletionInv
<1>2. cases' \in [Cases -> CaseRows] /\ \A d \in Cases : d # c => cases'[d] = cases[d]
  BY DeletionTypes DEF DeletionInv
<1>3. DeletionTypeOK'
  BY <1>1, <1>2 DEF DeletionInv, DeletionTypeOK, ExportInv
<1>4. ASSUME NEW d \in Cases
      PROVE  CaseFits(d)' /\ \A s \in Sources : TextFits(s, d)'
  <2>1. CaseFits(d) /\ \A s \in Sources : TextFits(s, d)
    BY RowsOfCase
  <2> QED
    BY <1>2, <2>1 DEF CaseFits, TextFits
<1>5. \A s \in Sources : PurgeFits(s)'
  BY DEF DeletionInv, PurgeFits, exportVars
<1> QED
  BY <1>1, <1>3, <1>4, <1>5 DEF DeletionInv

LEMMA RaiseClarificationKeeps ==
  ASSUME DeletionInv, NEW c \in Cases, RaiseClarification(c)
  PROVE  DeletionInv'
<1>1. PICK links \in SUBSET (Sources \ purged) :
        cases' = [cases EXCEPT ![c] = [NoCase EXCEPT !.state = "open", !.links = links,
                                         !.question = "shown", !.asked = links]]
  BY DEF RaiseClarification
<1>2. UNCHANGED <<exportVars, stages, purgeJobs, mediaCalls, keys, recorded, bytes, imaging>>
  BY DEF RaiseClarification
<1> DEFINE case == [NoCase EXCEPT !.state = "open", !.links = links, !.question = "shown",
                                  !.asked = links]
<1>3. /\ case \in CaseRows /\ case.state = "open" /\ case.asked = links /\ case.links = links
      /\ case.answered = {} /\ case.cites = {} /\ case.basis = "none"
  BY DEF NoCase, CaseRows, Texts
<1>4. cases' = [cases EXCEPT ![c] = case]
  BY <1>1
<1> HIDE DEF case
<1>5. cases'[c] = case
  BY <1>4 DEF DeletionInv, DeletionTypeOK
<1>6. CaseFits(c)'
  BY <1>3, <1>5 DEF CaseFits
<1>7. ASSUME NEW s \in Sources
      PROVE  TextFits(s, c)'
  <2>1. stages[s]["transcripts"] = "purged" => s \in purged
    BY RowsOfPurge
  <2> QED
    BY <1>2, <1>3, <1>5, <2>1 DEF TextFits
<1> QED
  BY <1>2, <1>3, <1>4, <1>6, <1>7, CaseStep

LEMMA ResolveClarificationKeeps ==
  ASSUME DeletionInv, NEW c \in Cases, ResolveClarification(c)
  PROVE  DeletionInv'
<1>1. PICK cites \in SUBSET (Sources \ purged) :
        cases' = [cases EXCEPT ![c] =
                    [cases[c] EXCEPT !.state = "resolved", !.cites = cites, !.note = "shown",
                                     !.basis = IF cites = {} THEN "manual" ELSE "source_backed",
                                     !.answered = cites]]
  BY DEF ResolveClarification
<1>2. UNCHANGED <<exportVars, stages, purgeJobs, mediaCalls, keys, recorded, bytes, imaging>>
  BY DEF ResolveClarification
<1> DEFINE case == [cases[c] EXCEPT !.state = "resolved", !.cites = cites, !.note = "shown",
                      !.basis = IF cites = {} THEN "manual" ELSE "source_backed", !.answered = cites]
<1>3. cases[c] \in CaseRows /\ CaseFits(c) /\ \A s \in Sources : TextFits(s, c)
  BY RowsOfCase
<1>4. /\ case \in CaseRows /\ case.state = "resolved" /\ case.asked = cases[c].asked
      /\ case.links = cases[c].links /\ case.question = cases[c].question
      /\ case.answered = cites /\ case.cites = cites
  BY <1>3 DEF CaseRows, Texts
<1>5. cases' = [cases EXCEPT ![c] = case]
  BY <1>1
<1> HIDE DEF case
<1>6. cases'[c] = case
  BY <1>5 DEF DeletionInv, DeletionTypeOK
<1>7. CaseFits(c)'
  BY <1>3, <1>4, <1>6 DEF CaseFits
<1>8. ASSUME NEW s \in Sources
      PROVE  TextFits(s, c)'
  <2>1. stages[s]["transcripts"] = "purged" => s \in purged
    BY RowsOfPurge
  <2> QED
    BY <1>2, <1>3, <1>4, <1>6, <2>1 DEF TextFits
<1> QED
  BY <1>2, <1>4, <1>5, <1>7, <1>8, CaseStep

(* A purge step of one source: the others keep their stages and jobs.      *)
PurgeApart(s) ==
  \A u \in Sources : u # s =>
    /\ stages'[u] = stages[u] /\ purgeJobs'[u] = purgeJobs[u] /\ mediaCalls'[u] = mediaCalls[u]
    /\ u \in purged' <=> u \in purged

LEMMA PurgeStep ==
  ASSUME DeletionInv, NEW s \in Sources, ExportInv', DeletionTypeOK', PurgeApart(s), PurgeFits(s)',
         \A c \in Cases : CaseFits(c)', \A u \in Sources, c \in Cases : TextFits(u, c)'
  PROVE  DeletionInv'
<1>1. ASSUME NEW u \in Sources, u # s
      PROVE  PurgeFits(u)'
  <2>1. PurgeFits(u)
    BY RowsOfPurge
  <2> QED
    BY <1>1, <2>1 DEF PurgeApart, PurgeFits
<1> QED
  BY <1>1 DEF DeletionInv

(* The cases stay, and no transcripts stage is newly through.              *)
LEMMA CasesStay ==
  ASSUME DeletionInv, UNCHANGED cases,
         \A u \in Sources : stages'[u]["transcripts"] = "purged" => stages[u]["transcripts"] = "purged"
  PROVE  /\ \A c \in Cases : CaseFits(c)'
         /\ \A u \in Sources, c \in Cases : TextFits(u, c)'
BY DEF DeletionInv, CaseFits, TextFits

LEMMA ImagingKeeps ==
  ASSUME DeletionInv, NEW s \in Sources, StoreDerived(s) \/ RecordDerived(s)
  PROVE  DeletionInv'
<1>1. UNCHANGED <<exportVars, stages, purgeJobs, mediaCalls, keys, cases>>
  BY DEF StoreDerived, RecordDerived
<1>2. ExportInv'
  BY <1>1, ExportInvStep DEF DeletionInv
<1>3. /\ recorded' \in [Sources -> SUBSET Files] /\ bytes' \in [Sources -> SUBSET Files]
      /\ imaging' \in [Sources -> {"none", "reading", "stored"}]
  <2>1. CASE StoreDerived(s)
    BY <2>1 DEF StoreDerived, DeletionInv, DeletionTypeOK, Files
  <2>2. CASE RecordDerived(s)
    BY <2>2 DEF RecordDerived, DeletionInv, DeletionTypeOK, Files
  <2> QED
    BY <2>1, <2>2
<1>4. DeletionTypeOK'
  BY <1>1, <1>2, <1>3 DEF DeletionInv, DeletionTypeOK, ExportInv
<1>5. (\A c \in Cases : CaseFits(c)') /\ \A u \in Sources, c \in Cases : TextFits(u, c)'
  BY <1>1, CasesStay
<1>6. PurgeApart(s) /\ PurgeFits(s)'
  <2>1. PurgeFits(s)
    BY RowsOfPurge
  <2> QED
    BY <1>1, <2>1 DEF PurgeApart, PurgeFits, exportVars
<1> QED
  BY <1>2, <1>4, <1>5, <1>6, PurgeStep

LEMMA PurgeSourceKeeps ==
  ASSUME DeletionInv, NEW s \in Sources, PurgeSource(s)
  PROVE  DeletionInv'
<1>1. /\ Tombstone(s) /\ UNCHANGED <<buildJobs, drives, builds, archives>>
      /\ UNCHANGED <<mediaCalls, keys, recorded, bytes, imaging, cases>>
      /\ stages' = [stages EXCEPT ![s] = [k \in StageKinds |-> "pending"]]
      /\ purgeJobs' = [purgeJobs EXCEPT ![s] = [purgeJobs[s] EXCEPT !.state = "queued"]]
  BY DEF PurgeSource
<1>2. s \notin purged /\ purged' = purged \union {s}
  BY <1>1 DEF Tombstone
<1>3. ExportInv'
  BY <1>1, TombstoneKeeps DEF DeletionInv
<1>4. stages[s] \in StageRows /\ purgeJobs[s] \in PurgeJobRows /\ PurgeFits(s)
  BY RowsOfPurge
<1> DEFINE job == [purgeJobs[s] EXCEPT !.state = "queued"]
           row == [k \in StageKinds |-> "pending"]
<1>5. job \in PurgeJobRows /\ job.state = "queued" /\ job.attempts = 0 /\ mediaCalls[s] = "none"
  BY <1>2, <1>4 DEF PurgeFits, PurgeJobRows
<1>6. row \in StageRows /\ row["transcripts"] = "pending"
  BY StageNames DEF StageRows
<1>7. stages' = [stages EXCEPT ![s] = row] /\ purgeJobs' = [purgeJobs EXCEPT ![s] = job]
  BY <1>1
<1> HIDE DEF job, row
<1>8. /\ stages' \in [Sources -> StageRows] /\ stages'[s] = row
      /\ \A u \in Sources : u # s => stages'[u] = stages[u]
      /\ purgeJobs' \in [Sources -> PurgeJobRows] /\ purgeJobs'[s] = job
      /\ \A u \in Sources : u # s => purgeJobs'[u] = purgeJobs[u]
  BY <1>5, <1>6, <1>7, DeletionTypes DEF DeletionInv
<1>9. DeletionTypeOK'
  BY <1>1, <1>3, <1>8 DEF DeletionInv, DeletionTypeOK, ExportInv, StageRows, PurgeJobRows
<1>10. PurgeApart(s)
  BY <1>1, <1>2, <1>8 DEF PurgeApart
<1>11. PurgeFits(s)'
  <2>1. ~(0 >= PurgeAttempts)
    BY DeletionNumbers
  <2>2. /\ purgeJobs'[s].state = "queued" /\ ~(purgeJobs'[s].attempts >= PurgeAttempts)
        /\ mediaCalls'[s] = "none" /\ s \in purged'
    BY <1>1, <1>2, <1>5, <1>8, <2>1
  <2> QED
    BY <2>2 DEF PurgeFits
<1>12. (\A c \in Cases : CaseFits(c)') /\ \A u \in Sources, c \in Cases : TextFits(u, c)'
  BY <1>1, <1>6, <1>8, CasesStay
<1> QED
  BY <1>3, <1>9, <1>10, <1>11, <1>12, PurgeStep

(* The text of a case once one of its sources is through its first stage.  *)
LEMMA RedactedRow ==
  ASSUME NEW case \in CaseRows
  PROVE  /\ Redacted(case) \in CaseRows /\ Redacted(case).state = case.state
         /\ Redacted(case).basis = case.basis /\ Redacted(case).asked = case.asked
         /\ Redacted(case).answered = case.answered
         /\ Redacted(case).links = case.links \ purged /\ Redacted(case).cites = case.cites \ purged
         /\ Redacted(case).question = (IF QuestionRedacted(case) THEN "redacted" ELSE case.question)
         /\ Redacted(case).note = (IF NoteRedacted(case) THEN "redacted" ELSE case.note)
BY DEF Redacted, CaseRows, Texts

LEMMA RedactionKeeps ==
  ASSUME DeletionInv, NEW s \in Sources, s \in purged, cases' = PurgeClarificationContent(s)
  PROVE  /\ cases' \in [Cases -> CaseRows]
         /\ \A c \in Cases : CaseFits(c)'
         /\ \A u \in Sources, c \in Cases :
              (u = s \/ stages[u]["transcripts"] = "purged") =>
                 /\ u \in cases'[c].asked => cases'[c].question = "redacted"
                 /\ u \in cases'[c].answered => cases'[c].note = "redacted"
<1>1. ASSUME NEW c \in Cases
      PROVE  /\ cases'[c] \in CaseRows /\ CaseFits(c)'
             /\ \A u \in Sources : (u = s \/ stages[u]["transcripts"] = "purged") =>
                  /\ u \in cases'[c].asked => cases'[c].question = "redacted"
                  /\ u \in cases'[c].answered => cases'[c].note = "redacted"
  <2>1. cases[c] \in CaseRows /\ CaseFits(c) /\ \A u \in Sources : TextFits(u, c)
    BY RowsOfCase
  <2>2. cases'[c] = IF LinksToSource(cases[c], s) THEN Redacted(cases[c]) ELSE cases[c]
    BY DEF PurgeClarificationContent
  <2>3. CASE LinksToSource(cases[c], s)
    <3> DEFINE case == cases[c]
    <3>1. /\ cases'[c] \in CaseRows /\ cases'[c].state = case.state
          /\ cases'[c].basis = case.basis /\ cases'[c].asked = case.asked
          /\ cases'[c].answered = case.answered
          /\ cases'[c].links = case.links \ purged /\ cases'[c].cites = case.cites \ purged
          /\ cases'[c].question = (IF QuestionRedacted(case) THEN "redacted" ELSE case.question)
          /\ cases'[c].note = (IF NoteRedacted(case) THEN "redacted" ELSE case.note)
      BY <2>1, <2>2, <2>3, RedactedRow
    <3>2. \A u \in case.asked : u \in purged => QuestionRedacted(case)
      BY <2>1 DEF CaseFits, QuestionRedacted
    <3>3. \A u \in case.answered : u \in purged => NoteRedacted(case)
      BY <2>1 DEF CaseFits, NoteRedacted, QuestionRedacted
    <3>4. \A u \in case.answered : NoteRedacted(case) \/ u \in cases'[c].cites
                                   \/ (case.basis = "legacy" /\ u \in cases'[c].links)
      BY <2>1, <3>1, <3>3 DEF CaseFits, NoteRedacted
    <3>5. \A u \in case.asked : QuestionRedacted(case) \/ u \in cases'[c].links
      BY <2>1, <3>1, <3>2 DEF CaseFits, QuestionRedacted
    <3>6. CaseFits(c)'
      BY <2>1, <3>1, <3>4, <3>5 DEF CaseFits
    <3>7. ASSUME NEW u \in Sources, u = s \/ stages[u]["transcripts"] = "purged"
          PROVE  /\ u \in cases'[c].asked => cases'[c].question = "redacted"
                 /\ u \in cases'[c].answered => cases'[c].note = "redacted"
      <4>1. u \in purged
        BY <3>7, RowsOfPurge
      <4> QED
        BY <3>1, <3>2, <3>3, <4>1
    <3> QED
      BY <3>1, <3>6, <3>7
  <2>4. CASE ~LinksToSource(cases[c], s)
    <3>1. cases'[c] = cases[c]
      BY <2>2, <2>4
    <3>2. s \notin cases[c].links /\ s \notin cases[c].cites
      BY <2>4 DEF LinksToSource
    <3>3. CaseFits(c)'
      BY <2>1, <3>1 DEF CaseFits
    <3>4. ASSUME NEW u \in Sources, u = s \/ stages[u]["transcripts"] = "purged"
          PROVE  /\ u \in cases'[c].asked => cases'[c].question = "redacted"
                 /\ u \in cases'[c].answered => cases'[c].note = "redacted"
      BY <2>1, <3>1, <3>2, <3>4 DEF TextFits, CaseFits
    <3> QED
      BY <2>1, <3>1, <3>3, <3>4
  <2> QED
    BY <2>3, <2>4
<1>2. cases' = [c \in Cases |-> cases'[c]]
  BY DEF PurgeClarificationContent
<1> QED
  BY <1>1, <1>2

(* Which stages an attempt leaves purged, and that it names the one that   *)
(* stopped it.                                                             *)
LEMMA ReachedStages ==
  ASSUME NEW s \in Sources, NEW refuses \in {{}, {"findings_marking"}}
  PROVE  /\ Reached(s, refuses) \subseteq InTransactionKinds /\ "transcripts" \in Reached(s, refuses)
         /\ "media_objects" \notin Reached(s, refuses)
<1>1. Reached(s, refuses) \subseteq InTransactionKinds
  BY DEF Reached, InTransactionKinds
<1>2. "transcripts" \in Reached(s, refuses)
  <2>1. \A i \in 1 .. 1 : InTransaction[i] \notin refuses /\ InTransaction[i] # "exports"
    BY StageNames
  <2>2. 1 \in {m \in DOMAIN InTransaction :
                 \A i \in 1 .. m : /\ InTransaction[i] \in refuses => stages[s][InTransaction[i]] = "purged"
                                   /\ InTransaction[i] = "exports" => LinkedExportsAreTerminal(s)}
    BY <2>1, StageNames
  <2> QED
    BY <2>2, StageNames DEF Reached
<1> QED
  BY <1>1, <1>2, StageNames

LEMMA StoppedStage ==
  ASSUME NEW done \in SUBSET InTransactionKinds, done # InTransactionKinds
  PROVE  /\ Stopped(done) \in DOMAIN InTransaction /\ InTransaction[Stopped(done)] \notin done
         /\ InTransaction[Stopped(done)] \in InTransactionKinds
<1>1. \E n \in DOMAIN InTransaction :
        /\ InTransaction[n] \notin done
        /\ \A i \in 1 .. n - 1 : InTransaction[i] \in done
  <2>1. PICK m \in 1 .. 5 : InTransaction[m] \notin done
    BY StageNames DEF InTransactionKinds
  <2>2. CASE InTransaction[1] \notin done
    <3>1. \A i \in 1 .. 1 - 1 : InTransaction[i] \in done
      OBVIOUS
    <3> QED
      BY <2>2, <3>1, StageNames
  <2>3. CASE InTransaction[1] \in done /\ InTransaction[2] \notin done
    <3>1. \A i \in 1 .. 2 - 1 : i = 1
      OBVIOUS
    <3>2. 2 \in 1 .. 5
      OBVIOUS
    <3> QED
      BY <2>3, <3>1, <3>2, StageNames
  <2>4. CASE InTransaction[1] \in done /\ InTransaction[2] \in done /\ InTransaction[3] \notin done
    <3>1. \A i \in 1 .. 3 - 1 : i = 1 \/ i = 2
      OBVIOUS
    <3>2. 3 \in 1 .. 5
      OBVIOUS
    <3> QED
      BY <2>4, <3>1, <3>2, StageNames
  <2>5. CASE /\ InTransaction[1] \in done /\ InTransaction[2] \in done /\ InTransaction[3] \in done
             /\ InTransaction[4] \notin done
    <3>1. \A i \in 1 .. 4 - 1 : i = 1 \/ i = 2 \/ i = 3
      OBVIOUS
    <3>2. 4 \in 1 .. 5
      OBVIOUS
    <3> QED
      BY <2>5, <3>1, <3>2, StageNames
  <2>6. CASE /\ InTransaction[1] \in done /\ InTransaction[2] \in done /\ InTransaction[3] \in done
             /\ InTransaction[4] \in done
    <3>1. \A i \in 1 .. 5 - 1 : i = 1 \/ i = 2 \/ i = 3 \/ i = 4
      OBVIOUS
    <3>2. m = 1 \/ m = 2 \/ m = 3 \/ m = 4 \/ m = 5
      OBVIOUS
    <3>3. 5 \in 1 .. 5 /\ m = 5
      BY <2>1, <2>6, <3>2
    <3>4. \A i \in 1 .. 5 - 1 : InTransaction[i] \in done
      BY <2>6, <3>1
    <3> QED
      BY <2>1, <3>3, <3>4, StageNames
  <2> QED
    BY <2>2, <2>3, <2>4, <2>5, <2>6
<1>2. Stopped(done) \in DOMAIN InTransaction /\ InTransaction[Stopped(done)] \notin done
  BY <1>1 DEF Stopped
<1> QED
  BY <1>2, StageNames

LEMMA StagesAfterAttempt ==
  ASSUME DeletionInv, NEW s \in Sources, NEW done \in SUBSET InTransactionKinds
  PROVE  /\ AfterStages(s, done) \in StageRows
         /\ \A k \in done : AfterStages(s, done)[k] = "purged"
         /\ done # InTransactionKinds => \E k \in StageKinds : AfterStages(s, done)[k] = "failed"
<1>1. stages[s] \in StageRows
  BY RowsOfPurge
<1>2. ASSUME NEW k \in StageKinds
      PROVE  /\ k \in done => AfterStages(s, done)[k] = "purged"
             /\ done # InTransactionKinds /\ k = InTransaction[Stopped(done)] =>
                  AfterStages(s, done)[k] = "failed"
             /\ AfterStages(s, done)[k] \in {"none", "pending", "failed", "purged"}
  <2>1. CASE k \in done
    <3>1. ~(done # InTransactionKinds /\ k = InTransaction[Stopped(done)])
      BY <2>1, StoppedStage
    <3> QED
      BY <2>1, <3>1 DEF AfterStages
  <2>2. CASE k \notin done /\ done # InTransactionKinds /\ k = InTransaction[Stopped(done)]
    BY <2>2 DEF AfterStages
  <2>3. CASE k \notin done /\ ~(done # InTransactionKinds /\ k = InTransaction[Stopped(done)])
    <3>1. AfterStages(s, done)[k] = stages[s][k]
      BY <2>3 DEF AfterStages
    <3> QED
      BY <1>1, <2>3, <3>1 DEF StageRows
  <2> QED
    BY <2>1, <2>2, <2>3
<1>3. AfterStages(s, done) = [k \in StageKinds |-> AfterStages(s, done)[k]]
  BY DEF AfterStages
<1>4. AfterStages(s, done) \in StageRows
  BY <1>2, <1>3 DEF StageRows
<1>5. done # InTransactionKinds => \E k \in StageKinds : AfterStages(s, done)[k] = "failed"
  BY <1>2, StoppedStage, StageNames
<1>6. \A k \in done : AfterStages(s, done)[k] = "purged"
  BY <1>2, StageNames
<1> QED
  BY <1>4, <1>5, <1>6

LEMMA RunPurgeKeeps ==
  ASSUME DeletionInv, NEW s \in Sources, RunPurge(s)
  PROVE  DeletionInv'
<1>1. UNCHANGED <<exportVars, recorded, bytes, imaging>> /\ purgeJobs[s].state = "queued"
      /\ purgeJobs[s].attempts < PurgeAttempts
  BY DEF RunPurge, AttemptsLeft
<1>2. /\ stages[s] \in StageRows /\ purgeJobs[s] \in PurgeJobRows /\ mediaCalls[s] \in Calls
      /\ recorded[s] \in SUBSET Files /\ PurgeFits(s)
  BY RowsOfPurge
<1>3. s \in purged /\ mediaCalls[s] = "none" /\ purged' = purged
  BY <1>1, <1>2 DEF PurgeFits, exportVars
<1>4. PICK refuses \in {{}, {"findings_marking"}} :
       LET done == Reached(s, refuses)
           through == done = InTransactionKinds
           tries == purgeJobs[s].attempts + 1
           after == AfterStages(s, done)
           media == IF recorded[s] = {} THEN "purged" ELSE "pending"
       IN /\ stages' = [stages EXCEPT ![s] = IF through THEN [after EXCEPT !["media_objects"] = media]
                                             ELSE after]
          /\ keys' = IF through /\ (keys[s] = {"undefined"} \/ stages[s]["media_objects"] = "failed")
                       THEN [keys EXCEPT ![s] = recorded[s]]
                       ELSE keys
          /\ purgeJobs' = [purgeJobs EXCEPT ![s] =
               [state |-> IF through THEN IF media = "purged" THEN "succeeded" ELSE "running"
                          ELSE IF tries < PurgeAttempts THEN "queued" ELSE "failed",
                attempts |-> tries]]
          /\ mediaCalls' = [mediaCalls EXCEPT ![s] =
               IF through /\ media = "pending" THEN "scheduled" ELSE @]
          /\ cases' = IF "transcripts" \in done /\ stages[s]["transcripts"] # "purged"
                        THEN PurgeClarificationContent(s)
                        ELSE cases
  BY DEF RunPurge
<1> DEFINE done == Reached(s, refuses)
           through == done = InTransactionKinds
           tries == purgeJobs[s].attempts + 1
           after == AfterStages(s, done)
           media == IF recorded[s] = {} THEN "purged" ELSE "pending"
           row == IF through THEN [after EXCEPT !["media_objects"] = media] ELSE after
           state == IF through THEN IF media = "purged" THEN "succeeded" ELSE "running"
                    ELSE IF tries < PurgeAttempts THEN "queued" ELSE "failed"
           call == IF through /\ media = "pending" THEN "scheduled" ELSE "none"
<1>5. /\ done \in SUBSET InTransactionKinds /\ "transcripts" \in done
      /\ "media_objects" \notin done
  BY ReachedStages
<1> HIDE DEF done
<1>6. /\ after \in StageRows /\ \A k \in done : after[k] = "purged"
      /\ ~through => \E k \in StageKinds : after[k] = "failed"
  BY <1>5, StagesAfterAttempt
<1> HIDE DEF after
<1>7. /\ row \in StageRows /\ \A k \in done : row[k] = "purged"
      /\ through => row["media_objects"] = media
      /\ ~through => \E k \in StageKinds : row[k] = "failed"
  BY <1>5, <1>6, StageNames DEF StageRows
<1>8. tries \in 0 .. PurgeAttempts
  <2>1. PICK n \in 0 .. PurgeAttempts : n = purgeJobs[s].attempts
    BY <1>2 DEF PurgeJobRows
  <2>2. n + 1 \in 0 .. PurgeAttempts
    BY <1>1, <2>1, DeletionNumbers
  <2> QED
    BY <2>1, <2>2
<1> DEFINE job == [state |-> state, attempts |-> tries]
<1>9. job \in PurgeJobRows /\ job.state = state /\ job.attempts = tries
  <2>1. state \in {"none", "queued", "running", "succeeded", "failed"}
    OBVIOUS
  <2> HIDE DEF state, tries
  <2> QED
    BY <1>8, <2>1 DEF PurgeJobRows
<1>10. stages' = [stages EXCEPT ![s] = row]
  BY <1>4 DEF done, after
<1>11. purgeJobs' = [purgeJobs EXCEPT ![s] = job]
  BY <1>4 DEF done, after
<1>12. mediaCalls' = [mediaCalls EXCEPT ![s] = call]
  BY <1>3, <1>4, DeletionTypes DEF done, after, DeletionInv
<1>13. cases' = IF stages[s]["transcripts"] # "purged" THEN PurgeClarificationContent(s) ELSE cases
  BY <1>4, <1>5 DEF done, after
<1>14. keys' \in [Sources -> (SUBSET Files) \union {{"undefined"}}]
  <2>1. keys' = keys \/ keys' = [keys EXCEPT ![s] = recorded[s]]
    BY <1>4
  <2> QED
    BY <1>2, <2>1, DeletionTypes DEF DeletionInv
<1>15. /\ call \in Calls /\ (call = "none" \/ state = "running")
       /\ state = "running" => through
       /\ state = "queued" => tries < PurgeAttempts
       /\ state = "failed" => ~through
       /\ state = "succeeded" => through /\ media = "purged"
       /\ state # "none"
  BY DEF Calls
<1> HIDE DEF row, job, state, call, through, media, tries
<1>16. /\ stages' \in [Sources -> StageRows] /\ stages'[s] = row
       /\ \A u \in Sources : u # s => stages'[u] = stages[u]
       /\ purgeJobs' \in [Sources -> PurgeJobRows] /\ purgeJobs'[s] = job
       /\ \A u \in Sources : u # s => purgeJobs'[u] = purgeJobs[u]
       /\ mediaCalls' \in [Sources -> Calls] /\ mediaCalls'[s] = call
       /\ \A u \in Sources : u # s => mediaCalls'[u] = mediaCalls[u]
  BY <1>7, <1>9, <1>10, <1>11, <1>12, <1>15, DeletionTypes DEF DeletionInv
<1>17. ExportInv'
  BY <1>1, ExportInvStep DEF DeletionInv
<1>18. /\ cases' \in [Cases -> CaseRows] /\ \A c \in Cases : CaseFits(c)'
       /\ \A u \in Sources, c \in Cases : TextFits(u, c)'
  <2>1. CASE stages[s]["transcripts"] # "purged"
    <3>1. cases' = PurgeClarificationContent(s)
      BY <1>13, <2>1
    <3>2. /\ cases' \in [Cases -> CaseRows]
          /\ \A c \in Cases : CaseFits(c)'
          /\ \A u \in Sources, c \in Cases : (u = s \/ stages[u]["transcripts"] = "purged") =>
                 /\ u \in cases'[c].asked => cases'[c].question = "redacted"
                 /\ u \in cases'[c].answered => cases'[c].note = "redacted"
      BY <1>3, <3>1, RedactionKeeps
    <3>3. \A u \in Sources : stages'[u]["transcripts"] = "purged" =>
             u = s \/ stages[u]["transcripts"] = "purged"
      BY <1>16
    <3>4. \A u \in Sources, c \in Cases : TextFits(u, c)'
      BY <3>2, <3>3 DEF TextFits
    <3> QED
      BY <3>2, <3>4
  <2>2. CASE stages[s]["transcripts"] = "purged"
    <3>1. cases' = cases
      BY <1>13, <2>2
    <3>2. \A u \in Sources : stages'[u]["transcripts"] = "purged" => stages[u]["transcripts"] = "purged"
      BY <1>16, <2>2
    <3> QED
      BY <3>1, <3>2, CasesStay, DeletionTypes DEF DeletionInv
  <2> QED
    BY <2>1, <2>2
<1>19. DeletionTypeOK'
  BY <1>1, <1>14, <1>16, <1>17, <1>18 DEF DeletionInv, DeletionTypeOK, ExportInv, StageRows, PurgeJobRows,
     Calls
<1>20. PurgeApart(s)
  BY <1>3, <1>16 DEF PurgeApart
<1>21. PurgeFits(s)'
  <2>1. mediaCalls'[s] # "none" =>
          purgeJobs'[s].state = "running" /\ \A k \in InTransactionKinds : stages'[s][k] = "purged"
    BY <1>7, <1>9, <1>15, <1>16 DEF through
  <2>2. ~(purgeJobs'[s].state = "queued" /\ purgeJobs'[s].attempts >= PurgeAttempts)
    <3>1. \A n \in 0 .. PurgeAttempts : n < PurgeAttempts => ~(n >= PurgeAttempts)
      BY DeletionNumbers
    <3> QED
      BY <1>8, <1>9, <1>15, <1>16, <3>1
  <2>3. purgeJobs'[s].state = "failed" => \E k \in StageKinds : stages'[s][k] = "failed"
    BY <1>7, <1>9, <1>15, <1>16
  <2>4. purgeJobs'[s].state = "succeeded" => \A k \in StageKinds : stages'[s][k] = "purged"
    BY <1>7, <1>9, <1>15, <1>16, StageNames DEF through
  <2> QED
    BY <1>3, <2>1, <2>2, <2>3, <2>4 DEF PurgeFits
<1> QED
  BY <1>17, <1>18, <1>19, <1>20, <1>21, PurgeStep

LEMMA ExhaustPurgeKeeps ==
  ASSUME DeletionInv, NEW s \in Sources, ExhaustPurge(s)
  PROVE  DeletionInv'
<1> DEFINE job == [purgeJobs[s] EXCEPT !.state = "failed"]
<1>1. /\ UNCHANGED <<exportVars, stages, mediaCalls, keys, recorded, bytes, imaging, cases>>
      /\ purgeJobs[s].state = "queued" /\ ~(purgeJobs[s].attempts < PurgeAttempts)
      /\ purgeJobs' = [purgeJobs EXCEPT ![s] = job]
  BY DEF ExhaustPurge, AttemptsLeft
<1>2. purgeJobs[s] \in PurgeJobRows /\ PurgeFits(s)
  BY RowsOfPurge
<1>3. job \in PurgeJobRows /\ job.state = "failed" /\ purgeJobs[s].attempts \in 0 .. PurgeAttempts
  BY <1>2 DEF PurgeJobRows
<1>4. \E k \in StageKinds : stages[s][k] = "failed"
  <2>1. \A n \in 0 .. PurgeAttempts : ~(n < PurgeAttempts) => n >= PurgeAttempts
    BY DeletionNumbers
  <2> QED
    BY <1>1, <1>2, <1>3, <2>1 DEF PurgeFits
<1> HIDE DEF job
<1>5. /\ purgeJobs' \in [Sources -> PurgeJobRows] /\ purgeJobs'[s] = job
      /\ \A u \in Sources : u # s => purgeJobs'[u] = purgeJobs[u]
  BY <1>1, <1>3, DeletionTypes DEF DeletionInv
<1>6. ExportInv'
  BY <1>1, ExportInvStep DEF DeletionInv
<1>7. DeletionTypeOK'
  BY <1>1, <1>5, <1>6 DEF DeletionInv, DeletionTypeOK, ExportInv, PurgeJobRows
<1>8. (\A c \in Cases : CaseFits(c)') /\ \A u \in Sources, c \in Cases : TextFits(u, c)'
  BY <1>1, CasesStay
<1>9. PurgeApart(s)
  BY <1>1, <1>5 DEF PurgeApart, exportVars
<1>10. PurgeFits(s)'
  BY <1>1, <1>2, <1>3, <1>4, <1>5 DEF PurgeFits, exportVars
<1> QED
  BY <1>6, <1>7, <1>8, <1>9, <1>10, PurgeStep

LEMMA CallPurgeRouteKeeps ==
  ASSUME DeletionInv, NEW s \in Sources, CallPurgeRoute(s)
  PROVE  DeletionInv'
<1>1. PICK gone \in SUBSET keys[s], outcome \in {"ok", "retry", "uncertain"} :
        /\ mediaCalls' = [mediaCalls EXCEPT ![s] = outcome]
        /\ bytes' = [bytes EXCEPT ![s] = @ \ gone]
  BY DEF CallPurgeRoute
<1>2. mediaCalls[s] = "scheduled" /\ UNCHANGED <<exportVars, stages, purgeJobs, keys, recorded, imaging, cases>>
  BY DEF CallPurgeRoute
<1>3. bytes[s] \in SUBSET Files /\ PurgeFits(s)
  BY RowsOfPurge
<1>4. bytes' \in [Sources -> SUBSET Files]
  BY <1>1, <1>3, DeletionTypes DEF DeletionInv
<1>5. /\ mediaCalls' \in [Sources -> Calls] /\ mediaCalls'[s] = outcome
      /\ \A u \in Sources : u # s => mediaCalls'[u] = mediaCalls[u]
  BY <1>1, DeletionTypes DEF DeletionInv, Calls
<1>6. ExportInv'
  BY <1>2, ExportInvStep DEF DeletionInv
<1>7. DeletionTypeOK'
  BY <1>2, <1>4, <1>5, <1>6 DEF DeletionInv, DeletionTypeOK, ExportInv, Calls
<1>8. (\A c \in Cases : CaseFits(c)') /\ \A u \in Sources, c \in Cases : TextFits(u, c)'
  BY <1>2, CasesStay
<1>9. PurgeApart(s)
  BY <1>2, <1>5 DEF PurgeApart, exportVars
<1>10. PurgeFits(s)'
  BY <1>2, <1>3, <1>5 DEF PurgeFits, exportVars
<1> QED
  BY <1>6, <1>7, <1>8, <1>9, <1>10, PurgeStep

LEMMA RecordPurgeOutcomeKeeps ==
  ASSUME DeletionInv, NEW s \in Sources, RecordPurgeOutcome(s)
  PROVE  DeletionInv'
<1> DEFINE end == StageAfterCall(mediaCalls[s])
           row == [stages[s] EXCEPT !["media_objects"] = end]
           state == CASE mediaCalls[s] = "ok" -> "succeeded" [] mediaCalls[s] = "retry" -> "queued"
                      [] OTHER -> "failed"
           job == [purgeJobs[s] EXCEPT !.state = state]
<1>1. /\ UNCHANGED <<exportVars, keys, recorded, bytes, imaging, cases>>
      /\ mediaCalls[s] \in {"ok", "retry", "uncertain"}
      /\ stages' = [stages EXCEPT ![s] = row]
      /\ purgeJobs' = [purgeJobs EXCEPT ![s] = job]
      /\ mediaCalls' = [mediaCalls EXCEPT ![s] = "none"]
  BY DEF RecordPurgeOutcome
<1>2. /\ stages[s] \in StageRows /\ purgeJobs[s] \in PurgeJobRows /\ PurgeFits(s)
  BY RowsOfPurge
<1>3. /\ end \in {"purged", "failed"} /\ state \in {"succeeded", "queued", "failed"}
      /\ end = "purged" <=> state = "succeeded"
  BY <1>1 DEF StageAfterCall
<1> HIDE DEF end, state
<1>4. /\ \A k \in InTransactionKinds : stages[s][k] = "purged"
      /\ s \in purged
  BY <1>1, <1>2 DEF PurgeFits
<1>5. /\ row \in StageRows /\ row["media_objects"] = end
      /\ \A k \in InTransactionKinds : row[k] = "purged"
  BY <1>2, <1>3, <1>4, StageNames DEF StageRows
<1>6. job \in PurgeJobRows /\ job.state = state
  BY <1>2, <1>3 DEF PurgeJobRows
<1> HIDE DEF row, job
<1>7. /\ stages' \in [Sources -> StageRows] /\ stages'[s] = row
      /\ \A u \in Sources : u # s => stages'[u] = stages[u]
      /\ purgeJobs' \in [Sources -> PurgeJobRows] /\ purgeJobs'[s] = job
      /\ \A u \in Sources : u # s => purgeJobs'[u] = purgeJobs[u]
      /\ mediaCalls' \in [Sources -> Calls] /\ mediaCalls'[s] = "none"
      /\ \A u \in Sources : u # s => mediaCalls'[u] = mediaCalls[u]
  BY <1>1, <1>5, <1>6, DeletionTypes DEF DeletionInv, Calls
<1>8. ExportInv'
  BY <1>1, ExportInvStep DEF DeletionInv
<1>9. DeletionTypeOK'
  BY <1>1, <1>7, <1>8 DEF DeletionInv, DeletionTypeOK, ExportInv, StageRows, PurgeJobRows, Calls
<1>10. (\A c \in Cases : CaseFits(c)') /\ \A u \in Sources, c \in Cases : TextFits(u, c)'
  <2>1. \A u \in Sources : stages'[u]["transcripts"] = "purged" => stages[u]["transcripts"] = "purged"
    BY <1>4, <1>7, StageNames
  <2> QED
    BY <1>1, <2>1, CasesStay
<1>11. PurgeApart(s)
  BY <1>1, <1>7 DEF PurgeApart, exportVars
<1>12. PurgeFits(s)'
  <2>1. state # "succeeded" => \E k \in StageKinds : row[k] = "failed"
    BY <1>3, <1>5, StageNames
  <2>2. state = "succeeded" => \A k \in StageKinds : row[k] = "purged"
    BY <1>3, <1>5, StageNames
  <2> QED
    BY <1>1, <1>3, <1>4, <1>6, <1>7, <2>1, <2>2 DEF PurgeFits, exportVars
<1> QED
  BY <1>8, <1>9, <1>10, <1>11, <1>12, PurgeStep

LEMMA DeletionInvStep ==
  ASSUME DeletionInv, [DeletionNext]_<<exportVars, deletionVars>>
  PROVE  DeletionInv'
<1>1. CASE ExportSteps /\ UNCHANGED deletionVars
  BY <1>1, ExportStepsKeep
<1>2. CASE \E c \in Cases : RaiseClarification(c) \/ ResolveClarification(c)
  BY <1>2, RaiseClarificationKeeps, ResolveClarificationKeeps
<1>3. CASE \E s \in Sources :
             \/ StoreDerived(s) \/ RecordDerived(s) \/ PurgeSource(s) \/ RunPurge(s)
             \/ ExhaustPurge(s) \/ CallPurgeRoute(s) \/ RecordPurgeOutcome(s)
  BY <1>3, ImagingKeeps, PurgeSourceKeeps, RunPurgeKeeps, ExhaustPurgeKeeps, CallPurgeRouteKeeps,
     RecordPurgeOutcomeKeeps
<1>4. CASE UNCHANGED <<exportVars, deletionVars>>
  BY <1>4, ExportStepsKeep
<1> QED
  BY <1>1, <1>2, <1>3, <1>4 DEF DeletionNext

LEMMA DeletionInvAlways == DeletionSpec => []DeletionInv
<1>1. DeletionInit => DeletionInv
  BY DeletionInvInit
<1>2. DeletionInv /\ [DeletionNext]_<<exportVars, deletionVars>> => DeletionInv'
  BY DeletionInvStep
<1> QED
  BY <1>1, <1>2, PTL DEF DeletionSpec

(* Every row of the exports, the worker, the purge and the clarifications  *)
(* is one the schema allows.                                               *)
THEOREM DeletionTypeCorrect == DeletionSpec => []DeletionTypeOK
<1>1. DeletionInv => DeletionTypeOK
  BY DEF DeletionInv
<1> QED
  BY <1>1, DeletionInvAlways, PTL

(* While sources are deleted at any moment, no archive that can be         *)
(* downloaded holds anything of a source deleted for good: the publish     *)
(* looks at what the snapshot held, and the tombstone invalidates what was *)
(* published before it (decidePublish, invalidateExportsForSourceCore).    *)
THEOREM PurgedIsNotOffered == DeletionSpec => []PurgedLeavesNoArchive
<1>1. DeletionInv => PurgedLeavesNoArchive
  BY ExportInvShows DEF DeletionInv
<1> QED
  BY <1>1, DeletionInvAlways, PTL

(* Every archive in the bucket is offered, held by a worker, named by a    *)
(* row whose cleanup was scheduled, or what a dead worker or a refused     *)
(* deletion left (publishArchiveCore, handleBuild).                        *)
THEOREM ArchivesAreAccountedFor == DeletionSpec => []NoStrandedArchive
<1>1. DeletionInv => NoStrandedArchive
  BY ExportInvShows DEF DeletionInv
<1> QED
  BY <1>1, DeletionInvAlways, PTL

(* Once the transcripts stage of a source is through, every stored text of *)
(* a clarification that came from it is the redaction copy, whichever      *)
(* other sources of the case are deleted and in whatever order             *)
(* (purgeClarificationContentForSource).                                   *)
THEOREM DeletedTextIsRedacted == DeletionSpec => []PurgedTextIsRedacted
<1>1. DeletionInv => PurgedTextIsRedacted
  BY DEF DeletionInv, TextFits, PurgedTextIsRedacted
<1> QED
  BY <1>1, DeletionInvAlways, PTL

(* A purge job that has failed shows a failed stage, and one that has      *)
(* succeeded leaves no stage behind (runStage, recordPurgeOutcome).        *)
THEOREM FailedPurgeIsVisible == DeletionSpec => []PurgeIsVisible
<1>1. DeletionInv => PurgeIsVisible
  BY DEF DeletionInv, PurgeFits, PurgeIsVisible
<1> QED
  BY <1>1, DeletionInvAlways, PTL

-----------------------------------------------------------------------------
(* Reminders.  Every schedule has a chain of overdue slots, of which the   *)
(* last one is never settled; what was superseded is of an earlier epoch.  *)

IntentFits(k) ==
  /\ k.kind = "overdue" => k.day <= intents[k].due
  /\ k.epoch <= anchors[k.task].epoch
  /\ intents[k].state = "superseded" => k.epoch < anchors[k.task].epoch
  /\ k.kind = "overdue" /\ intents[k].state \in {"delivered", "muted"} => NextSlot(k) \in DOMAIN intents

ChainExists ==
  \A t \in Tasks, p \in Persons : Addressed(t, p) =>
    \E k \in DOMAIN intents : /\ k.task = t /\ k.person = p
                              /\ k.epoch = anchors[t].epoch /\ k.kind = "overdue"

RemindersInv ==
  /\ RemindersTypeOK /\ SupersededDies /\ ChainExists
  /\ \A k \in DOMAIN intents : IntentFits(k)
  /\ \A t \in Tasks : \A k \in anchors[t].pendingKeys : k.task = t

LEMMA CalendarFacts ==
  /\ Days \in Nat /\ Days > 0 /\ Epochs \in Nat /\ Terms \subseteq 1 .. Days
  /\ Unassigned \notin Persons
BY RemindersAssumption

LEMMA RowsOfReminders ==
  ASSUME RemindersInv
  PROVE  /\ \A t \in Tasks : anchors[t] \in Anchor /\ tasks[t] \in Task
         /\ \A t \in Tasks : EffectiveCoordinator(t) \in Someone /\ Recipients(t) \subseteq Persons
         /\ \A k \in DOMAIN intents : /\ k \in SlotKey /\ intents[k] \in Intent /\ IntentFits(k)
                                      /\ k.task \in Tasks /\ k.person \in Persons
         /\ members \subseteq Persons /\ today \in 1 .. Days
<1>1. /\ \A t \in Tasks : anchors[t] \in Anchor /\ tasks[t] \in Task
      /\ \A k \in DOMAIN intents : /\ k \in SlotKey /\ intents[k] \in Intent /\ IntentFits(k)
                                   /\ k.task \in Tasks /\ k.person \in Persons
      /\ members \subseteq Persons /\ today \in 1 .. Days
  BY DEF RemindersInv, RemindersTypeOK, SlotKey
<1>2. \A t \in Tasks : EffectiveCoordinator(t) \in Someone /\ Recipients(t) \subseteq Persons
  BY <1>1 DEF EffectiveCoordinator, Recipients, Someone, Task
<1> QED
  BY <1>1, <1>2

LEMMA RemindersInvInit ==
  ASSUME RemindersInit
  PROVE  RemindersInv
<1>1. DOMAIN intents = {}
  BY DEF RemindersInit
<1>2. tasks \in [Tasks -> Task]
  BY DEF RemindersInit, Task, Someone
<1>3. anchors \in [Tasks -> Anchor] /\ \A t \in Tasks : anchors[t].status = "none" /\ anchors[t].pendingKeys = {}
  <2>1. [status |-> "none", coordinator |-> Unassigned, term |-> NoTerm, epoch |-> 0,
         pendingKeys |-> {}] \in Anchor
    BY CalendarFacts DEF Anchor, Someone
  <2> QED
    BY <2>1 DEF RemindersInit
<1>4. snoozes \in [Persons \X Tasks -> 0 .. Days] /\ today \in 1 .. Days
  BY CalendarFacts DEF RemindersInit
<1>5. RemindersTypeOK
  BY <1>1, <1>2, <1>3, <1>4 DEF RemindersInit, RemindersTypeOK
<1> QED
  BY <1>1, <1>3, <1>5 DEF RemindersInv, SupersededDies, ChainExists, Addressed

(* The rows and the anchors stay, and nobody joins.                        *)
LEMMA QuietStep ==
  ASSUME RemindersInv, UNCHANGED <<anchors, intents>>, tasks' \in [Tasks -> Task],
         members' \subseteq members, snoozes' \in [Persons \X Tasks -> 0 .. Days],
         recomputes' \subseteq Tasks, today' \in 1 .. Days
  PROVE  RemindersInv'
<1>1. RemindersTypeOK'
  BY DEF RemindersInv, RemindersTypeOK
<1>2. SupersededDies' /\ (\A k \in DOMAIN intents : IntentFits(k))'
  BY DEF RemindersInv, SupersededDies, IntentFits
<1>3. ChainExists'
  BY DEF RemindersInv, ChainExists, Addressed
<1> QED
  BY <1>1, <1>2, <1>3 DEF RemindersInv

LEMMA QuietSteps ==
  ASSUME RemindersInv,
         \/ \E t \in Tasks : ChangeTask(t)
         \/ \E p \in Persons : RevokeMember(p)
         \/ DayPasses
         \/ UNCHANGED remindersVars
  PROVE  RemindersInv'
<1>1. CASE \E t \in Tasks : ChangeTask(t)
  <2>1. /\ tasks' \in [Tasks -> Task] /\ recomputes' \subseteq Tasks
        /\ UNCHANGED <<members, anchors, intents, snoozes, today>>
    BY <1>1 DEF ChangeTask, RemindersInv, RemindersTypeOK
  <2> QED
    BY <2>1, QuietStep DEF RemindersInv, RemindersTypeOK
<1>2. CASE \E p \in Persons : RevokeMember(p)
  BY <1>2, QuietStep DEF RevokeMember, RemindersInv, RemindersTypeOK
<1>3. CASE DayPasses
  <2>1. today' \in 1 .. Days
    BY <1>3, CalendarFacts DEF DayPasses, RemindersInv, RemindersTypeOK
  <2> QED
    BY <1>3, <2>1, QuietStep DEF DayPasses, RemindersInv, RemindersTypeOK
<1>4. CASE UNCHANGED remindersVars
  BY <1>4, QuietStep DEF remindersVars, RemindersInv, RemindersTypeOK
<1> QED
  BY <1>1, <1>2, <1>3, <1>4

(* A snooze moves pending rows to a later day and touches nothing else.    *)
LEMMA SnoozeKeeps ==
  ASSUME RemindersInv, NEW p \in Persons, NEW t \in Tasks, Snooze(p, t)
  PROVE  RemindersInv'
<1>1. PICK until \in (today + 1) .. Days :
        /\ snoozes' = [snoozes EXCEPT ![<<p, t>>] = until]
        /\ intents' = [k \in DOMAIN intents |->
                        IF k.person = p /\ intents[k].state = "pending"
                        THEN [intents[k] EXCEPT !.due = Later(@, until)]
                        ELSE intents[k]]
  BY DEF Snooze
<1>2. UNCHANGED <<tasks, members, anchors, recomputes, today>>
  BY DEF Snooze
<1>3. until \in 1 .. Days
  BY RowsOfReminders, CalendarFacts
<1>4. DOMAIN intents' = DOMAIN intents
  BY <1>1
<1>5. ASSUME NEW k \in DOMAIN intents
      PROVE  /\ intents'[k] \in Intent /\ intents'[k].state = intents[k].state
             /\ intents'[k].due >= intents[k].due
  <2>1. intents[k] \in Intent
    BY RowsOfReminders
  <2>2. intents[k].due \in 1 .. Days + 1 /\ Later(intents[k].due, until) \in 1 .. Days + 1
        /\ Later(intents[k].due, until) >= intents[k].due
    BY <1>3, <2>1, CalendarFacts DEF Later, Intent
  <2>3. CASE k.person = p /\ intents[k].state = "pending"
    <3> DEFINE d == Later(intents[k].due, until)
    <3>1. intents'[k] = [intents[k] EXCEPT !.due = d]
      BY <1>1, <2>3
    <3> HIDE DEF d
    <3>2. d \in 1 .. Days + 1 /\ d >= intents[k].due
      BY <2>2 DEF d
    <3> QED
      BY <2>1, <3>1, <3>2 DEF Intent
  <2>4. CASE ~(k.person = p /\ intents[k].state = "pending")
    BY <1>1, <2>1, <2>2, <2>4
  <2> QED
    BY <2>3, <2>4
<1>6. snoozes' \in [Persons \X Tasks -> 0 .. Days]
  BY <1>1, <1>3 DEF RemindersInv, RemindersTypeOK
<1>7. RemindersTypeOK'
  BY <1>2, <1>4, <1>5, <1>6 DEF RemindersInv, RemindersTypeOK
<1>8. ASSUME NEW k \in DOMAIN intents
      PROVE  IntentFits(k)'
  <2>1. /\ IntentFits(k) /\ intents[k] \in Intent /\ k \in SlotKey
        /\ intents'[k] \in Intent /\ intents'[k].state = intents[k].state
        /\ intents'[k].due >= intents[k].due
    BY <1>5, RowsOfReminders
  <2>2. \A a \in 0 .. Days + 1, b, c \in 1 .. Days + 1 : a <= b /\ c >= b => a <= c
    BY CalendarFacts
  <2>3. k.kind = "overdue" => k.day <= intents'[k].due
    BY <2>1, <2>2 DEF IntentFits, Intent, SlotKey
  <2> QED
    BY <1>2, <1>4, <2>1, <2>3 DEF IntentFits
<1>9. SupersededDies'
  BY <1>2, <1>4, <1>5 DEF RemindersInv, SupersededDies
<1>10. ChainExists' /\ (\A u \in Tasks : \A k \in anchors[u].pendingKeys : k.task = u)'
  BY <1>2, <1>4 DEF RemindersInv, ChainExists, Addressed
<1> QED
  BY <1>4, <1>7, <1>8, <1>9, <1>10 DEF RemindersInv

(* The slots a recompute asks for are of the epoch it moves to.            *)
LEMMA NextEpochGrows ==
  ASSUME RemindersInv, NEW t \in Tasks, NextEpoch(t) <= Epochs
  PROVE  NextEpoch(t) \in 0 .. Epochs /\ anchors[t].epoch <= NextEpoch(t)
<1>1. anchors[t].epoch \in 0 .. Epochs
  BY RowsOfReminders DEF Anchor
<1>2. \A n \in 0 .. Epochs : n + 1 <= Epochs => n + 1 \in 0 .. Epochs /\ n <= n + 1 /\ n <= n
  BY CalendarFacts
<1>3. \A n \in 0 .. Epochs : n <= n
  BY CalendarFacts
<1> QED
  BY <1>1, <1>2, <1>3 DEF NextEpoch

LEMMA DesiredSlots ==
  ASSUME RemindersInv, NEW t \in Tasks, NextEpoch(t) <= Epochs, NEW k \in DesiredKeys(t)
  PROVE  /\ k \in SlotKey /\ k.task = t /\ k.epoch = NextEpoch(t)
         /\ FreshIntent(k, TermAnchor(t), EffectiveCoordinator(t)) \in Intent
         /\ FreshIntent(k, TermAnchor(t), EffectiveCoordinator(t)).state = "pending"
         /\ k.kind = "overdue" =>
              k.day <= FreshIntent(k, TermAnchor(t), EffectiveCoordinator(t)).due
<1>1. PICK p \in Recipients(t), s \in SlotDays(t) : k = Key(t, p, s[1], NextEpoch(t), s[2])
  BY DEF DesiredKeys
<1>2. /\ tasks[t] \in Task /\ EffectiveCoordinator(t) \in Someone /\ p \in Persons
      /\ today \in 1 .. Days
  BY RowsOfReminders
<1>3. ScheduleStatus(t) = "scheduled"
  BY DEF SlotDays
<1>4. tasks[t].term \in Terms /\ TermAnchor(t) = tasks[t].term
  BY <1>2, <1>3 DEF ScheduleStatus, TermAnchor, Task
<1>5. tasks[t].term \in 1 .. Days /\ tasks[t].term + 1 \in 0 .. Days + 1 /\ today \in 0 .. Days + 1
      /\ 0 \in 0 .. Days + 1
  <2>1. tasks[t].term \in 1 .. Days
    BY <1>4, CalendarFacts
  <2>2. \A d \in 1 .. Days : d + 1 \in 0 .. Days + 1 /\ d \in 0 .. Days + 1
    BY CalendarFacts
  <2>3. 0 \in 0 .. Days + 1
    BY CalendarFacts
  <2> QED
    BY <1>2, <2>1, <2>2, <2>3
<1>6. s[1] \in {"pre_due", "overdue"} /\ s[2] \in 0 .. Days + 1
  <2>1. s \in {<<"pre_due", 0>>, <<"overdue", tasks[t].term + 1>>, <<"overdue", today>>}
    BY DEF SlotDays
  <2>2. s = <<"pre_due", 0>> \/ s = <<"overdue", tasks[t].term + 1>> \/ s = <<"overdue", today>>
    BY <2>1
  <2> QED
    BY <1>5, <2>2
<1>7. NextEpoch(t) \in 0 .. Epochs
  BY NextEpochGrows
<1>8. /\ k \in SlotKey /\ k.task = t /\ k.epoch = NextEpoch(t) /\ k.kind = s[1] /\ k.day = s[2]
  BY <1>1, <1>2, <1>6, <1>7 DEF Key, SlotKey
<1> DEFINE ideal == IdealDay(k, TermAnchor(t))
           due == Later(ideal, today)
<1>9. ideal \in 0 .. Days + 1 /\ (k.kind = "overdue" => ideal = k.day)
  BY <1>4, <1>5, <1>6, <1>8, CalendarFacts DEF IdealDay
<1>10. due \in 1 .. Days + 1 /\ ideal <= due
  BY <1>2, <1>9, CalendarFacts DEF Later
<1>11. FreshIntent(k, TermAnchor(t), EffectiveCoordinator(t)) =
         [state |-> "pending", due |-> due, term |-> TermAnchor(t),
          coordinator |-> EffectiveCoordinator(t)]
  BY DEF FreshIntent
<1> HIDE DEF due, ideal
<1> QED
  BY <1>2, <1>4, <1>8, <1>9, <1>10, <1>11 DEF Intent

LEMMA RecomputeKeeps ==
  ASSUME RemindersInv, NEW t \in Tasks, Recompute(t)
  PROVE  RemindersInv'
<1> DEFINE n == NextEpoch(t)
           desired == DesiredKeys(t)
           kept == KeptKeys(t)
           killed == KilledKeys(t)
           fresh(k) == FreshIntent(k, TermAnchor(t), EffectiveCoordinator(t))
           row == [status |-> ScheduleStatus(t), coordinator |-> EffectiveCoordinator(t),
                   term |-> TermAnchor(t), epoch |-> n, pendingKeys |-> desired \cup kept]
<1>1. /\ n <= Epochs /\ UNCHANGED <<tasks, members, today>>
      /\ recomputes' = recomputes \ {t}
      /\ intents' = [k \in DOMAIN intents \cup desired |->
                       IF k \notin DOMAIN intents THEN fresh(k)
                       ELSE IF k \in killed THEN [intents[k] EXCEPT !.state = "superseded"]
                       ELSE intents[k]]
      /\ anchors' = [anchors EXCEPT ![t] = row]
  BY DEF Recompute
<1>2. n \in 0 .. Epochs /\ anchors[t].epoch \in 0 .. Epochs /\ anchors[t].epoch <= n
  BY <1>1, NextEpochGrows, RowsOfReminders DEF Anchor
<1>3. \A k \in desired : /\ k \in SlotKey /\ k.task = t /\ k.epoch = n /\ fresh(k) \in Intent
                         /\ fresh(k).state = "pending"
                         /\ k.kind = "overdue" => k.day <= fresh(k).due
  BY <1>1, DesiredSlots
<1>4. /\ \A k : k \in killed => /\ k \in DOMAIN intents /\ k \in anchors[t].pendingKeys
                                /\ intents[k].state = "pending" /\ k.epoch # n
      /\ \A k : k \in kept => /\ k \in DOMAIN intents /\ k \in anchors[t].pendingKeys /\ k.epoch = n
      /\ \A k \in DOMAIN intents : k \in anchors[t].pendingKeys /\ intents[k].state = "pending" =>
                                     k \in desired \/ k \in killed \/ k \in kept
  BY DEF KilledKeys, KeptKeys
<1>5. \A k \in anchors[t].pendingKeys : k.task = t
  BY DEF RemindersInv
<1>6. snoozes' \in [Persons \X Tasks -> 0 .. Days]
  <2>1. 0 \in 0 .. Days
    BY CalendarFacts
  <2>2. snoozes' = snoozes \/ snoozes' = [pt \in Persons \X Tasks |-> IF pt[2] = t THEN 0 ELSE snoozes[pt]]
    BY DEF Recompute
  <2> QED
    BY <2>1, <2>2 DEF RemindersInv, RemindersTypeOK
<1>7. \A p \in Persons : (p \in members /\ ScheduleStatus(t) = "scheduled"
                            /\ EffectiveCoordinator(t) \in {Unassigned, p}) =>
        \E k \in desired : k.person = p /\ k.kind = "overdue"
  <2> SUFFICES ASSUME NEW p \in Persons, p \in members, ScheduleStatus(t) = "scheduled",
                      EffectiveCoordinator(t) \in {Unassigned, p}
               PROVE  \E k \in desired : k.person = p /\ k.kind = "overdue"
    OBVIOUS
  <2>1. p \in Recipients(t)
    BY DEF Recipients
  <2>2. PICK d \in {today, tasks[t].term + 1} : <<"overdue", d>> \in SlotDays(t)
    BY DEF SlotDays
  <2>3. Key(t, p, "overdue", n, d) \in desired
    BY <2>1, <2>2 DEF DesiredKeys
  <2>4. Key(t, p, "overdue", n, d).person = p /\ Key(t, p, "overdue", n, d).kind = "overdue"
    BY DEF Key
  <2> QED
    BY <2>3, <2>4
<1>8. row \in Anchor /\ row.epoch = n /\ row.pendingKeys = desired \cup kept
      /\ row.status = ScheduleStatus(t) /\ row.coordinator = EffectiveCoordinator(t)
  <2>1. ScheduleStatus(t) \in {"none", "scheduled", "suspended", "closed"}
    BY DEF ScheduleStatus
  <2>2. EffectiveCoordinator(t) \in Someone
    BY RowsOfReminders
  <2>3. TermAnchor(t) \in Terms \cup {NoTerm}
    BY RowsOfReminders DEF TermAnchor, Task
  <2>4. desired \cup kept \in SUBSET SlotKey
    BY <1>3, <1>4, RowsOfReminders
  <2> HIDE DEF desired, kept, n
  <2> QED
    BY <1>2, <2>1, <2>2, <2>3, <2>4 DEF Anchor
<1> HIDE DEF n, desired, kept, killed, fresh, row
<1>9. /\ anchors' \in [Tasks -> Anchor] /\ anchors'[t] = row
      /\ \A u \in Tasks : u # t => anchors'[u] = anchors[u]
  BY <1>1, <1>8 DEF RemindersInv, RemindersTypeOK
<1>10. DOMAIN intents' = DOMAIN intents \cup desired
  BY <1>1
<1>11. ASSUME NEW k \in DOMAIN intents'
       PROVE  /\ k \in SlotKey /\ k.task \in Tasks /\ intents'[k] \in Intent /\ IntentFits(k)'
              /\ intents'[k].state = "pending" =>
                   k.epoch = anchors'[k.task].epoch /\ k \in anchors'[k.task].pendingKeys
  <2>1. CASE k \notin DOMAIN intents
    <3>1. k \in desired /\ intents'[k] = fresh(k)
      BY <1>1, <1>10, <2>1
    <3> QED
      BY <1>2, <1>3, <1>8, <1>9, <1>10, <3>1 DEF IntentFits
  <2>2. CASE k \in DOMAIN intents
    <3>1. /\ k \in SlotKey /\ k.task \in Tasks /\ k.epoch \in 0 .. Epochs /\ intents[k] \in Intent
          /\ IntentFits(k)
          /\ intents[k].state = "pending" =>
               k.epoch = anchors[k.task].epoch /\ k \in anchors[k.task].pendingKeys
      BY <2>2, RowsOfReminders DEF RemindersInv, SupersededDies, SlotKey
    <3>2. k.task = t => k.epoch <= n /\ (k.epoch # n => k.epoch < n)
      <4>1. \A a, b, c \in 0 .. Epochs : a <= b /\ b <= c => a <= c /\ (a # c => a < c)
        BY CalendarFacts
      <4> QED
        BY <1>2, <3>1, <4>1 DEF IntentFits
    <3>3. k.epoch < anchors[k.task].epoch /\ k.task = t => k.epoch < n
      <4>1. \A a, b, c \in 0 .. Epochs : a < b /\ b <= c => a < c
        BY CalendarFacts
      <4> QED
        BY <1>2, <3>1, <4>1
    <3>4. k.epoch <= anchors'[k.task].epoch /\ (k.epoch < anchors[k.task].epoch => k.epoch < anchors'[k.task].epoch)
      BY <1>8, <1>9, <3>1, <3>2, <3>3 DEF IntentFits
    <3>5. CASE k \in killed
      <4>1. /\ intents'[k] = [intents[k] EXCEPT !.state = "superseded"]
            /\ k.task = t /\ k.epoch # n
        BY <1>1, <1>4, <1>5, <1>10, <2>2, <3>5
      <4>2. intents'[k] \in Intent /\ intents'[k].state = "superseded" /\ intents'[k].due = intents[k].due
        BY <3>1, <4>1 DEF Intent
      <4> QED
        BY <1>8, <1>9, <3>1, <3>2, <3>4, <4>1, <4>2 DEF IntentFits
    <3>6. CASE k \notin killed
      <4>1. intents'[k] = intents[k]
        BY <1>1, <1>10, <2>2, <3>6
      <4>2. intents[k].state = "pending" =>
              k.epoch = anchors'[k.task].epoch /\ k \in anchors'[k.task].pendingKeys
        <5>1. CASE k.task = t
          BY <1>3, <1>4, <1>8, <1>9, <2>2, <3>1, <3>6, <5>1
        <5>2. CASE k.task # t
          BY <1>9, <3>1, <5>2
        <5> QED
          BY <5>1, <5>2
      <4>3. IntentFits(k)'
        BY <1>10, <3>1, <3>4, <4>1 DEF IntentFits
      <4> QED
        BY <3>1, <4>1, <4>2, <4>3
    <3> QED
      BY <3>5, <3>6
  <2> QED
    BY <2>1, <2>2
<1>12. RemindersTypeOK'
  <2>1. recomputes' \subseteq Tasks
    BY <1>1 DEF RemindersInv, RemindersTypeOK
  <2>2. DOMAIN intents' \subseteq SlotKey /\ \A k \in DOMAIN intents' : intents'[k] \in Intent
    BY <1>11
  <2> QED
    BY <1>1, <1>6, <1>9, <2>1, <2>2 DEF RemindersInv, RemindersTypeOK
<1>13. SupersededDies'
  BY <1>11 DEF SupersededDies
<1>14. ChainExists'
  <2> SUFFICES ASSUME NEW u \in Tasks, NEW p \in Persons, Addressed(u, p)'
               PROVE  \E k \in DOMAIN intents' : /\ k.task = u /\ k.person = p
                                                 /\ k.epoch = anchors'[u].epoch /\ k.kind = "overdue"
    BY DEF ChainExists
  <2>1. CASE u = t
    <3>1. p \in members /\ ScheduleStatus(t) = "scheduled" /\ EffectiveCoordinator(t) \in {Unassigned, p}
      BY <1>1, <1>8, <1>9, <2>1 DEF Addressed
    <3>2. PICK k \in desired : k.person = p /\ k.kind = "overdue"
      BY <1>7, <3>1
    <3> QED
      BY <1>3, <1>8, <1>9, <1>10, <2>1, <3>2
  <2>2. CASE u # t
    <3>1. Addressed(u, p)
      BY <1>1, <1>9, <2>2 DEF Addressed
    <3>2. PICK k \in DOMAIN intents : /\ k.task = u /\ k.person = p
                                      /\ k.epoch = anchors[u].epoch /\ k.kind = "overdue"
      BY <3>1 DEF RemindersInv, ChainExists
    <3> QED
      BY <1>9, <1>10, <2>2, <3>2
  <2> QED
    BY <2>1, <2>2
<1>15. ASSUME NEW u \in Tasks
       PROVE  \A k \in anchors'[u].pendingKeys : k.task = u
  BY <1>3, <1>4, <1>5, <1>8, <1>9 DEF RemindersInv
<1> QED
  BY <1>11, <1>12, <1>13, <1>14, <1>15 DEF RemindersInv

(* A row that falls due is settled, put off or found out of date.          *)
LEMMA SettledRow ==
  ASSUME RemindersInv, NEW k \in DOMAIN intents, NEW verdict \in {"deliver", "mute", "defer"}
  PROVE  /\ Settled(k, verdict) \in Intent
         /\ k.kind = "overdue" => k.day <= Settled(k, verdict).due
         /\ Settled(k, verdict).state = "pending" => intents[k].state = "pending"
         /\ Settled(k, verdict).state = "superseded" => intents[k].state = "superseded"
         /\ Settled(k, verdict).state \in {"delivered", "muted"} =>
              intents[k].state \in {"delivered", "muted"} \/ k \in Due
<1>1. /\ k \in SlotKey /\ intents[k] \in Intent /\ IntentFits(k) /\ today \in 1 .. Days
      /\ k.day \in 0 .. Days + 1 /\ intents[k].due \in 1 .. Days + 1
  BY RowsOfReminders DEF SlotKey, Intent
<1>2. snoozes[<<k.person, k.task>>] \in 0 .. Days
  BY <1>1 DEF RemindersInv, RemindersTypeOK, SlotKey
<1>3. k.kind = "overdue" => k.day <= intents[k].due
  BY <1>1 DEF IntentFits
<1>4. k \in DueKeys => intents[k].state = "pending" /\ intents[k].due <= today
  BY DEF DueKeys
<1>5. CASE k \notin DueKeys
  <2>1. Settled(k, verdict) = intents[k]
    BY <1>5 DEF Settled
  <2> QED
    BY <1>1, <1>3, <2>1
<1>6. CASE k \in DueKeys /\ k \notin Due
  <2>1. Settled(k, verdict) = [intents[k] EXCEPT !.state = "dead"]
    BY <1>6 DEF Settled
  <2> QED
    BY <1>1, <1>3, <2>1 DEF Intent
<1>7. CASE k \in Due /\ Snoozed(k)
  <2> DEFINE until == snoozes[<<k.person, k.task>>]
  <2>1. k \in DueKeys
    BY <1>7 DEF Due
  <2>2. Settled(k, verdict) = [intents[k] EXCEPT !.due = until]
    BY <1>7, <2>1 DEF Settled
  <2>3. until \in 0 .. Days /\ until > today
    BY <1>2, <1>7 DEF Snoozed
  <2> HIDE DEF until
  <2>4. until \in 1 .. Days + 1 /\ (k.kind = "overdue" => k.day <= until)
    BY <1>1, <1>3, <1>4, <2>1, <2>3, CalendarFacts
  <2> QED
    BY <1>1, <1>4, <2>1, <2>2, <2>4 DEF Intent
<1>8. CASE k \in Due /\ ~Snoozed(k)
  <2>1. k \in DueKeys
    BY <1>8 DEF Due
  <2>2. Settled(k, verdict) = Decided(intents[k], verdict)
    BY <1>8, <2>1 DEF Settled
  <2>3. CASE verdict = "defer"
    <3> DEFINE tomorrow == today + 1
    <3>1. Settled(k, verdict) = [intents[k] EXCEPT !.due = tomorrow]
      BY <2>2, <2>3 DEF Decided
    <3>2. tomorrow \in 1 .. Days + 1 /\ (k.kind = "overdue" => k.day <= tomorrow)
      BY <1>1, <1>3, <1>4, <2>1, CalendarFacts
    <3> HIDE DEF tomorrow
    <3> QED
      BY <1>1, <1>4, <2>1, <3>1, <3>2 DEF Intent
  <2>4. CASE verdict # "defer"
    <3> DEFINE state == IF verdict = "deliver" THEN "delivered" ELSE "muted"
    <3>1. Settled(k, verdict) = [intents[k] EXCEPT !.state = state] /\ state \in {"delivered", "muted"}
      BY <2>2, <2>4 DEF Decided
    <3> HIDE DEF state
    <3> QED
      BY <1>1, <1>3, <1>8, <3>1 DEF Intent
  <2> QED
    BY <2>3, <2>4
<1> QED
  BY <1>5, <1>6, <1>7, <1>8 DEF Due

(* The next slot of a chain is of the same person, task and epoch.         *)
LEMMA ChainedSlot ==
  ASSUME RemindersInv, NEW d \in Due, d.kind = "overdue"
  PROVE  /\ d \in DOMAIN intents /\ NextSlot(d) \in SlotKey
         /\ NextSlot(d).task = d.task /\ NextSlot(d).person = d.person
         /\ NextSlot(d).kind = "overdue" /\ NextSlot(d).epoch = d.epoch
         /\ NextSlot(d).day = d.day + 1 /\ Predecessor(NextSlot(d)) = d
         /\ d.epoch = anchors[d.task].epoch
<1>1. d \in DOMAIN intents /\ intents[d].due <= today /\ d.epoch = anchors[d.task].epoch
  BY DEF Due, DueKeys, StillDue
<1>2. /\ d \in SlotKey /\ intents[d] \in Intent /\ IntentFits(d) /\ today \in 1 .. Days
      /\ d.day \in 0 .. Days + 1 /\ intents[d].due \in 1 .. Days + 1
  BY <1>1, RowsOfReminders DEF SlotKey, Intent
<1>3. d.day <= intents[d].due
  BY <1>1, <1>2 DEF IntentFits
<1>4. d.day + 1 \in 0 .. Days + 1 /\ d.day + 1 - 1 = d.day
  BY <1>1, <1>2, <1>3, CalendarFacts
<1>5. PICK day \in 0 .. Days + 1 : day = d.day + 1 /\ day - 1 = d.day
  BY <1>2, <1>4
<1>6. NextSlot(d) = [d EXCEPT !.day = day]
  BY <1>5 DEF NextSlot
<1>7. /\ NextSlot(d) \in SlotKey /\ NextSlot(d).task = d.task /\ NextSlot(d).person = d.person
      /\ NextSlot(d).kind = "overdue" /\ NextSlot(d).epoch = d.epoch /\ NextSlot(d).day = day
  BY <1>2, <1>6 DEF SlotKey
<1>8. Predecessor(NextSlot(d)) = d
  <2>1. Predecessor(NextSlot(d)) = [[d EXCEPT !.day = day] EXCEPT !.day = d.day]
    BY <1>5, <1>6, <1>7 DEF Predecessor
  <2> QED
    BY <1>2, <2>1 DEF SlotKey
<1> QED
  BY <1>1, <1>5, <1>7, <1>8

LEMMA EvaluateKeeps ==
  ASSUME RemindersInv, Evaluate
  PROVE  RemindersInv'
<1>1. PICK verdict \in Verdicts :
       intents' = [k \in DOMAIN intents \cup Rearmed |->
                     IF k \in DOMAIN intents THEN Settled(k, verdict[k.person])
                     ELSE FreshIntent(k, intents[Predecessor(k)].term,
                                intents[Predecessor(k)].coordinator)]
  BY DEF Evaluate
<1>2. /\ UNCHANGED <<tasks, members, snoozes, recomputes, today>>
      /\ anchors' = [t \in Tasks |-> [anchors[t] EXCEPT !.pendingKeys = Tracked(t)]]
  BY DEF Evaluate
<1>3. \A k \in Rearmed : \E d \in Due : d.kind = "overdue" /\ k = NextSlot(d)
  BY DEF Rearmed
<1>4. \A k \in Rearmed : k \in SlotKey /\ k.task \in Tasks /\ k.epoch = anchors[k.task].epoch
  BY <1>3, ChainedSlot, RowsOfReminders
<1>5. ASSUME NEW t \in Tasks
      PROVE  /\ anchors'[t] \in Anchor /\ anchors'[t].epoch = anchors[t].epoch
             /\ anchors'[t].status = anchors[t].status
             /\ anchors'[t].coordinator = anchors[t].coordinator
             /\ anchors'[t].pendingKeys = anchors[t].pendingKeys \cup {k \in Rearmed : k.task = t}
             /\ \A k \in anchors'[t].pendingKeys : k.task = t
  <2>1. anchors[t] \in Anchor /\ \A k \in anchors[t].pendingKeys : k.task = t
    BY RowsOfReminders DEF RemindersInv
  <2>2. Tracked(t) = anchors[t].pendingKeys \cup {k \in Rearmed : k.task = t} /\ Tracked(t) \in SUBSET SlotKey
    BY <1>4, <2>1 DEF Tracked, Anchor
  <2>3. anchors'[t] = [anchors[t] EXCEPT !.pendingKeys = Tracked(t)]
    BY <1>2
  <2> QED
    BY <2>1, <2>2, <2>3 DEF Anchor
<1>6. anchors' \in [Tasks -> Anchor]
  BY <1>2, <1>5
<1>7. DOMAIN intents' = DOMAIN intents \cup Rearmed
  BY <1>1
<1>8. \A k \in DOMAIN intents : verdict[k.person] \in {"deliver", "mute", "defer"}
  BY RowsOfReminders DEF Verdicts
<1>9. ASSUME NEW k \in DOMAIN intents'
      PROVE  /\ k \in SlotKey /\ intents'[k] \in Intent /\ IntentFits(k)'
             /\ intents'[k].state = "pending" =>
                  k.epoch = anchors'[k.task].epoch /\ k \in anchors'[k.task].pendingKeys
  <2>1. CASE k \notin DOMAIN intents
    <3>1. k \in Rearmed
      BY <1>7, <2>1
    <3>2. PICK d \in Due : d.kind = "overdue" /\ k = NextSlot(d)
      BY <1>3, <3>1
    <3>3. /\ d \in DOMAIN intents /\ k \in SlotKey /\ k.task = d.task /\ k.epoch = d.epoch
          /\ k.kind = "overdue" /\ Predecessor(k) = d /\ d.epoch = anchors[d.task].epoch
          /\ k.day \in 0 .. Days + 1
      BY <3>2, ChainedSlot DEF SlotKey
    <3>4. intents[d] \in Intent /\ d.task \in Tasks /\ today \in 1 .. Days
      BY <3>3, RowsOfReminders
    <3> DEFINE due == Later(k.day, today)
    <3>5. due \in 1 .. Days + 1 /\ k.day <= due
      BY <3>3, <3>4, CalendarFacts DEF Later
    <3>6. intents'[k] = [state |-> "pending", due |-> due, term |-> intents[d].term,
                         coordinator |-> intents[d].coordinator]
      BY <1>1, <1>7, <2>1, <3>3 DEF FreshIntent, IdealDay
    <3> HIDE DEF due
    <3>7. intents'[k] \in Intent /\ intents'[k].state = "pending" /\ intents'[k].due = due
      BY <3>4, <3>5, <3>6 DEF Intent
    <3>8. k.epoch = anchors'[k.task].epoch /\ k \in anchors'[k.task].pendingKeys
      BY <1>5, <3>1, <3>3, <3>4
    <3>9. k.epoch <= k.epoch
      BY <3>3, CalendarFacts DEF SlotKey
    <3> QED
      BY <3>3, <3>5, <3>7, <3>8, <3>9 DEF IntentFits
  <2>2. CASE k \in DOMAIN intents
    <3> DEFINE after == Settled(k, verdict[k.person])
    <3>1. intents'[k] = after
      BY <1>1, <1>7, <2>2
    <3>2. /\ after \in Intent
          /\ k.kind = "overdue" => k.day <= after.due
          /\ after.state = "pending" => intents[k].state = "pending"
          /\ after.state = "superseded" => intents[k].state = "superseded"
          /\ after.state \in {"delivered", "muted"} => intents[k].state \in {"delivered", "muted"} \/ k \in Due
      BY <1>8, <2>2, SettledRow
    <3> HIDE DEF after
    <3>3. /\ k \in SlotKey /\ k.task \in Tasks /\ IntentFits(k)
          /\ intents[k].state = "pending" =>
               k.epoch = anchors[k.task].epoch /\ k \in anchors[k.task].pendingKeys
      BY <2>2, RowsOfReminders DEF RemindersInv, SupersededDies
    <3>4. anchors'[k.task].epoch = anchors[k.task].epoch
          /\ anchors[k.task].pendingKeys \subseteq anchors'[k.task].pendingKeys
      BY <1>5, <3>3
    <3>5. k.kind = "overdue" /\ k \in Due => NextSlot(k) \in Rearmed
      BY DEF Rearmed
    <3>6. IntentFits(k)'
      BY <1>7, <3>1, <3>2, <3>3, <3>4, <3>5 DEF IntentFits, NextSlot
    <3> QED
      BY <3>1, <3>2, <3>3, <3>4, <3>6
  <2> QED
    BY <2>1, <2>2
<1>10. RemindersTypeOK'
  BY <1>2, <1>6, <1>9 DEF RemindersInv, RemindersTypeOK
<1>11. SupersededDies'
  BY <1>9 DEF SupersededDies
<1>12. ChainExists'
  <2> SUFFICES ASSUME NEW t \in Tasks, NEW p \in Persons, Addressed(t, p)'
               PROVE  \E k \in DOMAIN intents' : /\ k.task = t /\ k.person = p
                                                 /\ k.epoch = anchors'[t].epoch /\ k.kind = "overdue"
    BY DEF ChainExists
  <2>1. anchors'[t].epoch = anchors[t].epoch /\ Addressed(t, p)
    BY <1>2, <1>5 DEF Addressed
  <2>2. PICK k \in DOMAIN intents : /\ k.task = t /\ k.person = p
                                    /\ k.epoch = anchors[t].epoch /\ k.kind = "overdue"
    BY <2>1 DEF RemindersInv, ChainExists
  <2> QED
    BY <1>7, <2>1, <2>2
<1> QED
  BY <1>5, <1>9, <1>10, <1>11, <1>12 DEF RemindersInv

(* Every set of days that is not empty has a last one.                     *)
LEMMA LeastNumber ==
  ASSUME NEW S \in SUBSET Nat, S # {}
  PROVE  \E m \in S : \A n \in S : m <= n
<1> DEFINE R == OpToRel(<, Nat)
<1>1. IsWellFoundedOn(R, Nat)
  BY NatLessThanWellFounded
<1>2. \A i, j \in Nat : i < j => <<i, j>> \in R
  BY DEF OpToRel
<1> HIDE DEF R
<1>3. PICK m \in S : \A n \in S : ~ (<<n, m>> \in R)
  BY <1>1, WFMin
<1>4. \A n \in S : n \in Nat /\ m \in Nat /\ ~(n < m)
  BY <1>2, <1>3
<1> QED
  BY <1>3, <1>4

LEMMA LastDay ==
  ASSUME NEW S \in SUBSET (0 .. Days + 1), S # {}
  PROVE  \E d \in S : d + 1 \notin S
<1> DEFINE left == {Days + 1 - d : d \in S}
<1>1. left \in SUBSET Nat /\ left # {}
  <2>1. \A d \in 0 .. Days + 1 : Days + 1 - d \in Nat
    BY CalendarFacts
  <2> QED
    BY <2>1
<1>2. PICK m \in left : \A n \in left : m <= n
  BY <1>1, LeastNumber
<1>3. PICK d \in S : m = Days + 1 - d
  BY <1>2
<1>4. ASSUME d + 1 \in S
      PROVE  FALSE
  <2>1. Days + 1 - (d + 1) \in left
    BY <1>4
  <2>2. m <= Days + 1 - (d + 1)
    BY <1>2, <2>1
  <2> QED
    BY <1>3, <2>2, CalendarFacts
<1> QED
  BY <1>4

LEMMA ChainEndsPending ==
  ASSUME RemindersInv
  PROVE  ReminderIsPending
<1> SUFFICES ASSUME NEW t \in Tasks, NEW p \in Persons, Addressed(t, p)
             PROVE  \E k \in DOMAIN intents :
                      /\ k.task = t /\ k.person = p /\ k.epoch = anchors[t].epoch
                      /\ intents[k].state \in {"pending", "dead"}
  BY DEF ReminderIsPending
<1> DEFINE chain == {k \in DOMAIN intents : /\ k.task = t /\ k.person = p
                                            /\ k.epoch = anchors[t].epoch /\ k.kind = "overdue"}
           S == {k.day : k \in chain}
<1>1. S \in SUBSET (0 .. Days + 1) /\ S # {}
  BY RowsOfReminders DEF RemindersInv, ChainExists, SlotKey
<1>2. PICK d \in S : d + 1 \notin S
  BY <1>1, LastDay
<1>3. PICK k \in chain : k.day = d
  BY <1>2
<1>4. /\ k \in DOMAIN intents /\ k \in SlotKey /\ intents[k] \in Intent /\ IntentFits(k)
      /\ k.task = t /\ k.person = p /\ k.epoch = anchors[t].epoch /\ k.kind = "overdue"
      /\ k.epoch \in 0 .. Epochs
  BY <1>3, RowsOfReminders DEF SlotKey
<1>5. NextSlot(k) \notin DOMAIN intents
  <2> SUFFICES ASSUME NextSlot(k) \in DOMAIN intents PROVE FALSE
    OBVIOUS
  <2>1. /\ NextSlot(k).task = t /\ NextSlot(k).person = p /\ NextSlot(k).kind = "overdue"
        /\ NextSlot(k).epoch = anchors[t].epoch /\ NextSlot(k).day = k.day + 1
    BY <1>4 DEF NextSlot, SlotKey
  <2>2. NextSlot(k) \in chain
    BY <2>1
  <2> HIDE DEF chain
  <2>3. k.day + 1 \in S
    BY <2>1, <2>2
  <2> QED
    BY <1>2, <1>3, <2>3
<1>6. ~(k.epoch < anchors[t].epoch)
  BY <1>4, CalendarFacts
<1>7. intents[k].state \notin {"delivered", "muted", "superseded"}
  BY <1>4, <1>5, <1>6 DEF IntentFits
<1> QED
  BY <1>4, <1>7 DEF Intent

LEMMA RemindersInvStep ==
  ASSUME RemindersInv, [RemindersNext]_remindersVars
  PROVE  RemindersInv'
BY QuietSteps, RecomputeKeeps, SnoozeKeeps, EvaluateKeeps DEF RemindersNext

LEMMA RemindersInvAlways == RemindersSpec => []RemindersInv
<1>1. RemindersInit => RemindersInv
  BY RemindersInvInit
<1>2. RemindersInv /\ [RemindersNext]_remindersVars => RemindersInv'
  BY RemindersInvStep
<1> QED
  BY <1>1, <1>2, PTL DEF RemindersSpec

(* Every task, schedule, reminder and snooze is one the tables allow.      *)
THEOREM RemindersTypeCorrect == RemindersSpec => []RemindersTypeOK
<1>1. RemindersInv => RemindersTypeOK
  BY DEF RemindersInv
<1> QED
  BY <1>1, RemindersInvAlways, PTL

(* Only the current schedule of a task has pending reminders, and its kill *)
(* list names each of them, chained daily slots too                        *)
(* (performRecomputeTaskReminders, rearmNextOverdueSlot).                  *)
THEOREM OnlyTheCurrentScheduleReminds == RemindersSpec => []SupersededDies
<1>1. RemindersInv => SupersededDies
  BY DEF RemindersInv
<1> QED
  BY <1>1, RemindersInvAlways, PTL

(* Every person a schedule addresses has a reminder of it pending, however *)
(* often reminders were delivered, muted, snoozed or put off, unless the   *)
(* evaluator suppressed one: the chain of overdue slots never ends in a    *)
(* settled one (performEvaluateDueReminders).                              *)
THEOREM SomeReminderIsPending == RemindersSpec => []ReminderIsPending
<1>1. RemindersInv => ReminderIsPending
  BY ChainEndsPending
<1> QED
  BY <1>1, RemindersInvAlways, PTL


-----------------------------------------------------------------------------
(* The connection to a calendar: its types.                                   *)

CalendarOrNone == Calendars \union {NoCalendar}
AccountOrNone == Accounts \union {NoAccount}

LEMMA FlowRows ==
  /\ NoFlowYet \in Flow
  /\ FlowOver \in Flow
  /\ FlowOver.step = "done"
<1>1. NoFlowYet \in Flow
  BY DEF NoFlowYet, Flow, Reasons
<1> QED
  BY <1>1 DEF FlowOver, Flow

LEMMA ConnectionEdits ==
  ASSUME NEW row \in Connection
  PROVE  /\ [row EXCEPT !.state = "connected"] \in Connection
         /\ [row EXCEPT !.state = "disconnected", !.credential = NoAccount] \in Connection
         /\ \A reason \in Reasons :
              [row EXCEPT !.state = "error", !.reason = reason] \in Connection
<1>1. [row EXCEPT !.state = "connected"] \in Connection
  BY DEF Connection
<1>2. [row EXCEPT !.state = "disconnected", !.credential = NoAccount] \in Connection
  BY DEF Connection
<1>3. ASSUME NEW reason \in Reasons
      PROVE  [row EXCEPT !.state = "error", !.reason = reason] \in Connection
  BY DEF Connection
<1> QED
  BY <1>1, <1>2, <1>3

LEMMA ConnectionRow ==
  ASSUME NEW row \in Connection
  PROVE  /\ WithoutFlow(row) \in Connection
         /\ StoppedRow(row) \in Connection
         /\ \A reason \in Reasons : FailedRow(row, reason) \in Connection
<1>1. WithoutFlow(row) \in Connection
  BY DEF WithoutFlow, Connection
<1>2. StoppedRow(row) \in Connection
  BY <1>1, ConnectionEdits DEF StoppedRow
<1>3. ASSUME NEW reason \in Reasons PROVE FailedRow(row, reason) \in Connection
  BY <1>1, ConnectionEdits DEF FailedRow
<1> QED
  BY <1>1, <1>2, <1>3

LEMMA ConnectionTypeInit == ConnectionInit => ConnectionTypeOK
<1> SUFFICES ASSUME ConnectionInit PROVE ConnectionTypeOK
  OBVIOUS
<1>1. connection \in Connection
  BY DEF ConnectionInit, Connection, Reasons
<1> QED
  BY <1>1, FlowRows DEF ConnectionInit, ConnectionTypeOK

LEMMA CompletedRow ==
  ASSUME ConnectionTypeOK, NEW f \in Flows
  PROVE  Completed(f) \in Connection
<1>1. connection \in Connection /\ flows[f] \in Flow
  BY DEF ConnectionTypeOK
<1>2. WithoutFlow(connection) \in Connection
  BY <1>1, ConnectionRow
<1>3. connection.ticket \in Flows \union {NoFlow} /\ flows[f].calendar \in CalendarOrNone
      /\ flows[f].account \in AccountOrNone /\ flows[f].reason \in Reasons
  BY <1>1 DEF Connection, Flow, CalendarOrNone, AccountOrNone
<1> DEFINE base == WithoutFlow(connection)
<1> HIDE DEF base
<1>4. base \in Connection
  BY <1>2 DEF base
<1>5. [base EXCEPT !.ticket = connection.ticket, !.state = "connected", !.reason = "none",
                   !.calendar = flows[f].calendar, !.account = flows[f].account,
                   !.credential = flows[f].account] \in Connection
  BY <1>3, <1>4 DEF Connection, Reasons, CalendarOrNone, AccountOrNone
<1>6. [base EXCEPT !.ticket = connection.ticket, !.state = "connected"] \in Connection
  BY <1>3, <1>4 DEF Connection
<1> DEFINE row == [base EXCEPT !.ticket = connection.ticket, !.state = "error",
                               !.reason = flows[f].reason, !.credential = NoAccount]
<1>7. row \in Connection
  BY <1>3, <1>4 DEF Connection
<1> HIDE DEF row
<1>8. [row EXCEPT !.account = flows[f].account, !.calendar = NoCalendar] \in Connection
  BY <1>3, <1>7 DEF Connection, AccountOrNone
<1> QED
  BY <1>5, <1>6, <1>7, <1>8 DEF Completed, row, base

LEMMA FlowFailsType ==
  ASSUME ConnectionTypeOK, NEW f \in Flows, NEW reason \in Reasons, FlowFails(f, reason)
  PROVE  flows' \in [Flows -> Flow]
<1>1. flows \in [Flows -> Flow] /\ flows[f] \in Flow
  BY DEF ConnectionTypeOK
<1>2. [flows[f] EXCEPT !.step = "complete", !.reason = reason, !.calendar = NoCalendar] \in Flow
  BY <1>1 DEF Flow
<1> QED
  BY <1>1, <1>2 DEF FlowFails

LEMMA ConnectionTypeStep ==
  ConnectionTypeOK /\ [ConnectionNext]_connectionVars => ConnectionTypeOK'
<1> SUFFICES ASSUME ConnectionTypeOK, [ConnectionNext]_connectionVars
             PROVE  ConnectionTypeOK'
  OBVIOUS
<1>k. /\ connection \in Connection /\ flows \in [Flows -> Flow]
      /\ calendars \in [Calendars -> [owner : AccountOrNone, state : {"unmade", "live", "gone"}]]
      /\ activeFirm \in Firms \union {NoFirm} /\ refresh \in AccountOrNone
  BY DEF ConnectionTypeOK, AccountOrNone
<1>1. ASSUME NEW f \in Flows, NEW mode \in Modes, NEW acknowledged \in BOOLEAN,
             StartAuthorization(f, mode, acknowledged)
      PROVE  ConnectionTypeOK'
  <2> DEFINE row == [connection EXCEPT !.state = "pending_authorization", !.reason = "none",
                                       !.mode = mode, !.ticket = f, !.expired = FALSE]
  <2>1. row \in Connection
    BY <1>k DEF Connection, Reasons
  <2> HIDE DEF row
  <2>2. [row EXCEPT !.firm = activeFirm, !.calendar = NoCalendar,
                    !.account = NoAccount, !.credential = NoAccount] \in Connection
    BY <1>k, <2>1 DEF Connection
  <2>3. connection' \in Connection
    BY <1>1, <2>1, <2>2 DEF StartAuthorization, row
  <2>4. flows' \in [Flows -> Flow]
    BY <1>k, <1>1 DEF StartAuthorization, Flow
  <2> QED
    BY <1>k, <1>1, <2>3, <2>4 DEF StartAuthorization, ConnectionTypeOK, AccountOrNone
<1>2. ASSUME NEW f \in Flows, PrepareCallback(f)
      PROVE  ConnectionTypeOK'
  <2>1. "failed" \in Reasons /\ "membership_lost" \in Reasons
    BY DEF Reasons
  <2>2. FailedRow(connection, "failed") \in Connection
    BY <1>k, <2>1, ConnectionRow
  <2>3. [connection EXCEPT !.state = "error", !.reason = "membership_lost",
                           !.ticket = NoFlow, !.credential = NoAccount] \in Connection
    BY <1>k, <2>1 DEF Connection
  <2>4. [connection EXCEPT !.ticket = NoFlow] \in Connection
    BY <1>k DEF Connection
  <2>5. connection' \in Connection
    BY <1>2, <2>2, <2>3, <2>4 DEF PrepareCallback
  <2>6. flows[f] \in Flow /\ connection.mode \in Modes \union {"none"}
        /\ connection.calendar \in CalendarOrNone /\ connection.account \in AccountOrNone
    BY <1>k DEF Connection, CalendarOrNone, AccountOrNone
  <2>7. [flows[f] EXCEPT !.step = "exchange", !.mode = connection.mode,
                         !.calendar = connection.calendar,
                         !.known = connection.account] \in Flow
    BY <2>6 DEF Flow, CalendarOrNone, AccountOrNone
  <2>8. flows' \in [Flows -> Flow]
    BY <1>k, <1>2, <2>7, FlowRows DEF PrepareCallback
  <2> QED
    BY <1>k, <1>2, <2>5, <2>8 DEF PrepareCallback, ConnectionTypeOK, AccountOrNone
<1>3. ASSUME NEW f \in Flows, ExchangeCode(f)
      PROVE  ConnectionTypeOK'
  <2>1. \A a \in Accounts : [flows[f] EXCEPT !.step = "calendar", !.account = a] \in Flow
    BY <1>k DEF Flow
  <2>2. "failed" \in Reasons
    BY DEF Reasons
  <2>3. flows' \in [Flows -> Flow]
    BY <1>k, <1>3, <2>1, <2>2, FlowFailsType DEF ExchangeCode
  <2> QED
    BY <1>k, <1>3, <2>3 DEF ExchangeCode, ConnectionTypeOK, AccountOrNone
<1>4. ASSUME NEW f \in Flows, ReadKnownCalendar(f)
      PROVE  ConnectionTypeOK'
  <2>1. "failed" \in Reasons /\ "calendar_access_lost" \in Reasons
    BY DEF Reasons
  <2>2. [flows EXCEPT ![f].step = "complete"] \in [Flows -> Flow]
    BY <1>k DEF Flow
  <2>3. flows' \in [Flows -> Flow]
    BY <1>4, <2>1, <2>2, FlowFailsType DEF ReadKnownCalendar
  <2> QED
    BY <1>k, <1>4, <2>3 DEF ReadKnownCalendar, ConnectionTypeOK, AccountOrNone
<1>5. ASSUME NEW f \in Flows, NEW k \in Calendars, CreateDedicatedCalendar(f, k)
      PROVE  ConnectionTypeOK'
  <2>1. "failed" \in Reasons /\ "creation_unknown" \in Reasons
    BY DEF Reasons
  <2>2. [flows[f] EXCEPT !.step = "complete", !.calendar = k] \in Flow
        /\ flows[f].account \in AccountOrNone
    BY <1>k DEF Flow, AccountOrNone
  <2>3. [flows EXCEPT ![f] = [@ EXCEPT !.step = "complete", !.calendar = k]] \in [Flows -> Flow]
    BY <1>k, <2>2
  <2>4. flows' \in [Flows -> Flow]
    BY <1>5, <2>1, <2>3, FlowFailsType DEF CreateDedicatedCalendar
  <2>5. calendars' \in [Calendars -> [owner : AccountOrNone, state : {"unmade", "live", "gone"}]]
    BY <1>k, <1>5, <2>2 DEF CreateDedicatedCalendar
  <2> QED
    BY <1>k, <1>5, <2>4, <2>5 DEF CreateDedicatedCalendar, ConnectionTypeOK, AccountOrNone
<1>6. ASSUME NEW f \in Flows, CompleteCallback(f)
      PROVE  ConnectionTypeOK'
  <2>1. connection' \in Connection
    BY <1>k, <1>6, CompletedRow DEF CompleteCallback
  <2>2. flows' \in [Flows -> Flow]
    BY <1>k, <1>6, FlowRows DEF CompleteCallback
  <2> QED
    BY <1>k, <1>6, <2>1, <2>2 DEF CompleteCallback, ConnectionTypeOK, AccountOrNone
<1>7. CASE AuthorizationExpires
  <2>1. connection' \in Connection
    BY <1>k, <1>7 DEF AuthorizationExpires, Connection
  <2> QED
    BY <1>k, <1>7, <2>1 DEF AuthorizationExpires, ConnectionTypeOK, AccountOrNone
<1>8. CASE Disconnect
  <2>1. [WithoutFlow(connection) EXCEPT !.state = "connected"] \in Connection
    <3>1. WithoutFlow(connection) \in Connection
      BY <1>k, ConnectionRow
    <3> QED
      BY <3>1 DEF Connection
  <2>2. connection' \in Connection
    BY <1>k, <1>8, <2>1, ConnectionRow DEF Disconnect, Disconnected
  <2> QED
    BY <1>k, <1>8, <2>2 DEF Disconnect, ConnectionTypeOK, AccountOrNone
<1>9. ASSUME NEW k \in Calendars, ConnectCalendar(k)
      PROVE  ConnectionTypeOK'
  <2>1. connection' \in Connection
    <3>1. WithoutFlow(connection) \in Connection
      BY <1>k, ConnectionRow
    <3> QED
      BY <1>9, <3>1 DEF ConnectCalendar, Connection, Reasons
  <2> QED
    BY <1>k, <1>9, <2>1 DEF ConnectCalendar, ConnectionTypeOK, AccountOrNone
<1>10. CASE LoadCredential
  <2>1. [StoppedRow(connection) EXCEPT !.reason = "membership_lost"] \in Connection
    <3>1. StoppedRow(connection) \in Connection
      BY <1>k, ConnectionRow
    <3> QED
      BY <3>1 DEF Connection, Reasons
  <2>2. connection' \in Connection /\ refresh' \in AccountOrNone
    BY <1>k, <1>10, <2>1 DEF LoadCredential, Connection, AccountOrNone
  <2> QED
    BY <1>k, <1>10, <2>2 DEF LoadCredential, ConnectionTypeOK, AccountOrNone
<1>11. CASE RecordRefresh
  <2>1. [connection EXCEPT !.credential = refresh] \in Connection
    BY <1>k DEF Connection, AccountOrNone
  <2>2. [connection EXCEPT !.state = "error", !.reason = "refresh_failed",
                           !.credential = NoAccount] \in Connection
    BY <1>k DEF Connection, Reasons
  <2>3. connection' \in Connection /\ refresh' \in AccountOrNone
    BY <1>k, <1>11, <2>1, <2>2 DEF RecordRefresh, AccountOrNone
  <2> QED
    BY <1>k, <1>11, <2>3 DEF RecordRefresh, ConnectionTypeOK, AccountOrNone
<1>12. ASSUME NEW firm \in Firms \union {NoFirm}, MembershipChanges(firm)
       PROVE  ConnectionTypeOK'
  BY <1>k, <1>12 DEF MembershipChanges, ConnectionTypeOK, AccountOrNone
<1>13. ASSUME NEW k \in Calendars, PersonDeletesCalendar(k)
       PROVE  ConnectionTypeOK'
  BY <1>k, <1>13 DEF PersonDeletesCalendar, ConnectionTypeOK, AccountOrNone
<1>14. CASE UNCHANGED connectionVars
  BY <1>k, <1>14 DEF connectionVars, ConnectionTypeOK, AccountOrNone
<1> QED
  BY <1>1, <1>2, <1>3, <1>4, <1>5, <1>6, <1>7, <1>8, <1>9, <1>10, <1>11, <1>12, <1>13, <1>14
     DEF ConnectionNext

-----------------------------------------------------------------------------
(* The copies: types, and the answers a leg can get.                          *)

Mutations == {"create", "update", "delete"}

AnswerFits(a) ==
  /\ a.answer \in {"none", "unknown", "calendar_gone"}
       \union (IF Observes(a) THEN {"present", "empty"}
               ELSE IF a.leg = "create" THEN {"applied", "definitely_failed"}
               ELSE {"applied", "gone", "definitely_failed"})
  /\ a.answer = "present" \/ (a.leg = "create" /\ a.answer = "applied")
       => a.found.event \in EventIds

AttemptFits(a) ==
  /\ a \in Attempt
  /\ a.copy \in Copies
  /\ a.leg \in {"update", "delete", "observe_get"} => a.basis.event \in EventIds
  /\ AnswerFits(a)

CopiesInv ==
  /\ CalendarTypeOK
  /\ \A r \in Runners : syncAttempts[r] # NoSyncAttempt => AttemptFits(syncAttempts[r])

EventRows == [state : {"unmade", "live", "cancelled", "removed", "deleted"},
              calendar : CalendarOrNone, copy : Copies \union {NoCopy}, semantic : Semantics,
              text : Versions \union {NoText}]

LEMMA CopyConstants ==
  /\ Versions \in SUBSET Nat /\ NoText = 0
  /\ CreateAttempts \in Nat \ {0} /\ UpdateAttempts \in Nat \ {0} /\ DeleteAttempts \in Nat \ {0}
  /\ NoCopy \notin Copies /\ NoEvent \notin EventIds
  /\ NoAccount \notin Accounts /\ NoCalendar \notin Calendars
BY CalendarCopiesAssumption, CalendarConnectionAssumption DEF NoText

LEMMA CopiesTypes ==
  ASSUME CopiesInv
  PROVE  /\ ConnectionTypeOK /\ connection \in Connection
         /\ copies \in [Copies -> Copy]
         /\ ledger \in [Copies -> [Semantics -> Ledger]]
         /\ syncAttempts \in [Runners -> Attempt \union {NoSyncAttempt}]
         /\ \A r \in Runners : syncAttempts[r] # NoSyncAttempt => AttemptFits(syncAttempts[r])
         /\ events \in [EventIds -> EventRows]
         /\ connection.account \in Semantics
BY DEF CopiesInv, CalendarTypeOK, ConnectionTypeOK, EventRows, CalendarOrNone, Connection,
       Semantics

LEMMA DesiredRow ==
  ASSUME CopiesInv, NEW c \in Copies, NEW want \in BOOLEAN, NEW revision \in Versions
  PROVE  Desired(c, want, revision) \in Copy
<1>1. copies[c] \in Copy /\ connection.account \in Semantics
  BY CopiesTypes
<1>2. Rebound(copies[c]) \in Copy
  BY <1>1 DEF Rebound, Copy
<1> DEFINE row == Rebound(copies[c])
           old == copies[c]
<1> HIDE DEF row, old
<1>3. row \in Copy /\ old \in Copy
  BY <1>1, <1>2 DEF row, old
<1>4. /\ [row EXCEPT !.state = "projected", !.revision = revision] \in Copy
      /\ [row EXCEPT !.state = "withdrawn", !.revision = revision] \in Copy
      /\ [old EXCEPT !.state = "withdrawn"] \in Copy
  BY <1>3 DEF Copy
<1> QED
  BY <1>3, <1>4 DEF Desired, row, old

(* What a leg needs, and that its counter is below its limit.                 *)
LEMMA LegAllowed ==
  ASSUME CopiesInv, NEW c \in Copies, NEW leg \in CopyLeg(c)
  PROVE  LET row == copies[c]
             facts == ledger[c][row.semantic]
         IN /\ leg[1] \in LegKinds /\ leg[2] \in DecisionReasons
            /\ Counted(facts, leg[1]) \in Ledger
            /\ Counted(facts, leg[1]).creates =
                 facts.creates + (IF leg[1] = "create" THEN 1 ELSE 0)
            /\ leg[1] = "create" =>
                 /\ row.event = NoEvent
                 /\ \/ leg[2] = "projected_create" /\ row.outcome = "unknown" /\ facts.creates = 0
                    \/ leg[2] = "observed_absent_recreate" /\ row.outcome = "absent"
            /\ leg[1] \in {"update", "delete", "observe_get"} => row.event \in EventIds
<1> DEFINE row == copies[c]
           facts == ledger[c][row.semantic]
<1>1. row \in Copy /\ facts \in Ledger
  BY CopiesTypes DEF Copy
<1> HIDE DEF row, facts
<1>2. /\ leg[1] \in LegKinds /\ leg[2] \in DecisionReasons
      /\ leg[1] = "create" =>
           /\ row.event = NoEvent
           /\ \/ leg[2] = "projected_create" /\ row.outcome = "unknown" /\ facts.creates = 0
              \/ /\ leg[2] = "observed_absent_recreate" /\ row.outcome = "absent"
                 /\ facts.creates < CreateAttempts
      /\ leg[1] = "update" => row.event # NoEvent /\ facts.updates < UpdateAttempts
      /\ leg[1] = "delete" => row.event # NoEvent /\ facts.deletes < DeleteAttempts
      /\ leg[1] = "observe_get" => row.event # NoEvent
  <2>1. row.outcome \in {"confirmed", "absent", "unknown"}
    BY <1>1 DEF Copy
  <2> QED
    BY <2>1 DEF CopyLeg, row, facts, LegKinds, DecisionReasons
<1>3. /\ facts.creates \in 0 .. CreateAttempts /\ facts.updates \in 0 .. UpdateAttempts
      /\ facts.deletes \in 0 .. DeleteAttempts
  BY <1>1 DEF Ledger
<1>4. Counted(facts, leg[1]) \in Ledger
      /\ Counted(facts, leg[1]).creates = facts.creates + (IF leg[1] = "create" THEN 1 ELSE 0)
  <2>1. CASE leg[1] = "create"
    <3>1. facts.creates + 1 \in 0 .. CreateAttempts
      BY <1>2, <1>3, <2>1, CopyConstants
    <3> QED
      BY <1>1, <2>1, <3>1 DEF Counted, Ledger
  <2>2. CASE leg[1] = "update"
    <3>1. facts.updates + 1 \in 0 .. UpdateAttempts
      BY <1>2, <1>3, <2>2, CopyConstants
    <3> QED
      BY <1>1, <1>3, <2>2, <3>1 DEF Counted, Ledger
  <2>3. CASE leg[1] = "delete"
    <3>1. facts.deletes + 1 \in 0 .. DeleteAttempts
      BY <1>2, <1>3, <2>3, CopyConstants
    <3> QED
      BY <1>1, <1>3, <2>3, <3>1 DEF Counted, Ledger
  <2>4. CASE leg[1] \notin Mutations
    <3>1. Counted(facts, leg[1]) = facts
      BY <2>4 DEF Counted, Mutations
    <3> QED
      BY <1>1, <1>3, <2>4, <3>1 DEF Mutations
  <2> QED
    BY <2>1, <2>2, <2>3, <2>4 DEF Mutations
<1>5. leg[1] \in {"update", "delete", "observe_get"} => row.event \in EventIds
  BY <1>1, <1>2 DEF Copy
<1> QED
  BY <1>2, <1>4, <1>5 DEF row, facts

(* The row after an attempt.                                                  *)
LEMMA AfterRow ==
  ASSUME CopiesInv, NEW a, AttemptFits(a), a.answer # "none"
  PROVE  /\ Observes(a) => AfterObservation(a) \in Copy
         /\ ~Observes(a) => AfterMutation(a) \in Copy
<1> DEFINE row == copies[a.copy]
<1>1. row \in Copy /\ a.found.event \in EventIds \union {NoEvent}
  BY CopiesTypes DEF AttemptFits, Attempt, Sighting
<1>2. row.hidden \in {"no", "user_request", "deleted_in_google", "moved_in_google"}
      /\ row.outcome \in {"confirmed", "absent", "unknown"}
  BY <1>1 DEF Copy
<1> HIDE DEF row
<1>3. ASSUME Observes(a) PROVE AfterObservation(a) \in Copy
  <2> DEFINE Hidden(origin, detected) == IF detected /\ StillWanted(a) THEN origin
                                         ELSE row.hidden
  <2>1. /\ Hidden("deleted_in_google", PersonDeleted(a))
             \in {"no", "user_request", "deleted_in_google", "moved_in_google"}
        /\ Hidden("moved_in_google", a.found.status = "cancelled" /\ ~MustBeAbsent(row))
             \in {"no", "user_request", "deleted_in_google", "moved_in_google"}
    BY <1>2
  <2>2. /\ [row EXCEPT !.outcome = "unknown"] \in Copy
        /\ [row EXCEPT !.event = NoEvent, !.outcome = "absent",
                       !.hidden = Hidden("deleted_in_google", PersonDeleted(a))] \in Copy
        /\ [row EXCEPT !.event = a.found.event, !.outcome = "confirmed",
                       !.hidden = Hidden("moved_in_google",
                                    a.found.status = "cancelled" /\ ~MustBeAbsent(row))] \in Copy
    <3>1. \A h \in {"no", "user_request", "deleted_in_google", "moved_in_google"},
             v \in EventIds \union {NoEvent} :
            /\ [row EXCEPT !.outcome = "unknown"] \in Copy
            /\ [row EXCEPT !.event = NoEvent, !.outcome = "absent", !.hidden = h] \in Copy
            /\ [row EXCEPT !.event = v, !.outcome = "confirmed", !.hidden = h] \in Copy
      BY <1>1 DEF Copy
    <3> HIDE DEF Hidden
    <3> QED
      BY <1>1, <2>1, <3>1
  <2>3. a.answer \in {"unknown", "calendar_gone", "present", "empty"}
    BY <1>3 DEF AttemptFits, AnswerFits
  <2> QED
    BY <1>1, <2>2, <2>3 DEF AfterObservation, row
<1>4. ASSUME ~Observes(a) PROVE AfterMutation(a) \in Copy
  <2>1. \A outcome \in {"confirmed", "absent", "unknown"} :
          /\ [row EXCEPT !.outcome = outcome] \in Copy
          /\ [row EXCEPT !.event = a.found.event, !.outcome = outcome] \in Copy
    BY <1>1 DEF Copy
  <2>2. a.leg \in Mutations
    BY <1>4 DEF AttemptFits, Attempt, LegKinds, Mutations, Observes
  <2> QED
    BY <1>2, <2>1, <2>2 DEF AfterMutation, Mutations, row
<1> QED
  BY <1>3, <1>4

LEMMA RecordedFacts ==
  ASSUME CopiesInv, NEW a, AttemptFits(a)
  PROVE  /\ Recorded(a) \in Ledger
         /\ Recorded(a).creates = ledger[a.copy][a.basis.semantic].creates
<1> DEFINE facts == ledger[a.copy][a.basis.semantic]
<1>1. facts \in Ledger
  BY CopiesTypes DEF AttemptFits, Attempt, Copy
<1>2. Seen(a) \in Sighting
  <2>1. copies[a.copy] \in Copy /\ a.found \in Sighting
    BY CopiesTypes DEF AttemptFits, Attempt
  <2>2. NoSighting \in Sighting
    BY DEF NoSighting, Sighting
  <2>3. /\ a.found.event \in EventIds \union {NoEvent}
        /\ copies[a.copy].event \in EventIds \union {NoEvent}
        /\ copies[a.copy].revision \in Versions \union {NoText}
    BY <2>1 DEF Copy, Sighting
  <2>4. \A e \in EventIds \union {NoEvent} :
          [event |-> e, status |-> "confirmed", text |-> copies[a.copy].revision] \in Sighting
    BY <2>3 DEF Sighting
  <2> QED
    BY <2>1, <2>2, <2>3, <2>4 DEF Seen
<1> HIDE DEF facts
<1> DEFINE seen == Seen(a)
           present == \/ a.leg = "create" /\ a.answer = "applied"
                      \/ seen # NoSighting /\ seen.status = "confirmed"
           sight == IF seen # NoSighting THEN seen ELSE facts.seen
           authored == IF present THEN FALSE
                       ELSE facts.authored \/ (a.leg = "delete" /\ a.answer \in {"applied", "gone"})
           confirmed == facts.confirmed \/ present
<1>3. sight \in Sighting /\ authored \in BOOLEAN /\ confirmed \in BOOLEAN
  <2>1. facts.seen \in Sighting /\ facts.authored \in BOOLEAN /\ facts.confirmed \in BOOLEAN
    BY <1>1 DEF Ledger
  <2>2. seen \in Sighting /\ present \in BOOLEAN
    BY <1>2
  <2> HIDE DEF seen, present
  <2> QED
    BY <2>1, <2>2
<1>4. Recorded(a) = [facts EXCEPT !.seen = sight, !.authored = authored, !.confirmed = confirmed]
  BY DEF Recorded, facts
<1> HIDE DEF sight, authored, confirmed
<1>5. /\ [facts EXCEPT !.seen = sight, !.authored = authored, !.confirmed = confirmed] \in Ledger
      /\ [facts EXCEPT !.seen = sight, !.authored = authored, !.confirmed = confirmed].creates
           = facts.creates
  BY <1>1, <1>3 DEF Ledger
<1> QED
  BY <1>4, <1>5 DEF facts

(* What a call to Google does to an attempt and to the live events.           *)
AnsweredAttempt(a, answer, found) == [a EXCEPT !.answer = answer, !.found = found]

AnswersTo(leg) ==
  {"unknown", "calendar_gone"}
    \union (IF leg \in {"observe_get", "observe_list"} THEN {"present", "empty"}
            ELSE IF leg = "create" THEN {"applied", "definitely_failed"}
            ELSE {"applied", "gone", "definitely_failed"})

SameEvent(e) ==
  /\ events'[e].copy = events[e].copy
  /\ events'[e].semantic = events[e].semantic
  /\ events'[e].calendar = events[e].calendar

NoneAppears ==
  \A e \in EventIds : events'[e].state = "live" => events[e].state = "live" /\ SameEvent(e)

Appears(e, a) ==
  /\ events[e].state = "unmade"
  /\ events'[e].copy = a.copy /\ events'[e].semantic = a.basis.semantic
  /\ events'[e].calendar = a.calendar
  /\ \A d \in EventIds \ {e} : events'[d] = events[d]

LEMMA AnsweredFits ==
  ASSUME NEW a, AttemptFits(a), NEW found \in Sighting, NEW answer \in AnswersTo(a.leg),
         answer = "present" \/ (a.leg = "create" /\ answer = "applied")
           => found.event \in EventIds
  PROVE  /\ AttemptFits(AnsweredAttempt(a, answer, found))
         /\ AnsweredAttempt(a, answer, found).answer = answer /\ answer # "none"
         /\ AnsweredAttempt(a, answer, found).found = found
         /\ AnsweredAttempt(a, answer, found).copy = a.copy
         /\ AnsweredAttempt(a, answer, found).leg = a.leg
         /\ AnsweredAttempt(a, answer, found).reason = a.reason
         /\ AnsweredAttempt(a, answer, found).basis = a.basis
         /\ AnsweredAttempt(a, answer, found).calendar = a.calendar
<1> DEFINE b == AnsweredAttempt(a, answer, found)
<1>1. a \in Attempt
  BY DEF AttemptFits
<1>2. answer \in {"applied", "gone", "calendar_gone", "definitely_failed", "unknown", "present",
                  "empty"}
  BY DEF AnswersTo
<1>3. /\ b \in Attempt /\ b.answer = answer /\ b.found = found /\ b.copy = a.copy
      /\ b.leg = a.leg /\ b.reason = a.reason /\ b.basis = a.basis /\ b.calendar = a.calendar
  BY <1>1, <1>2 DEF AnsweredAttempt, Attempt
<1> HIDE DEF b
<1>4. b.copy \in Copies
  BY <1>3 DEF AttemptFits
<1>5. AnswerFits(b)
  BY <1>3 DEF AnswerFits, Observes, AnswersTo
<1>6. AttemptFits(b) /\ answer # "none"
  BY <1>2, <1>3, <1>4, <1>5 DEF AttemptFits
<1> QED
  BY <1>3, <1>6 DEF b

LEMMA CalledGoogle ==
  ASSUME CopiesInv, NEW r \in Runners, CallGoogle(r)
  PROVE  \E answer \in AnswersTo(syncAttempts[r].leg), found \in Sighting :
           /\ GoogleAnswers(r, answer, found)
           /\ answer = "present" \/ (syncAttempts[r].leg = "create" /\ answer = "applied")
                => found.event \in EventIds
           /\ events' \in [EventIds -> EventRows]
           /\ answer = "empty" => Matching(r) = {}
           /\ \/ NoneAppears
              \/ /\ syncAttempts[r].leg = "create" /\ answer \in {"applied", "unknown"}
                 /\ \E e \in EventIds : Appears(e, syncAttempts[r])
<1> DEFINE a == syncAttempts[r]
<1>k. /\ AttemptFits(a) /\ a.answer = "none" /\ a # NoSyncAttempt
      /\ events \in [EventIds -> EventRows]
  BY CopiesTypes DEF CallGoogle
<1>1. /\ a.leg \in LegKinds /\ a.basis.semantic \in Semantics /\ a.calendar \in Calendars
      /\ a.copy \in Copies /\ a.basis.revision \in Versions \union {NoText}
      /\ a.basis.event \in EventIds \union {NoEvent}
      /\ a.leg = "observe_get" => a.basis.event \in EventIds
  BY <1>k DEF AttemptFits, Attempt, Copy
<1>2. NoSighting \in Sighting /\ \A e \in EventIds : [NoSighting EXCEPT !.event = e] \in Sighting
        /\ [NoSighting EXCEPT !.event = e].event = e
  <2>1. NoSighting \in Sighting
    BY DEF NoSighting, Sighting
  <2> QED
    BY <2>1 DEF Sighting
<1> HIDE DEF a
<1>3. ASSUME UNCHANGED events PROVE NoneAppears /\ events' \in [EventIds -> EventRows]
  BY <1>k, <1>3 DEF NoneAppears, SameEvent
<1>4. ASSUME NEW answer \in AnswersTo(a.leg) \ {"present", "empty"},
             GoogleAnswers(r, answer, NoSighting), UNCHANGED events,
             ~(a.leg = "create" /\ answer = "applied")
      PROVE  \E an \in AnswersTo(a.leg), found \in Sighting :
           /\ GoogleAnswers(r, an, found)
           /\ an = "present" \/ (a.leg = "create" /\ an = "applied")
                => found.event \in EventIds
           /\ events' \in [EventIds -> EventRows]
           /\ an = "empty" => Matching(r) = {}
           /\ \/ NoneAppears
              \/ /\ a.leg = "create" /\ an \in {"applied", "unknown"}
                 /\ \E e \in EventIds : Appears(e, a)
  BY <1>2, <1>3, <1>4
<1> DEFINE Goal == \E an \in AnswersTo(a.leg), found \in Sighting :
           /\ GoogleAnswers(r, an, found)
           /\ an = "present" \/ (a.leg = "create" /\ an = "applied")
                => found.event \in EventIds
           /\ events' \in [EventIds -> EventRows]
           /\ an = "empty" => Matching(r) = {}
           /\ \/ NoneAppears
              \/ /\ a.leg = "create" /\ an \in {"applied", "unknown"}
                 /\ \E e \in EventIds : Appears(e, a)
<1>5. ASSUME a.leg = "create", InsertEvent(r) PROVE Goal
  <2>1. PICK e \in EventIds :
          /\ events[e].state = "unmade"
          /\ events' = [events EXCEPT ![e] =
                          [state |-> "live", calendar |-> a.calendar, copy |-> a.copy,
                           semantic |-> a.basis.semantic, text |-> a.basis.revision]]
          /\ \/ GoogleAnswers(r, "applied", [NoSighting EXCEPT !.event = e])
             \/ GoogleAnswers(r, "unknown", NoSighting)
    BY <1>5 DEF InsertEvent, a
  <2>2. [state |-> "live", calendar |-> a.calendar, copy |-> a.copy,
         semantic |-> a.basis.semantic, text |-> a.basis.revision] \in EventRows
    BY <1>1 DEF EventRows, CalendarOrNone
  <2>3. events' \in [EventIds -> EventRows] /\ Appears(e, a)
    BY <1>k, <2>1, <2>2 DEF Appears
  <2>4. "applied" \in AnswersTo(a.leg) /\ "unknown" \in AnswersTo(a.leg)
    BY <1>5 DEF AnswersTo
  <2> QED
    BY <1>2, <1>5, <2>1, <2>3, <2>4
<1>6. ASSUME a.leg = "update", PatchEvent(r) PROVE Goal
  <2>1. {"applied", "unknown", "gone"} \subseteq AnswersTo(a.leg) \ {"present", "empty"}
    BY <1>6 DEF AnswersTo
  <2>2. CASE ~(At(r, a.basis.event) /\ events[a.basis.event].state = "live")
    <3>1. GoogleAnswers(r, "gone", NoSighting) /\ UNCHANGED events
      BY <1>6, <2>2 DEF PatchEvent, a
    <3> QED
      BY <1>4, <1>6, <2>1, <3>1
  <2>3. CASE At(r, a.basis.event) /\ events[a.basis.event].state = "live"
    <3>1. PICK answer \in {"applied", "unknown"} :
            /\ GoogleAnswers(r, answer, NoSighting)
            /\ events' = [events EXCEPT ![a.basis.event].text = a.basis.revision]
      BY <1>6, <2>3 DEF PatchEvent, a
    <3>2. events' \in [EventIds -> EventRows] /\ NoneAppears
      <4> DEFINE row == [events[a.basis.event] EXCEPT !.text = a.basis.revision]
      <4>1. events' = [events EXCEPT ![a.basis.event] = row]
        BY <3>1
      <4>2. a.basis.event \in EventIds => row \in EventRows
        BY <1>k, <1>1 DEF EventRows
      <4>3. a.basis.event \in EventIds =>
              /\ row.state = "live" => events[a.basis.event].state = "live"
              /\ row.copy = events[a.basis.event].copy
              /\ row.semantic = events[a.basis.event].semantic
              /\ row.calendar = events[a.basis.event].calendar
        BY <1>k DEF EventRows
      <4> HIDE DEF row
      <4> QED
        BY <1>k, <4>1, <4>2, <4>3 DEF NoneAppears, SameEvent
    <3> QED
      BY <1>2, <1>6, <2>1, <3>1, <3>2
  <2> QED
    BY <2>2, <2>3
<1>7. ASSUME a.leg = "delete", DeleteEvent(r) PROVE Goal
  <2>1. {"applied", "unknown", "gone"} \subseteq AnswersTo(a.leg) \ {"present", "empty"}
    BY <1>7 DEF AnswersTo
  <2>2. CASE ~(At(r, a.basis.event) /\ events[a.basis.event].state = "live")
    <3>1. GoogleAnswers(r, "gone", NoSighting) /\ UNCHANGED events
      BY <1>7, <2>2 DEF DeleteEvent, a
    <3> QED
      BY <1>4, <1>7, <2>1, <3>1
  <2>3. CASE At(r, a.basis.event) /\ events[a.basis.event].state = "live"
    <3>1. PICK answer \in {"applied", "unknown"} :
            /\ GoogleAnswers(r, answer, NoSighting)
            /\ events' = [events EXCEPT ![a.basis.event].state = "removed"]
      BY <1>7, <2>3 DEF DeleteEvent, a
    <3>2. events' \in [EventIds -> EventRows] /\ NoneAppears
      <4> DEFINE row == [events[a.basis.event] EXCEPT !.state = "removed"]
      <4>1. events' = [events EXCEPT ![a.basis.event] = row]
        BY <3>1
      <4>2. a.basis.event \in EventIds => row \in EventRows
        BY <1>k, <1>1 DEF EventRows
      <4>3. a.basis.event \in EventIds =>
              /\ row.state = "live" => events[a.basis.event].state = "live"
              /\ row.copy = events[a.basis.event].copy
              /\ row.semantic = events[a.basis.event].semantic
              /\ row.calendar = events[a.basis.event].calendar
        BY <1>k DEF EventRows
      <4> HIDE DEF row
      <4> QED
        BY <1>k, <4>1, <4>2, <4>3 DEF NoneAppears, SameEvent
    <3> QED
      BY <1>2, <1>7, <2>1, <3>1, <3>2
  <2> QED
    BY <2>2, <2>3
<1>8. ASSUME a.leg \in {"observe_get", "observe_list"}, Observe(r) PROVE Goal
  <2> DEFINE known == a.leg = "observe_get" /\ At(r, a.basis.event)
                        /\ events[a.basis.event].state \in {"live", "cancelled"}
             shown == IF known THEN {a.basis.event} ELSE Matching(r)
  <2>1. /\ IF shown = {} THEN GoogleAnswers(r, "empty", NoSighting)
           ELSE \E x \in shown : GoogleAnswers(r, "present", SightingOf(x))
        /\ UNCHANGED events
    BY <1>8 DEF Observe, a
  <2>2. {"present", "empty"} \subseteq AnswersTo(a.leg)
    BY <1>8 DEF AnswersTo
  <2>3. CASE shown = {}
    <3>1. Matching(r) = {}
      BY <2>3
    <3> QED
      BY <1>2, <1>3, <1>8, <2>1, <2>2, <2>3, <3>1
  <2>4. CASE shown # {}
    <3>1. PICK x \in shown : GoogleAnswers(r, "present", SightingOf(x))
      BY <2>1, <2>4
    <3>2. x \in EventIds
      <4>1. CASE known
        <5>1. x = a.basis.event /\ a.leg = "observe_get"
          BY <4>1
        <5> QED
          BY <1>1, <5>1
      <4>2. CASE ~known
        BY <4>2 DEF Matching
      <4> QED
        BY <4>1, <4>2
    <3>3. SightingOf(x) \in Sighting /\ SightingOf(x).event = x
      BY <1>k, <3>2 DEF SightingOf, Sighting, EventRows
    <3> QED
      BY <1>3, <1>8, <2>1, <2>2, <3>1, <3>2, <3>3
  <2> QED
    BY <2>3, <2>4
<1>9. Goal
  <2>1. {"unknown", "calendar_gone"} \subseteq AnswersTo(a.leg) \ {"present", "empty"}
    BY DEF AnswersTo
  <2>2. a.leg \in {"update", "delete"} => "gone" \in AnswersTo(a.leg) \ {"present", "empty"}
    BY DEF AnswersTo
  <2>3. a.leg \in {"create", "update", "delete"} =>
          "definitely_failed" \in AnswersTo(a.leg) \ {"present", "empty"}
    BY DEF AnswersTo
  <2> HIDE DEF Goal
  <2>4. \/ GoogleAnswers(r, "unknown", NoSighting) /\ UNCHANGED events
        \/ GoogleAnswers(r, "calendar_gone", NoSighting) /\ UNCHANGED events
        \/ a.leg \in {"update", "delete"} /\ GoogleAnswers(r, "gone", NoSighting)
             /\ UNCHANGED events
        \/ a.leg = "create" /\ InsertEvent(r)
        \/ a.leg = "update" /\ PatchEvent(r)
        \/ a.leg = "delete" /\ DeleteEvent(r)
        \/ a.leg \in {"observe_get", "observe_list"} /\ Observe(r)
        \/ a.leg \in {"create", "update", "delete"}
             /\ GoogleAnswers(r, "definitely_failed", NoSighting) /\ UNCHANGED events
    BY DEF CallGoogle, a
  <2>5. ASSUME NEW answer \in AnswersTo(a.leg) \ {"present", "empty", "applied"},
               GoogleAnswers(r, answer, NoSighting), UNCHANGED events
        PROVE  Goal
    BY <1>4, <2>5 DEF Goal
  <2>6. /\ "unknown" \in AnswersTo(a.leg) \ {"present", "empty", "applied"}
        /\ "calendar_gone" \in AnswersTo(a.leg) \ {"present", "empty", "applied"}
        /\ a.leg \in {"update", "delete"} =>
             "gone" \in AnswersTo(a.leg) \ {"present", "empty", "applied"}
        /\ a.leg \in {"create", "update", "delete"} =>
             "definitely_failed" \in AnswersTo(a.leg) \ {"present", "empty", "applied"}
    BY <2>1, <2>2, <2>3
  <2> QED
    BY <1>5, <1>6, <1>7, <1>8, <2>4, <2>5, <2>6
<1> QED
  BY <1>9 DEF Goal, a

LEMMA CopiesInvInit == CalendarInit => CopiesInv
<1> SUFFICES ASSUME CalendarInit PROVE CopiesInv
  OBVIOUS
<1>1. ConnectionTypeOK
  BY ConnectionTypeInit DEF CalendarInit
<1>2. NoAccount \in Semantics
  BY DEF Semantics
<1>3. copies \in [Copies -> Copy]
  BY <1>2 DEF CalendarInit, Copy
<1>4. NoSighting \in Sighting
  BY DEF NoSighting, Sighting
<1>5. ledger \in [Copies -> [Semantics -> Ledger]]
  <2>1. [creates |-> 0, updates |-> 0, deletes |-> 0, authored |-> FALSE,
         confirmed |-> FALSE, seen |-> NoSighting] \in Ledger
    BY <1>4, CopyConstants DEF Ledger
  <2> QED
    BY <2>1 DEF CalendarInit
<1>6. events \in [EventIds -> EventRows]
  BY <1>2 DEF CalendarInit, EventRows, CalendarOrNone
<1>7. /\ syncAttempts \in [Runners -> Attempt \union {NoSyncAttempt}]
      /\ \A r \in Runners : syncAttempts[r] = NoSyncAttempt
  BY DEF CalendarInit
<1> QED
  BY <1>1, <1>3, <1>5, <1>6, <1>7 DEF CopiesInv, CalendarTypeOK, EventRows, CalendarOrNone

(* What a step must show to keep the types.                                   *)
LEMMA CopiesInvFrom ==
  ASSUME ConnectionTypeOK', copies' \in [Copies -> Copy],
         ledger' \in [Copies -> [Semantics -> Ledger]], events' \in [EventIds -> EventRows],
         syncAttempts' = [r \in Runners |-> syncAttempts'[r]],
         \A r \in Runners : syncAttempts'[r] # NoSyncAttempt => AttemptFits(syncAttempts'[r])
  PROVE  CopiesInv'
BY DEF CopiesInv, CalendarTypeOK, EventRows, CalendarOrNone, AttemptFits, AnswerFits, Observes

LEMMA SameConnectionType ==
  ASSUME ConnectionTypeOK, UNCHANGED connectionVars
  PROVE  ConnectionTypeOK'
BY ConnectionTypeStep

LEMMA OpenedAttempt ==
  ASSUME CopiesInv, NEW r \in Runners, NEW c \in Copies, NEW leg \in CopyLeg(c),
         connection.credential # NoAccount, connection.calendar # NoCalendar
  PROVE  AttemptFits([copy |-> c, leg |-> leg[1], reason |-> leg[2], basis |-> copies[c],
                      calendar |-> connection.calendar, token |-> connection.credential,
                      answer |-> "none", found |-> NoSighting])
<1>1. connection.credential \in Accounts /\ connection.calendar \in Calendars
        /\ copies[c] \in Copy
  BY CopiesTypes DEF Connection
<1>2. NoSighting \in Sighting
  BY DEF NoSighting, Sighting
<1>3. /\ leg[1] \in LegKinds /\ leg[2] \in DecisionReasons
      /\ leg[1] \in {"update", "delete", "observe_get"} => copies[c].event \in EventIds
  BY LegAllowed
<1> QED
  BY <1>1, <1>2, <1>3 DEF AttemptFits, Attempt, AnswerFits

LEMMA CopiesInvStep == CopiesInv /\ [CalendarNext]_calendarVars => CopiesInv'
<1> SUFFICES ASSUME CopiesInv, [CalendarNext]_calendarVars PROVE CopiesInv'
  OBVIOUS
<1>k. /\ ConnectionTypeOK /\ connection \in Connection
      /\ copies \in [Copies -> Copy]
      /\ ledger \in [Copies -> [Semantics -> Ledger]]
      /\ syncAttempts \in [Runners -> Attempt \union {NoSyncAttempt}]
      /\ \A r \in Runners : syncAttempts[r] # NoSyncAttempt => AttemptFits(syncAttempts[r])
      /\ events \in [EventIds -> EventRows]
  BY CopiesTypes
<1>1. ASSUME [ConnectionNext]_connectionVars, UNCHANGED <<copies, ledger, syncAttempts, events>>
      PROVE  CopiesInv'
  BY <1>k, <1>1, ConnectionTypeStep, CopiesInvFrom
<1>2. ASSUME NEW c \in Copies, NEW want \in BOOLEAN, NEW revision \in Versions,
             ProjectionPass(c, want, revision)
      PROVE  CopiesInv'
  <2>1. copies' \in [Copies -> Copy]
    BY <1>k, <1>2, DesiredRow DEF ProjectionPass
  <2> QED
    BY <1>k, <1>2, <2>1, SameConnectionType, CopiesInvFrom DEF ProjectionPass
<1>3. ASSUME NEW c \in Copies, NEW hide \in BOOLEAN, SetCopyHidden(c, hide)
      PROVE  CopiesInv'
  <2>1. PICK origin \in {"no", "user_request"} : copies' = [copies EXCEPT ![c].hidden = origin]
    BY <1>3 DEF SetCopyHidden
  <2>2. [copies[c] EXCEPT !.hidden = origin] \in Copy
    <3>1. copies[c] \in Copy
      BY <1>k
    <3> QED
      BY <3>1 DEF Copy
  <2>3. copies' \in [Copies -> Copy]
    BY <1>k, <2>1, <2>2
  <2> QED
    BY <1>k, <1>3, <2>3, SameConnectionType, CopiesInvFrom DEF SetCopyHidden
<1>4. ASSUME NEW c \in Copies, NEW r \in Runners, PrepareCopyAttempt(r, c)
      PROVE  CopiesInv'
  <2>1. PICK leg \in CopyLeg(c) :
          /\ syncAttempts' = [syncAttempts EXCEPT ![r] =
               [copy |-> c, leg |-> leg[1], reason |-> leg[2], basis |-> copies[c],
                calendar |-> connection.calendar, token |-> connection.credential,
                answer |-> "none", found |-> NoSighting]]
          /\ ledger' = [ledger EXCEPT ![c][copies[c].semantic] = Counted(@, leg[1])]
    BY <1>4 DEF PrepareCopyAttempt
  <2> DEFINE a == [copy |-> c, leg |-> leg[1], reason |-> leg[2], basis |-> copies[c],
                   calendar |-> connection.calendar, token |-> connection.credential,
                   answer |-> "none", found |-> NoSighting]
             n == copies[c].semantic
  <2>2. AttemptFits(a)
    BY <1>4, OpenedAttempt DEF PrepareCopyAttempt
  <2>3. Counted(ledger[c][n], leg[1]) \in Ledger
    BY LegAllowed
  <2>4. n \in Semantics /\ ledger[c] \in [Semantics -> Ledger]
    BY <1>k DEF Copy
  <2> HIDE DEF a, n
  <2>5. ledger' \in [Copies -> [Semantics -> Ledger]]
    <3>1. [ledger[c] EXCEPT ![n] = Counted(@, leg[1])] \in [Semantics -> Ledger]
      BY <2>3, <2>4
    <3> QED
      BY <1>k, <2>1, <3>1 DEF n
  <2>6. /\ syncAttempts' = [q \in Runners |-> syncAttempts'[q]]
        /\ \A q \in Runners : syncAttempts'[q] # NoSyncAttempt => AttemptFits(syncAttempts'[q])
    <3>1. /\ syncAttempts' = [q \in Runners |-> syncAttempts'[q]]
          /\ \A q \in Runners : syncAttempts'[q] = a \/ syncAttempts'[q] = syncAttempts[q]
      BY <1>k, <2>1 DEF a
    <3> QED
      BY <1>k, <2>2, <3>1
  <2> QED
    BY <1>k, <1>4, <2>5, <2>6, SameConnectionType, CopiesInvFrom DEF PrepareCopyAttempt
<1>5. ASSUME NEW r \in Runners, CallGoogle(r)
      PROVE  CopiesInv'
  <2>1. PICK answer \in AnswersTo(syncAttempts[r].leg), found \in Sighting :
          /\ GoogleAnswers(r, answer, found)
          /\ answer = "present" \/ (syncAttempts[r].leg = "create" /\ answer = "applied")
               => found.event \in EventIds
          /\ events' \in [EventIds -> EventRows]
    BY <1>5, CalledGoogle
  <2>2. AttemptFits(syncAttempts[r])
    BY <1>k, <1>5 DEF CallGoogle
  <2>3. AttemptFits(AnsweredAttempt(syncAttempts[r], answer, found))
    BY <2>1, <2>2, AnsweredFits
  <2>4. /\ syncAttempts' = [q \in Runners |-> syncAttempts'[q]]
        /\ \A q \in Runners : \/ syncAttempts'[q] = AnsweredAttempt(syncAttempts[r], answer, found)
                              \/ syncAttempts'[q] = syncAttempts[q]
    BY <1>k, <2>1 DEF GoogleAnswers, AnsweredAttempt
  <2>5. \A q \in Runners : syncAttempts'[q] # NoSyncAttempt => AttemptFits(syncAttempts'[q])
    BY <1>k, <2>3, <2>4
  <2> QED
    BY <1>k, <1>5, <2>1, <2>4, <2>5, SameConnectionType, CopiesInvFrom DEF CallGoogle
<1>6. ASSUME NEW r \in Runners, CompleteCopyAttempt(r)
      PROVE  CopiesInv'
  <2> DEFINE a == syncAttempts[r]
  <2>1. AttemptFits(a) /\ a.answer # "none"
    BY <1>k, <1>6 DEF CompleteCopyAttempt
  <2>2. a.copy \in Copies /\ a.basis.semantic \in Semantics
    BY <2>1 DEF AttemptFits, Attempt, Copy
  <2>3. /\ copies' = [copies EXCEPT ![a.copy] =
                        IF Observes(a) THEN AfterObservation(a) ELSE AfterMutation(a)]
        /\ ledger' = [ledger EXCEPT ![a.copy][a.basis.semantic] = Recorded(a)]
        /\ syncAttempts' = [syncAttempts EXCEPT ![r] = NoSyncAttempt]
        /\ connection' = IF a.answer = "calendar_gone" /\ connection.state # "error"
                         THEN [connection EXCEPT !.state = "error",
                                                 !.reason = "calendar_access_lost"]
                         ELSE connection
        /\ UNCHANGED <<flows, calendars, activeFirm, refresh, events>>
    BY <1>6 DEF CompleteCopyAttempt
  <2> HIDE DEF a
  <2>4. copies' \in [Copies -> Copy]
    BY <1>k, <2>1, <2>3, AfterRow
  <2>5. ledger' \in [Copies -> [Semantics -> Ledger]]
    <3>1. Recorded(a) \in Ledger
      BY <2>1, RecordedFacts
    <3>2. [ledger[a.copy] EXCEPT ![a.basis.semantic] = Recorded(a)] \in [Semantics -> Ledger]
      BY <1>k, <2>2, <3>1
    <3> QED
      BY <1>k, <2>3, <3>2
  <2>6. connection' \in Connection
    BY <1>k, <2>3 DEF Connection, Reasons
  <2>7. ConnectionTypeOK'
    BY <1>k, <2>3, <2>6 DEF ConnectionTypeOK
  <2>8. /\ syncAttempts' = [q \in Runners |-> syncAttempts'[q]]
        /\ \A q \in Runners : syncAttempts'[q] # NoSyncAttempt => AttemptFits(syncAttempts'[q])
    BY <1>k, <2>3
  <2> QED
    BY <1>k, <2>3, <2>4, <2>5, <2>7, <2>8, CopiesInvFrom
<1>7. ASSUME NEW r \in Runners, AttemptDies(r)
      PROVE  CopiesInv'
  <2>1. /\ syncAttempts' = [q \in Runners |-> syncAttempts'[q]]
        /\ \A q \in Runners : syncAttempts'[q] # NoSyncAttempt => AttemptFits(syncAttempts'[q])
    BY <1>k, <1>7 DEF AttemptDies
  <2> QED
    BY <1>k, <1>7, <2>1, SameConnectionType, CopiesInvFrom DEF AttemptDies
<1>8. ASSUME NEW e \in EventIds, PersonTouches(e)
      PROVE  CopiesInv'
  <2>1. events' \in [EventIds -> EventRows]
    <3>1. events[e] \in EventRows
      BY <1>k
    <3>2. /\ [events[e] EXCEPT !.state = "deleted"] \in EventRows
          /\ [events[e] EXCEPT !.state = "cancelled"] \in EventRows
          /\ [events[e] EXCEPT !.text = NoText] \in EventRows
      BY <3>1 DEF EventRows
    <3> QED
      BY <1>k, <1>8, <3>2 DEF PersonTouches
  <2> QED
    BY <1>k, <1>8, <2>1, SameConnectionType, CopiesInvFrom DEF PersonTouches
<1>9. CASE UNCHANGED calendarVars
  BY <1>1, <1>9 DEF calendarVars
<1> QED
  BY <1>1, <1>2, <1>3, <1>4, <1>5, <1>6, <1>7, <1>8, <1>9 DEF CalendarNext

(* Connections, flows, copies, attempts and events keep their types, and no   *)
(* kind of leg is ever taken more often than its limit allows, whichever      *)
(* runners reconcile a copy (nextAttemptClaim, decideCopyLeg).                *)
THEOREM CalendarTypeCorrect == CalendarSpec => []CalendarTypeOK
<1>1. CopiesInv => CalendarTypeOK
  BY DEF CopiesInv
<1> QED
  BY <1>1, CopiesInvInit, CopiesInvStep, PTL DEF CalendarSpec

-----------------------------------------------------------------------------
(* One event of a copy.  While the connection stays with one calendar and one *)
(* account, what an attempt learns of the calendar stays true until the copy  *)
(* is created: nobody else creates it.                                        *)

BindingStays ==
  connection.calendar # NoCalendar =>
    connection'.calendar = connection.calendar /\ connection'.account = connection.account

\* The events of a copy that the person sees.
Shown(c) == {e \in EventIds : events[e].state = "live" /\ events[e].copy = c}

OpenAttempts == {r \in Runners : syncAttempts[r] # NoSyncAttempt}

Creating(c) == \E r \in OpenAttempts : syncAttempts[r].copy = c /\ syncAttempts[r].leg = "create"

\* Connected means that a calendar is known, and a flow that ends well names one.
ConnectedFits ==
  /\ connection.state = "connected" => connection.calendar # NoCalendar
  /\ \A f \in Flows : flows[f].step = "complete" /\ flows[f].reason = "none"
       => flows[f].calendar # NoCalendar

\* Without a calendar nothing has been projected.
NothingYet ==
  /\ \A c \in Copies : copies[c].state = "none"
  /\ OpenAttempts = {}
  /\ \A e \in EventIds : events[e].state # "live"

EventStandsFor(e) ==
  /\ events[e].copy \in Copies
  /\ events[e].semantic = connection.account
  /\ events[e].calendar = connection.calendar

\* A row that was observed absent is absent, until its creation is under way.
RowOnce(c) ==
  /\ copies[c].state = "none" => copies[c].event = NoEvent /\ copies[c].outcome = "unknown"
  /\ copies[c].state # "none" => copies[c].semantic = connection.account
  /\ ledger[c][connection.account].creates = 0 => Shown(c) = {}
  /\ copies[c].event = NoEvent /\ copies[c].outcome = "absent" /\ ~Creating(c) => Shown(c) = {}

\* A creation was decided when there was no event, and is counted.
AttemptOnce(r) ==
  LET a == syncAttempts[r] IN
  /\ copies[a.copy].state # "none"
  /\ a.basis.semantic = connection.account
  /\ a.calendar = connection.calendar
  /\ a.leg = "create" => /\ ledger[a.copy][connection.account].creates > 0
                         /\ \/ a.reason = "observed_absent_recreate"
                            \/ copies[a.copy].outcome = "unknown"
                         /\ a.answer \in {"none", "calendar_gone", "definitely_failed"}
                              => Shown(a.copy) = {}
  /\ a.leg = "delete" => copies[a.copy].event # NoEvent
  /\ a.answer = "empty" => Shown(a.copy) = {}

OnceInv ==
  /\ ConnectedFits
  /\ connection.calendar = NoCalendar => NothingYet
  /\ \A e \in EventIds : events[e].state = "live" => EventStandsFor(e)
  /\ \A c \in Copies : RowOnce(c)
  /\ \A r \in OpenAttempts : AttemptOnce(r)
  /\ \A q, r \in OpenAttempts : syncAttempts[q].copy = syncAttempts[r].copy => q = r
  /\ \A c \in Copies : \A d, e \in Shown(c) : d = e

LEMMA OnceInit == CalendarInit => OnceInv
<1> SUFFICES ASSUME CalendarInit PROVE OnceInv
  OBVIOUS
<1>1. ConnectedFits
  BY DEF CalendarInit, ConnectionInit, ConnectedFits, NoFlowYet
<1>2. OpenAttempts = {}
  BY DEF CalendarInit, OpenAttempts
<1>3. \A e \in EventIds : events[e].state # "live"
  BY DEF CalendarInit
<1>4. \A c \in Copies : copies[c].state = "none" /\ copies[c].event = NoEvent
                          /\ copies[c].outcome = "unknown"
  BY DEF CalendarInit
<1>5. \A c \in Copies : Shown(c) = {} /\ RowOnce(c)
  BY <1>3, <1>4 DEF Shown, RowOnce
<1> QED
  BY <1>1, <1>2, <1>3, <1>4, <1>5 DEF OnceInv, NothingYet

LEMMA RestoredHasCalendar ==
  ASSUME NEW row \in Connection, RestoresBinding(row)
  PROVE  [WithoutFlow(row) EXCEPT !.state = "connected"].calendar # NoCalendar
<1>1. WithoutFlow(row) \in Connection /\ WithoutFlow(row).calendar = row.calendar
  BY DEF WithoutFlow, Connection
<1> QED
  BY <1>1 DEF RestoresBinding, Connection

LEMMA StoppedIsNot ==
  ASSUME NEW row \in Connection
  PROVE  /\ StoppedRow(row).state = "disconnected"
         /\ [StoppedRow(row) EXCEPT !.reason = "membership_lost"].state = "disconnected"
<1>1. WithoutFlow(row) \in Connection
  BY ConnectionRow
<1>2. StoppedRow(row) \in Connection
  BY ConnectionRow
<1>3. StoppedRow(row).state = "disconnected"
  BY <1>1 DEF StoppedRow, Connection
<1> QED
  BY <1>2, <1>3 DEF Connection

(* Every way to be connected brings a calendar along.                         *)
LEMMA ConnectedKeeps ==
  ConnectionTypeOK /\ ConnectedFits /\ [ConnectionNext]_connectionVars => ConnectedFits'
<1> SUFFICES ASSUME ConnectionTypeOK, ConnectedFits, [ConnectionNext]_connectionVars
             PROVE  ConnectedFits'
  OBVIOUS
<1> DEFINE Fits(row) == row.state = "connected" => row.calendar # NoCalendar
           FlowFits(w) == w.step = "complete" /\ w.reason = "none" => w.calendar # NoCalendar
<1>k. /\ connection \in Connection /\ flows \in [Flows -> Flow]
      /\ Fits(connection) /\ \A f \in Flows : FlowFits(flows[f])
  BY DEF ConnectionTypeOK, ConnectedFits
<1>a. SUFFICES Fits(connection') /\ \A f \in Flows : FlowFits(flows'[f])
  BY DEF ConnectedFits
<1>b. ASSUME NEW f \in Flows, NEW reason \in Reasons \ {"none"}, FlowFails(f, reason)
      PROVE  \A g \in Flows : FlowFits(flows'[g])
  BY <1>k, <1>b DEF FlowFails, Flow
<1>c. {"failed", "creation_unknown", "calendar_access_lost"} \subseteq Reasons \ {"none"}
  BY DEF Reasons
<1>1. ASSUME NEW f \in Flows, NEW mode \in Modes, NEW acknowledged \in BOOLEAN,
             StartAuthorization(f, mode, acknowledged)
      PROVE  Fits(connection') /\ \A g \in Flows : FlowFits(flows'[g])
  <2> DEFINE row == [connection EXCEPT !.state = "pending_authorization", !.reason = "none",
                                       !.mode = mode, !.ticket = f, !.expired = FALSE]
  <2>1. row \in Connection /\ row.state = "pending_authorization"
    BY <1>k DEF Connection, Reasons
  <2> HIDE DEF row
  <2>2. [row EXCEPT !.firm = activeFirm, !.calendar = NoCalendar, !.account = NoAccount,
                    !.credential = NoAccount].state = "pending_authorization"
    BY <2>1 DEF Connection
  <2>3. connection'.state = "pending_authorization"
    BY <1>1, <2>1, <2>2 DEF StartAuthorization, row
  <2>4. \A g \in Flows : FlowFits(flows'[g])
    BY <1>k, <1>1 DEF StartAuthorization, Flow
  <2> QED
    BY <2>3, <2>4
<1>2. ASSUME NEW f \in Flows, PrepareCallback(f)
      PROVE  Fits(connection') /\ \A g \in Flows : FlowFits(flows'[g])
  <2>1. Fits(FailedRow(connection, "failed"))
    <3>1. WithoutFlow(connection) \in Connection
      BY <1>k, ConnectionRow
    <3>2. [WithoutFlow(connection) EXCEPT !.state = "error", !.reason = "failed"].state = "error"
      BY <3>1 DEF Connection
    <3> QED
      BY <1>k, <3>2, RestoredHasCalendar DEF FailedRow
  <2>2. [connection EXCEPT !.state = "error", !.reason = "membership_lost",
                           !.ticket = NoFlow, !.credential = NoAccount].state = "error"
    BY <1>k DEF Connection
  <2>3. Fits([connection EXCEPT !.ticket = NoFlow])
    BY <1>k DEF Connection
  <2>4. Fits(connection')
    BY <1>2, <2>1, <2>2, <2>3 DEF PrepareCallback
  <2>5. [flows[f] EXCEPT !.step = "exchange", !.mode = connection.mode,
                         !.calendar = connection.calendar,
                         !.known = connection.account].step = "exchange"
    BY <1>k DEF Flow
  <2>6. \A g \in Flows : \/ flows'[g] = flows[g] \/ flows'[g] = FlowOver
                         \/ flows'[g].step = "exchange"
    BY <1>k, <1>2, <2>5 DEF PrepareCallback
  <2>7. \A g \in Flows : FlowFits(flows'[g])
    BY <1>k, <2>6, FlowRows
  <2> QED
    BY <2>4, <2>7
<1>3. ASSUME NEW f \in Flows, ExchangeCode(f)
      PROVE  Fits(connection') /\ \A g \in Flows : FlowFits(flows'[g])
  <2>1. CASE FlowFails(f, "failed")
    BY <1>k, <1>3, <1>b, <1>c, <2>1 DEF ExchangeCode
  <2>2. ASSUME NEW a \in Accounts,
               flows' = [flows EXCEPT ![f] = [@ EXCEPT !.step = "calendar", !.account = a]]
        PROVE  \A g \in Flows : FlowFits(flows'[g])
    BY <1>k, <2>2 DEF Flow
  <2> QED
    BY <1>k, <1>3, <2>1, <2>2 DEF ExchangeCode
<1>4. ASSUME NEW f \in Flows, ReadKnownCalendar(f)
      PROVE  Fits(connection') /\ \A g \in Flows : FlowFits(flows'[g])
  <2>1. ASSUME flows' = [flows EXCEPT ![f].step = "complete"]
        PROVE  \A g \in Flows : FlowFits(flows'[g])
    BY <1>k, <1>4, <2>1 DEF ReadKnownCalendar, VerifiesKnown, Flow
  <2> QED
    BY <1>k, <1>4, <1>b, <1>c, <2>1 DEF ReadKnownCalendar
<1>5. ASSUME NEW f \in Flows, NEW k \in Calendars, CreateDedicatedCalendar(f, k)
      PROVE  Fits(connection') /\ \A g \in Flows : FlowFits(flows'[g])
  <2>1. ASSUME flows' = [flows EXCEPT ![f] = [@ EXCEPT !.step = "complete", !.calendar = k]]
        PROVE  \A g \in Flows : FlowFits(flows'[g])
    <3>1. [flows[f] EXCEPT !.step = "complete", !.calendar = k].calendar = k /\ k # NoCalendar
      BY <1>k, CopyConstants DEF Flow
    <3> QED
      BY <1>k, <2>1, <3>1
  <2> QED
    BY <1>k, <1>5, <1>b, <1>c, <2>1 DEF CreateDedicatedCalendar
<1>6. ASSUME NEW f \in Flows, CompleteCallback(f)
      PROVE  Fits(connection') /\ \A g \in Flows : FlowFits(flows'[g])
  <2>1. \A g \in Flows : FlowFits(flows'[g])
    BY <1>k, <1>6, FlowRows DEF CompleteCallback
  <2>2. Fits(Completed(f))
    <3> DEFINE base == WithoutFlow(connection)
    <3>1. base \in Connection /\ base.calendar = connection.calendar
      BY <1>k DEF WithoutFlow, Connection
    <3> HIDE DEF base
    <3>2. CASE flows[f].reason = "none"
      <4>1. flows[f].calendar # NoCalendar
        BY <1>k, <1>6, <3>2 DEF CompleteCallback
      <4>2. [base EXCEPT !.ticket = connection.ticket, !.state = "connected", !.reason = "none",
                   !.calendar = flows[f].calendar, !.account = flows[f].account,
                   !.credential = flows[f].account].calendar = flows[f].calendar
        BY <3>1 DEF Connection
      <4> QED
        BY <3>2, <4>1, <4>2 DEF Completed, base
    <3>3. CASE flows[f].reason # "none" /\ RestoresBinding(connection)
      <4>1. [base EXCEPT !.ticket = connection.ticket, !.state = "connected"].calendar
              = connection.calendar
        BY <3>1 DEF Connection
      <4> QED
        BY <3>3, <4>1 DEF Completed, base, RestoresBinding
    <3>4. CASE flows[f].reason # "none" /\ ~RestoresBinding(connection)
      <4> DEFINE row == [base EXCEPT !.ticket = connection.ticket, !.state = "error",
                                     !.reason = flows[f].reason, !.credential = NoAccount]
      <4>1. row.state = "error"
        BY <3>1 DEF Connection
      <4>2. [row EXCEPT !.account = flows[f].account, !.calendar = NoCalendar].state = "error"
        BY <3>1 DEF Connection
      <4> HIDE DEF row
      <4> QED
        BY <3>4, <4>1, <4>2 DEF Completed, base, row
    <3> QED
      BY <3>2, <3>3, <3>4
  <2> QED
    BY <1>k, <1>6, <2>1, <2>2 DEF CompleteCallback
<1>7. CASE AuthorizationExpires
  BY <1>k, <1>7 DEF AuthorizationExpires, Connection
<1>8. CASE Disconnect
  BY <1>k, <1>8, RestoredHasCalendar, StoppedIsNot DEF Disconnect, Disconnected
<1>9. ASSUME NEW k \in Calendars, ConnectCalendar(k)
      PROVE  Fits(connection') /\ \A g \in Flows : FlowFits(flows'[g])
  <2>1. WithoutFlow(connection) \in Connection
    BY <1>k, ConnectionRow
  <2>2. connection'.calendar = k
    BY <1>9, <2>1 DEF ConnectCalendar, Connection
  <2> QED
    BY <1>k, <1>9, <2>2, CopyConstants DEF ConnectCalendar
<1>10. CASE LoadCredential
  BY <1>k, <1>10, StoppedIsNot DEF LoadCredential
<1>11. CASE RecordRefresh
  BY <1>k, <1>11 DEF RecordRefresh, Connection
<1>12. ASSUME NEW firm \in Firms \union {NoFirm}, MembershipChanges(firm)
       PROVE  Fits(connection') /\ \A g \in Flows : FlowFits(flows'[g])
  BY <1>k, <1>12 DEF MembershipChanges
<1>13. ASSUME NEW k \in Calendars, PersonDeletesCalendar(k)
       PROVE  Fits(connection') /\ \A g \in Flows : FlowFits(flows'[g])
  BY <1>k, <1>13 DEF PersonDeletesCalendar
<1>14. CASE UNCHANGED connectionVars
  BY <1>k, <1>14 DEF connectionVars
<1> QED
  BY <1>1, <1>2, <1>3, <1>4, <1>5, <1>6, <1>7, <1>8, <1>9, <1>10, <1>11, <1>12, <1>13, <1>14
     DEF ConnectionNext

(* A pass gives a copy what is desired and keeps what is known of its event.  *)
LEMMA DesiredMoves ==
  ASSUME CopiesInv, OnceInv, NEW c \in Copies, NEW want \in BOOLEAN, NEW revision \in Versions
  PROVE  /\ Desired(c, want, revision).event = copies[c].event
         /\ Desired(c, want, revision).outcome = copies[c].outcome
         /\ copies[c].state # "none" => Desired(c, want, revision).state # "none"
         /\ Desired(c, want, revision).state # "none"
              => Desired(c, want, revision).semantic = connection.account
<1> DEFINE old == copies[c]
           row == Rebound(copies[c])
<1>1. old \in Copy /\ connection.account \in Semantics
  BY CopiesTypes
<1>2. /\ old.state = "none" => old.event = NoEvent /\ old.outcome = "unknown"
      /\ old.state # "none" => old.semantic = connection.account
  BY DEF OnceInv, RowOnce
<1> HIDE DEF old
<1>3. row \in Copy /\ row.event = old.event /\ row.outcome = old.outcome
        /\ row.semantic = connection.account
  BY <1>1, <1>2 DEF Rebound, Copy, old
<1> HIDE DEF row
<1>4. \A state \in {"projected", "withdrawn"} :
        /\ [row EXCEPT !.state = state, !.revision = revision].event = old.event
        /\ [row EXCEPT !.state = state, !.revision = revision].outcome = old.outcome
        /\ [row EXCEPT !.state = state, !.revision = revision].state = state
        /\ [row EXCEPT !.state = state, !.revision = revision].semantic = connection.account
  BY <1>3 DEF Copy
<1>5. /\ [old EXCEPT !.state = "withdrawn"].event = old.event
      /\ [old EXCEPT !.state = "withdrawn"].outcome = old.outcome
      /\ [old EXCEPT !.state = "withdrawn"].state = "withdrawn"
      /\ [old EXCEPT !.state = "withdrawn"].semantic = old.semantic
  BY <1>1 DEF Copy
<1>a. old = copies[c] /\ row = Rebound(copies[c])
  BY DEF old, row
<1>6. CASE CopyFirm[c] = connection.firm /\ want
  BY <1>a, <1>4, <1>6 DEF Desired
<1>7. CASE ~(CopyFirm[c] = connection.firm /\ want) /\ old.state = "none"
  BY <1>a, <1>7 DEF Desired
<1>8. CASE /\ ~(CopyFirm[c] = connection.firm /\ want) /\ old.state # "none"
           /\ CopyFirm[c] = connection.firm
  BY <1>a, <1>4, <1>8 DEF Desired
<1>9. CASE ~(CopyFirm[c] = connection.firm /\ want) /\ old.state # "none"
             /\ CopyFirm[c] # connection.firm
  BY <1>a, <1>2, <1>5, <1>9 DEF Desired
<1> QED
  BY <1>a, <1>6, <1>7, <1>8, <1>9

(* Steps that change rows, but not what is known of their events.             *)
LEMMA RowsKeepOnce ==
  ASSUME CopiesInv, OnceInv,
         UNCHANGED <<connectionVars, ledger, syncAttempts, events>>,
         \A c \in Copies :
           /\ copies'[c].event = copies[c].event /\ copies'[c].outcome = copies[c].outcome
           /\ copies[c].state # "none" => copies'[c].state # "none"
           /\ copies'[c].state # "none" =>
                copies'[c].semantic = connection.account /\ connection.calendar # NoCalendar
  PROVE  OnceInv'
<1>1. /\ UNCHANGED <<connection, flows>> /\ UNCHANGED <<ledger, syncAttempts, events>>
      /\ OpenAttempts' = OpenAttempts
      /\ \A c : Shown(c)' = Shown(c) /\ Creating(c)' = Creating(c)
  BY DEF connectionVars, OpenAttempts, Shown, Creating
<1>2. ConnectedFits'
  BY <1>1 DEF OnceInv, ConnectedFits
<1>3. \A e \in EventIds : events'[e].state = "live" => EventStandsFor(e)'
  BY <1>1 DEF OnceInv, EventStandsFor
<1>4. ASSUME NEW c \in Copies PROVE RowOnce(c)'
  <2>1. RowOnce(c)
    BY DEF OnceInv
  <2> QED
    BY <1>1, <2>1 DEF RowOnce
<1>5. ASSUME NEW r \in OpenAttempts' PROVE AttemptOnce(r)'
  <2>1. AttemptOnce(r) /\ r \in Runners /\ r \in OpenAttempts
    BY <1>1, <1>5 DEF OnceInv, OpenAttempts
  <2>2. syncAttempts[r].copy \in Copies
    BY <2>1, CopiesTypes DEF OpenAttempts, AttemptFits
  <2> QED
    BY <1>1, <2>1, <2>2 DEF AttemptOnce
<1>6. connection.calendar = NoCalendar => NothingYet'
  BY <1>1 DEF OnceInv, NothingYet
<1> QED
  BY <1>1, <1>2, <1>3, <1>4, <1>5, <1>6 DEF OnceInv

LEMMA OpenAttemptFits ==
  ASSUME CopiesInv, NEW r \in OpenAttempts
  PROVE  r \in Runners /\ AttemptFits(syncAttempts[r]) /\ syncAttempts[r].copy \in Copies
BY CopiesTypes DEF OpenAttempts, AttemptFits

LEMMA NoAttemptHasNoCopy ==
  ASSUME NEW a, a.copy \in Copies
  PROVE  a # NoSyncAttempt
BY CopyConstants DEF NoSyncAttempt

(* The attempt that opens is the only one of its copy.                        *)
LEMMA PrepareKeepsOnce ==
  ASSUME CopiesInv, OnceInv, NEW r \in Runners, NEW c \in Copies, PrepareCopyAttempt(r, c)
  PROVE  OnceInv'
<1>1. PICK leg \in CopyLeg(c) :
        /\ syncAttempts' = [syncAttempts EXCEPT ![r] =
             [copy |-> c, leg |-> leg[1], reason |-> leg[2], basis |-> copies[c],
              calendar |-> connection.calendar, token |-> connection.credential,
              answer |-> "none", found |-> NoSighting]]
        /\ ledger' = [ledger EXCEPT ![c][copies[c].semantic] = Counted(@, leg[1])]
  BY DEF PrepareCopyAttempt
<1>2. /\ UNCHANGED <<connection, flows>> /\ UNCHANGED <<copies, events>>
      /\ copies[c].state # "none" /\ connection.calendar # NoCalendar
      /\ \A q \in Runners : syncAttempts[q].copy # c
      /\ syncAttempts[r] = NoSyncAttempt
  BY DEF PrepareCopyAttempt, connectionVars, AttemptOpen
<1>3. /\ DOMAIN syncAttempts = Runners /\ ledger \in [Copies -> [Semantics -> Ledger]]
      /\ connection.account \in Semantics
  BY CopiesTypes
<1>4. RowOnce(c) /\ copies[c].semantic = connection.account
  BY <1>2 DEF OnceInv, RowOnce
<1> DEFINE a == syncAttempts'[r]
           n == connection.account
<1>5. /\ a.copy = c /\ a.leg = leg[1] /\ a.reason = leg[2] /\ a.basis = copies[c]
      /\ a.calendar = connection.calendar /\ a.answer = "none"
      /\ \A q \in Runners \ {r} : syncAttempts'[q] = syncAttempts[q]
  BY <1>1, <1>3
<1>6. /\ leg[1] = "create" =>
           /\ copies[c].event = NoEvent
           /\ \/ leg[2] = "projected_create" /\ copies[c].outcome = "unknown"
                   /\ ledger[c][n].creates = 0
              \/ leg[2] = "observed_absent_recreate" /\ copies[c].outcome = "absent"
      /\ leg[1] = "delete" => copies[c].event \in EventIds
      /\ Counted(ledger[c][n], leg[1]).creates =
           ledger[c][n].creates + (IF leg[1] = "create" THEN 1 ELSE 0)
  BY <1>4, LegAllowed
<1>7. ledger[c][n].creates \in Nat
  BY <1>3, CopyConstants DEF Ledger
<1> HIDE DEF a, n
<1>8. /\ ledger'[c][n].creates = ledger[c][n].creates + (IF leg[1] = "create" THEN 1 ELSE 0)
      /\ \A d \in Copies \ {c} : ledger'[d] = ledger[d]
  <2>1. ledger'[c] = [ledger[c] EXCEPT ![n] = Counted(@, leg[1])]
    BY <1>1, <1>3, <1>4 DEF n
  <2>2. ledger'[c][n] = Counted(ledger[c][n], leg[1])
    BY <1>3, <2>1 DEF n
  <2>3. \A d \in Copies \ {c} : ledger'[d] = ledger[d]
    BY <1>1, <1>3
  <2> QED
    BY <1>6, <2>2, <2>3
<1>9. a # NoSyncAttempt
  BY <1>5, NoAttemptHasNoCopy
<1>10. /\ OpenAttempts' = OpenAttempts \union {r} /\ r \notin OpenAttempts
       /\ \A q \in OpenAttempts : syncAttempts'[q] = syncAttempts[q] /\ syncAttempts[q].copy # c
                                    /\ q \in Runners
  BY <1>2, <1>5, <1>9 DEF OpenAttempts, a
<1>11. /\ \A d : Shown(d)' = Shown(d)
       /\ \A d \in Copies \ {c} : Creating(d)' <=> Creating(d)
       /\ ~Creating(c)
  <2>1. \A d : Shown(d)' = Shown(d)
    BY <1>2 DEF Shown
  <2>2. ~Creating(c)
    BY <1>10 DEF Creating
  <2>3. \A d \in Copies \ {c} : Creating(d)' <=> Creating(d)
    BY <1>5, <1>10 DEF Creating, a
  <2> QED
    BY <2>1, <2>2, <2>3
<1>12. ConnectedFits'
  BY <1>2 DEF OnceInv, ConnectedFits
<1>13. \A e \in EventIds : events'[e].state = "live" => EventStandsFor(e)'
  BY <1>2 DEF OnceInv, EventStandsFor
<1>14. ASSUME NEW d \in Copies PROVE RowOnce(d)'
  <2>1. RowOnce(d)
    BY DEF OnceInv
  <2>2. CASE d = c
    <3>1. ledger'[c][n].creates = 0 => ledger[c][n].creates = 0
      BY <1>7, <1>8
    <3> QED
      BY <1>2, <1>11, <2>1, <2>2, <3>1 DEF RowOnce, n
  <2>3. CASE d # c
    BY <1>2, <1>8, <1>11, <2>1, <2>3 DEF RowOnce
  <2> QED
    BY <2>2, <2>3
<1>15. AttemptOnce(r)'
  <2>1. leg[1] = "create" => Shown(c) = {} /\ ledger'[c][n].creates > 0
    BY <1>4, <1>6, <1>7, <1>8, <1>11 DEF RowOnce, n
  <2>2. leg[1] = "delete" => copies[c].event # NoEvent
    BY <1>6, CopyConstants
  <2> QED
    BY <1>2, <1>4, <1>5, <1>6, <1>11, <2>1, <2>2 DEF AttemptOnce, a, n
<1>16. ASSUME NEW q \in OpenAttempts PROVE AttemptOnce(q)'
  <2>1. AttemptOnce(q) /\ syncAttempts[q].copy \in Copies \ {c}
    BY <1>10, OpenAttemptFits DEF OnceInv
  <2>2. syncAttempts'[q] = syncAttempts[q]
    BY <1>10
  <2> QED
    BY <1>2, <1>8, <1>11, <2>1, <2>2 DEF AttemptOnce
<1>17. \A p, q \in OpenAttempts' : syncAttempts'[p].copy = syncAttempts'[q].copy => p = q
  BY <1>5, <1>10 DEF OnceInv, a
<1>18. \A d \in Copies : \A e, f \in Shown(d)' : e = f
  BY <1>11 DEF OnceInv
<1> QED
  BY <1>2, <1>10, <1>12, <1>13, <1>14, <1>15, <1>16, <1>17, <1>18 DEF OnceInv

(* What the transitions make of what is known of an event.                    *)
LEMMA AfterMoves ==
  ASSUME CopiesInv, OnceInv, NEW r \in OpenAttempts, syncAttempts[r].answer # "none"
  PROVE  LET a == syncAttempts[r]
             new == IF Observes(a) THEN AfterObservation(a) ELSE AfterMutation(a)
         IN /\ new.state = copies[a.copy].state /\ new.semantic = copies[a.copy].semantic
            /\ new.event = NoEvent /\ new.outcome = "absent" => Shown(a.copy) = {}
<1> DEFINE a == syncAttempts[r]
           row == copies[a.copy]
           new == IF Observes(a) THEN AfterObservation(a) ELSE AfterMutation(a)
<1>k. /\ AttemptFits(a) /\ AttemptOnce(r) /\ RowOnce(a.copy) /\ row \in Copy
      /\ a.leg \in LegKinds /\ a.copy \in Copies /\ r \in Runners
  BY OpenAttemptFits, CopiesTypes DEF OnceInv, AttemptFits, Attempt
<1>1. a.leg # "create" => ~Creating(a.copy)
  BY <1>k DEF OnceInv, Creating
<1>2. a.leg # "create" /\ row.event = NoEvent /\ row.outcome = "absent" => Shown(a.copy) = {}
  BY <1>k, <1>1 DEF RowOnce
<1>3. /\ a.leg = "create" /\ a.answer \in {"calendar_gone", "definitely_failed"}
           => Shown(a.copy) = {}
      /\ a.answer = "empty" => Shown(a.copy) = {}
      /\ a.leg = "delete" => row.event # NoEvent
  BY <1>k DEF AttemptOnce
<1>4. /\ Observes(a) => a.answer \in {"unknown", "calendar_gone", "present", "empty"}
      /\ a.leg = "create" =>
           a.answer \in {"unknown", "calendar_gone", "applied", "definitely_failed"}
      /\ a.answer = "present" => a.found.event # NoEvent
  BY <1>k, CopyConstants DEF AttemptFits, AnswerFits, Observes
<1>a. a = syncAttempts[r] /\ row = copies[a.copy]
  OBVIOUS
<1> HIDE DEF a, row
<1>5. CASE Observes(a)
  <2> DEFINE gone == [row EXCEPT !.event = NoEvent, !.outcome = "absent",
                        !.hidden = IF PersonDeleted(a) /\ StillWanted(a)
                                   THEN "deleted_in_google" ELSE row.hidden]
             seen == [row EXCEPT !.event = a.found.event, !.outcome = "confirmed",
                        !.hidden = IF (a.found.status = "cancelled" /\ ~MustBeAbsent(row))
                                        /\ StillWanted(a)
                                   THEN "moved_in_google" ELSE row.hidden]
  <2>1. \/ a.answer = "unknown" /\ new = [row EXCEPT !.outcome = "unknown"]
        \/ a.answer = "calendar_gone" /\ new = row
        \/ a.answer = "empty" /\ new = gone
        \/ a.answer = "present" /\ new = seen
    BY <1>4, <1>5 DEF AfterObservation, row
  <2>2. a.leg # "create"
    BY <1>5 DEF Observes
  <2> HIDE DEF new
  <2>3. CASE a.answer = "unknown" /\ new = [row EXCEPT !.outcome = "unknown"]
    <3>1. new.state = row.state /\ new.semantic = row.semantic /\ new.outcome = "unknown"
      BY <1>k, <2>3 DEF Copy
    <3> QED
      BY <3>1 DEF new, a, row
  <2>4. CASE a.answer = "calendar_gone" /\ new = row
    BY <1>2, <2>2, <2>4 DEF new, a, row
  <2>5. CASE a.answer = "empty" /\ new = gone
    <3>1. new.state = row.state /\ new.semantic = row.semantic
      BY <1>k, <2>5 DEF Copy
    <3> QED
      BY <1>3, <2>5, <3>1 DEF new, a, row
  <2>6. CASE a.answer = "present" /\ new = seen
    <3>1. new.state = row.state /\ new.semantic = row.semantic /\ new.outcome = "confirmed"
      BY <1>k, <2>6 DEF Copy
    <3> QED
      BY <3>1 DEF new, a, row
  <2> QED
    BY <2>1, <2>3, <2>4, <2>5, <2>6
<1>6. CASE ~Observes(a)
  <2>0. a.leg \in {"create", "update", "delete"} /\ new = AfterMutation(a)
    BY <1>k, <1>6 DEF Observes, LegKinds
  <2> HIDE DEF new
  <2>1. CASE a.leg = "create"
    <3> DEFINE outcome == CASE a.answer = "applied" -> "confirmed"
                            [] a.answer = "unknown" -> "unknown"
                            [] OTHER -> "absent"
    <3>1. new = [row EXCEPT !.event = a.found.event, !.outcome = outcome]
      BY <2>0, <2>1 DEF AfterMutation, row
    <3>2. outcome = "absent" => a.answer \in {"calendar_gone", "definitely_failed"}
      BY <1>4, <2>1
    <3> HIDE DEF outcome
    <3>3. new.state = row.state /\ new.semantic = row.semantic /\ new.outcome = outcome
      BY <1>k, <3>1 DEF Copy
    <3> QED
      BY <1>3, <2>1, <3>2, <3>3 DEF new, a, row
  <2>2. CASE a.leg = "update"
    <3>1. PICK outcome \in {"confirmed", "unknown"} : new = [row EXCEPT !.outcome = outcome]
      BY <2>0, <2>2 DEF AfterMutation, row
    <3>2. new.state = row.state /\ new.semantic = row.semantic /\ new.outcome = outcome
      BY <1>k, <3>1 DEF Copy
    <3> QED
      BY <3>2 DEF new, a, row
  <2>3. CASE a.leg = "delete"
    <3> DEFINE outcome == CASE a.answer \in {"applied", "gone"} -> "absent"
                            [] a.answer = "definitely_failed" -> row.outcome
                            [] OTHER -> "unknown"
    <3>1. new = [row EXCEPT !.outcome = outcome]
      BY <2>0, <2>3 DEF AfterMutation, row
    <3> HIDE DEF outcome
    <3>2. new.state = row.state /\ new.semantic = row.semantic /\ new.event = row.event
      BY <1>k, <3>1 DEF Copy
    <3> QED
      BY <1>3, <2>3, <3>2 DEF new, a, row
  <2> QED
    BY <2>0, <2>1, <2>2, <2>3
<1> QED
  BY <1>5, <1>6

(* An answer: the attempt learns something, and events go, or the event that  *)
(* a creation was decided for appears.                                        *)
LEMMA CallKeepsOnce ==
  ASSUME CopiesInv, OnceInv, NEW r \in Runners, CallGoogle(r)
  PROVE  OnceInv'
<1> DEFINE a == syncAttempts[r]
           b == syncAttempts'[r]
<1>1. PICK answer \in AnswersTo(a.leg), found \in Sighting :
        /\ GoogleAnswers(r, answer, found)
        /\ answer = "present" \/ (a.leg = "create" /\ answer = "applied")
             => found.event \in EventIds
        /\ answer = "empty" => Matching(r) = {}
        /\ \/ NoneAppears
           \/ /\ a.leg = "create" /\ answer \in {"applied", "unknown"}
              /\ \E e \in EventIds : Appears(e, a)
  BY CalledGoogle
<1>2. /\ UNCHANGED <<connection, flows>> /\ UNCHANGED <<copies, ledger>>
      /\ r \in OpenAttempts /\ a.answer = "none"
  BY DEF CallGoogle, connectionVars, OpenAttempts
<1>3. AttemptFits(a) /\ a.copy \in Copies /\ AttemptOnce(r) /\ DOMAIN syncAttempts = Runners
  BY <1>2, OpenAttemptFits, CopiesTypes DEF OnceInv
<1>4. b = AnsweredAttempt(a, answer, found)
  BY <1>1, <1>3 DEF GoogleAnswers, AnsweredAttempt
<1>5. /\ b.answer = answer /\ b.copy = a.copy /\ b.leg = a.leg /\ b.reason = a.reason
      /\ b.basis = a.basis /\ b.calendar = a.calendar
  BY <1>1, <1>3, <1>4, AnsweredFits
<1>6. \A q \in Runners \ {r} : syncAttempts'[q] = syncAttempts[q]
  BY <1>1, <1>3 DEF GoogleAnswers
<1> HIDE DEF a, b
<1>k. PICK k \in Copies : k = a.copy
  BY <1>3
<1>7. /\ OpenAttempts' = OpenAttempts
      /\ \A q \in OpenAttempts : /\ q \in Runners /\ syncAttempts'[q].copy = syncAttempts[q].copy
                                 /\ syncAttempts'[q].leg = syncAttempts[q].leg
                                 /\ q # r => syncAttempts[q].copy # a.copy
  <2>1. b # NoSyncAttempt
    BY <1>3, <1>5, NoAttemptHasNoCopy
  <2>2. OpenAttempts' = OpenAttempts
    BY <1>2, <1>6, <2>1 DEF OpenAttempts, b
  <2>3. \A q \in OpenAttempts : q # r => syncAttempts[q].copy # a.copy
    BY <1>2 DEF OnceInv, a
  <2> QED
    BY <1>5, <1>6, <2>2, <2>3 DEF OpenAttempts, a, b
<1>8. \A c : Creating(c)' <=> Creating(c)
  BY <1>7 DEF Creating
<1>9. ConnectedFits'
  BY <1>2 DEF OnceInv, ConnectedFits
<1>10. connection.calendar # NoCalendar
  BY <1>2 DEF OnceInv, NothingYet
<1>11. \A p, q \in OpenAttempts' : syncAttempts'[p].copy = syncAttempts'[q].copy => p = q
  BY <1>7 DEF OnceInv
<1>12. CASE NoneAppears
  <2>1. \A c : Shown(c)' \subseteq Shown(c)
    BY <1>12 DEF NoneAppears, Shown, SameEvent
  <2>2. \A e \in EventIds : events'[e].state = "live" => EventStandsFor(e)'
    BY <1>2, <1>12 DEF NoneAppears, SameEvent, EventStandsFor, OnceInv
  <2>3. ASSUME NEW c \in Copies PROVE RowOnce(c)'
    <3>1. RowOnce(c)
      BY DEF OnceInv
    <3>2. Shown(c) = {} => Shown(c)' = {}
      BY <2>1
    <3> QED
      BY <1>2, <1>8, <3>1, <3>2 DEF RowOnce
  <2>4. AttemptOnce(r)'
    <3>1. answer = "empty" => Shown(k) = {}
      <4>1. \A e \in Shown(k) : EventStandsFor(e) /\ e \in EventIds
                                       /\ events[e].state = "live" /\ events[e].copy = k
        BY DEF OnceInv, Shown
      <4>2. Shown(k) \subseteq Matching(r)
        BY <1>k, <1>3, <4>1 DEF Matching, At, EventStandsFor, AttemptOnce, a
      <4> QED
        BY <1>1, <4>2
    <3>2. a.leg = "create" => Shown(k) = {}
      BY <1>k, <1>2, <1>3 DEF AttemptOnce, a
    <3>3. Shown(k)' \subseteq Shown(k)
      BY <2>1
    <3> QED
      BY <1>k, <1>2, <1>3, <1>5, <3>1, <3>2, <3>3 DEF AttemptOnce, a, b
  <2>5. ASSUME NEW q \in OpenAttempts, q # r PROVE AttemptOnce(q)'
    <3>1. AttemptOnce(q) /\ syncAttempts'[q] = syncAttempts[q]
      BY <1>6, <1>7, <2>5 DEF OnceInv
    <3>2. PICK d \in Copies : d = syncAttempts[q].copy
      BY <2>5, OpenAttemptFits
    <3>3. Shown(d) = {} => Shown(d)' = {}
      BY <2>1
    <3> QED
      BY <1>2, <3>1, <3>2, <3>3 DEF AttemptOnce
  <2>6. \A c \in Copies : \A d, e \in Shown(c)' : d = e
    BY <2>1 DEF OnceInv
  <2> QED
    BY <1>2, <1>7, <1>9, <1>10, <1>11, <2>2, <2>3, <2>4, <2>5, <2>6 DEF OnceInv
<1>13. ASSUME a.leg = "create", answer \in {"applied", "unknown"},
              NEW e \in EventIds, Appears(e, a)
       PROVE  OnceInv'
  <2>1. /\ Shown(k) = {} /\ ledger[k][connection.account].creates > 0
        /\ a.basis.semantic = connection.account /\ a.calendar = connection.calendar
    BY <1>k, <1>2, <1>3, <1>13 DEF AttemptOnce, a
  <2>2. Shown(k)' \subseteq {e}
    BY <1>k, <1>13, <2>1 DEF Shown, Appears
  <2>3. \A c \in Copies \ {k} : Shown(c)' = Shown(c)
    BY <1>k, <1>13 DEF Shown, Appears
  <2>4. Creating(k)'
    BY <1>k, <1>2, <1>5, <1>7, <1>13 DEF Creating, a, b
  <2>5. \A d \in EventIds : events'[d].state = "live" => EventStandsFor(d)'
    BY <1>k, <1>2, <1>3, <1>13, <2>1 DEF Appears, EventStandsFor, OnceInv
  <2>6. ASSUME NEW c \in Copies PROVE RowOnce(c)'
    <3>1. RowOnce(c)
      BY DEF OnceInv
    <3>2. CASE c = k
      <4>1. ledger'[c][connection'.account].creates # 0
        <5>1. ledger[c][connection.account].creates \in Nat
          BY CopiesTypes, CopyConstants DEF Ledger
        <5> QED
          BY <1>2, <2>1, <3>2, <5>1
      <4> QED
        BY <1>2, <2>4, <3>1, <3>2, <4>1 DEF RowOnce
    <3>3. CASE c # k
      BY <1>2, <1>8, <2>3, <3>1, <3>3 DEF RowOnce
    <3> QED
      BY <3>2, <3>3
  <2>7. AttemptOnce(r)'
    BY <1>k, <1>2, <1>3, <1>5, <1>13 DEF AttemptOnce, a, b
  <2>8. ASSUME NEW q \in OpenAttempts, q # r PROVE AttemptOnce(q)'
    <3>1. AttemptOnce(q) /\ syncAttempts'[q] = syncAttempts[q]
      BY <1>6, <1>7, <2>8 DEF OnceInv
    <3>2. PICK d \in Copies \ {k} : d = syncAttempts[q].copy
      BY <1>k, <1>7, <2>8, OpenAttemptFits
    <3>3. Shown(d)' = Shown(d)
      BY <2>3
    <3> QED
      BY <1>2, <3>1, <3>2, <3>3 DEF AttemptOnce
  <2>9. \A c \in Copies : \A d, f \in Shown(c)' : d = f
    BY <2>2, <2>3 DEF OnceInv
  <2> QED
    BY <1>2, <1>7, <1>9, <1>10, <1>11, <2>5, <2>6, <2>7, <2>8, <2>9 DEF OnceInv
<1> QED
  BY <1>1, <1>12, <1>13

(* Attempts that are over.                                                    *)
LEMMA OverKeepsOnce ==
  ASSUME CopiesInv, OnceInv, NEW r \in OpenAttempts,
         connection'.calendar = connection.calendar, connection'.account = connection.account,
         ConnectedFits', UNCHANGED events,
         syncAttempts' = [syncAttempts EXCEPT ![r] = NoSyncAttempt],
         \A c \in Copies \ {syncAttempts[r].copy} : /\ copies'[c] = copies[c]
                                                    /\ ledger'[c] = ledger[c],
         LET c == syncAttempts[r].copy IN
           /\ copies'[c].state # "none" /\ copies'[c].semantic = connection.account
           /\ ledger'[c][connection.account].creates = ledger[c][connection.account].creates
           /\ copies'[c].event = NoEvent /\ copies'[c].outcome = "absent" => Shown(c) = {}
  PROVE  OnceInv'
<1> DEFINE c == syncAttempts[r].copy
<1>1. c \in Copies /\ r \in Runners /\ DOMAIN syncAttempts = Runners
  BY OpenAttemptFits, CopiesTypes
<1>2. \A q \in OpenAttempts \ {r} : syncAttempts[q].copy # c
  BY DEF OnceInv
<1> HIDE DEF c
<1>3. /\ OpenAttempts' = OpenAttempts \ {r}
      /\ \A q \in OpenAttempts \ {r} : syncAttempts'[q] = syncAttempts[q]
  BY <1>1 DEF OpenAttempts
<1>4. /\ \A d : Shown(d)' = Shown(d)
      /\ \A d \in Copies \ {c} : Creating(d)' <=> Creating(d)
  <2>1. \A d : Shown(d)' = Shown(d)
    BY DEF Shown
  <2>2. \A d \in Copies \ {c} : Creating(d)' <=> Creating(d)
    BY <1>3 DEF Creating, c
  <2> QED
    BY <2>1, <2>2
<1>5. connection.calendar # NoCalendar
  BY DEF OnceInv, NothingYet
<1>6. \A e \in EventIds : events'[e].state = "live" => EventStandsFor(e)'
  BY DEF OnceInv, EventStandsFor
<1>7. ASSUME NEW d \in Copies PROVE RowOnce(d)'
  <2>1. RowOnce(d)
    BY DEF OnceInv
  <2>2. CASE d = c
    BY <1>4, <2>1, <2>2 DEF RowOnce, c
  <2>3. CASE d # c
    <3>1. copies'[d] = copies[d] /\ ledger'[d] = ledger[d]
      BY <2>3 DEF c
    <3> QED
      BY <1>4, <2>1, <2>3, <3>1 DEF RowOnce
  <2> QED
    BY <2>2, <2>3
<1>8. ASSUME NEW q \in OpenAttempts \ {r} PROVE AttemptOnce(q)'
  <2>1. AttemptOnce(q) /\ syncAttempts'[q] = syncAttempts[q]
    BY <1>3 DEF OnceInv
  <2>2. syncAttempts[q].copy \in Copies \ {c}
    BY <1>2, OpenAttemptFits
  <2>3. copies'[syncAttempts[q].copy] = copies[syncAttempts[q].copy]
          /\ ledger'[syncAttempts[q].copy] = ledger[syncAttempts[q].copy]
    BY <2>2 DEF c
  <2> QED
    BY <1>4, <2>1, <2>3 DEF AttemptOnce
<1>9. \A p, q \in OpenAttempts' : syncAttempts'[p].copy = syncAttempts'[q].copy => p = q
  BY <1>3 DEF OnceInv
<1>10. \A d \in Copies : \A e, f \in Shown(d)' : e = f
  BY <1>4 DEF OnceInv
<1> QED
  BY <1>3, <1>5, <1>6, <1>7, <1>8, <1>9, <1>10 DEF OnceInv

LEMMA CompleteKeepsOnce ==
  ASSUME CopiesInv, OnceInv, NEW r \in Runners, CompleteCopyAttempt(r)
  PROVE  OnceInv'
<1> DEFINE a == syncAttempts[r]
           c == a.copy
           new == IF Observes(a) THEN AfterObservation(a) ELSE AfterMutation(a)
<1>1. /\ r \in OpenAttempts /\ a.answer # "none"
      /\ copies' = [copies EXCEPT ![c] = new]
      /\ ledger' = [ledger EXCEPT ![c][a.basis.semantic] = Recorded(a)]
      /\ syncAttempts' = [syncAttempts EXCEPT ![r] = NoSyncAttempt]
      /\ connection' = IF a.answer = "calendar_gone" /\ connection.state # "error"
                       THEN [connection EXCEPT !.state = "error",
                                               !.reason = "calendar_access_lost"]
                       ELSE connection
      /\ UNCHANGED <<flows, events>>
  BY DEF CompleteCopyAttempt, OpenAttempts
<1>2. AttemptFits(a) /\ c \in Copies /\ AttemptOnce(r) /\ RowOnce(c)
  BY <1>1, OpenAttemptFits DEF OnceInv
<1>3. /\ copies[c].state # "none" /\ copies[c].semantic = connection.account
      /\ a.basis.semantic = connection.account
  BY <1>2 DEF AttemptOnce, RowOnce
<1>4. /\ new.state = copies[c].state /\ new.semantic = copies[c].semantic
      /\ new.event = NoEvent /\ new.outcome = "absent" => Shown(c) = {}
  BY <1>1, AfterMoves
<1>5. Recorded(a).creates = ledger[c][connection.account].creates
  BY <1>2, <1>3, RecordedFacts
<1>6. /\ copies \in [Copies -> Copy] /\ ledger \in [Copies -> [Semantics -> Ledger]]
      /\ connection \in Connection /\ connection.account \in Semantics
  BY CopiesTypes
<1> HIDE DEF new, a
<1>7. /\ connection'.calendar = connection.calendar /\ connection'.account = connection.account
      /\ connection'.state = "connected" => connection.state = "connected"
  BY <1>1, <1>6 DEF Connection
<1>8. ConnectedFits'
  BY <1>1, <1>7 DEF OnceInv, ConnectedFits
<1>9. copies'[c] = new /\ \A d \in Copies \ {c} : copies'[d] = copies[d] /\ ledger'[d] = ledger[d]
  BY <1>1, <1>2, <1>6
<1>10. ledger'[c][connection.account].creates = ledger[c][connection.account].creates
  <2>1. ledger'[c] = [ledger[c] EXCEPT ![connection.account] = Recorded(a)]
    BY <1>1, <1>2, <1>3, <1>6
  <2>2. ledger'[c][connection.account] = Recorded(a)
    BY <1>2, <1>6, <2>1
  <2> QED
    BY <1>5, <2>2
<1> QED
  BY <1>1, <1>3, <1>4, <1>7, <1>8, <1>9, <1>10, OverKeepsOnce DEF a

(* A creation that was decided on an observed absence is never cut short.     *)
LEMMA DeathKeepsOnce ==
  ASSUME CopiesInv, OnceInv, "observed_absent_recreate" \notin FatalReasons,
         NEW r \in Runners, AttemptDies(r)
  PROVE  OnceInv'
<1> DEFINE a == syncAttempts[r]
           c == a.copy
<1>1. /\ r \in OpenAttempts /\ a.reason # "observed_absent_recreate"
      /\ syncAttempts' = [syncAttempts EXCEPT ![r] = NoSyncAttempt]
      /\ UNCHANGED <<connection, flows>> /\ UNCHANGED <<copies, ledger, events>>
  BY DEF AttemptDies, OpenAttempts, connectionVars
<1>2. c \in Copies /\ AttemptOnce(r) /\ RowOnce(c)
  BY <1>1, OpenAttemptFits DEF OnceInv
<1>3. copies[c].state # "none" /\ copies[c].semantic = connection.account
  BY <1>2 DEF AttemptOnce, RowOnce
<1>4. copies[c].event = NoEvent /\ copies[c].outcome = "absent" => Shown(c) = {}
  <2>1. CASE a.leg = "create"
    BY <1>1, <1>2, <2>1 DEF AttemptOnce
  <2>2. CASE a.leg # "create"
    <3>1. ~Creating(c)
      BY <1>1, <2>2 DEF Creating, OnceInv
    <3> QED
      BY <1>2, <3>1 DEF RowOnce
  <2> QED
    BY <2>1, <2>2
<1>5. ConnectedFits'
  BY <1>1 DEF OnceInv, ConnectedFits
<1> QED
  BY <1>1, <1>3, <1>4, <1>5, OverKeepsOnce

(* The person makes events disappear or rewrites them.                        *)
LEMMA TouchKeepsOnce ==
  ASSUME CopiesInv, OnceInv, NEW x \in EventIds, PersonTouches(x)
  PROVE  OnceInv'
<1>1. /\ UNCHANGED <<connection, flows>> /\ UNCHANGED <<copies, ledger, syncAttempts>>
      /\ OpenAttempts' = OpenAttempts /\ \A c : Creating(c)' <=> Creating(c)
  BY DEF PersonTouches, connectionVars, OpenAttempts, Creating
<1>2. NoneAppears
  <2>1. events \in [EventIds -> EventRows]
    BY CopiesTypes
  <2>2. events[x] \in EventRows
    BY <2>1
  <2>3. PICK row : /\ events' = [events EXCEPT ![x] = row]
                   /\ row.state = "live" => events[x].state = "live"
                   /\ row.copy = events[x].copy /\ row.semantic = events[x].semantic
                   /\ row.calendar = events[x].calendar
    BY <2>2 DEF PersonTouches, EventRows
  <2> QED
    BY <2>1, <2>3 DEF NoneAppears, SameEvent
<1>3. \A c : Shown(c)' \subseteq Shown(c)
  BY <1>2 DEF NoneAppears, Shown, SameEvent
<1>4. \A e \in EventIds : events'[e].state = "live" => EventStandsFor(e)'
  BY <1>1, <1>2 DEF NoneAppears, SameEvent, EventStandsFor, OnceInv
<1>5. ASSUME NEW c \in Copies PROVE RowOnce(c)'
  <2>1. RowOnce(c) /\ (Shown(c) = {} => Shown(c)' = {})
    BY <1>3 DEF OnceInv
  <2> QED
    BY <1>1, <2>1 DEF RowOnce
<1>6. ASSUME NEW q \in OpenAttempts PROVE AttemptOnce(q)'
  <2>1. PICK d \in Copies : d = syncAttempts[q].copy
    BY OpenAttemptFits
  <2>2. AttemptOnce(q) /\ (Shown(d) = {} => Shown(d)' = {})
    BY <1>3 DEF OnceInv
  <2> QED
    BY <1>1, <2>1, <2>2 DEF AttemptOnce
<1>7. \A c \in Copies : \A d, e \in Shown(c)' : d = e
  BY <1>3 DEF OnceInv
<1>8. ConnectedFits' /\ (connection'.calendar = NoCalendar => NothingYet')
  BY <1>1, <1>2 DEF OnceInv, ConnectedFits, NothingYet, NoneAppears
<1> QED
  BY <1>1, <1>4, <1>5, <1>6, <1>7, <1>8 DEF OnceInv

(* A step of the connection that leaves a binding as it is.                   *)
LEMMA ConnectionKeepsOnce ==
  ASSUME CopiesInv, OnceInv, [ConnectionNext]_connectionVars, BindingStays,
         UNCHANGED <<copies, ledger, syncAttempts, events>>
  PROVE  OnceInv'
<1>1. ConnectedFits'
  BY CopiesTypes, ConnectedKeeps DEF OnceInv
<1>2. /\ OpenAttempts' = OpenAttempts
      /\ \A c : Shown(c)' = Shown(c) /\ (Creating(c)' <=> Creating(c))
  BY DEF OpenAttempts, Shown, Creating
<1>3. CASE connection.calendar = NoCalendar
  <2>1. /\ \A c \in Copies : copies[c].state = "none" /\ copies[c].event = NoEvent
                               /\ copies[c].outcome = "unknown"
        /\ OpenAttempts = {} /\ \A e \in EventIds : events[e].state # "live"
    BY <1>3 DEF OnceInv, NothingYet, RowOnce
  <2>2. NothingYet'
    BY <1>2, <2>1 DEF NothingYet
  <2>3. \A c : Shown(c)' = {}
    BY <1>2, <2>1 DEF Shown
  <2>4. \A c \in Copies : RowOnce(c)'
    BY <2>1, <2>3 DEF RowOnce
  <2> QED
    BY <1>1, <1>2, <2>1, <2>2, <2>3, <2>4 DEF OnceInv
<1>4. CASE connection.calendar # NoCalendar
  <2>1. connection'.calendar = connection.calendar /\ connection'.account = connection.account
    BY <1>4 DEF BindingStays
  <2>2. \A c \in Copies : RowOnce(c)'
    BY <1>2, <2>1 DEF OnceInv, RowOnce
  <2>3. \A r \in OpenAttempts : AttemptOnce(r)'
    BY <1>2, <2>1 DEF OnceInv, AttemptOnce
  <2>4. \A e \in EventIds : events'[e].state = "live" => EventStandsFor(e)'
    BY <2>1 DEF OnceInv, EventStandsFor
  <2> QED
    BY <1>1, <1>2, <1>4, <2>1, <2>2, <2>3, <2>4 DEF OnceInv
<1> QED
  BY <1>3, <1>4

LEMMA OnceStep ==
  ASSUME "observed_absent_recreate" \notin FatalReasons
  PROVE  CopiesInv /\ OnceInv /\ [CalendarNext]_calendarVars /\ [BindingStays]_calendarVars
           => OnceInv'
<1> SUFFICES ASSUME CopiesInv, OnceInv, [CalendarNext]_calendarVars, [BindingStays]_calendarVars
             PROVE  OnceInv'
  OBVIOUS
<1>1. CASE UNCHANGED calendarVars
  <2>1. UNCHANGED connectionVars /\ UNCHANGED <<copies, ledger, syncAttempts, events>>
          /\ BindingStays
    BY <1>1 DEF calendarVars, connectionVars, BindingStays
  <2> QED
    BY <2>1, ConnectionKeepsOnce
<1>2. ASSUME ConnectionNext, UNCHANGED <<copies, ledger, syncAttempts, events>>
      PROVE  OnceInv'
  BY <1>1, <1>2, ConnectionKeepsOnce
<1>3. ASSUME NEW c \in Copies, NEW want \in BOOLEAN, NEW revision \in Versions,
             ProjectionPass(c, want, revision)
      PROVE  OnceInv'
  <2>1. connection.calendar # NoCalendar
    BY <1>3 DEF ProjectionPass, Operable, OnceInv, ConnectedFits
  <2>2. \A d \in Copies : copies[d].state # "none" => copies[d].semantic = connection.account
    BY DEF OnceInv, RowOnce
  <2>3. \A d \in Copies : copies'[d] = IF d = c THEN Desired(c, want, revision) ELSE copies[d]
    BY <1>3, CopiesTypes DEF ProjectionPass
  <2>4. UNCHANGED <<connectionVars, ledger, syncAttempts, events>>
    BY <1>3 DEF ProjectionPass
  <2> QED
    BY <2>1, <2>2, <2>3, <2>4, DesiredMoves, RowsKeepOnce
<1>4. ASSUME NEW c \in Copies, NEW hide \in BOOLEAN, SetCopyHidden(c, hide)
      PROVE  OnceInv'
  <2>1. /\ UNCHANGED <<connectionVars, ledger, syncAttempts, events>>
        /\ \E origin \in {"user_request", "no"} : copies' = [copies EXCEPT ![c].hidden = origin]
    BY <1>4 DEF SetCopyHidden
  <2>2. \A d \in Copies : /\ copies'[d].event = copies[d].event
                          /\ copies'[d].outcome = copies[d].outcome
                          /\ copies'[d].state = copies[d].state
                          /\ copies'[d].semantic = copies[d].semantic
    BY <2>1, CopiesTypes DEF Copy
  <2>3. \A d \in Copies : copies[d].state # "none" =>
          copies[d].semantic = connection.account /\ connection.calendar # NoCalendar
    BY DEF OnceInv, RowOnce, NothingYet
  <2> QED
    BY <2>1, <2>2, <2>3, RowsKeepOnce
<1>5. ASSUME NEW r \in Runners,
             \/ \E c \in Copies : PrepareCopyAttempt(r, c)
             \/ CallGoogle(r) \/ CompleteCopyAttempt(r) \/ AttemptDies(r)
      PROVE  OnceInv'
  BY <1>5, PrepareKeepsOnce, CallKeepsOnce, CompleteKeepsOnce, DeathKeepsOnce
<1>6. ASSUME NEW e \in EventIds, PersonTouches(e)
      PROVE  OnceInv'
  BY <1>6, TouchKeepsOnce
<1> QED
  BY <1>1, <1>2, <1>3, <1>4, <1>5, <1>6 DEF CalendarNext

(* However many passes, jobs and commands reconcile a copy, and whatever      *)
(* answers are lost, a calendar never shows two events of it, as long as the  *)
(* connection stays with the calendar and the account it has and no action    *)
(* that creates a copy anew dies halfway (prepareCopyAttempt, decideCopyLeg). *)
THEOREM NeverTwiceInOneCalendar ==
  ASSUME "observed_absent_recreate" \notin FatalReasons
  PROVE  CalendarSpec /\ [][BindingStays]_calendarVars => []NoDuplicateEvent
<1>1. OnceInv => NoDuplicateEvent
  <2> SUFFICES ASSUME OnceInv, NEW d \in EventIds, NEW e \in EventIds,
                      events[d].state = "live", events[e].state = "live",
                      events[d].copy = events[e].copy
               PROVE  d = e
    BY DEF NoDuplicateEvent
  <2>1. events[d].copy \in Copies
    BY DEF OnceInv, EventStandsFor
  <2> QED
    BY <2>1 DEF OnceInv, Shown
<1> QED
  BY <1>1, CopiesInvInit, CopiesInvStep, OnceInit, OnceStep, PTL DEF CalendarSpec
=============================================================================
