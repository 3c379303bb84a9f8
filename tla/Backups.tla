------------------------------- MODULE Backups -------------------------------
(***************************************************************************)
(* The complete backups: the slot, lease and retention rules of Convex     *)
(* (convex/operations/backups) and the container that runs them            *)
(* (apps/backup-worker).                                                   *)
(*                                                                         *)
(* Time is counted in days, one slot a day; a lease lapses at any moment.  *)
(* A media object stands for the message it belongs to.  The deletion      *)
(* ledger a set carries and the check of its length follow the attempt,    *)
(* so they are left out.                                                   *)
(***************************************************************************)
EXTENDS Naturals, FiniteSets

CONSTANTS
  LastDay,         \* bound: days are 0 .. LastDay
  Media,           \* retained media objects
  Workers,         \* runs that can be under way at once
  SlotAttempts,    \* MAX_ATTEMPTS_PER_SLOT
  Retention,       \* DAILY_RETENTION_MS, in days
  Grace,           \* ORPHAN_GRACE_MS and FAILED_ROW_RETENTION_MS, in days
  ContentExpiry,   \* DELETED_CONTENT_EXPIRY_MS, in days
  StoreRefuses,    \* the store may refuse deletions, which the worker does not notice
  Never            \* not a day

ASSUME BackupConstants ==
  /\ LastDay \in Nat /\ SlotAttempts \in Nat \ {0} /\ Never \notin Nat
  /\ StoreRefuses \in BOOLEAN
  /\ Grace \in Nat \ {0} /\ Retention \in Nat \ {0, 1} /\ ContentExpiry \in Nat
  /\ Grace < Retention /\ Retention < ContentExpiry

Days == 0 .. LastDay

VARIABLES
  day,      \* the current day, which is also the current slot
  retained, \* verified representations of role retained
  purgedOn, \* the day of the purge record of a medium's source
  erased,   \* media whose bytes left the media bucket
  rows,     \* recoveryManifests by slot
  pooled,   \* the day an object of the backup pool was stored
  files,    \* the attempt that wrote the files of a set
  backups,  \* runs under way in the container
  swept     \* the day of the latest sweep that came to its end

backupVars == <<day, retained, purgedOn, erased, rows, pooled, files, backups, swept>>

DayOrNever == Days \union {Never}
Files == {"database", "ledger", "manifest"}
ManifestRows == [state : {"none", "building", "verified", "failed"}, attempts : 0 .. SlotAttempts,
                 lease : BOOLEAN, media : SUBSET Media, drops : SUBSET Media]
RunSteps == {"none", "export", "copy", "verify", "database", "ledger", "check", "manifest", "complete", "rejected"}
SweepSteps == {"plan", "files", "pool", "list", "orphans", "end"}
RunRows == [step : RunSteps \union SweepSteps, slot : Days, attempt : 0 .. SlotAttempts,
            media : SUBSET Media, todo : SUBSET Media,
            expired : SUBSET Days, referenced : SUBSET Media]

BackupsTypeOK ==
  /\ day \in Days /\ swept \in DayOrNever
  /\ retained \subseteq Media /\ erased \subseteq Media
  /\ purgedOn \in [Media -> DayOrNever] /\ pooled \in [Media -> DayOrNever]
  /\ rows \in [Days -> ManifestRows]
  /\ files \in [Days -> [Files -> 0 .. SlotAttempts]]
  /\ backups \in [Workers -> RunRows]

NoRow == [state |-> "none", attempts |-> 0, lease |-> FALSE, media |-> {}, drops |-> {}]
NoFiles == [f \in Files |-> 0]
NoRun == [step |-> "none", slot |-> 0, attempt |-> 0, media |-> {}, todo |-> {},
          expired |-> {}, referenced |-> {}]

BackupsInit ==
  /\ day = 0 /\ retained = {} /\ erased = {} /\ swept = Never
  /\ purgedOn = [k \in Media |-> Never] /\ pooled = [k \in Media |-> Never]
  /\ rows = [s \in Days |-> NoRow]
  /\ files = [s \in Days |-> NoFiles]
  /\ backups = [w \in Workers |-> NoRun]

Purged == {k \in Media : purgedOn[k] # Never}
Pool == {k \in Media : pooled[k] # Never}

(***************************************************************************)
(* The media, and the time.                                                *)
(***************************************************************************)
RetainMedia(k) ==
  /\ k \notin retained
  /\ retained' = retained \union {k}
  /\ UNCHANGED <<day, purgedOn, erased, rows, pooled, files, backups, swept>>

\* The deletion record of the source; its bytes go later.
RecordPurge(k) ==
  /\ k \in retained \ Purged
  /\ purgedOn' = [purgedOn EXCEPT ![k] = day]
  /\ UNCHANGED <<day, retained, erased, rows, pooled, files, backups, swept>>

\* The media stage deletes the objects; no row of theirs is deleted.
EraseMedia(k) ==
  /\ k \in Purged \ erased
  /\ erased' = erased \union {k}
  /\ UNCHANGED <<day, retained, purgedOn, rows, pooled, files, backups, swept>>

\* No request of the container outlasts the second midnight, no lease either.
DayPasses ==
  /\ day < LastDay
  /\ \A w \in Workers : backups[w].step # "none" => backups[w].slot = day
  /\ \A s \in Days : rows[s].lease => s = day
  /\ day' = day + 1
  /\ UNCHANGED <<retained, purgedOn, erased, rows, pooled, files, backups, swept>>

LeaseLapses(s) ==
  /\ rows[s].lease
  /\ rows' = [rows EXCEPT ![s].lease = FALSE]
  /\ UNCHANGED <<day, retained, purgedOn, erased, pooled, files, backups, swept>>

(***************************************************************************)
(* A run: the lease, the export, the pool, the set, the verification.      *)
(***************************************************************************)
\* decideBegin, for a slot that is always the current one.
MayBegin(row) ==
  \/ row.state = "none"
  \/ row.state = "building" /\ ~row.lease /\ row.attempts < SlotAttempts
  \/ row.state = "failed" /\ row.attempts < SlotAttempts

\* A trigger of the schedule, of the tick that found no row, or a repeated one.
BeginRun(w) ==
  /\ backups[w].step = "none" /\ MayBegin(rows[day])
  /\ LET attempt == rows[day].attempts + 1
         drops == retained \intersect Purged
     IN /\ rows' = [rows EXCEPT ![day] = [state |-> "building", attempts |-> attempt, lease |-> TRUE,
                                          media |-> retained, drops |-> drops]]
        /\ backups' = [backups EXCEPT ![w] = [NoRun EXCEPT !.step = "export", !.slot = day,
                                              !.attempt = attempt, !.media = retained \ drops]]
  /\ UNCHANGED <<day, retained, purgedOn, erased, pooled, files, swept>>

\* A slot that is complete is not run again, but swept again.
BeginSweepOnly(w) ==
  /\ backups[w].step = "none" /\ rows[day].state = "verified"
  /\ backups' = [backups EXCEPT ![w] = [NoRun EXCEPT !.step = "plan", !.slot = day]]
  /\ UNCHANGED <<day, retained, purgedOn, erased, rows, pooled, files, swept>>

Goes(w, step, todo) ==
  backups' = [backups EXCEPT ![w] = [backups[w] EXCEPT !.step = step, !.todo = todo]]

\* The export reaches the disk of the container before the first object is read.
ExportDatabase(w) ==
  /\ backups[w].step = "export"
  /\ LET todo == backups[w].media IN Goes(w, IF todo = {} THEN "database" ELSE "copy", todo)
  /\ UNCHANGED <<day, retained, purgedOn, erased, rows, pooled, files, swept>>

\* An object the pool has is not read again.
CopyMedia(w, k) ==
  /\ backups[w].step = "copy" /\ k \in backups[w].todo
  /\ k \in Pool \/ k \notin erased
  /\ pooled' = IF k \in Pool THEN pooled ELSE [pooled EXCEPT ![k] = day]
  /\ LET todo == backups[w].todo \ {k}
     IN IF todo = {} THEN Goes(w, "verify", backups[w].media) ELSE Goes(w, "copy", todo)
  /\ UNCHANGED <<day, retained, purgedOn, erased, rows, files, swept>>

VerifyMedia(w, k) ==
  /\ backups[w].step = "verify" /\ k \in backups[w].todo \intersect Pool
  /\ LET todo == backups[w].todo \ {k}
     IN Goes(w, IF todo = {} THEN "database" ELSE "verify", todo)
  /\ UNCHANGED <<day, retained, purgedOn, erased, rows, pooled, files, swept>>

After == [database |-> "ledger", ledger |-> "check", manifest |-> "complete"]

\* No file names its attempt: a later writer replaces it.
PutFile(w) ==
  /\ backups[w].step \in Files
  /\ files' = [files EXCEPT ![backups[w].slot][backups[w].step] = backups[w].attempt]
  /\ Goes(w, After[backups[w].step], {})
  /\ UNCHANGED <<day, retained, purgedOn, erased, rows, pooled, swept>>

CheckDatabase(w) ==
  /\ backups[w].step = "check"
  /\ files[backups[w].slot].database = backups[w].attempt
  /\ Goes(w, "manifest", {})
  /\ UNCHANGED <<day, retained, purgedOn, erased, rows, pooled, files, swept>>

\* completeRunTx
MayComplete(run) ==
  LET row == rows[run.slot] IN
  /\ row.state = "building" /\ row.lease /\ row.attempts = run.attempt
  /\ run.media = row.media \ row.drops

Ended(s, state) == [rows[s] EXCEPT !.state = state, !.lease = FALSE]

CompleteRun(w) ==
  /\ backups[w].step = "complete"
  /\ IF MayComplete(backups[w])
       THEN /\ rows' = [rows EXCEPT ![backups[w].slot] = Ended(backups[w].slot, "verified")]
            /\ Goes(w, "plan", {})
       ELSE Goes(w, "rejected", {}) /\ UNCHANGED rows
  /\ UNCHANGED <<day, retained, purgedOn, erased, pooled, files, swept>>

\* A port refused or the completion was rejected, and the server hears of it.
FailRun(w) ==
  /\ backups[w].step \in RunSteps \ {"none", "complete"}
  /\ backups' = [backups EXCEPT ![w] = NoRun]
  /\ LET s == backups[w].slot IN
     rows' = IF rows[s].state = "building" /\ rows[s].attempts = backups[w].attempt
               THEN [rows EXCEPT ![s] = Ended(s, "failed")] ELSE rows
  /\ UNCHANGED <<day, retained, purgedOn, erased, pooled, files, swept>>

RunDies(w) ==
  /\ backups[w].step # "none"
  /\ backups' = [backups EXCEPT ![w] = NoRun]
  /\ UNCHANGED <<day, retained, purgedOn, erased, rows, pooled, files, swept>>

(***************************************************************************)
(* The retention sweep.  A deletion that the store refuses passes for done.*)
(***************************************************************************)
Expired(s) == s + Retention <= day

\* A fault: how old a set is is not asked.
VerifiedSets == {s \in Days : rows[s].state = "verified"}

ExpiredSets == {s \in Days : rows[s].state = "verified" /\ Expired(s)}

Deletable(expired) ==
  (UNION {rows[s].media : s \in expired})
    \ (UNION {rows[s].media : s \in {t \in Days : rows[t].state = "verified"} \ expired})

ReadSweepPlan(w) ==
  /\ backups[w].step = "plan"
  /\ backups' = [backups EXCEPT ![w] = [backups[w] EXCEPT
       !.step = "files", !.expired = ExpiredSets, !.todo = Deletable(ExpiredSets),
       !.referenced = UNION {rows[s].media : s \in Days}]]
  /\ UNCHANGED <<day, retained, purgedOn, erased, rows, pooled, files, swept>>

Deleted(keys) == IF StoreRefuses THEN SUBSET keys ELSE {keys}

DeleteSetFiles(w) ==
  /\ backups[w].step = "files"
  /\ \E gone \in Deleted(backups[w].expired) :
       files' = [s \in Days |-> IF s \in gone THEN NoFiles ELSE files[s]]
  /\ Goes(w, "pool", backups[w].todo)
  /\ UNCHANGED <<day, retained, purgedOn, erased, rows, pooled, swept>>

Unpool(keys) == pooled' = [k \in Media |-> IF k \in keys THEN Never ELSE pooled[k]]

DeletePooled(w) ==
  /\ backups[w].step = "pool"
  /\ \E gone \in Deleted(backups[w].todo) : Unpool(gone)
  /\ Goes(w, "list", {})
  /\ UNCHANGED <<day, retained, purgedOn, erased, rows, files, swept>>

\* isOrphanCandidate
Orphan(k, referenced) == k \notin referenced /\ day - pooled[k] > Grace

ListOrphans(w) ==
  /\ backups[w].step = "list"
  /\ Goes(w, "orphans", {k \in Pool : Orphan(k, backups[w].referenced)})
  /\ UNCHANGED <<day, retained, purgedOn, erased, rows, pooled, files, swept>>

DeleteOrphans(w) ==
  /\ backups[w].step = "orphans"
  /\ \E gone \in Deleted(backups[w].todo) : Unpool(gone)
  /\ Goes(w, "end", {})
  /\ UNCHANGED <<day, retained, purgedOn, erased, rows, files, swept>>

\* sweepCompleteTx: the collected sets and the failed rows that are history.
SweepComplete(w) ==
  /\ backups[w].step = "end"
  /\ rows' = [s \in Days |->
       IF \/ s \in backups[w].expired /\ rows[s].state # "building" /\ Expired(s)
          \/ rows[s].state = "failed" /\ day - s > Grace
         THEN NoRow ELSE rows[s]]
  /\ swept' = day
  /\ backups' = [backups EXCEPT ![w] = NoRun]
  /\ UNCHANGED <<day, retained, purgedOn, erased, pooled, files>>

BackupsNext ==
  \/ DayPasses
  \/ \E k \in Media : RetainMedia(k) \/ RecordPurge(k) \/ EraseMedia(k)
  \/ \E s \in Days : LeaseLapses(s)
  \/ \E w \in Workers :
       \/ BeginRun(w) \/ BeginSweepOnly(w) \/ ExportDatabase(w) \/ PutFile(w)
       \/ CheckDatabase(w) \/ CompleteRun(w) \/ FailRun(w) \/ RunDies(w)
       \/ ReadSweepPlan(w) \/ DeleteSetFiles(w) \/ DeletePooled(w) \/ ListOrphans(w)
       \/ DeleteOrphans(w) \/ SweepComplete(w)
       \/ \E k \in Media : CopyMedia(w, k) \/ VerifyMedia(w, k)

BackupsSpec == BackupsInit /\ [][BackupsNext]_backupVars

(***************************************************************************)
(* Properties.                                                             *)
(***************************************************************************)

(* A vault of sets: a slot that is verified names media that are all in    *)
(* the pool, it is verified once and says the same ever after, it is only  *)
(* collected when it has expired, and until then no sweep, takeover or     *)
(* purge takes one of its objects (runBackup, planSweep, sweepCompleteTx,  *)
(* isOrphanCandidate).                                                     *)
SealedSets ==
  {[slot |-> s, media |-> rows[s].media \ rows[s].drops] :
     s \in {t \in Days : rows[t].state = "verified"}}

Vault == INSTANCE BackupVault
  WITH Slots <- Days, today <- day, sets <- SealedSets, pool <- Pool

KeepsAVault == Vault!VaultSpec

(* Until it expires, a verified set can be restored: every object its      *)
(* manifest lists is in the pool, whatever sweeps, takeovers and purges    *)
(* went on while it was made or after (runBackup, planSweep,               *)
(* isOrphanCandidate).                                                     *)
VerifiedMediaIsPooled ==
  \A s \in Days : rows[s].state = "verified" /\ ~Expired(s) => rows[s].media \ rows[s].drops \subseteq Pool

(* A sweep that ends after the expiry of deleted content leaves no object  *)
(* of a purged source in the pool.                                         *)
PurgedMediaExpires ==
  \A k \in Purged : swept # Never /\ swept >= purgedOn[k] + ContentExpiry => k \notin Pool
=============================================================================
