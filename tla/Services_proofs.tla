---------------------------- MODULE Services_proofs ----------------------------
(***************************************************************************)
(* What the backups, the notifications, the telemetry and the quiet hours  *)
(* guarantee for every set of media, workers, persons, messages, questions,*)
(* devices, services and bills, every number of days, attempts, legs and   *)
(* hours, and every clock of a firm.                                       *)
(***************************************************************************)
EXTENDS Notifications, Backups, Telemetry, QuietHours, SequenceTheorems, TLAPS

-----------------------------------------------------------------------------
(* Backups.  A set names all that was retained when its last attempt       *)
(* began, so that later sets name what earlier ones name, and the set of   *)
(* the slot a sweep belongs to names what any sweep could delete.          *)

Copying == {"verify", "database", "ledger", "check", "manifest", "complete"}

RunFits(w) ==
  backups[w].step # "none" =>
    /\ backups[w].slot <= day /\ day <= backups[w].slot + 1
    /\ rows[backups[w].slot].state # "none"
    /\ backups[w].media \subseteq rows[backups[w].slot].media
    /\ backups[w].step = "copy" => /\ backups[w].todo \subseteq backups[w].media
                                  /\ backups[w].media \ backups[w].todo \subseteq Pool
    /\ backups[w].step \in Copying => backups[w].media \subseteq Pool
    /\ backups[w].step \in SweepSteps => rows[backups[w].slot].state = "verified"
    /\ backups[w].step \in {"files", "pool", "orphans"} => backups[w].todo = {}
    /\ backups[w].step \in {"files", "pool", "list"} =>
         rows[backups[w].slot].media \subseteq backups[w].referenced

SetFits(s) ==
  /\ rows[s].state # "none" => s <= day
  /\ rows[s].state = "none" => rows[s].attempts = 0 /\ ~rows[s].lease
  /\ rows[s].state = "verified" => rows[s].media \ rows[s].drops \subseteq Pool
  /\ rows[s].media \subseteq retained
  /\ \A t \in Days : s < t /\ rows[t].state # "none" => rows[s].media \subseteq rows[t].media
  /\ \A k \in Pool : rows[s].state # "none" /\ pooled[k] <= s => k \in rows[s].media

BackupsInv ==
  /\ BackupsTypeOK
  /\ \A w \in Workers : RunFits(w)
  /\ \A s \in Days : SetFits(s)
  /\ Pool \subseteq retained

(* No object ever leaves the pool.                                         *)
PoolOnlyGrows == [][Pool \subseteq Pool']_backupVars

\* What the rows of the slots a run can belong to keep.
RowStays(s) ==
  rows[s].state # "none" =>
    /\ rows'[s].state # "none" /\ rows[s].media \subseteq rows'[s].media
    /\ rows[s].state = "verified" => rows'[s].state = "verified" /\ rows'[s].media = rows[s].media

LEMMA NoRunFits == NoRun \in RunRows /\ NoRun.step = "none" /\ NoRun.media = {}
  BY BackupConstants DEF NoRun, RunRows, RunSteps, Days

LEMMA BackupsInitially == BackupsInit => BackupsInv
  BY BackupConstants
     DEF BackupsInit, BackupsInv, BackupsTypeOK, RunFits, SetFits, NoRow, NoFiles, NoRun, Pool,
         Days, DayOrNever, ManifestRows, RunRows, RunSteps, SweepSteps, Files

\* A run that does not move goes on fitting.
LEMMA RunStays ==
  ASSUME BackupsInv, NEW v \in Workers, backups'[v] = backups[v], day' = day, Pool \subseteq Pool',
         \A s \in Days : day <= s + 1 => RowStays(s)
  PROVE  RunFits(v)'
<1> DEFINE run == backups[v]
<1>1. run \in RunRows /\ RunFits(v) /\ rows \in [Days -> ManifestRows]
  BY DEF BackupsInv, BackupsTypeOK
<1>2. run.slot \in Days
  BY <1>1 DEF RunRows
<1>3. ASSUME run.step # "none" PROVE RowStays(run.slot)
  BY <1>1, <1>2, <1>3 DEF RunFits
<1>4. (run.step)' = run.step /\ (run.slot)' = run.slot /\ (run.media)' = run.media
      /\ (run.todo)' = run.todo /\ (run.referenced)' = run.referenced
  OBVIOUS
<1> HIDE DEF run
<1>5. RunFits(v) = (run.step # "none" =>
        /\ run.slot <= day /\ day <= run.slot + 1
        /\ rows[run.slot].state # "none"
        /\ run.media \subseteq rows[run.slot].media
        /\ run.step = "copy" => run.todo \subseteq run.media /\ run.media \ run.todo \subseteq Pool
        /\ run.step \in Copying => run.media \subseteq Pool
        /\ run.step \in SweepSteps => rows[run.slot].state = "verified"
        /\ run.step \in {"files", "pool", "orphans"} => run.todo = {}
        /\ run.step \in {"files", "pool", "list"} => rows[run.slot].media \subseteq run.referenced)
  BY DEF RunFits, run
<1>6. QED
  BY <1>1, <1>2, <1>3, <1>4, <1>5 DEF RunFits, RowStays, SweepSteps, run

\* The sets go on fitting while only the retained media grow.
LEMMA SetsStay ==
  ASSUME BackupsInv, UNCHANGED <<rows, pooled>>, retained \subseteq retained',
         day' \in Days, day <= day'
  PROVE  \A s \in Days : SetFits(s)'
<1> SUFFICES ASSUME NEW s \in Days PROVE SetFits(s)'
  OBVIOUS
<1>1. SetFits(s) /\ day \in Days
  BY DEF BackupsInv, BackupsTypeOK
<1>2. s <= day => s <= day'
  BY <1>1 DEF Days
<1>3. QED
  BY <1>1, <1>2 DEF SetFits, Pool

\* One run moves; rows, pool and time do not.
LEMMA OneRunMoves ==
  ASSUME BackupsInv, BackupsTypeOK', NEW w \in Workers,
         UNCHANGED <<day, rows, pooled, retained>>,
         \A v \in Workers \ {w} : backups'[v] = backups[v], RunFits(w)'
  PROVE  BackupsInv' /\ Pool \subseteq Pool'
<1>1. Pool' = Pool /\ \A s \in Days : RowStays(s)
  BY DEF Pool, RowStays
<1>2. \A v \in Workers \ {w} : RunFits(v)'
  BY <1>1, RunStays
<1>3. \A s \in Days : SetFits(s)'
  BY SetsStay DEF BackupsInv, BackupsTypeOK, Days
<1>4. QED
  BY <1>1, <1>2, <1>3 DEF BackupsInv

LEMMA RetainMediaKeeps ==
  ASSUME BackupsInv, NEW k \in Media, RetainMedia(k)
  PROVE  BackupsInv' /\ Pool \subseteq Pool'
<1> USE DEF RetainMedia
<1>1. Pool' = Pool /\ \A s \in Days : RowStays(s)
  BY DEF Pool, RowStays
<1>2. \A v \in Workers : RunFits(v)'
  BY <1>1, RunStays
<1>3. \A s \in Days : SetFits(s)'
  BY SetsStay DEF BackupsInv, BackupsTypeOK, Days
<1>4. QED
  BY <1>1, <1>2, <1>3 DEF BackupsInv, BackupsTypeOK

\* A medium is marked or erased, which no set looks at.
LEMMA PurgeKeeps ==
  ASSUME BackupsInv, NEW k \in Media, RecordPurge(k) \/ EraseMedia(k)
  PROVE  BackupsInv' /\ Pool \subseteq Pool'
<1> USE DEF RecordPurge, EraseMedia
<1>1. Pool' = Pool /\ \A s \in Days : RowStays(s)
  BY DEF Pool, RowStays
<1>2. \A v \in Workers : RunFits(v)'
  BY <1>1, RunStays
<1>3. \A s \in Days : SetFits(s)'
  BY SetsStay DEF BackupsInv, BackupsTypeOK, Days
<1>4. BackupsTypeOK'
  BY DEF BackupsInv, BackupsTypeOK, DayOrNever, Purged
<1>5. QED
  BY <1>1, <1>2, <1>3, <1>4 DEF BackupsInv

LEMMA DayPassesKeeps ==
  ASSUME BackupsInv, DayPasses
  PROVE  BackupsInv' /\ Pool \subseteq Pool'
<1> USE DEF DayPasses
<1>1. Pool' = Pool /\ day \in Days /\ day' \in Days /\ day <= day' /\ day' = day + 1
  BY BackupConstants DEF Pool, BackupsInv, BackupsTypeOK, Days
<1>2. \A v \in Workers : RunFits(v)'
  <2> SUFFICES ASSUME NEW v \in Workers PROVE RunFits(v)'
    OBVIOUS
  <2>1. RunFits(v) /\ backups[v].slot \in Days
    BY DEF BackupsInv, BackupsTypeOK, RunRows
  <2>2. backups[v].step # "none" => backups[v].slot <= day' /\ day' <= backups[v].slot + 1
    BY <1>1, <2>1 DEF Days
  <2>3. QED
    BY <1>1, <2>1, <2>2 DEF RunFits
<1>3. \A s \in Days : SetFits(s)'
  BY <1>1, SetsStay DEF BackupsInv, BackupsTypeOK, Days
<1>4. BackupsTypeOK'
  BY <1>1 DEF BackupsInv, BackupsTypeOK
<1>5. QED
  BY <1>1, <1>2, <1>3, <1>4 DEF BackupsInv

\* The row of a set that exists changes its state and keeps its media.
LEMMA OneRowMoves ==
  ASSUME BackupsInv, NEW s \in Days, NEW row \in ManifestRows, rows[s].state # "none",
         rows' = [rows EXCEPT ![s] = row], row.media = rows[s].media, row.drops = rows[s].drops,
         row.state # "none", rows[s].state = "verified" => row.state = "verified",
         row.state = "verified" => row.media \ row.drops \subseteq Pool,
         UNCHANGED <<day, pooled, retained>>
  PROVE  /\ rows' \in [Days -> ManifestRows] /\ Pool' = Pool
         /\ \A t \in Days : RowStays(t)
         /\ \A t \in Days : SetFits(t)'
<1>1. rows \in [Days -> ManifestRows]
  BY DEF BackupsInv, BackupsTypeOK
<1>2. \A t \in Days : /\ rows'[t].media = rows[t].media /\ rows'[t].drops = rows[t].drops
                      /\ rows'[t].state = "none" <=> rows[t].state = "none"
                      /\ t # s => rows'[t] = rows[t]
  BY <1>1
<1>3. Pool' = Pool /\ rows'[s].state = row.state
  BY <1>1 DEF Pool
<1>4. \A t \in Days : RowStays(t)
  BY <1>1, <1>2, <1>3 DEF RowStays
<1>5. ASSUME NEW t \in Days PROVE SetFits(t)'
  <2>1. SetFits(t)
    BY DEF BackupsInv
  <2>2. rows'[t].state = "none" => rows'[t].attempts = 0 /\ ~rows'[t].lease
    BY <1>2, <1>3, <2>1 DEF SetFits
  <2>3. rows'[t].state = "verified" => rows'[t].media \ rows'[t].drops \subseteq Pool'
    BY <1>2, <1>3, <2>1 DEF SetFits
  <2>4. \A r \in Days : t < r /\ rows'[r].state # "none" => rows'[t].media \subseteq rows'[r].media
    BY <1>2, <2>1 DEF SetFits
  <2>5. \A k \in Pool' : rows'[t].state # "none" /\ pooled'[k] <= t => k \in rows'[t].media
    BY <1>2, <1>3, <2>1 DEF SetFits
  <2>6. rows'[t].state # "none" => t <= day'
    BY <1>2, <2>1 DEF SetFits
  <2>7. rows'[t].media \subseteq retained'
    BY <1>2, <2>1 DEF SetFits
  <2>8. QED
    BY <2>2, <2>3, <2>4, <2>5, <2>6, <2>7 DEF SetFits
<1>6. QED
  BY <1>1, <1>3, <1>4, <1>5

LEMMA LeaseLapsesKeeps ==
  ASSUME BackupsInv, NEW s \in Days, LeaseLapses(s)
  PROVE  BackupsInv' /\ Pool \subseteq Pool'
<1> USE DEF LeaseLapses
<1> DEFINE row == [rows[s] EXCEPT !.lease = FALSE]
<1>1. rows[s] \in ManifestRows /\ SetFits(s)
  BY DEF BackupsInv, BackupsTypeOK
<1>2. /\ row \in ManifestRows /\ row.media = rows[s].media /\ row.drops = rows[s].drops
      /\ row.state = rows[s].state
  BY <1>1 DEF ManifestRows
<1>3. rows[s].state # "none" /\ (rows[s].state = "verified" => rows[s].media \ rows[s].drops \subseteq Pool)
  BY <1>1 DEF SetFits
<1>4. rows' = [rows EXCEPT ![s] = row]
  BY DEF BackupsInv, BackupsTypeOK
<1> HIDE DEF row
<1>5. /\ rows' \in [Days -> ManifestRows] /\ Pool' = Pool
      /\ \A t \in Days : RowStays(t)
      /\ \A t \in Days : SetFits(t)'
  <2>1. UNCHANGED <<day, pooled, retained>>
    OBVIOUS
  <2>2. row.state # "none" /\ (row.state = "verified" => row.media \ row.drops \subseteq Pool)
    BY <1>2, <1>3
  <2> HIDE DEF LeaseLapses
  <2> QED
    BY <1>2, <1>3, <1>4, <2>1, <2>2, OneRowMoves
<1>6. \A v \in Workers : RunFits(v)'
  BY <1>5, RunStays
<1>7. QED
  BY <1>5, <1>6 DEF BackupsInv, BackupsTypeOK

LEMMA EndedFits ==
  ASSUME BackupsInv, NEW s \in Days, NEW state \in {"verified", "failed"}
  PROVE  /\ Ended(s, state) \in ManifestRows /\ Ended(s, state).state = state
         /\ Ended(s, state).media = rows[s].media /\ Ended(s, state).drops = rows[s].drops
<1>1. rows[s] \in ManifestRows
  BY DEF BackupsInv, BackupsTypeOK
<1>2. QED
  BY <1>1 DEF Ended, ManifestRows

LEMMA GoesFits ==
  ASSUME BackupsInv, NEW w \in Workers, NEW step \in RunSteps \union SweepSteps,
         NEW todo \in SUBSET Media, Goes(w, step, todo)
  PROVE  /\ backups' \in [Workers -> RunRows]
         /\ \A v \in Workers \ {w} : backups'[v] = backups[v]
         /\ backups'[w].step = step /\ backups'[w].todo = todo
         /\ backups'[w].slot = backups[w].slot /\ backups'[w].attempt = backups[w].attempt
         /\ backups'[w].media = backups[w].media /\ backups'[w].referenced = backups[w].referenced
<1>1. backups \in [Workers -> RunRows]
  BY DEF BackupsInv, BackupsTypeOK
<1>2. backups[w] \in RunRows
  BY <1>1
<1> DEFINE run == [backups[w] EXCEPT !.step = step, !.todo = todo]
<1>3. /\ run \in RunRows /\ run.step = step /\ run.todo = todo /\ run.slot = backups[w].slot
      /\ run.attempt = backups[w].attempt /\ run.media = backups[w].media
      /\ run.referenced = backups[w].referenced
  BY <1>2 DEF RunRows
<1>4. backups' = [backups EXCEPT ![w] = run]
  BY DEF Goes
<1> HIDE DEF run
<1>5. QED
  BY <1>1, <1>3, <1>4

\* What is known of a run that is under way.
LEMMA RunKnown ==
  ASSUME BackupsInv, NEW w \in Workers
  PROVE  /\ backups[w] \in RunRows /\ RunFits(w)
         /\ backups[w].slot \in Days /\ backups[w].attempt \in 0 .. SlotAttempts
         /\ backups[w].media \subseteq Media /\ backups[w].todo \subseteq Media
         /\ backups[w].step \in RunSteps \union SweepSteps
         /\ rows[backups[w].slot] \in ManifestRows /\ SetFits(backups[w].slot)
         /\ day \in Nat /\ backups[w].slot \in Nat
<1>1. backups[w] \in RunRows /\ RunFits(w) /\ day \in Days
  BY DEF BackupsInv, BackupsTypeOK
<1>2. backups[w].slot \in Days
  BY <1>1 DEF RunRows
<1>3. QED
  BY <1>1, <1>2 DEF BackupsInv, BackupsTypeOK, RunRows, Days

\* A run goes on to a step whose conditions hold.
LEMMA GoesKeeps ==
  ASSUME BackupsInv, NEW w \in Workers, NEW step \in (RunSteps \union SweepSteps) \ {"none"},
         NEW todo \in SUBSET Media, Goes(w, step, todo), backups[w].step # "none",
         UNCHANGED <<day, retained, purgedOn, erased, rows, pooled, swept>>,
         files' \in [Days -> [Files -> 0 .. SlotAttempts]],
         step = "copy" => todo \subseteq backups[w].media /\ backups[w].media \ todo \subseteq Pool,
         step \in Copying => backups[w].media \subseteq Pool,
         step \in SweepSteps => rows[backups[w].slot].state = "verified",
         step \in {"files", "pool", "orphans"} => todo = {},
         step \in {"files", "pool", "list"} =>
           rows[backups[w].slot].media \subseteq backups[w].referenced
  PROVE  BackupsInv' /\ Pool \subseteq Pool'
<1>1. /\ backups' \in [Workers -> RunRows]
      /\ \A v \in Workers \ {w} : backups'[v] = backups[v]
      /\ backups'[w].step = step /\ backups'[w].todo = todo
      /\ backups'[w].slot = backups[w].slot
      /\ backups'[w].media = backups[w].media /\ backups'[w].referenced = backups[w].referenced
  BY GoesFits
<1>2. RunFits(w) /\ Pool' = Pool
  BY RunKnown DEF Pool
<1>3. RunFits(w)'
  BY <1>1, <1>2 DEF RunFits
<1>4. BackupsTypeOK'
  BY <1>1 DEF BackupsInv, BackupsTypeOK
<1>5. QED
  BY <1>1, <1>3, <1>4, OneRunMoves

LEMMA ExportDatabaseKeeps ==
  ASSUME BackupsInv, NEW w \in Workers, ExportDatabase(w)
  PROVE  BackupsInv' /\ Pool \subseteq Pool'
<1> DEFINE todo == backups[w].media
           step == IF todo = {} THEN "database" ELSE "copy"
<1>1. todo \in SUBSET Media /\ step \in (RunSteps \union SweepSteps) \ {"none"}
  BY RunKnown DEF RunSteps, SweepSteps
<1>2. /\ Goes(w, step, todo) /\ backups[w].step # "none"
      /\ UNCHANGED <<day, retained, purgedOn, erased, rows, pooled, files, swept>>
  BY DEF ExportDatabase
<1>3. /\ step = "copy" => todo \subseteq backups[w].media /\ backups[w].media \ todo \subseteq Pool
      /\ step \in Copying => backups[w].media \subseteq Pool
      /\ step \notin SweepSteps
      /\ step \notin {"files", "pool", "orphans", "list"}
  BY DEF Copying, SweepSteps
<1>4. files' \in [Days -> [Files -> 0 .. SlotAttempts]]
  BY <1>2 DEF BackupsInv, BackupsTypeOK
<1> HIDE DEF todo, step
<1>5. QED
  BY <1>1, <1>2, <1>3, <1>4, GoesKeeps

LEMMA VerifyMediaKeeps ==
  ASSUME BackupsInv, NEW w \in Workers, NEW k \in Media, VerifyMedia(w, k)
  PROVE  BackupsInv' /\ Pool \subseteq Pool'
<1> DEFINE todo == backups[w].todo \ {k}
           step == IF todo = {} THEN "database" ELSE "verify"
<1>1. todo \in SUBSET Media /\ step \in (RunSteps \union SweepSteps) \ {"none"}
  BY RunKnown DEF RunSteps, SweepSteps
<1>2. /\ Goes(w, step, todo) /\ backups[w].step = "verify"
      /\ UNCHANGED <<day, retained, purgedOn, erased, rows, pooled, files, swept>>
  BY DEF VerifyMedia
<1>3. /\ step # "copy" /\ backups[w].media \subseteq Pool
      /\ step \notin SweepSteps
      /\ step \notin {"files", "pool", "orphans", "list"}
  BY <1>2, RunKnown DEF Copying, SweepSteps, RunFits
<1>4. files' \in [Days -> [Files -> 0 .. SlotAttempts]]
  BY <1>2 DEF BackupsInv, BackupsTypeOK
<1> HIDE DEF todo, step
<1>5. QED
  BY <1>1, <1>2, <1>3, <1>4, GoesKeeps

LEMMA PutFileKeeps ==
  ASSUME BackupsInv, NEW w \in Workers, PutFile(w)
  PROVE  BackupsInv' /\ Pool \subseteq Pool'
<1> DEFINE step == After[backups[w].step]
<1>1. /\ Goes(w, step, {}) /\ backups[w].step \in Files
      /\ UNCHANGED <<day, retained, purgedOn, erased, rows, pooled, swept>>
  BY DEF PutFile
<1>2. step \in {"ledger", "check", "complete"}
  BY <1>1 DEF After, Files
<1>3. backups[w].media \subseteq Pool /\ backups[w].step # "none"
  BY <1>1, RunKnown DEF Copying, RunFits, Files
<1>4. files' \in [Days -> [Files -> 0 .. SlotAttempts]]
  BY RunKnown DEF PutFile, BackupsInv, BackupsTypeOK
<1>5. /\ step \in (RunSteps \union SweepSteps) \ {"none"} /\ step # "copy" /\ step \notin SweepSteps
      /\ step \notin {"files", "pool", "orphans", "list"}
  BY <1>2 DEF RunSteps, SweepSteps
<1> HIDE DEF step
<1>6. QED
  BY <1>1, <1>3, <1>4, <1>5, GoesKeeps

LEMMA CheckDatabaseKeeps ==
  ASSUME BackupsInv, NEW w \in Workers, CheckDatabase(w)
  PROVE  BackupsInv' /\ Pool \subseteq Pool'
<1>1. /\ Goes(w, "manifest", {}) /\ backups[w].step = "check"
      /\ UNCHANGED <<day, retained, purgedOn, erased, rows, pooled, files, swept>>
  BY DEF CheckDatabase
<1>2. backups[w].media \subseteq Pool
  BY <1>1, RunKnown DEF Copying, RunFits
<1>3. files' \in [Days -> [Files -> 0 .. SlotAttempts]]
  BY <1>1 DEF BackupsInv, BackupsTypeOK
<1>4. "manifest" \in (RunSteps \union SweepSteps) \ {"none"} /\ "manifest" \notin SweepSteps
  BY DEF RunSteps, SweepSteps
<1>5. QED
  BY <1>1, <1>2, <1>3, <1>4, GoesKeeps

\* What a run leaves behind makes way for the next one.
LEMMA RunEndsKeeps ==
  ASSUME BackupsInv, NEW w \in Workers, RunDies(w)
  PROVE  BackupsInv' /\ Pool \subseteq Pool'
<1>1. NoRun \in RunRows /\ NoRun.step = "none"
  BY NoRunFits
<1>2. /\ backups' = [backups EXCEPT ![w] = NoRun]
      /\ UNCHANGED <<day, retained, purgedOn, erased, rows, pooled, files, swept>>
  BY DEF RunDies
<1>3. BackupsTypeOK' /\ backups'[w] = NoRun /\ \A v \in Workers \ {w} : backups'[v] = backups[v]
  BY <1>1, <1>2 DEF BackupsInv, BackupsTypeOK
<1>4. RunFits(w)'
  BY <1>1, <1>3 DEF RunFits
<1>5. QED
  BY <1>2, <1>3, <1>4, OneRunMoves

-----------------------------------------------------------------------------
(* The runs that change a row or the pool.                                 *)

LEMMA BeginSweepOnlyKeeps ==
  ASSUME BackupsInv, NEW w \in Workers, BeginSweepOnly(w)
  PROVE  BackupsInv' /\ Pool \subseteq Pool'
<1> DEFINE run == [NoRun EXCEPT !.step = "plan", !.slot = day]
<1>1. day \in Days
  BY DEF BackupsInv, BackupsTypeOK
<1>2. /\ run \in RunRows /\ run.step = "plan" /\ run.slot = day /\ run.media = {}
  BY <1>1, NoRunFits DEF RunRows, SweepSteps
<1>3. /\ backups' = [backups EXCEPT ![w] = run] /\ rows[day].state = "verified"
      /\ UNCHANGED <<day, retained, purgedOn, erased, rows, pooled, files, swept>>
  BY DEF BeginSweepOnly
<1> HIDE DEF run
<1>4. BackupsTypeOK' /\ backups'[w] = run /\ \A v \in Workers \ {w} : backups'[v] = backups[v]
  BY <1>2, <1>3 DEF BackupsInv, BackupsTypeOK
<1>5. RunFits(w)'
  BY <1>1, <1>2, <1>3, <1>4 DEF RunFits, Copying, SweepSteps, Days
<1>6. QED
  BY <1>3, <1>4, <1>5, OneRunMoves

LEMMA BeginRunKeeps ==
  ASSUME BackupsInv, NEW w \in Workers, BeginRun(w)
  PROVE  BackupsInv' /\ Pool \subseteq Pool'
<1> DEFINE attempt == rows[day].attempts + 1
           drops == retained \intersect Purged
           row == [state |-> "building", attempts |-> attempt, lease |-> TRUE,
                   media |-> retained, drops |-> drops]
           run == [NoRun EXCEPT !.step = "export", !.slot = day,
                                !.attempt = attempt, !.media = retained \ drops]
<1>1. /\ day \in Days /\ day \in Nat /\ rows[day] \in ManifestRows /\ SetFits(day)
      /\ retained \subseteq Media /\ rows \in [Days -> ManifestRows]
  BY DEF BackupsInv, BackupsTypeOK, Days
<1>2. /\ MayBegin(rows[day]) /\ rows' = [rows EXCEPT ![day] = row]
      /\ backups' = [backups EXCEPT ![w] = run]
      /\ UNCHANGED <<day, retained, purgedOn, erased, pooled, files, swept>>
  BY DEF BeginRun
<1>3. attempt \in 0 .. SlotAttempts
  <2>1. rows[day].attempts \in 0 .. SlotAttempts
    BY <1>1 DEF ManifestRows
  <2>2. rows[day].attempts < SlotAttempts
    BY <1>1, <1>2, <2>1, BackupConstants DEF MayBegin, SetFits
  <2>3. QED
    BY <2>1, <2>2, BackupConstants
<1>4. /\ row \in ManifestRows /\ row.state = "building" /\ row.media = retained
      /\ row.drops = drops /\ row.lease /\ rows[day].state # "verified"
  BY <1>1, <1>2, <1>3 DEF ManifestRows, MayBegin
<1> HIDE DEF attempt, drops
<1>5. /\ run \in RunRows /\ run.step = "export" /\ run.slot = day /\ run.media \subseteq retained
  BY <1>1, <1>3, NoRunFits DEF RunRows, RunSteps
<1> HIDE DEF row, run
<1>6. BackupsTypeOK' /\ backups'[w] = run /\ \A v \in Workers \ {w} : backups'[v] = backups[v]
  BY <1>2, <1>4, <1>5 DEF BackupsInv, BackupsTypeOK
<1>7. rows'[day] = row /\ \A t \in Days \ {day} : rows'[t] = rows[t]
  BY <1>1, <1>2
<1>8. \A s \in Days : RowStays(s)
  BY <1>1, <1>4, <1>7 DEF RowStays, SetFits
<1>9. Pool' = Pool
  BY <1>2 DEF Pool
<1>10. \A v \in Workers \ {w} : RunFits(v)'
  BY <1>2, <1>6, <1>8, <1>9, RunStays
<1>11. RunFits(w)'
  BY <1>1, <1>2, <1>4, <1>5, <1>6, <1>7 DEF RunFits, Copying, SweepSteps
<1>12. ASSUME NEW s \in Days PROVE SetFits(s)'
  <2>1. SetFits(s) /\ s \in Nat /\ Pool \subseteq retained
    BY DEF BackupsInv, Days
  <2>2. CASE s = day
    <3>1. \A t \in Days : s < t => rows'[t].state = "none"
      <4> SUFFICES ASSUME NEW t \in Days, s < t PROVE rows'[t].state = "none"
        OBVIOUS
      <4>1. SetFits(t) /\ t \in Nat
        BY DEF BackupsInv, Days
      <4>2. QED
        BY <1>1, <1>7, <2>2, <4>1 DEF SetFits
    <3>2. QED
      BY <1>1, <1>2, <1>4, <1>7, <1>9, <2>1, <2>2, <3>1 DEF SetFits
  <2>3. CASE s # day
    <3>1. rows'[s] = rows[s]
      BY <1>7, <2>3
    <3>2. \A t \in Days : s < t /\ rows'[t].state # "none" => rows'[s].media \subseteq rows'[t].media
      BY <1>4, <1>7, <2>1, <2>3 DEF SetFits
    <3>3. QED
      BY <1>2, <1>9, <2>1, <3>1, <3>2 DEF SetFits
  <2>4. QED
    BY <2>2, <2>3
<1>13. QED
  BY <1>2, <1>6, <1>9, <1>10, <1>11, <1>12 DEF BackupsInv

LEMMA CopyMediaKeeps ==
  ASSUME BackupsInv, NEW w \in Workers, NEW k \in Media, CopyMedia(w, k)
  PROVE  BackupsInv' /\ Pool \subseteq Pool'
<1> DEFINE rest == backups[w].todo \ {k}
           step == IF rest = {} THEN "verify" ELSE "copy"
           todo == IF rest = {} THEN backups[w].media ELSE rest
           slot == backups[w].slot
<1>1. /\ backups[w].step = "copy" /\ k \in backups[w].todo
      /\ pooled' = IF k \in Pool THEN pooled ELSE [pooled EXCEPT ![k] = day]
      /\ UNCHANGED <<day, retained, purgedOn, erased, rows, files, swept>>
  BY DEF CopyMedia
<1>2. Goes(w, step, todo)
  BY DEF CopyMedia
<1>3. /\ slot \in Days /\ slot \in Nat /\ slot <= day /\ rows[slot].state # "none"
      /\ backups[w].media \subseteq rows[slot].media /\ SetFits(slot)
      /\ backups[w].todo \subseteq backups[w].media
      /\ backups[w].media \ backups[w].todo \subseteq Pool
      /\ backups[w].media \subseteq Media
  BY <1>1, RunKnown DEF RunFits
<1>4. /\ day \in Days /\ day \in Nat /\ Never \notin Nat /\ pooled \in [Media -> DayOrNever]
      /\ Pool \subseteq retained /\ rows \in [Days -> ManifestRows]
  BY BackupConstants DEF BackupsInv, BackupsTypeOK, Days
<1>5. /\ pooled' \in [Media -> DayOrNever] /\ Pool' = Pool \union {k}
      /\ \A m \in Pool : pooled'[m] = pooled[m]
      /\ k \notin Pool => pooled'[k] = day
  BY <1>1, <1>4 DEF Pool, DayOrNever
<1>6. k \in rows[slot].media /\ k \in retained
  BY <1>1, <1>3 DEF SetFits
<1>7. /\ todo \in SUBSET Media /\ step \in {"copy", "verify"}
      /\ step = "copy" => todo \subseteq backups[w].media /\ backups[w].media \ todo \subseteq Pool'
      /\ step # "copy" => backups[w].media \subseteq Pool'
  BY <1>3, <1>5
<1>8. step \in RunSteps \union SweepSteps
  BY <1>7 DEF RunSteps
<1> HIDE DEF rest, step, todo, slot
<1>9. /\ backups' \in [Workers -> RunRows]
      /\ \A v \in Workers \ {w} : backups'[v] = backups[v]
      /\ backups'[w].step = step /\ backups'[w].todo = todo
      /\ backups'[w].slot = slot
      /\ backups'[w].media = backups[w].media /\ backups'[w].referenced = backups[w].referenced
  BY <1>2, <1>7, <1>8, GoesFits DEF slot
<1>10. BackupsTypeOK'
  BY <1>1, <1>5, <1>9 DEF BackupsInv, BackupsTypeOK
<1>11. \A v \in Workers \ {w} : RunFits(v)'
  <2>1. \A s \in Days : RowStays(s)
    BY <1>1 DEF RowStays
  <2>2. QED
    BY <1>1, <1>5, <1>9, <2>1, RunStays
<1>12. RunFits(w)'
  <2>1. RunFits(w)
    BY DEF BackupsInv
  <2>2. QED
    BY <1>1, <1>3, <1>7, <1>9, <2>1 DEF RunFits, Copying, SweepSteps, slot
<1>13. ASSUME NEW s \in Days PROVE SetFits(s)'
  <2>1. SetFits(s) /\ s \in Nat
    BY DEF BackupsInv, Days
  <2>2. ASSUME rows[s].state # "none", day <= s PROVE k \in rows[s].media
    BY <1>3, <1>4, <1>6, <2>1, <2>2 DEF SetFits
  <2>3. \A m \in Pool' : rows'[s].state # "none" /\ pooled'[m] <= s => m \in rows'[s].media
    BY <1>1, <1>5, <2>1, <2>2 DEF SetFits
  <2>4. rows'[s].state = "verified" => rows'[s].media \ rows'[s].drops \subseteq Pool'
    BY <1>1, <1>5, <2>1 DEF SetFits
  <2>5. QED
    BY <1>1, <2>1, <2>3, <2>4 DEF SetFits
<1>14. QED
  BY <1>1, <1>4, <1>5, <1>6, <1>10, <1>11, <1>12, <1>13 DEF BackupsInv

\* A run moves its own row from building, and the others stay what they are.
LEMMA CompleteRunKeeps ==
  ASSUME BackupsInv, NEW w \in Workers, CompleteRun(w)
  PROVE  BackupsInv' /\ Pool \subseteq Pool'
<1> DEFINE slot == backups[w].slot
<1>1. /\ backups[w].step = "complete" /\ RunFits(w) /\ slot \in Days
      /\ rows[slot] \in ManifestRows /\ SetFits(slot)
      /\ UNCHANGED <<day, retained, purgedOn, erased, pooled, files, swept>>
  BY RunKnown DEF CompleteRun
<1>2. CASE ~MayComplete(backups[w])
  <2>1. Goes(w, "rejected", {}) /\ UNCHANGED rows
    BY <1>2 DEF CompleteRun
  <2>2. "rejected" \in (RunSteps \union SweepSteps) \ {"none"} /\ "rejected" \notin Copying \union SweepSteps
    BY DEF RunSteps, SweepSteps, Copying
  <2>3. files' \in [Days -> [Files -> 0 .. SlotAttempts]]
    BY <1>1 DEF BackupsInv, BackupsTypeOK
  <2>4. QED
    BY <1>1, <2>1, <2>2, <2>3, GoesKeeps
<1>3. CASE MayComplete(backups[w])
  <2> DEFINE row == Ended(slot, "verified")
  <2>1. rows' = [rows EXCEPT ![slot] = row] /\ Goes(w, "plan", {})
    BY <1>3 DEF CompleteRun
  <2>2. /\ row \in ManifestRows /\ row.state = "verified"
        /\ row.media = rows[slot].media /\ row.drops = rows[slot].drops
    BY <1>1, EndedFits
  <2>3. rows[slot].state = "building" /\ row.media \ row.drops \subseteq Pool
    BY <1>1, <1>3, <2>2 DEF MayComplete, RunFits, Copying
  <2> HIDE DEF slot, row
  <2>4. /\ rows' \in [Days -> ManifestRows] /\ Pool' = Pool
        /\ \A t \in Days : RowStays(t)
        /\ \A t \in Days : SetFits(t)'
    BY <1>1, <2>1, <2>2, <2>3, OneRowMoves
  <2>5. /\ backups' \in [Workers -> RunRows]
        /\ \A v \in Workers \ {w} : backups'[v] = backups[v]
        /\ backups'[w].step = "plan" /\ backups'[w].slot = slot
        /\ backups'[w].media = backups[w].media
    BY <2>1, GoesFits DEF SweepSteps, slot
  <2>6. \A v \in Workers \ {w} : RunFits(v)'
    BY <1>1, <2>4, <2>5, RunStays
  <2>7. rows'[slot] = row
    BY <1>1, <2>1 DEF BackupsInv, BackupsTypeOK
  <2>8. RunFits(w)'
    BY <1>1, <2>2, <2>5, <2>7 DEF RunFits, Copying, SweepSteps, slot
  <2>9. QED
    BY <1>1, <2>4, <2>5, <2>6, <2>8 DEF BackupsInv, BackupsTypeOK
<1>4. QED
  BY <1>2, <1>3

LEMMA FailRunKeeps ==
  ASSUME BackupsInv, NEW w \in Workers, FailRun(w)
  PROVE  BackupsInv' /\ Pool \subseteq Pool'
<1> DEFINE s == backups[w].slot
           fails == rows[s].state = "building" /\ rows[s].attempts = backups[w].attempt
<1>1. /\ backups' = [backups EXCEPT ![w] = NoRun] /\ s \in Days
      /\ rows' = IF fails THEN [rows EXCEPT ![s] = Ended(s, "failed")] ELSE rows
      /\ UNCHANGED <<day, retained, purgedOn, erased, pooled, files, swept>>
  BY RunKnown DEF FailRun
<1>2. /\ backups' \in [Workers -> RunRows] /\ backups'[w] = NoRun
      /\ \A v \in Workers \ {w} : backups'[v] = backups[v]
  BY <1>1, NoRunFits DEF BackupsInv, BackupsTypeOK
<1>3. RunFits(w)'
  BY <1>2, NoRunFits DEF RunFits
<1>4. CASE ~fails
  <2>1. UNCHANGED rows
    BY <1>1, <1>4
  <2>2. BackupsTypeOK'
    BY <1>1, <1>2, <2>1 DEF BackupsInv, BackupsTypeOK
  <2>3. QED
    BY <1>1, <1>2, <1>3, <2>1, <2>2, OneRunMoves
<1>5. CASE fails
  <2> DEFINE row == Ended(s, "failed")
  <2>1. rows' = [rows EXCEPT ![s] = row] /\ rows[s].state = "building"
    BY <1>1, <1>5
  <2>2. /\ row \in ManifestRows /\ row.state = "failed"
        /\ row.media = rows[s].media /\ row.drops = rows[s].drops
    BY <1>1, EndedFits
  <2> HIDE DEF s, row
  <2>3. /\ rows' \in [Days -> ManifestRows] /\ Pool' = Pool
        /\ \A t \in Days : RowStays(t)
        /\ \A t \in Days : SetFits(t)'
    BY <1>1, <2>1, <2>2, OneRowMoves
  <2>4. \A v \in Workers \ {w} : RunFits(v)'
    BY <1>1, <1>2, <2>3, RunStays
  <2>5. QED
    BY <1>1, <1>2, <1>3, <2>3, <2>4 DEF BackupsInv, BackupsTypeOK
<1>6. QED
  BY <1>4, <1>5

\* The set of the sweep's slot has not expired and names all that expires.
LEMMA NothingIsDeletable ==
  ASSUME BackupsInv, NEW w \in Workers, backups[w].step \in SweepSteps
  PROVE  Deletable(ExpiredSets) = {}
<1> DEFINE slot == backups[w].slot
<1>1. /\ slot \in Days /\ day <= slot + 1 /\ rows[slot].state = "verified"
      /\ day \in Nat /\ slot \in Nat
  BY RunKnown DEF RunFits, SweepSteps
<1>2. slot \notin ExpiredSets
  BY <1>1, BackupConstants DEF ExpiredSets, Expired
<1>3. ASSUME NEW s \in ExpiredSets PROVE rows[s].media \subseteq rows[slot].media
  <2>1. s \in Days /\ s \in Nat /\ s + Retention <= day /\ SetFits(s)
    BY <1>3 DEF ExpiredSets, Expired, BackupsInv, Days
  <2>2. s < slot
    BY <1>1, <2>1, BackupConstants
  <2>3. QED
    BY <1>1, <2>1, <2>2 DEF SetFits
<1>4. slot \in {t \in Days : rows[t].state = "verified"} \ ExpiredSets
  BY <1>1, <1>2
<1> HIDE DEF slot
<1>5. QED
  BY <1>3, <1>4 DEF Deletable

LEMMA ReadSweepPlanKeeps ==
  ASSUME BackupsInv, NEW w \in Workers, ReadSweepPlan(w)
  PROVE  BackupsInv' /\ Pool \subseteq Pool'
<1> DEFINE named == UNION {rows[s].media : s \in Days}
           run == [backups[w] EXCEPT !.step = "files", !.expired = ExpiredSets,
                     !.todo = Deletable(ExpiredSets), !.referenced = named]
<1>1. /\ backups[w].step = "plan" /\ backups[w] \in RunRows /\ RunFits(w)
      /\ backups[w].slot \in Days
      /\ backups' = [backups EXCEPT ![w] = run]
      /\ UNCHANGED <<day, retained, purgedOn, erased, rows, pooled, files, swept>>
  BY RunKnown DEF ReadSweepPlan
<1>2. Deletable(ExpiredSets) = {}
  BY <1>1, NothingIsDeletable DEF SweepSteps
<1>3. named \subseteq Media
  BY DEF BackupsInv, BackupsTypeOK, ManifestRows
<1>4. rows[backups[w].slot].media \subseteq named
  BY <1>1
<1>5. ExpiredSets \subseteq Days
  BY DEF ExpiredSets
<1> HIDE DEF named
<1>6. /\ run \in RunRows /\ run.step = "files" /\ run.slot = backups[w].slot
      /\ run.media = backups[w].media /\ run.todo = {} /\ run.referenced = named
  BY <1>1, <1>2, <1>3, <1>5 DEF RunRows, SweepSteps
<1> HIDE DEF run
<1>7. BackupsTypeOK' /\ backups'[w] = run /\ \A v \in Workers \ {w} : backups'[v] = backups[v]
  BY <1>1, <1>6 DEF BackupsInv, BackupsTypeOK
<1>8. RunFits(w)'
  BY <1>1, <1>4, <1>6, <1>7 DEF RunFits, Copying, SweepSteps
<1>9. QED
  BY <1>1, <1>7, <1>8, OneRunMoves

LEMMA DeleteSetFilesKeeps ==
  ASSUME BackupsInv, NEW w \in Workers, DeleteSetFiles(w)
  PROVE  BackupsInv' /\ Pool \subseteq Pool'
<1> DEFINE todo == backups[w].todo
<1>1. /\ Goes(w, "pool", todo) /\ backups[w].step = "files"
      /\ UNCHANGED <<day, retained, purgedOn, erased, rows, pooled, swept>>
  BY DEF DeleteSetFiles
<1>2. /\ todo = {} /\ rows[backups[w].slot].state = "verified" /\ todo \in SUBSET Media
      /\ rows[backups[w].slot].media \subseteq backups[w].referenced
  BY <1>1, RunKnown DEF RunFits, SweepSteps
<1>3. files' \in [Days -> [Files -> 0 .. SlotAttempts]]
  BY BackupConstants DEF DeleteSetFiles, NoFiles, BackupsInv, BackupsTypeOK
<1>4. "pool" \in (RunSteps \union SweepSteps) \ {"none"} /\ "pool" \notin Copying
  BY DEF SweepSteps, Copying
<1> HIDE DEF todo
<1>5. QED
  BY <1>1, <1>2, <1>3, <1>4, GoesKeeps

LEMMA UnpoolNothing ==
  ASSUME BackupsInv, NEW gone \in Deleted({}), Unpool(gone)
  PROVE  pooled' = pooled
<1>1. gone = {}
  BY DEF Deleted
<1>2. QED
  BY <1>1 DEF Unpool, BackupsInv, BackupsTypeOK

LEMMA DeletePooledKeeps ==
  ASSUME BackupsInv, NEW w \in Workers, DeletePooled(w) \/ DeleteOrphans(w)
  PROVE  BackupsInv' /\ Pool \subseteq Pool'
<1>1. PICK step \in {"list", "end"} :
        /\ Goes(w, step, {}) /\ backups[w].step \in {"pool", "orphans"}
        /\ step = "list" => backups[w].step = "pool"
        /\ \E gone \in Deleted(backups[w].todo) : Unpool(gone)
        /\ UNCHANGED <<day, retained, purgedOn, erased, rows, files, swept>>
  BY DEF DeletePooled, DeleteOrphans
<1>2. /\ backups[w].todo = {} /\ rows[backups[w].slot].state = "verified"
      /\ step = "list" => rows[backups[w].slot].media \subseteq backups[w].referenced
  BY <1>1, RunKnown DEF RunFits, SweepSteps
<1>3. pooled' = pooled
  BY <1>1, <1>2, UnpoolNothing
<1>4. files' \in [Days -> [Files -> 0 .. SlotAttempts]]
  BY <1>1 DEF BackupsInv, BackupsTypeOK
<1>5. step \in (RunSteps \union SweepSteps) \ {"none"} /\ step \notin Copying /\ backups[w].step # "none"
  BY <1>1 DEF SweepSteps, Copying
<1>6. QED
  BY <1>1, <1>2, <1>3, <1>4, <1>5, GoesKeeps

LEMMA ListOrphansKeeps ==
  ASSUME BackupsInv, NEW w \in Workers, ListOrphans(w)
  PROVE  BackupsInv' /\ Pool \subseteq Pool'
<1> DEFINE todo == {k \in Pool : Orphan(k, backups[w].referenced)}
           slot == backups[w].slot
<1>1. /\ Goes(w, "orphans", todo) /\ backups[w].step = "list"
      /\ UNCHANGED <<day, retained, purgedOn, erased, rows, pooled, files, swept>>
  BY DEF ListOrphans
<1>2. /\ rows[slot].state = "verified" /\ SetFits(slot) /\ slot \in Nat /\ day \in Nat
      /\ rows[slot].media \subseteq backups[w].referenced /\ day <= slot + 1
  BY <1>1, RunKnown DEF RunFits, SweepSteps
<1>3. ASSUME NEW k \in Pool, k \notin backups[w].referenced PROVE ~(day - pooled[k] > Grace)
  <2>1. pooled[k] \in Nat
    BY DEF BackupsInv, BackupsTypeOK, Pool, DayOrNever, Days
  <2>2. ~(pooled[k] <= slot)
    BY <1>2, <1>3 DEF SetFits
  <2>3. QED
    BY <1>2, <2>1, <2>2, BackupConstants
<1>4. todo = {}
  BY <1>3 DEF Orphan
<1>5. files' \in [Days -> [Files -> 0 .. SlotAttempts]]
  BY <1>1 DEF BackupsInv, BackupsTypeOK
<1>6. "orphans" \in (RunSteps \union SweepSteps) \ {"none"} /\ "orphans" \notin Copying
  BY DEF SweepSteps, Copying
<1> HIDE DEF todo
<1>7. QED
  BY <1>1, <1>2, <1>4, <1>5, <1>6, GoesKeeps DEF slot

LEMMA SweepCompleteKeeps ==
  ASSUME BackupsInv, NEW w \in Workers, SweepComplete(w)
  PROVE  BackupsInv' /\ Pool \subseteq Pool'
<1> DEFINE goes(s) == \/ s \in backups[w].expired /\ rows[s].state # "building" /\ Expired(s)
                      \/ rows[s].state = "failed" /\ day - s > Grace
<1>1. /\ rows' = [s \in Days |-> IF goes(s) THEN NoRow ELSE rows[s]]
      /\ backups' = [backups EXCEPT ![w] = NoRun] /\ swept' = day
      /\ UNCHANGED <<day, retained, purgedOn, erased, pooled, files>>
  BY DEF SweepComplete
<1>2. /\ NoRow \in ManifestRows /\ NoRow.state = "none" /\ NoRow.media = {}
      /\ NoRow.attempts = 0 /\ ~NoRow.lease
  BY BackupConstants DEF NoRow, ManifestRows
<1>3. day \in Days /\ day \in Nat /\ rows \in [Days -> ManifestRows] /\ Pool' = Pool
  BY <1>1 DEF BackupsInv, BackupsTypeOK, Days, Pool
<1>4. ASSUME NEW s \in Days, goes(s) PROVE ~(day <= s + 1)
  BY <1>3, <1>4, BackupConstants DEF Expired, Days
<1> HIDE DEF goes
<1>5. rows' \in [Days -> ManifestRows] /\ \A s \in Days : rows'[s] = NoRow \/ rows'[s] = rows[s]
  BY <1>1, <1>2, <1>3
<1>6. \A s \in Days : day <= s + 1 => RowStays(s)
  BY <1>1, <1>4 DEF RowStays
<1>7. /\ BackupsTypeOK' /\ backups'[w] = NoRun
      /\ \A v \in Workers \ {w} : backups'[v] = backups[v]
  BY <1>1, <1>3, <1>5, NoRunFits DEF BackupsInv, BackupsTypeOK, DayOrNever
<1>8. \A v \in Workers : RunFits(v)'
  <2>1. RunFits(w)'
    BY <1>7, NoRunFits DEF RunFits
  <2>2. \A v \in Workers \ {w} : RunFits(v)'
    BY <1>1, <1>3, <1>6, <1>7, RunStays
  <2>3. QED
    BY <2>1, <2>2
<1>9. ASSUME NEW s \in Days PROVE SetFits(s)'
  <2>1. SetFits(s)
    BY DEF BackupsInv
  <2>2. \A t \in Days : rows'[t].state # "none" => rows'[t] = rows[t]
    BY <1>2, <1>5
  <2>3. QED
    BY <1>1, <1>2, <1>3, <1>5, <2>1, <2>2 DEF SetFits
<1>10. QED
  BY <1>1, <1>3, <1>7, <1>8, <1>9 DEF BackupsInv

-----------------------------------------------------------------------------

LEMMA BackupsInvStep == BackupsInv /\ [BackupsNext]_backupVars => BackupsInv' /\ Pool \subseteq Pool'
<1> SUFFICES ASSUME BackupsInv, [BackupsNext]_backupVars PROVE BackupsInv' /\ Pool \subseteq Pool'
  OBVIOUS
<1>1. CASE DayPasses
  BY <1>1, DayPassesKeeps
<1>2. CASE \E k \in Media : RetainMedia(k) \/ RecordPurge(k) \/ EraseMedia(k)
  BY <1>2, RetainMediaKeeps, PurgeKeeps
<1>3. CASE \E s \in Days : LeaseLapses(s)
  BY <1>3, LeaseLapsesKeeps
<1>4. ASSUME NEW w \in Workers, BeginRun(w) \/ BeginSweepOnly(w) \/ ExportDatabase(w) \/ PutFile(w)
      PROVE  BackupsInv' /\ Pool \subseteq Pool'
  BY <1>4, BeginRunKeeps, BeginSweepOnlyKeeps, ExportDatabaseKeeps, PutFileKeeps
<1>5. ASSUME NEW w \in Workers, CheckDatabase(w) \/ CompleteRun(w) \/ FailRun(w) \/ RunDies(w)
      PROVE  BackupsInv' /\ Pool \subseteq Pool'
  BY <1>5, CheckDatabaseKeeps, CompleteRunKeeps, FailRunKeeps, RunEndsKeeps
<1>6. ASSUME NEW w \in Workers, ReadSweepPlan(w) \/ DeleteSetFiles(w) \/ DeletePooled(w)
      PROVE  BackupsInv' /\ Pool \subseteq Pool'
  BY <1>6, ReadSweepPlanKeeps, DeleteSetFilesKeeps, DeletePooledKeeps
<1>7. ASSUME NEW w \in Workers, ListOrphans(w) \/ DeleteOrphans(w) \/ SweepComplete(w)
      PROVE  BackupsInv' /\ Pool \subseteq Pool'
  BY <1>7, ListOrphansKeeps, DeletePooledKeeps, SweepCompleteKeeps
<1>8. ASSUME NEW w \in Workers, NEW k \in Media, CopyMedia(w, k) \/ VerifyMedia(w, k)
      PROVE  BackupsInv' /\ Pool \subseteq Pool'
  BY <1>8, CopyMediaKeeps, VerifyMediaKeeps
<1>9. CASE UNCHANGED backupVars
  <2>1. Pool' = Pool /\ \A s \in Days : RowStays(s)
    BY <1>9 DEF backupVars, Pool, RowStays
  <2>2. \A v \in Workers : RunFits(v)'
    BY <1>9, <2>1, RunStays DEF backupVars
  <2>3. \A s \in Days : SetFits(s)'
    BY <1>9, SetsStay DEF backupVars, BackupsInv, BackupsTypeOK, Days
  <2>4. QED
    BY <1>9, <2>1, <2>2, <2>3 DEF backupVars, BackupsInv, BackupsTypeOK
<1>10. QED
  BY <1>1, <1>2, <1>3, <1>4, <1>5, <1>6, <1>7, <1>8, <1>9 DEF BackupsNext

LEMMA BackupsInvAlways == BackupsSpec => []BackupsInv
  BY BackupsInitially, BackupsInvStep, PTL DEF BackupsSpec

(* The rows, runs, files and media of the backups keep their types, and no *)
(* slot is attempted more often than SlotAttempts (decideBegin).           *)
THEOREM BackupsTypeCorrect == BackupsSpec => []BackupsTypeOK
<1>1. BackupsInv => BackupsTypeOK
  BY DEF BackupsInv
<1>2. QED
  BY <1>1, BackupsInvAlways, PTL

(* Every object a verified set lists is in the pool until the set expires, *)
(* whatever takes over a slot, sweeps or is purged meanwhile (runBackup,   *)
(* planSweep, isOrphanCandidate).                                          *)
THEOREM VerifiedMediaStaysPooled == BackupsSpec => []VerifiedMediaIsPooled
<1>1. BackupsInv => VerifiedMediaIsPooled
  BY DEF BackupsInv, SetFits, VerifiedMediaIsPooled
<1>2. QED
  BY <1>1, BackupsInvAlways, PTL

(* Sets name what was retained, and what was ever retained stays named: no *)
(* sweep takes an object from the pool, although each plans what no other  *)
(* set refers to and each lists the orphans (planSweep, orphan pass of     *)
(* runSweep).  This is why a purged medium outlives its expiry.            *)
THEOREM NothingLeavesThePool == BackupsSpec => PoolOnlyGrows
<1>1. BackupsInv /\ [BackupsNext]_backupVars => [Pool \subseteq Pool']_backupVars
  BY BackupsInvStep
<1>2. QED
  BY <1>1, BackupsInvAlways, PTL DEF BackupsSpec, PoolOnlyGrows

-----------------------------------------------------------------------------
(* The vault.  What the rows say of the verified slots moves only when a   *)
(* run completes, which seals a set, and when a sweep does, which collects *)
(* expired ones; a run completes before its set can expire.                *)

SetOf(s) == [slot |-> s, media |-> rows[s].media \ rows[s].drops]

\* The rows of the slots that are verified, or become it, stand still.
VerifiedStands ==
  \A s \in Days :
    /\ rows'[s].state = "verified" <=> rows[s].state = "verified"
    /\ rows[s].state = "verified" => SetOf(s)' = SetOf(s)

LEMMA SealedAre ==
  /\ SealedSets = {SetOf(s) : s \in {t \in Days : rows[t].state = "verified"}}
  /\ SealedSets' = {SetOf(s)' : s \in {t \in Days : rows'[t].state = "verified"}}
  /\ \A s : SetOf(s).slot = s /\ (SetOf(s)').slot = s
  /\ \A s : SetOf(s).media = rows[s].media \ rows[s].drops
BY DEF SealedSets, SetOf

LEMMA SealedStand ==
  ASSUME VerifiedStands PROVE SealedSets' = SealedSets
BY SealedAre DEF VerifiedStands

LEMMA RowsStandStill ==
  ASSUME BackupsInv, [BackupsNext]_backupVars,
         ~ \E w \in Workers : CompleteRun(w) \/ SweepComplete(w)
  PROVE  VerifiedStands
<1> SUFFICES ASSUME NEW s \in Days
             PROVE  /\ rows'[s].state = "verified" <=> rows[s].state = "verified"
                    /\ rows[s].state = "verified" => /\ rows'[s].media = rows[s].media
                                                     /\ rows'[s].drops = rows[s].drops
  BY DEF VerifiedStands, SetOf
<1>1. rows \in [Days -> ManifestRows] /\ rows[s] \in ManifestRows
  BY DEF BackupsInv, BackupsTypeOK
<1>2. CASE UNCHANGED rows
  BY <1>2
<1>3. ASSUME NEW t \in Days, LeaseLapses(t) PROVE rows'[s] = [rows[s] EXCEPT !.lease = FALSE] \/ rows'[s] = rows[s]
  BY <1>1, <1>3 DEF LeaseLapses
<1>4. ASSUME NEW w \in Workers, BeginRun(w)
      PROVE  rows'[s] = rows[s] \/ (rows[s].state # "verified" /\ rows'[s].state # "verified")
  <2> DEFINE row == [state |-> "building", attempts |-> rows[day].attempts + 1, lease |-> TRUE,
                     media |-> retained, drops |-> retained \intersect Purged]
  <2>1. rows' = [rows EXCEPT ![day] = row] /\ rows[day].state # "verified"
    BY <1>4 DEF BeginRun, MayBegin
  <2>2. row.state = "building"
    OBVIOUS
  <2> HIDE DEF row
  <2> QED
    BY <1>1, <2>1, <2>2
<1>5. ASSUME NEW w \in Workers, FailRun(w)
      PROVE  rows'[s] = rows[s] \/ (rows[s].state # "verified" /\ rows'[s].state # "verified")
  <2> DEFINE t == backups[w].slot
  <2>1. CASE UNCHANGED rows
    BY <2>1
  <2>2. CASE rows[t].state = "building" /\ rows' = [rows EXCEPT ![t] = Ended(t, "failed")]
    <3>1. Ended(t, "failed").state = "failed"
      BY RunKnown, EndedFits
    <3> QED
      BY <1>1, <2>2, <3>1
  <2> QED
    BY <1>5, <2>1, <2>2 DEF FailRun
<1>6. CASE DayPasses \/ \E k \in Media : RetainMedia(k) \/ RecordPurge(k) \/ EraseMedia(k)
  BY <1>6 DEF DayPasses, RetainMedia, RecordPurge, EraseMedia
<1>7. CASE \E w \in Workers :
             \/ BeginSweepOnly(w) \/ ExportDatabase(w) \/ PutFile(w)
             \/ CheckDatabase(w) \/ RunDies(w)
             \/ ReadSweepPlan(w) \/ DeleteSetFiles(w) \/ DeletePooled(w) \/ ListOrphans(w)
             \/ DeleteOrphans(w)
             \/ \E k \in Media : CopyMedia(w, k) \/ VerifyMedia(w, k)
  BY <1>7 DEF BeginSweepOnly, ExportDatabase, PutFile, CheckDatabase, RunDies, ReadSweepPlan,
     DeleteSetFiles, DeletePooled, ListOrphans, DeleteOrphans, CopyMedia, VerifyMedia
<1>8. CASE \E t \in Days : LeaseLapses(t)
  BY <1>1, <1>3, <1>8 DEF ManifestRows
<1>9. CASE \E w \in Workers : BeginRun(w) \/ FailRun(w)
  BY <1>4, <1>5, <1>9
<1> QED
  BY <1>2, <1>6, <1>7, <1>8, <1>9 DEF BackupsNext, backupVars

LEMMA CompletionSeals ==
  ASSUME BackupsInv, NEW w \in Workers, CompleteRun(w)
  PROVE  Vault!VaultNext \/ UNCHANGED Vault!vaultVars
<1>0. PICK slot \in Days : slot = backups[w].slot
  BY RunKnown DEF CompleteRun
<1>1. /\ backups[w].step = "complete" /\ slot \in Days /\ RunFits(w)
      /\ rows[slot] \in ManifestRows /\ day \in Nat /\ slot \in Nat
      /\ UNCHANGED <<day, pooled>>
  BY <1>0, RunKnown DEF CompleteRun
<1>2. Pool' = Pool
  BY <1>1 DEF Pool
<1>3. CASE UNCHANGED rows
  BY <1>1, <1>2, <1>3 DEF SealedSets, Vault!vaultVars
<1>4. CASE MayComplete(backups[w])
  <2> DEFINE row == Ended(slot, "verified")
             set == [slot |-> slot, media |-> rows[slot].media \ rows[slot].drops]
  <2>1. rows' = [rows EXCEPT ![slot] = row] /\ rows[slot].state = "building"
    BY <1>0, <1>4 DEF CompleteRun, MayComplete
  <2>2. row.state = "verified" /\ row.media = rows[slot].media /\ row.drops = rows[slot].drops
    BY <1>1, EndedFits
  <2>3. set.media \subseteq Pool /\ set \in [slot : Days, media : SUBSET Media]
    <3>1. set.media = backups[w].media /\ backups[w].media \subseteq Pool
      BY <1>0, <1>1, <1>4 DEF MayComplete, RunFits, Copying
    <3> QED
      BY <1>1, <3>1, RunKnown
  <2>4. ~(set.slot + Retention <= day)
    BY <1>0, <1>1, BackupConstants DEF RunFits
  <2> HIDE DEF row
  <2>5. /\ rows'[slot] = row
        /\ \A s \in Days \ {slot} : rows'[s] = rows[s]
    BY <1>1, <2>1 DEF BackupsInv, BackupsTypeOK
  <2>6. SetOf(slot)' = set /\ \A s \in Days \ {slot} : SetOf(s)' = SetOf(s)
    BY <2>2, <2>5 DEF SetOf
  <2>7. {t \in Days : rows'[t].state = "verified"} =
          {t \in Days : rows[t].state = "verified"} \union {slot}
    BY <1>1, <2>2, <2>5
  <2>8. slot \notin {t \in Days : rows[t].state = "verified"}
    BY <2>1
  <2>9. SealedSets' = SealedSets \union {set}
    <3> DEFINE before == {t \in Days : rows[t].state = "verified"}
               after == {t \in Days : rows'[t].state = "verified"}
    <3>1. SealedSets = {SetOf(s) : s \in before} /\ SealedSets' = {SetOf(s)' : s \in after}
      BY SealedAre
    <3>2. before \subseteq Days \ {slot} /\ after = before \union {slot}
      BY <2>7, <2>8
    <3> HIDE DEF before, after
    <3>3. \A s \in before : SetOf(s)' = SetOf(s)
      BY <2>6, <3>2
    <3> HIDE DEF set
    <3> QED
      BY <2>6, <3>1, <3>2, <3>3
  <2>10. \A other \in SealedSets : other.slot # set.slot
    BY <2>8, SealedAre
  <2>11. Vault!Seal(set)
    BY <1>1, <1>2, <2>3, <2>4, <2>9, <2>10 DEF Vault!Seal, Vault!IsExpired
  <2> QED
    BY <2>3, <2>11 DEF Vault!VaultNext
<1> QED
  BY <1>3, <1>4 DEF CompleteRun

LEMMA SweepDrops ==
  ASSUME BackupsInv, NEW w \in Workers, SweepComplete(w)
  PROVE  Vault!VaultNext
<1> DEFINE goes(s) == \/ s \in backups[w].expired /\ rows[s].state # "building" /\ Expired(s)
                      \/ rows[s].state = "failed" /\ day - s > Grace
           gone == {set \in SealedSets : set.slot + Retention <= day /\ goes(set.slot)}
<1>1. /\ rows' = [s \in Days |-> IF goes(s) THEN NoRow ELSE rows[s]]
      /\ UNCHANGED <<day, pooled>>
  BY DEF SweepComplete
<1>2. \A s \in Days : rows[s].state = "verified" /\ goes(s) => s + Retention <= day
  BY DEF Expired
<1>3. NoRow.state = "none"
  BY DEF NoRow
<1> HIDE DEF goes
<1>4. {t \in Days : rows'[t].state = "verified"} =
        {t \in Days : rows[t].state = "verified" /\ ~goes(t)}
  BY <1>1, <1>3
<1>5. \A s \in Days : ~goes(s) => SetOf(s)' = SetOf(s)
  BY <1>1 DEF SetOf
<1>6. SealedSets' = SealedSets \ gone
  BY <1>2, <1>4, <1>5, SealedAre
<1>7. Pool' = Pool
  BY <1>1 DEF Pool
<1>8. Vault!Drop(gone)
  BY <1>1, <1>6, <1>7 DEF Vault!Drop, Vault!IsExpired
<1>9. gone \in SUBSET SealedSets
  OBVIOUS
<1> QED
  BY <1>8, <1>9 DEF Vault!VaultNext

(* A sweep releases nothing, so the pool only takes what runs copy.        *)
LEMMA PoolMoves ==
  ASSUME BackupsInv, [BackupsNext]_backupVars, Pool' # Pool
  PROVE  /\ UNCHANGED <<day, rows>>
         /\ \E k \in Media : Pool' = Pool \union {k}
<1>1. Pool \subseteq Pool'
  BY BackupsInvStep
<1>2. pooled' # pooled
  BY DEF Pool
<1>3. CASE \E w \in Workers : DeletePooled(w) \/ DeleteOrphans(w)
  <2>1. Pool' \subseteq Pool
    BY <1>3 DEF DeletePooled, DeleteOrphans, Unpool, Pool
  <2> QED
    BY <1>1, <2>1
<1>4. ASSUME NEW w \in Workers, NEW k \in Media, CopyMedia(w, k)
      PROVE  UNCHANGED <<day, rows>> /\ Pool' = Pool \union {k}
  <2>1. UNCHANGED <<day, rows>> /\ pooled' = [pooled EXCEPT ![k] = day]
    BY <1>2, <1>4 DEF CopyMedia
  <2>2. day # Never /\ pooled \in [Media -> DayOrNever]
    BY BackupConstants DEF BackupsInv, BackupsTypeOK, Days
  <2> QED
    BY <2>1, <2>2 DEF Pool
<1>5. CASE DayPasses \/ \E k \in Media : RetainMedia(k) \/ RecordPurge(k) \/ EraseMedia(k)
  BY <1>2, <1>5 DEF DayPasses, RetainMedia, RecordPurge, EraseMedia
<1>6. CASE \E s \in Days : LeaseLapses(s)
  BY <1>2, <1>6 DEF LeaseLapses
<1>7. CASE \E w \in Workers :
             \/ BeginRun(w) \/ BeginSweepOnly(w) \/ ExportDatabase(w) \/ PutFile(w)
             \/ CheckDatabase(w) \/ CompleteRun(w) \/ FailRun(w) \/ RunDies(w)
             \/ ReadSweepPlan(w) \/ DeleteSetFiles(w) \/ ListOrphans(w) \/ SweepComplete(w)
             \/ \E k \in Media : VerifyMedia(w, k)
  BY <1>2, <1>7 DEF BeginRun, BeginSweepOnly, ExportDatabase, PutFile, CheckDatabase, CompleteRun,
     FailRun, RunDies, ReadSweepPlan, DeleteSetFiles, ListOrphans, SweepComplete, VerifyMedia
<1> QED
  BY <1>2, <1>3, <1>4, <1>5, <1>6, <1>7 DEF BackupsNext, backupVars

LEMMA BackupsRefineStep ==
  ASSUME BackupsInv, [BackupsNext]_backupVars
  PROVE  [Vault!VaultNext]_(Vault!vaultVars)
<1>1. CASE \E w \in Workers : CompleteRun(w) \/ SweepComplete(w)
  BY <1>1, CompletionSeals, SweepDrops
<1>2. CASE ~ \E w \in Workers : CompleteRun(w) \/ SweepComplete(w)
  <2>1. SealedSets' = SealedSets
    BY <1>2, RowsStandStill, SealedStand
  <2>2. CASE Pool' # Pool
    BY <2>1, <2>2, PoolMoves DEF Vault!VaultNext, Vault!Keep
  <2>3. CASE Pool' = Pool /\ day' # day
    <3>1. day' = day + 1
      BY <1>2, <2>3 DEF BackupsNext, backupVars, DayPasses, RetainMedia, RecordPurge, EraseMedia,
         LeaseLapses, BeginRun, BeginSweepOnly, ExportDatabase, PutFile, CheckDatabase, FailRun,
         RunDies, ReadSweepPlan, DeleteSetFiles, DeletePooled, ListOrphans, DeleteOrphans,
         CopyMedia, VerifyMedia
    <3> QED
      BY <2>1, <2>3, <3>1 DEF Vault!VaultNext, Vault!PassDay
  <2>4. CASE Pool' = Pool /\ day' = day
    BY <2>1, <2>4 DEF Vault!vaultVars
  <2> QED
    BY <2>2, <2>3, <2>4
<1> QED
  BY <1>1, <1>2

(* The backups are a vault of sets: sealed once and whole, unchanged after, *)
(* dropped only when expired, their media never released before (runBackup, *)
(* planSweep, sweepCompleteTx, isOrphanCandidate).                          *)
THEOREM BackupsAlwaysKeepAVault == BackupsSpec => KeepsAVault
<1>1. BackupsInit => Vault!VaultInit
  BY DEF BackupsInit, Vault!VaultInit, SealedSets, NoRow, Pool
<1>2. BackupsInv /\ [BackupsNext]_backupVars => [Vault!VaultNext]_(Vault!vaultVars)
  BY BackupsRefineStep
<1> QED
  BY <1>1, <1>2, BackupsInvAlways, PTL DEF BackupsSpec, KeepsAVault, Vault!VaultSpec

-----------------------------------------------------------------------------
(* Notifications.  What a device took of an intent is at most one more     *)
(* than the passes that died on it, and no more than these while the row   *)
(* may still be sent; and what a row shows is of the summary of its        *)
(* intent, which the purge looks through.                                  *)

\* The row is open, and no leg under way may have carried it.
MayYetBeSent(p, e, d) ==
  /\ sendings[p][e][d].state \in {"none", "pending"}
  /\ pushes[p][e].step = "legs" => pushes[p][e].legs[d] \notin {"delivered", "unknown"}

LegFits(p, e, d) ==
  /\ received[p][e][d] <= 1 + lost[p][e][d]
  /\ pushes[p][e].legs[d] = "ready" =>
       pushes[p][e].step = "legs" /\ received[p][e][d] <= lost[p][e][d]
  /\ pushes[p][e].step = "legs" /\ pushes[p][e].legs[d] # "none" => sendings[p][e][d].state # "none"
  /\ MayYetBeSent(p, e, d) => received[p][e][d] <= lost[p][e][d]

SendingFits(p, e, d) ==
  /\ sendings[p][e][d].state \in {"none", "pending"} => sendings[p][e][d].attempts < LegAttempts
  /\ sendings[p][e][d].state # "none" => notices[p][e].state = "delivered"
  /\ sendings[p][e][d].state = "suppressed" => sendings[p][e][d].text = {}
  /\ sendings[p][e][d].state = "pending" =>
       /\ sendings[p][e][d].text \subseteq notices[p][e].batch
       /\ \A x \in sendings[p][e][d].text : SourceOf(x) \notin cleared

IntentFits(p, e) ==
  /\ entries[e] = "none" => notices[p][e].state = "none"
  /\ pushJobs[p][e].state = "queued" => pushJobs[p][e].attempts < PushAttempts

NotificationsInv ==
  /\ NotificationsTypeOK
  /\ \A s \in cleared : entries[s] = "purged"
  /\ \A p \in Persons, e \in Entries : IntentFits(p, e)
  /\ \A p \in Persons, e \in Entries, d \in Devices : LegFits(p, e, d) /\ SendingFits(p, e, d)

LEMMA NotificationsInitially == NotificationsInit => NotificationsInv
<1> SUFFICES ASSUME NotificationsInit PROVE NotificationsInv
  OBVIOUS
<1> USE NotificationConstants DEF NotificationsInit
<1>1. NoPush \in PushRows /\ NoPush.step = "none" /\ \A d \in Devices : NoPush.legs[d] = "none"
  BY DEF NoPush, PushRows, Legs
<1>2. NoSending \in SendingRows /\ NoSending.state = "none" /\ NoSending.attempts = 0
  BY DEF NoSending, SendingRows, SendingStates
<1>3. NoNotice \in NoticeRows /\ NoNotice.state = "none"
  BY DEF NoNotice, NoticeRows
<1>4. NotificationsTypeOK
  BY <1>1, <1>2, <1>3 DEF NotificationsTypeOK, Scopes, DeviceRows
<1>5. \A p \in Persons, e \in Entries : IntentFits(p, e)
  BY <1>3 DEF IntentFits
<1>6. \A p \in Persons, e \in Entries, d \in Devices : LegFits(p, e, d) /\ SendingFits(p, e, d)
  BY <1>1, <1>2 DEF LegFits, MayYetBeSent, SendingFits
<1>7. QED
  BY <1>4, <1>5, <1>6 DEF NotificationsInv

LEMMA SourceOfEntry == \A e \in Entries : SourceOf(e) \in Sources
  BY NotificationConstants DEF SourceOf, Entries

\* What moves beside the intents and their rows.
LEMMA OthersMove ==
  ASSUME NotificationsInv, NotificationsTypeOK',
         UNCHANGED <<noticeVars, sendings, pushes, received, lost, cleared>>,
         \A e \in Entries : /\ entries'[e] = "none" => entries[e] = "none"
                            /\ entries[e] = "purged" => entries'[e] = "purged"
  PROVE  NotificationsInv'
<1>1. \A s \in cleared' : entries'[s] = "purged"
  BY DEF NotificationsInv, NotificationsTypeOK, Entries
<1>2. \A p \in Persons, e \in Entries : IntentFits(p, e)'
  BY DEF NotificationsInv, IntentFits, noticeVars
<1>3. \A p \in Persons, e \in Entries, d \in Devices : LegFits(p, e, d)' /\ SendingFits(p, e, d)'
  BY DEF NotificationsInv, LegFits, MayYetBeSent, SendingFits, noticeVars, SourceOf
<1>4. QED
  BY <1>1, <1>2, <1>3 DEF NotificationsInv

LEMMA EntryMovesKeeps ==
  ASSUME NotificationsInv,
         \/ \E e \in Entries : CloseEntry(e)
         \/ \E s \in Sources : AssignSource(s) \/ PurgeSourceEntry(s)
         \/ \E p \in Persons, s \in Sources : MarkSourceRead(p, s)
         \/ \E p \in Persons : RevokeMember(p)
  PROVE  NotificationsInv'
<1>1. UNCHANGED <<noticeVars, sendings, pushes, received, lost, cleared, devices>>
  BY DEF CloseEntry, AssignSource, PurgeSourceEntry, MarkSourceRead, RevokeMember, pushVars
<1>2. /\ entries' \in [Entries -> {"none", "active", "closed", "purged"}]
      /\ \A e \in Entries : /\ entries'[e] = "none" => entries[e] = "none"
                            /\ entries[e] = "purged" => entries'[e] = "purged"
  BY DEF NotificationsInv, NotificationsTypeOK, Entries, CloseEntry, AssignSource,
         PurgeSourceEntry, MarkSourceRead, RevokeMember
<1>3. scopes' \in [Sources -> Scopes] /\ staff' \subseteq Persons /\ seen' \subseteq Persons \X Sources
  <2>1. /\ scopes \in [Sources -> Scopes] /\ staff \subseteq Persons
        /\ seen \subseteq Persons \X Sources
    BY DEF NotificationsInv, NotificationsTypeOK
  <2>2. ASSUME NEW p \in Persons, NEW s \in Sources, MarkSourceRead(p, s)
        PROVE  seen' \subseteq Persons \X Sources
    BY <2>1, <2>2 DEF MarkSourceRead
  <2>3. QED
    BY <2>1, <2>2 DEF CloseEntry, AssignSource, PurgeSourceEntry, MarkSourceRead, RevokeMember
<1>4. NotificationsTypeOK'
  BY <1>1, <1>2, <1>3 DEF NotificationsInv, NotificationsTypeOK, noticeVars
<1>5. QED
  BY <1>1, <1>2, <1>4, OthersMove

LEMMA DeviceMovesKeeps ==
  ASSUME NotificationsInv,
         \/ PushHygiene
         \/ \E d \in Devices : \/ RevokePushSubscription(d) \/ RevokeSession(d)
                               \/ \E p \in Persons : RegisterPushSubscription(d, p)
  PROVE  NotificationsInv'
<1>1. UNCHANGED <<sourceVars, noticeVars, sendings, pushes, received, lost>>
  BY DEF PushHygiene, RevokePushSubscription, RevokeSession, RegisterPushSubscription
<1>2. devices' \in [Devices -> DeviceRows]
  <2>1. devices \in [Devices -> DeviceRows]
    BY DEF NotificationsInv, NotificationsTypeOK
  <2>2. CASE PushHygiene
    BY <2>1, <2>2 DEF PushHygiene, DeviceRows
  <2>3. ASSUME NEW d \in Devices, RevokePushSubscription(d) \/ RevokeSession(d)
        PROVE  devices' \in [Devices -> DeviceRows]
    <3>1. /\ [devices[d] EXCEPT !.enabled = FALSE] \in DeviceRows
          /\ [devices[d] EXCEPT !.session = "revoked"] \in DeviceRows
      BY <2>1 DEF DeviceRows
    <3>2. PICK row \in DeviceRows : devices' = [devices EXCEPT ![d] = row]
      BY <2>3, <3>1 DEF RevokePushSubscription, RevokeSession
    <3> QED
      BY <2>1, <3>2
  <2>4. ASSUME NEW d \in Devices, NEW p \in Persons, RegisterPushSubscription(d, p)
        PROVE  devices' \in [Devices -> DeviceRows]
    BY <2>1, <2>4 DEF RegisterPushSubscription, DeviceRows
  <2>5. QED
    BY <2>2, <2>3, <2>4
<1>3. NotificationsTypeOK'
  BY <1>1, <1>2 DEF NotificationsInv, NotificationsTypeOK, sourceVars, noticeVars
<1>4. QED
  BY <1>1, <1>3, OthersMove DEF sourceVars

\* Intents move; delivered ones stay as they are, and so do the rows.
LEMMA NoticesMove ==
  ASSUME NotificationsInv, UNCHANGED <<scopes, staff, seen, cleared, pushVars>>,
         notices' \in [Persons -> [Entries -> NoticeRows]],
         pushJobs' \in [Persons -> [Entries -> [state : {"none", "queued", "running", "succeeded", "failed"},
                                               attempts : 0 .. PushAttempts]]],
         entries' \in [Entries -> {"none", "active", "closed", "purged"}],
         \A e \in Entries : entries[e] = "purged" => entries'[e] = "purged",
         \A p \in Persons, e \in Entries :
           notices[p][e].state = "delivered" => notices'[p][e] = notices[p][e],
         \A p \in Persons, e \in Entries : IntentFits(p, e)'
  PROVE  NotificationsInv'
<1>1. NotificationsTypeOK'
  BY DEF NotificationsInv, NotificationsTypeOK, pushVars
<1>2. \A s \in cleared' : entries'[s] = "purged"
  BY DEF NotificationsInv, NotificationsTypeOK, Entries
<1>3. \A p \in Persons, e \in Entries, d \in Devices : LegFits(p, e, d)' /\ SendingFits(p, e, d)'
  <2> SUFFICES ASSUME NEW p \in Persons, NEW e \in Entries, NEW d \in Devices
               PROVE  LegFits(p, e, d)' /\ SendingFits(p, e, d)'
    OBVIOUS
  <2>1. LegFits(p, e, d) /\ SendingFits(p, e, d)
    BY DEF NotificationsInv
  <2>2. LegFits(p, e, d)'
    BY <2>1 DEF LegFits, MayYetBeSent, pushVars
  <2>3. SendingFits(p, e, d)'
    BY <2>1 DEF SendingFits, pushVars, SourceOf
  <2>4. QED
    BY <2>2, <2>3
<1>4. QED
  BY <1>1, <1>2, <1>3 DEF NotificationsInv

LEMMA NoticeFits ==
  ASSUME NEW row \in NoticeRows, NEW state \in {"pending", "suppressed"}
  PROVE  /\ [row EXCEPT !.state = state] \in NoticeRows
         /\ [row EXCEPT !.state = state].state = state
         /\ [row EXCEPT !.state = state].batch = row.batch
         /\ [row EXCEPT !.due = TRUE] \in NoticeRows
         /\ [row EXCEPT !.due = TRUE].state = row.state
  BY DEF NoticeRows

LEMMA IntentKnown ==
  ASSUME NotificationsInv
  PROVE  \A p \in Persons, e \in Entries :
           /\ IntentFits(p, e) /\ notices[p][e] \in NoticeRows /\ pushes[p][e] \in PushRows
           /\ pushJobs[p][e].attempts \in 0 .. PushAttempts
           /\ pushJobs[p][e].state \in {"none", "queued", "running", "succeeded", "failed"}
           /\ notices[p][e].batch \subseteq Entries
  BY DEF NotificationsInv, NotificationsTypeOK, NoticeRows

LEMMA EnsureIntentsKeeps ==
  ASSUME NotificationsInv, NEW e \in Entries, EnsureIntents(e)
  PROVE  NotificationsInv'
<1>1. /\ entries[e] = "none" /\ entries' = [entries EXCEPT ![e] = "active"]
      /\ notices' = [p \in Persons |->
           IF p \in Recipients(e) THEN [notices[p] EXCEPT ![e].state = "pending"] ELSE notices[p]]
      /\ UNCHANGED <<scopes, staff, seen, cleared, pushJobs, pushVars>>
  BY DEF EnsureIntents
<1>2. /\ notices \in [Persons -> [Entries -> NoticeRows]]
      /\ entries \in [Entries -> {"none", "active", "closed", "purged"}]
  BY DEF NotificationsInv, NotificationsTypeOK
<1>3. \A p \in Persons : notices[p][e].state = "none"
  BY <1>1, IntentKnown DEF IntentFits
<1>4. \A p \in Persons : [notices[p] EXCEPT ![e].state = "pending"] \in [Entries -> NoticeRows]
  <2> SUFFICES ASSUME NEW p \in Persons
               PROVE  [notices[p] EXCEPT ![e].state = "pending"] \in [Entries -> NoticeRows]
    OBVIOUS
  <2>1. [notices[p][e] EXCEPT !.state = "pending"] \in NoticeRows
    <3>1. notices[p][e] \in NoticeRows
      BY <1>2
    <3>2. QED
      BY <3>1, NoticeFits
  <2>2. QED
    BY <1>2, <2>1
<1>5. notices' \in [Persons -> [Entries -> NoticeRows]]
  BY <1>1, <1>2, <1>4
<1>6. \A p \in Persons, f \in Entries : f # e => notices'[p][f] = notices[p][f]
  BY <1>1, <1>2
<1>7. \A p \in Persons, f \in Entries : IntentFits(p, f)'
  BY <1>1, <1>2, <1>6, IntentKnown DEF IntentFits
<1>8. \A p \in Persons, f \in Entries :
        notices[p][f].state = "delivered" => notices'[p][f] = notices[p][f]
  BY <1>3, <1>6
<1>9. QED
  BY <1>1, <1>2, <1>5, <1>7, <1>8, NoticesMove DEF NotificationsInv, NotificationsTypeOK

LEMMA FallsDueKeeps ==
  ASSUME NotificationsInv, NEW p \in Persons, NEW e \in Entries, FallsDue(p, e)
  PROVE  NotificationsInv'
<1>1. /\ notices[p][e].state = "pending" /\ notices' = [notices EXCEPT ![p][e].due = TRUE]
      /\ UNCHANGED <<sourceVars, pushJobs, pushVars>>
  BY DEF FallsDue
<1>2. /\ notices \in [Persons -> [Entries -> NoticeRows]]
      /\ entries \in [Entries -> {"none", "active", "closed", "purged"}]
  BY DEF NotificationsInv, NotificationsTypeOK
<1> DEFINE row == [notices[p][e] EXCEPT !.due = TRUE]
<1>3. row \in NoticeRows /\ row.state = notices[p][e].state
  <2>1. notices[p][e] \in NoticeRows
    BY <1>2
  <2>2. QED
    BY <2>1, NoticeFits
<1>4. notices' = [notices EXCEPT ![p] = [notices[p] EXCEPT ![e] = row]]
  BY <1>1
<1> HIDE DEF row
<1>5. notices' \in [Persons -> [Entries -> NoticeRows]]
  BY <1>2, <1>3, <1>4
<1>6. \A q \in Persons, f \in Entries : notices'[q][f].state = notices[q][f].state
  BY <1>2, <1>3, <1>4
<1>7. \A q \in Persons, f \in Entries : <<q, f>> # <<p, e>> => notices'[q][f] = notices[q][f]
  BY <1>2, <1>4
<1>8. \A q \in Persons, f \in Entries : IntentFits(q, f)'
  BY <1>1, <1>6, IntentKnown DEF IntentFits, sourceVars
<1>9. QED
  BY <1>1, <1>2, <1>5, <1>7, <1>8, NoticesMove DEF NotificationsInv, NotificationsTypeOK, sourceVars

\* The decision about a pending intent.
LEMMA EvaluatedFits ==
  ASSUME NotificationsInv, NEW p \in Persons, NEW e \in Entries, NEW verdict
  PROVE  Evaluated(p, e, verdict) \in NoticeRows
<1>1. notices[p][e] \in NoticeRows
  BY IntentKnown
<1>2. Batch(p, Recheck(e)) \subseteq Entries
  BY DEF Batch, Waiting
<1>3. QED
  BY <1>1, <1>2 DEF Evaluated, NoticeRows

LEMMA EvaluateDueIntentsKeeps ==
  ASSUME NotificationsInv, NEW p \in Persons, EvaluateDueIntents(p)
  PROVE  NotificationsInv'
<1>1. PICK verdict \in [Buckets(p) -> Verdicts] :
        LET after == [e \in Entries |->
                        IF e \in Swept(p) THEN Evaluated(p, e, verdict) ELSE notices[p][e]]
        IN /\ notices' = [notices EXCEPT ![p] = after]
           /\ pushJobs' = [pushJobs EXCEPT ![p] =
                [e \in Entries |-> IF e \in Swept(p) /\ after[e].state # "pending"
                                     THEN [state |-> "queued", attempts |-> 0]
                                     ELSE pushJobs[p][e]]]
  BY DEF EvaluateDueIntents
<1> DEFINE after == [e \in Entries |->
                       IF e \in Swept(p) THEN Evaluated(p, e, verdict) ELSE notices[p][e]]
           jobs == [e \in Entries |-> IF e \in Swept(p) /\ after[e].state # "pending"
                                        THEN [state |-> "queued", attempts |-> 0]
                                        ELSE pushJobs[p][e]]
           JobRows == [state : {"none", "queued", "running", "succeeded", "failed"},
                       attempts : 0 .. PushAttempts]
<1>2. notices' = [notices EXCEPT ![p] = after] /\ pushJobs' = [pushJobs EXCEPT ![p] = jobs]
  BY <1>1
<1>3. /\ notices \in [Persons -> [Entries -> NoticeRows]]
      /\ pushJobs \in [Persons -> [Entries -> JobRows]]
      /\ entries \in [Entries -> {"none", "active", "closed", "purged"}]
      /\ UNCHANGED <<sourceVars, pushVars>>
  BY DEF NotificationsInv, NotificationsTypeOK, EvaluateDueIntents
<1>4. after \in [Entries -> NoticeRows]
  BY <1>3, EvaluatedFits
<1>5. [state |-> "queued", attempts |-> 0] \in JobRows /\ 0 < PushAttempts
  BY NotificationConstants
<1>6. Swept(p) \subseteq Waiting(p)
  BY DEF Swept, Due
<1>7. \A e \in Entries : e \in Waiting(p) <=> notices[p][e].state = "pending"
  BY DEF Waiting
<1>8. \A e \in Entries : after[e] = notices[p][e] \/ notices[p][e].state = "pending"
  BY <1>6, <1>7
<1>9. jobs \in [Entries -> JobRows]
  BY <1>3, <1>5
<1>10. \A e \in Entries : jobs[e] = pushJobs[p][e] \/ jobs[e].attempts < PushAttempts
  BY <1>5
<1> HIDE DEF after, jobs, JobRows
<1>11. /\ notices' \in [Persons -> [Entries -> NoticeRows]]
       /\ pushJobs' \in [Persons -> [Entries -> JobRows]]
  BY <1>2, <1>3, <1>4, <1>9
<1>12. \A q \in Persons, e \in Entries :
         notices'[q][e] = notices[q][e] \/ notices[q][e].state = "pending"
  BY <1>2, <1>3, <1>8
<1>13. \A q \in Persons, e \in Entries :
         pushJobs'[q][e] = pushJobs[q][e] \/ pushJobs'[q][e].attempts < PushAttempts
  BY <1>2, <1>3, <1>10
<1>14. ASSUME NEW q \in Persons, NEW e \in Entries PROVE IntentFits(q, e)'
  <2>1. IntentFits(q, e)
    BY IntentKnown
  <2>2. entries'[e] = "none" => notices'[q][e].state = "none"
    BY <1>3, <1>12, <2>1 DEF IntentFits, sourceVars
  <2>3. pushJobs'[q][e].state = "queued" => pushJobs'[q][e].attempts < PushAttempts
    BY <1>13, <2>1 DEF IntentFits
  <2>4. QED
    BY <2>2, <2>3 DEF IntentFits
<1>15. QED
  BY <1>3, <1>11, <1>12, <1>14, NoticesMove DEF sourceVars, JobRows

LEMMA SuppressedFits ==
  \A row \in SendingRows :
    /\ Suppressed(row) \in SendingRows /\ Suppressed(row).state # "pending"
    /\ Suppressed(row).state = "none" <=> row.state = "none"
    /\ row.state # "pending" => Suppressed(row) = row
    /\ row.state = "pending" => Suppressed(row).state = "suppressed" /\ Suppressed(row).text = {}
  BY DEF Suppressed, SendingRows, SendingStates

LEMMA PurgeNotificationWorkKeeps ==
  ASSUME NotificationsInv, NEW s \in Sources, PurgeNotificationWork(s)
  PROVE  NotificationsInv'
<1> DEFINE row(p, e) == IF SourceOf(e) = s /\ notices[p][e].state = "pending"
                          THEN [notices[p][e] EXCEPT !.state = "suppressed"] ELSE notices[p][e]
<1>1. /\ entries[s] = "purged" /\ cleared' = cleared \union {s}
      /\ notices' = [p \in Persons |-> [e \in Entries |-> row(p, e)]]
      /\ sendings' = [p \in Persons |-> [e \in Entries |->
           IF AffectedByPurge(p, e, s) THEN [d \in Devices |-> Suppressed(sendings[p][e][d])]
           ELSE sendings[p][e]]]
      /\ UNCHANGED <<entries, scopes, staff, seen, pushJobs, devices, pushes, received, lost>>
  BY DEF PurgeNotificationWork
<1>2. /\ notices \in [Persons -> [Entries -> NoticeRows]]
      /\ sendings \in [Persons -> [Entries -> [Devices -> SendingRows]]]
  BY DEF NotificationsInv, NotificationsTypeOK
<1>3. \A p \in Persons, e \in Entries :
        /\ row(p, e) \in NoticeRows /\ row(p, e).batch = notices[p][e].batch
        /\ row(p, e).state = "none" <=> notices[p][e].state = "none"
        /\ notices[p][e].state = "delivered" => row(p, e).state = "delivered"
  <2> SUFFICES ASSUME NEW p \in Persons, NEW e \in Entries
               PROVE  /\ row(p, e) \in NoticeRows /\ row(p, e).batch = notices[p][e].batch
                      /\ row(p, e).state = "none" <=> notices[p][e].state = "none"
                      /\ notices[p][e].state = "delivered" => row(p, e).state = "delivered"
    OBVIOUS
  <2>1. notices[p][e] \in NoticeRows
    BY <1>2
  <2>2. QED
    BY <2>1, NoticeFits
<1> HIDE DEF row
<1>4. \A p \in Persons, e \in Entries : notices'[p][e] = row(p, e)
  BY <1>1
<1>5. notices' \in [Persons -> [Entries -> NoticeRows]]
  BY <1>1, <1>3
<1>6. \A p \in Persons, e \in Entries, d \in Devices :
        sendings'[p][e][d] = IF AffectedByPurge(p, e, s) THEN Suppressed(sendings[p][e][d])
                                                         ELSE sendings[p][e][d]
  BY <1>1
<1>7. sendings' \in [Persons -> [Entries -> [Devices -> SendingRows]]]
  <2>1. \A p \in Persons, e \in Entries :
          [d \in Devices |-> Suppressed(sendings[p][e][d])] \in [Devices -> SendingRows]
    BY <1>2, SuppressedFits
  <2>2. QED
    BY <1>1, <1>2, <2>1
<1>8. NotificationsTypeOK'
  BY <1>1, <1>5, <1>7 DEF NotificationsInv, NotificationsTypeOK
<1>9. \A p \in Persons, e \in Entries : IntentFits(p, e)'
  BY <1>1, <1>3, <1>4, IntentKnown DEF IntentFits
<1>10. ASSUME NEW p \in Persons, NEW e \in Entries, NEW d \in Devices
       PROVE  LegFits(p, e, d)' /\ SendingFits(p, e, d)'
  <2>1. /\ LegFits(p, e, d) /\ SendingFits(p, e, d) /\ sendings[p][e][d] \in SendingRows
        /\ notices[p][e].batch \subseteq Entries
    BY <1>2, IntentKnown DEF NotificationsInv
  <2> DEFINE old == sendings[p][e][d]
             new == sendings'[p][e][d]
  <2>2. /\ new.state = "none" <=> old.state = "none"
        /\ new.state # "suppressed" => new = old
        /\ new.state = "suppressed" => new = old \/ new.text = {}
    BY <1>6, <2>1, SuppressedFits DEF SendingRows
  <2>3. new.state = "pending" => ~AffectedByPurge(p, e, s)
    BY <1>6, <2>1, SuppressedFits
  <2>4. new.state = "pending" => \A x \in old.text : SourceOf(x) # s
    BY <2>1, <2>2, <2>3 DEF AffectedByPurge, SendingFits
  <2>5. SendingFits(p, e, d)'
    <3>1. \A x \in Entries : SourceOf(x)' = SourceOf(x)
      BY DEF SourceOf
    <3>2. notices'[p][e].batch = notices[p][e].batch
      BY <1>3, <1>4
    <3>3. notices[p][e].state = "delivered" => notices'[p][e].state = "delivered"
      BY <1>3, <1>4
    <3>4. QED
      BY <1>1, <2>1, <2>2, <2>4, <3>1, <3>2, <3>3 DEF SendingFits
  <2>6. LegFits(p, e, d)'
    BY <1>1, <2>1, <2>2 DEF LegFits, MayYetBeSent
  <2>7. QED
    BY <2>5, <2>6
<1>11. QED
  BY <1>1, <1>8, <1>9, <1>10 DEF NotificationsInv

-----------------------------------------------------------------------------
(* One pass over the devices of an intent.                                 *)

JobRows == [state : {"none", "queued", "running", "succeeded", "failed"}, attempts : 0 .. PushAttempts]

\* What belongs to one intent becomes its pass, rows, job and counts.
IntentMoves(p, e, push, sent, job, got, gone) ==
  /\ pushes' = [pushes EXCEPT ![p][e] = push]
  /\ sendings' = [sendings EXCEPT ![p][e] = sent]
  /\ pushJobs' = [pushJobs EXCEPT ![p][e] = job]
  /\ received' = [received EXCEPT ![p][e] = got]
  /\ lost' = [lost EXCEPT ![p][e] = gone]

LEMMA PassMoves ==
  ASSUME NotificationsInv, NEW p \in Persons, NEW e \in Entries,
         NEW push, NEW sent, NEW job, NEW got, NEW gone,
         IntentMoves(p, e, push, sent, job, got, gone),
         /\ push \in PushRows /\ sent \in [Devices -> SendingRows] /\ job \in JobRows
         /\ got \in [Devices -> Nat] /\ gone \in [Devices -> Nat],
         UNCHANGED <<sourceVars, notices>>, devices' \in [Devices -> DeviceRows],
         IntentFits(p, e)',
         \A d \in Devices : LegFits(p, e, d)' /\ SendingFits(p, e, d)'
  PROVE  NotificationsInv'
<1> USE DEF sourceVars
<1>1. NotificationsTypeOK'
  BY DEF NotificationsInv, NotificationsTypeOK, JobRows, IntentMoves
<1>2. \A s \in cleared' : entries'[s] = "purged"
  BY DEF NotificationsInv
<1>3. ASSUME NEW q \in Persons, NEW f \in Entries, <<q, f>> # <<p, e>>
      PROVE  /\ pushes'[q][f] = pushes[q][f] /\ sendings'[q][f] = sendings[q][f]
             /\ pushJobs'[q][f] = pushJobs[q][f]
             /\ received'[q][f] = received[q][f] /\ lost'[q][f] = lost[q][f]
  BY <1>3 DEF NotificationsInv, NotificationsTypeOK, IntentMoves
<1>4. \A q \in Persons, f \in Entries : IntentFits(q, f)'
  <2> SUFFICES ASSUME NEW q \in Persons, NEW f \in Entries, <<q, f>> # <<p, e>>
               PROVE  IntentFits(q, f)'
    OBVIOUS
  <2>1. QED
    BY <1>3, IntentKnown DEF IntentFits
<1>5. \A q \in Persons, f \in Entries, d \in Devices : LegFits(q, f, d)' /\ SendingFits(q, f, d)'
  <2> SUFFICES ASSUME NEW q \in Persons, NEW f \in Entries, NEW d \in Devices, <<q, f>> # <<p, e>>
               PROVE  LegFits(q, f, d)' /\ SendingFits(q, f, d)'
    OBVIOUS
  <2>1. LegFits(q, f, d) /\ SendingFits(q, f, d)
    BY DEF NotificationsInv
  <2>2. LegFits(q, f, d)'
    BY <1>3, <2>1 DEF LegFits, MayYetBeSent
  <2>3. SendingFits(q, f, d)'
    BY <1>3, <2>1 DEF SendingFits, SourceOf
  <2>4. QED
    BY <2>2, <2>3
<1>6. QED
  BY <1>1, <1>2, <1>4, <1>5 DEF NotificationsInv

\* What is known of a pass and of the rows it is about.
LEMMA PassKnown ==
  ASSUME NotificationsInv, NEW p \in Persons, NEW e \in Entries
  PROVE  /\ pushes[p][e] \in PushRows /\ sendings[p][e] \in [Devices -> SendingRows]
         /\ pushJobs[p][e] \in JobRows /\ received[p][e] \in [Devices -> Nat]
         /\ lost[p][e] \in [Devices -> Nat] /\ devices \in [Devices -> DeviceRows]
         /\ IntentFits(p, e) /\ \A d \in Devices : LegFits(p, e, d) /\ SendingFits(p, e, d)
  BY DEF NotificationsInv, NotificationsTypeOK, JobRows

\* The functions when what belongs to an intent stays.
LEMMA PassStays ==
  ASSUME NotificationsInv, NEW p \in Persons, NEW e \in Entries
  PROVE  /\ sendings = [sendings EXCEPT ![p][e] = sendings[p][e]]
         /\ pushes = [pushes EXCEPT ![p][e] = pushes[p][e]]
         /\ pushJobs = [pushJobs EXCEPT ![p][e] = pushJobs[p][e]]
         /\ received = [received EXCEPT ![p][e] = received[p][e]]
         /\ lost = [lost EXCEPT ![p][e] = lost[p][e]]
  BY DEF NotificationsInv, NotificationsTypeOK

\* What the intent then has.
LEMMA PassHas ==
  ASSUME NotificationsInv, NEW p \in Persons, NEW e \in Entries, NEW push, NEW sent, NEW job,
         NEW got, NEW gone, IntentMoves(p, e, push, sent, job, got, gone)
  PROVE  /\ pushes'[p][e] = push /\ sendings'[p][e] = sent /\ pushJobs'[p][e] = job
         /\ received'[p][e] = got /\ lost'[p][e] = gone
  BY DEF NotificationsInv, NotificationsTypeOK, IntentMoves

\* What is known of a leg.
LEMMA LegKnown ==
  ASSUME NotificationsInv, NEW p \in Persons, NEW e \in Entries, NEW d \in Devices
  PROVE  /\ received[p][e][d] \in Nat /\ lost[p][e][d] \in Nat /\ sendings[p][e][d] \in SendingRows
         /\ pushes[p][e].legs[d] \in Legs /\ LegFits(p, e, d) /\ SendingFits(p, e, d)
<1>1. pushes[p][e].legs \in [Devices -> Legs]
  BY PassKnown DEF PushRows
<1>2. QED
  BY <1>1, PassKnown

LEMMA StartPushKeeps ==
  ASSUME NotificationsInv, NEW p \in Persons, NEW e \in Entries,
         StartPushJob(p, e) \/ PushSafetyNet(p, e)
  PROVE  NotificationsInv'
<1> DEFINE old == pushes[p][e]
<1>1. PICK by \in {"job", "net"}, job \in JobRows :
        /\ old.step = "none" /\ (job.state = "queued" => job = pushJobs[p][e])
        /\ pushes' = [pushes EXCEPT ![p][e] = [@ EXCEPT !.step = "started", !.by = by]]
        /\ pushJobs' = [pushJobs EXCEPT ![p][e] = job]
        /\ UNCHANGED <<sourceVars, notices, devices, sendings, received, lost>>
  <2>1. CASE StartPushJob(p, e)
    <3> DEFINE job == [state |-> "running", attempts |-> pushJobs[p][e].attempts + 1]
    <3>1. /\ pushJobs[p][e].state = "queued" /\ pushJobs[p][e].attempts \in Nat
          /\ pushJobs[p][e].attempts < PushAttempts
      BY <2>1, IntentKnown DEF StartPushJob, IntentFits
    <3>2. pushJobs[p][e].attempts + 1 \in 0 .. PushAttempts
      BY <3>1, NotificationConstants
    <3>3. job \in JobRows /\ job.state # "queued"
      BY <3>2 DEF JobRows
    <3>4. pushJobs' = [pushJobs EXCEPT ![p][e] = job]
      BY <2>1 DEF StartPushJob
    <3> HIDE DEF job
    <3>5. QED
      BY <2>1, <3>3, <3>4 DEF StartPushJob
  <2>2. CASE PushSafetyNet(p, e)
    <3>1. pushJobs[p][e] \in JobRows /\ pushJobs' = [pushJobs EXCEPT ![p][e] = pushJobs[p][e]]
      BY <2>2, PassKnown, PassStays DEF PushSafetyNet, noticeVars
    <3>2. QED
      BY <2>2, <3>1 DEF PushSafetyNet, noticeVars
  <2>3. QED
    BY <2>1, <2>2
<1> DEFINE push == [old EXCEPT !.step = "started", !.by = by]
<1>2. push \in PushRows /\ push.step = "started" /\ push.legs = old.legs
  BY PassKnown DEF PushRows
<1>3. IntentMoves(p, e, push, sendings[p][e], job, received[p][e], lost[p][e])
  BY <1>1, PassStays DEF IntentMoves
<1> HIDE DEF push
<1>4. pushes'[p][e] = push /\ pushJobs'[p][e] = job
  BY <1>3, PassHas
<1>5. IntentFits(p, e)'
  BY <1>1, <1>4, IntentKnown DEF IntentFits, sourceVars
<1>6. ASSUME NEW d \in Devices PROVE LegFits(p, e, d)' /\ SendingFits(p, e, d)'
  <2>1. SendingFits(p, e, d)'
    BY <1>1, LegKnown DEF SendingFits, SourceOf, sourceVars
  <2>2. LegFits(p, e, d)'
    BY <1>1, <1>2, <1>4, LegKnown DEF LegFits, MayYetBeSent
  <2>3. QED
    BY <2>1, <2>2
<1>7. /\ sendings[p][e] \in [Devices -> SendingRows] /\ received[p][e] \in [Devices -> Nat]
      /\ lost[p][e] \in [Devices -> Nat] /\ devices' \in [Devices -> DeviceRows]
  BY <1>1, PassKnown
<1>8. QED
  BY <1>1, <1>2, <1>3, <1>5, <1>6, <1>7, PassMoves

LEMMA EndPushKeeps ==
  ASSUME NotificationsInv, NEW p \in Persons, NEW e \in Entries, EndPush(p, e)
  PROVE  NotificationsInv'
<1> DEFINE step == pushes[p][e].step
           retries == step = "again" /\ pushJobs[p][e].attempts < PushAttempts
           state == IF step = "ok" THEN "succeeded" ELSE IF retries THEN "queued" ELSE "failed"
           job == IF pushes[p][e].by = "net" THEN pushJobs[p][e]
                  ELSE [pushJobs[p][e] EXCEPT !.state = state]
<1>1. /\ step # "legs" /\ pushes' = [pushes EXCEPT ![p][e] = NoPush]
      /\ pushJobs' = IF pushes[p][e].by = "net" THEN pushJobs
                     ELSE [pushJobs EXCEPT ![p][e].state = state]
      /\ UNCHANGED <<sourceVars, notices, devices, sendings, received, lost>>
  BY DEF EndPush
<1>2. job \in JobRows /\ (job.state = "queued" => job.attempts < PushAttempts)
  <2>1. pushJobs[p][e] \in JobRows /\ IntentFits(p, e)
    BY PassKnown
  <2>2. CASE pushes[p][e].by = "net"
    BY <2>1, <2>2 DEF IntentFits
  <2>3. CASE pushes[p][e].by # "net"
    <3>1. /\ state \in {"succeeded", "queued", "failed"}
          /\ state = "queued" => pushJobs[p][e].attempts < PushAttempts
      OBVIOUS
    <3> HIDE DEF state
    <3>2. QED
      BY <2>1, <2>3, <3>1 DEF JobRows
  <2>4. QED
    BY <2>2, <2>3
<1>3. IntentMoves(p, e, NoPush, sendings[p][e], job, received[p][e], lost[p][e])
  BY <1>1, PassStays DEF IntentMoves
<1>4. NoPush \in PushRows /\ NoPush.step = "none" /\ \A d \in Devices : NoPush.legs[d] = "none"
  BY DEF NoPush, PushRows, Legs
<1> HIDE DEF job
<1>5. pushes'[p][e] = NoPush /\ pushJobs'[p][e] = job
  BY <1>3, PassHas
<1>6. IntentFits(p, e)'
  BY <1>1, <1>2, <1>5, IntentKnown DEF IntentFits, sourceVars
<1>7. ASSUME NEW d \in Devices PROVE LegFits(p, e, d)' /\ SendingFits(p, e, d)'
  <2>1. SendingFits(p, e, d)'
    BY <1>1, LegKnown DEF SendingFits, SourceOf, sourceVars
  <2>2. LegFits(p, e, d)'
    BY <1>1, <1>4, <1>5, LegKnown DEF LegFits, MayYetBeSent
  <2>3. QED
    BY <2>1, <2>2
<1>8. /\ sendings[p][e] \in [Devices -> SendingRows] /\ received[p][e] \in [Devices -> Nat]
      /\ lost[p][e] \in [Devices -> Nat] /\ devices' \in [Devices -> DeviceRows]
  BY <1>1, PassKnown
<1>9. QED
  BY <1>1, <1>2, <1>3, <1>4, <1>6, <1>7, <1>8, PassMoves

LEMMA PushDiesKeeps ==
  ASSUME NotificationsInv, NEW p \in Persons, NEW e \in Entries, PushDies(p, e)
  PROVE  NotificationsInv'
<1> DEFINE gone == [d \in Devices |->
             IF pushes[p][e].step = "legs" /\ pushes[p][e].legs[d] \in {"delivered", "unknown"}
               THEN lost[p][e][d] + 1 ELSE lost[p][e][d]]
<1>1. /\ pushes' = [pushes EXCEPT ![p][e] = NoPush]
      /\ lost' = [lost EXCEPT ![p][e] = gone]
      /\ UNCHANGED <<sourceVars, noticeVars, devices, sendings, received>>
  BY DEF PushDies
<1>2. NoPush \in PushRows /\ NoPush.step = "none" /\ \A d \in Devices : NoPush.legs[d] = "none"
  BY DEF NoPush, PushRows, Legs
<1>3. gone \in [Devices -> Nat]
  BY PassKnown
<1>4. \A d \in Devices : gone[d] \in {lost[p][e][d], lost[p][e][d] + 1}
  OBVIOUS
<1>5. \A d \in Devices :
        pushes[p][e].step = "legs" /\ pushes[p][e].legs[d] \in {"delivered", "unknown"} =>
          gone[d] = lost[p][e][d] + 1
  OBVIOUS
<1> HIDE DEF gone
<1>6. IntentMoves(p, e, NoPush, sendings[p][e], pushJobs[p][e], received[p][e], gone)
  BY <1>1, PassStays DEF IntentMoves, noticeVars
<1>7. pushes'[p][e] = NoPush /\ lost'[p][e] = gone
  BY <1>6, PassHas
<1>8. IntentFits(p, e)'
  BY <1>1, IntentKnown DEF IntentFits, sourceVars, noticeVars
<1>9. ASSUME NEW d \in Devices PROVE LegFits(p, e, d)' /\ SendingFits(p, e, d)'
  <2>1. SendingFits(p, e, d)'
    BY <1>1, LegKnown DEF SendingFits, SourceOf, sourceVars, noticeVars
  <2>2. /\ received[p][e][d] \in Nat /\ lost[p][e][d] \in Nat /\ LegFits(p, e, d)
    BY LegKnown
  <2>3. received[p][e][d] <= 1 + gone[d]
    BY <1>4, <2>2 DEF LegFits
  <2>4. sendings[p][e][d].state \in {"none", "pending"} => received[p][e][d] <= gone[d]
    BY <1>4, <1>5, <2>2 DEF LegFits, MayYetBeSent
  <2>5. LegFits(p, e, d)'
    BY <1>1, <1>2, <1>7, <2>3, <2>4 DEF LegFits, MayYetBeSent
  <2>6. QED
    BY <2>1, <2>5
<1>10. /\ sendings[p][e] \in [Devices -> SendingRows] /\ received[p][e] \in [Devices -> Nat]
      /\ pushJobs[p][e] \in JobRows /\ devices' \in [Devices -> DeviceRows]
  BY <1>1, PassKnown
<1>11. QED
  BY <1>1, <1>2, <1>3, <1>8, <1>9, <1>10, <1>6, PassMoves DEF noticeVars

LEMMA PostLegKeeps ==
  ASSUME NotificationsInv, NEW p \in Persons, NEW e \in Entries, NEW d \in Devices, PostLeg(p, e, d)
  PROVE  NotificationsInv'
<1>1. PICK report \in Reports, taken \in {0, 1} :
        /\ pushes[p][e].legs[d] = "ready"
        /\ report = "delivered" => taken = 1
        /\ report \in {"gone", "refused", "retry_later"} => taken = 0
        /\ pushes' = [pushes EXCEPT ![p][e].legs[d] = report]
        /\ received' = [received EXCEPT ![p][e][d] = @ + taken]
        /\ UNCHANGED <<sourceVars, noticeVars, devices, sendings, lost>>
  BY DEF PostLeg
<1> DEFINE push == [pushes[p][e] EXCEPT !.legs[d] = report]
           got == [received[p][e] EXCEPT ![d] = received[p][e][d] + taken]
<1>2. /\ push \in PushRows /\ push.step = pushes[p][e].step
      /\ push.legs = [pushes[p][e].legs EXCEPT ![d] = report]
      /\ pushes[p][e].legs \in [Devices -> Legs]
  BY PassKnown DEF PushRows, Legs
<1>3. got \in [Devices -> Nat]
  BY PassKnown
<1>4. IntentMoves(p, e, push, sendings[p][e], pushJobs[p][e], got, lost[p][e])
  BY <1>1, PassStays DEF IntentMoves, noticeVars
<1>5. received[p][e] \in [Devices -> Nat]
  BY PassKnown
<1>6. got[d] = received[p][e][d] + taken /\ \A c \in Devices \ {d} : got[c] = received[p][e][c]
  BY <1>5
<1> HIDE DEF push, got
<1>7. pushes'[p][e] = push /\ received'[p][e] = got
  BY <1>4, PassHas
<1>8. IntentFits(p, e)'
  BY <1>1, IntentKnown DEF IntentFits, sourceVars, noticeVars
<1>9. ASSUME NEW c \in Devices PROVE LegFits(p, e, c)' /\ SendingFits(p, e, c)'
  <2>1. SendingFits(p, e, c)'
    BY <1>1, LegKnown DEF SendingFits, SourceOf, sourceVars, noticeVars
  <2>2. CASE c = d
    <3>1. /\ received[p][e][d] \in Nat /\ lost[p][e][d] \in Nat /\ LegFits(p, e, d)
      BY LegKnown
    <3>2. pushes[p][e].step = "legs" /\ received[p][e][d] <= lost[p][e][d]
          /\ sendings[p][e][d].state # "none"
      BY <1>1, <3>1 DEF LegFits
    <3>3. push.legs[d] = report /\ report # "ready"
      BY <1>2 DEF Reports
    <3>4. got[d] <= 1 + lost[p][e][d]
      BY <1>6, <3>1, <3>2
    <3>5. report \notin {"delivered", "unknown"} => got[d] <= lost[p][e][d]
      BY <1>1, <1>6, <3>1, <3>2 DEF Reports
    <3>6. LegFits(p, e, d)'
      BY <1>1, <1>2, <1>7, <3>2, <3>3, <3>4, <3>5 DEF LegFits, MayYetBeSent
    <3>7. QED
      BY <2>1, <2>2, <3>6
  <2>3. CASE c # d
    <3>1. push.legs[c] = pushes[p][e].legs[c] /\ got[c] = received[p][e][c]
      BY <1>2, <1>6, <2>3
    <3>2. LegFits(p, e, c)'
      BY <1>1, <1>2, <1>7, <3>1, LegKnown DEF LegFits, MayYetBeSent
    <3>3. QED
      BY <2>1, <3>2
  <2>4. QED
    BY <2>2, <2>3
<1>10. /\ sendings[p][e] \in [Devices -> SendingRows] /\ pushJobs[p][e] \in JobRows
       /\ lost[p][e] \in [Devices -> Nat] /\ devices' \in [Devices -> DeviceRows]
  BY <1>1, PassKnown
<1>11. QED
  BY <1>1, <1>2, <1>3, <1>4, <1>8, <1>9, <1>10, PassMoves DEF noticeVars

LEMMA LiveContentFits ==
  ASSUME NotificationsInv, NEW p \in Persons, NEW e \in Entries
  PROVE  /\ LiveContent(p, e) \subseteq notices[p][e].batch /\ LiveContent(p, e) \subseteq Entries
         /\ \A x \in LiveContent(p, e) : SourceOf(x) \notin cleared
<1>1. notices[p][e].batch \subseteq Entries
  BY IntentKnown
<1>2. \A s \in cleared : entries[s] = "purged"
  BY DEF NotificationsInv
<1>3. ASSUME NEW x \in LiveContent(p, e) PROVE SourceOf(x) \notin cleared
  BY <1>1, <1>2, NotificationConstants DEF LiveContent, SourceOf, Redacted, Entries
<1>4. QED
  BY <1>1, <1>3 DEF LiveContent

\* A pass that has nothing to send leaves the rows, or suppresses the open ones.
LEMMA NothingToSendKeeps ==
  ASSUME NotificationsInv, NEW p \in Persons, NEW e \in Entries,
         pushes[p][e].step = "started", pushes' = [pushes EXCEPT ![p][e].step = "ok"],
         \/ UNCHANGED sendings
         \/ sendings' = [sendings EXCEPT ![p][e] = [d \in Devices |-> Suppressed(@[d])]],
         UNCHANGED <<sourceVars, noticeVars, devices, received, lost>>
  PROVE  NotificationsInv'
<1> DEFINE old == pushes[p][e]
           push == [old EXCEPT !.step = "ok"]
<1>1. push \in PushRows /\ push.step = "ok" /\ push.legs = old.legs
  BY PassKnown DEF PushRows
<1>2. PICK sent \in [Devices -> SendingRows] :
        /\ sendings' = [sendings EXCEPT ![p][e] = sent]
        /\ \A d \in Devices : sent[d] \in {sendings[p][e][d], Suppressed(sendings[p][e][d])}
  <2>1. CASE UNCHANGED sendings
    <3>1. sendings' = [sendings EXCEPT ![p][e] = sendings[p][e]] /\ sendings[p][e] \in [Devices -> SendingRows]
      BY <2>1, PassStays, PassKnown
    <3>2. QED
      BY <3>1
  <2>2. CASE sendings' = [sendings EXCEPT ![p][e] = [d \in Devices |-> Suppressed(@[d])]]
    <3> DEFINE sent == [d \in Devices |-> Suppressed(sendings[p][e][d])]
    <3>1. sent \in [Devices -> SendingRows] /\ \A d \in Devices : sent[d] = Suppressed(sendings[p][e][d])
      BY PassKnown, SuppressedFits
    <3>2. sendings' = [sendings EXCEPT ![p][e] = sent]
      BY <2>2
    <3> HIDE DEF sent
    <3>3. QED
      BY <3>1, <3>2
  <2>3. QED
    BY <2>1, <2>2
<1>3. IntentMoves(p, e, push, sent, pushJobs[p][e], received[p][e], lost[p][e])
  BY <1>2, PassStays DEF IntentMoves, noticeVars
<1> HIDE DEF push
<1>4. pushes'[p][e] = push /\ sendings'[p][e] = sent
  BY <1>3, PassHas
<1>5. IntentFits(p, e)'
  BY IntentKnown DEF IntentFits, sourceVars, noticeVars
<1>6. ASSUME NEW d \in Devices PROVE LegFits(p, e, d)' /\ SendingFits(p, e, d)'
  <2>1. /\ sendings[p][e][d] \in SendingRows /\ LegFits(p, e, d) /\ SendingFits(p, e, d)
    BY LegKnown
  <2>2. /\ sent[d].state = "none" <=> sendings[p][e][d].state = "none"
        /\ sent[d] = sendings[p][e][d] \/ (sent[d].state = "suppressed" /\ sent[d].text = {})
    BY <1>2, <2>1, SuppressedFits
  <2>3. SendingFits(p, e, d)'
    BY <1>4, <2>1, <2>2 DEF SendingFits, SourceOf, sourceVars, noticeVars
  <2>4. LegFits(p, e, d)'
    BY <1>1, <1>4, <2>1, <2>2 DEF LegFits, MayYetBeSent
  <2>5. QED
    BY <2>3, <2>4
<1>7. /\ received[p][e] \in [Devices -> Nat] /\ pushJobs[p][e] \in JobRows
      /\ lost[p][e] \in [Devices -> Nat] /\ devices' \in [Devices -> DeviceRows]
  BY PassKnown
<1>8. QED
  BY <1>1, <1>2, <1>3, <1>5, <1>6, <1>7, PassMoves DEF noticeVars

ReadyLegs(step, open) ==
  [d \in Devices |-> IF step = "legs" /\ d \in open THEN "ready" ELSE "none"]

Readied(push, step, open) == [push EXCEPT !.step = step, !.legs = ReadyLegs(step, open)]

Filled(sent, open, content) ==
  [d \in Devices |-> IF d \in open THEN [sent[d] EXCEPT !.state = "pending", !.text = content]
                                    ELSE sent[d]]

\* A pass that sends puts the live content on the open rows and readies their legs.
LEMMA SendingKeeps ==
  ASSUME NotificationsInv, NEW p \in Persons, NEW e \in Entries, NEW step \in {"legs", "fatal"},
         NEW open \in SUBSET Devices, pushes[p][e].step = "started", notices[p][e].state = "delivered",
         \A d \in open : sendings[p][e][d].state \in {"none", "pending"},
         IntentMoves(p, e, Readied(pushes[p][e], step, open),
                     Filled(sendings[p][e], open, LiveContent(p, e)),
                     pushJobs[p][e], received[p][e], lost[p][e]),
         UNCHANGED <<sourceVars, noticeVars, devices, received, lost>>
  PROVE  NotificationsInv'
<1> DEFINE content == LiveContent(p, e)
           legs == ReadyLegs(step, open)
           push == Readied(pushes[p][e], step, open)
           sent == Filled(sendings[p][e], open, content)
<1>1. IntentMoves(p, e, push, sent, pushJobs[p][e], received[p][e], lost[p][e])
  OBVIOUS
<1>2. legs \in [Devices -> Legs]
  BY DEF Legs, ReadyLegs
<1> DEFINE ready(d) == step = "legs" /\ d \in open
<1>3. \A d \in Devices : legs[d] = IF ready(d) THEN "ready" ELSE "none"
  BY DEF ReadyLegs
<1>4. /\ content \subseteq notices[p][e].batch /\ content \subseteq Entries
      /\ \A x \in content : SourceOf(x) \notin cleared
  BY LiveContentFits
<1> HIDE DEF content, legs
<1>5. push \in PushRows /\ push.step = step /\ push.legs = legs
  BY <1>2, PassKnown DEF PushRows, Readied, legs
<1>6. ASSUME NEW d \in Devices
      PROVE  /\ sent[d] \in SendingRows /\ (d \notin open => sent[d] = sendings[p][e][d])
             /\ d \in open => sent[d].state = "pending" /\ sent[d].text = content
             /\ d \in open => sent[d].attempts = sendings[p][e][d].attempts
  <2>1. sendings[p][e][d] \in SendingRows
    BY PassKnown
  <2>2. QED
    BY <1>4, <2>1 DEF SendingRows, SendingStates, Filled
<1>7. sent \in [Devices -> SendingRows]
  BY <1>6 DEF Filled
<1> HIDE DEF push, sent
<1>8. pushes'[p][e] = push /\ sendings'[p][e] = sent
  BY <1>1, PassHas
<1>9. IntentFits(p, e)'
  BY IntentKnown DEF IntentFits, sourceVars, noticeVars
<1>10. ASSUME NEW d \in Devices PROVE LegFits(p, e, d)' /\ SendingFits(p, e, d)'
  <2>1. LegFits(p, e, d) /\ SendingFits(p, e, d)
    BY LegKnown
  <2>2. SendingFits(p, e, d)'
    BY <1>4, <1>6, <1>8, <2>1 DEF SendingFits, SourceOf, sourceVars, noticeVars
  <2>3. d \in open => received[p][e][d] <= lost[p][e][d]
    BY <2>1 DEF LegFits, MayYetBeSent
  <2>4. LegFits(p, e, d)'
    BY <1>3, <1>5, <1>6, <1>8, <2>1, <2>3 DEF LegFits, MayYetBeSent
  <2>5. QED
    BY <2>2, <2>4
<1>11. /\ received[p][e] \in [Devices -> Nat] /\ pushJobs[p][e] \in JobRows
       /\ lost[p][e] \in [Devices -> Nat] /\ devices' \in [Devices -> DeviceRows]
  BY PassKnown
<1>12. QED
  BY <1>1, <1>5, <1>7, <1>9, <1>10, <1>11, PassMoves DEF noticeVars

LEMMA PreparePushDeliveryKeeps ==
  ASSUME NotificationsInv, NEW p \in Persons, NEW e \in Entries, PreparePushDelivery(p, e)
  PROVE  NotificationsInv'
<1> DEFINE content == LiveContent(p, e)
           open == {d \in Enabled(p) : sendings[p][e][d].state \in {"none", "pending"}}
           denied == notices[p][e].state # "delivered" \/ p \notin staff \/ Enabled(p) = {}
<1>1. /\ pushes[p][e].step = "started" /\ UNCHANGED <<sourceVars, noticeVars, devices, received, lost>>
      /\ open \in SUBSET Devices
  BY DEF PreparePushDelivery, Enabled
<1>2. CASE (denied \/ (content # {} /\ open = {})) /\ UNCHANGED sendings
           /\ pushes' = [pushes EXCEPT ![p][e].step = "ok"]
  BY <1>1, <1>2, NothingToSendKeeps
<1>3. CASE /\ sendings' = [sendings EXCEPT ![p][e] = [d \in Devices |-> Suppressed(@[d])]]
           /\ pushes' = [pushes EXCEPT ![p][e].step = "ok"]
  BY <1>1, <1>3, NothingToSendKeeps
<1>4. ASSUME ~denied, NEW step \in {"legs", "fatal"},
             sendings' = [sendings EXCEPT ![p][e] =
               [d \in Devices |-> IF d \in open
                                    THEN [@[d] EXCEPT !.state = "pending", !.text = content]
                                    ELSE @[d]]],
             pushes' = [pushes EXCEPT ![p][e] =
               [@ EXCEPT !.step = step,
                         !.legs = [d \in Devices |-> IF step = "legs" /\ d \in open
                                                       THEN "ready" ELSE "none"]]]
      PROVE  NotificationsInv'
  <2>1. notices[p][e].state = "delivered" /\ \A d \in open : sendings[p][e][d].state \in {"none", "pending"}
    BY <1>4
  <2>2. IntentMoves(p, e, Readied(pushes[p][e], step, open), Filled(sendings[p][e], open, content),
                    pushJobs[p][e], received[p][e], lost[p][e])
    BY <1>1, <1>4, PassStays DEF IntentMoves, Readied, ReadyLegs, Filled, noticeVars
  <2> HIDE DEF open
  <2>3. QED
    BY <1>1, <1>4, <2>1, <2>2, SendingKeeps
<1>5. QED
  BY <1>2, <1>3, <1>4 DEF PreparePushDelivery

\* What the record of a leg makes of its row.
LEMMA CompletedFits ==
  ASSUME NEW row \in SendingRows, NEW report \in Legs,
         row.state = "pending" => row.attempts < LegAttempts
  PROVE  LET new == Completed(row, report) IN
         /\ new \in SendingRows /\ new.text = row.text
         /\ new.state = "none" <=> row.state = "none"
         /\ new.state \notin {"none", "pending"} => new = row \/ new.state # "suppressed"
         /\ row.state # "pending" => new = row
         /\ new.state = "pending" => /\ new.attempts < LegAttempts /\ row.state = "pending"
                                     /\ report \notin {"delivered", "unknown"}
<1> DEFINE new == Completed(row, report)
<1>1. /\ row.attempts \in 0 .. LegAttempts /\ row.state \in SendingStates /\ row.text \subseteq Entries
      /\ LegAttempts \in Nat
  BY NotificationConstants DEF SendingRows
<1>2. CASE row.state = "pending" /\ report \in Reports
  <2> DEFINE attempts == row.attempts + 1
             state == SettleLegOutcome(report, attempts)
  <2>1. attempts \in 0 .. LegAttempts
    BY <1>1, <1>2
  <2>2. /\ state \in {"delivered", "unknown", "pending", "failed"}
        /\ state = "pending" => attempts < LegAttempts /\ report = "retry_later"
    BY <1>2 DEF SettleLegOutcome, Reports
  <2>3. new = [row EXCEPT !.attempts = attempts, !.state = state]
    BY <1>2 DEF Completed
  <2> HIDE DEF attempts, state
  <2>4. /\ new \in SendingRows /\ new.text = row.text /\ new.state = state /\ new.attempts = attempts
    BY <2>1, <2>2, <2>3 DEF SendingRows, SendingStates
  <2> HIDE DEF new
  <2>5. QED
    BY <1>2, <2>2, <2>4 DEF new
<1>3. CASE ~(row.state = "pending" /\ report \in Reports)
  <2>1. new = row
    BY <1>3 DEF Completed
  <2>2. QED
    BY <1>3, <2>1 DEF Reports
<1>4. QED
  BY <1>2, <1>3

LEMMA CompletePushLegsKeeps ==
  ASSUME NotificationsInv, NEW p \in Persons, NEW e \in Entries, CompletePushLegs(p, e)
  PROVE  NotificationsInv'
<1> DEFINE legs == pushes[p][e].legs
           after == [d \in Devices |-> Completed(sendings[p][e][d], legs[d])]
           settles(d) == legs[d] \in Reports /\ sendings[p][e][d].state = "pending"
           again == \E d \in Devices : settles(d) /\ after[d].state = "pending"
           step == IF again THEN "again" ELSE "ok"
           push == [pushes[p][e] EXCEPT !.step = step]
<1>1. /\ pushes[p][e].step = "legs" /\ \A d \in Devices : legs[d] # "ready"
      /\ sendings' = [sendings EXCEPT ![p][e] = after]
      /\ devices' = [d \in Devices |-> IF settles(d) /\ legs[d] = "gone"
                                           THEN [devices[d] EXCEPT !.enabled = FALSE] ELSE devices[d]]
      /\ pushes' = [pushes EXCEPT ![p][e].step = step]
      /\ UNCHANGED <<sourceVars, noticeVars, received, lost>>
  BY DEF CompletePushLegs
<1>2. ASSUME NEW d \in Devices
      PROVE  /\ after[d] \in SendingRows /\ after[d].text = sendings[p][e][d].text
             /\ after[d].state = "none" <=> sendings[p][e][d].state = "none"
             /\ after[d].state = "suppressed" => after[d] = sendings[p][e][d]
             /\ sendings[p][e][d].state # "pending" => after[d] = sendings[p][e][d]
             /\ after[d].state = "pending" => /\ after[d].attempts < LegAttempts
                                              /\ sendings[p][e][d].state = "pending"
                                              /\ legs[d] \notin {"delivered", "unknown"}
  <2>1. /\ sendings[p][e][d] \in SendingRows /\ legs[d] \in Legs
        /\ sendings[p][e][d].state = "pending" => sendings[p][e][d].attempts < LegAttempts
    BY LegKnown DEF SendingFits
  <2>2. after[d] = Completed(sendings[p][e][d], legs[d])
    OBVIOUS
  <2> HIDE DEF after, legs
  <2>3. QED
    BY <2>1, <2>2, CompletedFits
<1>3. after \in [Devices -> SendingRows]
  BY <1>2
<1>4. devices' \in [Devices -> DeviceRows]
  <2>1. devices \in [Devices -> DeviceRows]
    BY PassKnown
  <2> HIDE DEF settles
  <2>2. QED
    BY <1>1, <2>1 DEF DeviceRows
<1>5. step \in {"again", "ok"}
  OBVIOUS
<1> HIDE DEF after, step
<1>6. push \in PushRows /\ push.step = step /\ push.legs = legs
  BY <1>5, PassKnown DEF PushRows
<1>7. IntentMoves(p, e, push, after, pushJobs[p][e], received[p][e], lost[p][e])
  BY <1>1, PassStays DEF IntentMoves, noticeVars
<1> HIDE DEF push, legs
<1>8. pushes'[p][e] = push /\ sendings'[p][e] = after
  BY <1>7, PassHas
<1>9. IntentFits(p, e)'
  BY <1>1, IntentKnown DEF IntentFits, sourceVars, noticeVars
<1>10. ASSUME NEW d \in Devices PROVE LegFits(p, e, d)' /\ SendingFits(p, e, d)'
  <2>1. LegFits(p, e, d) /\ SendingFits(p, e, d)
    BY LegKnown
  <2>2. SendingFits(p, e, d)'
    BY <1>1, <1>2, <1>8, <2>1 DEF SendingFits, SourceOf, sourceVars, noticeVars
  <2>3. after[d].state = "none" => legs[d] = "none"
    BY <1>1, <1>2, <2>1 DEF LegFits, legs
  <2>4. MayYetBeSent(p, e, d)' => received[p][e][d] <= lost[p][e][d]
    BY <1>1, <1>2, <1>8, <2>1, <2>3 DEF LegFits, MayYetBeSent, legs
  <2>5. LegFits(p, e, d)'
    BY <1>1, <1>5, <1>6, <1>8, <2>1, <2>4 DEF LegFits
  <2>6. QED
    BY <2>2, <2>5
<1>11. /\ received[p][e] \in [Devices -> Nat] /\ pushJobs[p][e] \in JobRows
       /\ lost[p][e] \in [Devices -> Nat]
  BY PassKnown
<1>12. QED
  BY <1>1, <1>3, <1>4, <1>6, <1>7, <1>9, <1>10, <1>11, PassMoves DEF noticeVars

-----------------------------------------------------------------------------

LEMMA NotificationsInvStep == NotificationsInv /\ [NotificationsNext]_notificationVars => NotificationsInv'
<1> SUFFICES ASSUME NotificationsInv, [NotificationsNext]_notificationVars PROVE NotificationsInv'
  OBVIOUS
<1>1. ASSUME NEW e \in Entries, EnsureIntents(e) \/ CloseEntry(e) PROVE NotificationsInv'
  BY <1>1, EnsureIntentsKeeps, EntryMovesKeeps
<1>2. ASSUME NEW s \in Sources, AssignSource(s) \/ PurgeSourceEntry(s) \/ PurgeNotificationWork(s)
      PROVE  NotificationsInv'
  BY <1>2, EntryMovesKeeps, PurgeNotificationWorkKeeps
<1>3. ASSUME NEW p \in Persons, EvaluateDueIntents(p) \/ RevokeMember(p) PROVE NotificationsInv'
  BY <1>3, EvaluateDueIntentsKeeps, EntryMovesKeeps
<1>4. ASSUME NEW p \in Persons, NEW s \in Sources, MarkSourceRead(p, s) PROVE NotificationsInv'
  BY <1>4, EntryMovesKeeps
<1>5. ASSUME PushHygiene \/ \E d \in Devices : \/ RevokePushSubscription(d) \/ RevokeSession(d)
                                              \/ \E p \in Persons : RegisterPushSubscription(d, p)
      PROVE  NotificationsInv'
  BY <1>5, DeviceMovesKeeps
<1>6. ASSUME NEW p \in Persons, NEW e \in Entries,
             \/ FallsDue(p, e) \/ StartPushJob(p, e) \/ PushSafetyNet(p, e)
             \/ PreparePushDelivery(p, e) \/ CompletePushLegs(p, e) \/ EndPush(p, e) \/ PushDies(p, e)
      PROVE  NotificationsInv'
  BY <1>6, FallsDueKeeps, StartPushKeeps, PreparePushDeliveryKeeps, CompletePushLegsKeeps,
     EndPushKeeps, PushDiesKeeps
<1>7. ASSUME NEW p \in Persons, NEW e \in Entries, NEW d \in Devices, PostLeg(p, e, d)
      PROVE  NotificationsInv'
  BY <1>7, PostLegKeeps
<1>8. CASE UNCHANGED notificationVars
  <2>1. /\ UNCHANGED <<noticeVars, sendings, pushes, received, lost, cleared>>
        /\ UNCHANGED <<entries, scopes, staff, seen, devices>>
    BY <1>8 DEF notificationVars, sourceVars, pushVars
  <2>2. NotificationsTypeOK'
    BY <2>1 DEF NotificationsInv, NotificationsTypeOK, noticeVars
  <2>3. QED
    BY <2>1, <2>2, OthersMove
<1>9. CASE NotificationsNext
  BY <1>1, <1>2, <1>3, <1>4, <1>5, <1>6, <1>7, <1>9 DEF NotificationsNext
<1>10. QED
  BY <1>8, <1>9

LEMMA NotificationsInvAlways == NotificationsSpec => []NotificationsInv
  BY NotificationsInitially, NotificationsInvStep, PTL DEF NotificationsSpec

(* Intents, rows, push jobs and passes keep their types: no row is sent    *)
(* more than LegAttempts times, no job run more than PushAttempts times    *)
(* (settleLegOutcome, completePushJob).                                    *)
THEOREM NotificationsTypeCorrect == NotificationsSpec => []NotificationsTypeOK
<1>1. NotificationsInv => NotificationsTypeOK
  BY DEF NotificationsInv
<1>2. QED
  BY <1>1, NotificationsInvAlways, PTL

(* A device is told of an intent at most once more than passes died after  *)
(* the push service took its notification (performPreparePushDelivery,     *)
(* settleLegOutcome, completePushJob).                                     *)
THEOREM ToldOnce == NotificationsSpec => []NotifiedOnce
<1>1. NotificationsInv => NotifiedOnce
  BY DEF NotificationsInv, LegFits, NotifiedOnce
<1>2. QED
  BY <1>1, NotificationsInvAlways, PTL

(* After the notification stage of a deleted source no row that is open or *)
(* was given up shows the source, in whatever summary it was               *)
(* (pushIntentAffectedByPurge, payloadInputsOf).                           *)
THEOREM ClearedIsNotShown == NotificationsSpec => []NothingClearedIsPrepared
<1>1. NotificationsInv => NothingClearedIsPrepared
  <2> SUFFICES ASSUME NotificationsInv, NEW s \in cleared, NEW p \in Persons, NEW e \in Entries,
                      NEW d \in Devices, sendings[p][e][d].state \in {"pending", "suppressed"},
                      NEW x \in sendings[p][e][d].text
               PROVE  SourceOf(x) # s
    BY DEF NothingClearedIsPrepared
  <2>1. SendingFits(p, e, d)
    BY DEF NotificationsInv
  <2>2. QED
    BY <2>1 DEF SendingFits
<1>2. QED
  BY <1>1, NotificationsInvAlways, PTL

-----------------------------------------------------------------------------
(* Telemetry.  A firing is new because the alert state of its level counts     *)
(* at least what the events of the month do, and a row of the leg is written   *)
(* by nobody but the tick that ran the forward.                               *)

(* An announced firing is the last of its level and month, and its identity   *)
(* is new: no event has a count above the one its alert state keeps.          *)
CountsAreKept ==
  \A e \in events : e.key \in AlertKeys =>
    LET row == alerts[e.key.period][e.key.level] IN
      IF row = Unset THEN e.key.period < month ELSE e.key.count <= row.fires

(* The batch of a tick is of rows that are not marked, and the sink has them  *)
(* when it said so.                                                           *)
BatchHolds ==
  /\ tick.step \notin {"ingest", "mark"} => tick.batch = {}
  /\ tick.batch \subseteq events
  /\ tick.step = "mark" /\ tick.status = "ok" => \A row \in tick.batch : Name(row) \in ingested
  /\ \A row \in tick.batch : row.forwardedAt = Unset

(* The newest row of the leg is of the last forward.                          *)
LegHolds ==
  IF beats[Sink] = << >> THEN outcome = "never"
  ELSE outcome # "never" /\ beats[Sink][1].forward = outcome

MarkedIsIngested == \A row \in events : row.forwardedAt # Unset => Name(row) \in ingested

TelemetryInv == FiringIsAnnounced /\ CountsAreKept /\ BatchHolds /\ LegHolds /\ MarkedIsIngested

LEMMA TelemetryTypeInit == TelemetryInit => TelemetryTypeOK /\ TelemetryInv
  BY TelemetryNumbers DEF TelemetryInit, TelemetryTypeOK, Times, Periods, Ticks, NoTick, TelemetryInv,
    FiringIsAnnounced, CountsAreKept, BatchHolds, LegHolds, MarkedIsIngested

(* What is written are rows of events (emitDiagnosticEvent).                  *)
LEMMA EmitsRows ==
  ASSUME NEW keys \in SUBSET (Keys \union {Unset}), TelemetryTypeOK, EmitDiagnosticEvent(keys)
  PROVE  events' \subseteq EventRows /\ written' \in Nat
  BY DEF EmitDiagnosticEvent, TelemetryTypeOK, EventRows

(* A heartbeat is the newest of a bounded tail (insertHeartbeatTailPruned).   *)
LEMMA HeartbeatIsNewest ==
  ASSUME NEW s \in Services, NEW row \in Beats, TelemetryTypeOK, InsertHeartbeat(s, row)
  PROVE  /\ beats' \in [Services -> Seq(Beats)]
         /\ beats'[s] # << >> /\ beats'[s][1] = row
         /\ \A v \in Services \ {s} : beats'[v] = beats[v]
<1> DEFINE all == <<row>> \o beats[s]
           n == IF Len(beats[s]) < TailKept THEN Len(beats[s]) + 1 ELSE TailKept
<1>1. beats[s] \in Seq(Beats) /\ beats \in [Services -> Seq(Beats)]
  BY DEF TelemetryTypeOK
<1>2. all \in Seq(Beats) /\ Len(all) = Len(beats[s]) + 1 /\ all[1] = row
  BY <1>1
<1>3. n \in 1 .. Len(all)
  BY <1>1, <1>2, TelemetryNumbers
<1>4. beats' = [beats EXCEPT ![s] = SubSeq(all, 1, n)]
  BY DEF InsertHeartbeat
<1> HIDE DEF all, n
<1>5. /\ SubSeq(all, 1, n) \in Seq(Beats)
      /\ Len(SubSeq(all, 1, n)) = n
      /\ SubSeq(all, 1, n)[1] = all[1]
  BY <1>2, <1>3, SubSeqProperties
<1>6. beats'[s] = SubSeq(all, 1, n) /\ \A v \in Services \ {s} : beats'[v] = beats[v]
  BY <1>1, <1>4
<1>7. beats' \in [Services -> Seq(Beats)]
  BY <1>1, <1>4, <1>5
<1>8. SubSeq(all, 1, n) # << >>
  BY <1>3, <1>5, <1>2
<1> QED
  BY <1>2, <1>5, <1>6, <1>7, <1>8

LEMMA BeatSent ==
  ASSUME NEW status \in {"ok", "degraded"}, TelemetryTypeOK
  PROVE  [at |-> clock, status |-> status, forward |-> Unset] \in Beats
  BY DEF TelemetryTypeOK, Beats

LEMMA BeatOfTheTick ==
  ASSUME TelemetryTypeOK
  PROVE  [at |-> tick.at, forward |-> tick.status,
          status |-> IF tick.status \in {Unset, "ok"} THEN "ok" ELSE "degraded"] \in Beats
  BY DEF TelemetryTypeOK, Ticks, Beats

LEMMA MarkedIsARow ==
  ASSUME TelemetryTypeOK, NEW row \in EventRows
  PROVE  /\ Marked(row) \in EventRows
         /\ Marked(row).key = row.key /\ Marked(row).at = row.at /\ Name(Marked(row)) = Name(row)
         /\ tick.status # "ok" => Marked(row).forwardedAt = row.forwardedAt
  BY DEF TelemetryTypeOK, Ticks, EventRows, Marked, Name, Statuses

LEMMA FiresInType ==
  ASSUME TelemetryTypeOK, NEW p \in Periods, NEW l \in Levels
  PROVE  /\ FireCount(alerts[p][l]) \in Nat
         /\ alerts[p][l] # Unset => alerts[p][l] \in AlertRows
  BY DEF TelemetryTypeOK, FireCount, AlertRows

LEMMA NewestIsABeat ==
  ASSUME TelemetryTypeOK, NEW s \in Services, beats[s] # << >>
  PROVE  beats[s][1] \in Beats
<1>1. beats[s] \in Seq(Beats)
  BY DEF TelemetryTypeOK
<1> QED
  BY <1>1

LEMMA NoTickIsATick == NoTick \in Ticks
  BY TelemetryNumbers DEF NoTick, Ticks, Times

LEMMA TelemetryTypeStep ==
  ASSUME TelemetryTypeOK, [TelemetryNext]_<<telemetryVars, telemetryHistory>>
  PROVE  TelemetryTypeOK'
<1>1. CASE RecordEvent
  <2>1. events' \subseteq EventRows /\ written' \in Nat
    BY <1>1, EmitsRows DEF RecordEvent
  <2> QED
    BY <1>1, <2>1 DEF RecordEvent, TelemetryTypeOK, telemetryHistory
<1>2. ASSUME NEW s \in Services, NEW status \in {"ok", "degraded"}, RecordHeartbeat(s, status)
      PROVE  TelemetryTypeOK'
  <2>1. events' \subseteq EventRows /\ written' \in Nat
    BY <1>2, EmitsRows DEF RecordHeartbeat
  <2>2. beats' \in [Services -> Seq(Beats)]
    BY <1>2, BeatSent, HeartbeatIsNewest DEF RecordHeartbeat
  <2> QED
    BY <1>2, <2>1, <2>2 DEF RecordHeartbeat, TelemetryTypeOK, telemetryHistory
<1>3. ASSUME NEW amount \in Amounts, NEW period \in Periods, RecordCostEntry(amount, period)
      PROVE  TelemetryTypeOK'
  <2>1. \A b \in Bills : {[of |-> "bill", bill |-> b]} \in SUBSET (Keys \union {Unset})
    BY DEF Keys, BillKeys
  <2>2. events' \subseteq EventRows /\ written' \in Nat
    BY <1>3, <2>1, EmitsRows DEF RecordCostEntry
  <2>3. spent' \in [Periods -> Nat]
    <3>1. amount \in Nat /\ spent \in [Periods -> Nat]
      BY TelemetryNumbers DEF TelemetryTypeOK
    <3>2. spent' = [spent EXCEPT ![period] = @ + amount]
      BY <1>3 DEF RecordCostEntry
    <3> QED
      BY <3>1, <3>2
  <2>4. billed' \subseteq [bill : Bills, period : Periods]
    <3>1. billed \subseteq [bill : Bills, period : Periods]
      BY DEF TelemetryTypeOK
    <3>2. billed' = billed \/ \E b \in Bills : billed' = billed \union {[bill |-> b, period |-> period]}
      BY <1>3 DEF RecordCostEntry
    <3> QED
      BY <3>1, <3>2
  <2> QED
    BY <1>3, <2>2, <2>3, <2>4 DEF RecordCostEntry, TelemetryTypeOK, telemetryHistory
<1>4. CASE ScanIncidents
  <2>1. {[of |-> "incident", trouble |-> x] : x \in standing} \in SUBSET (Keys \union {Unset})
    BY DEF Keys, IncidentKeys, TelemetryTypeOK
  <2>2. events' \subseteq EventRows /\ written' \in Nat
    BY <1>4, <2>1, EmitsRows DEF ScanIncidents
  <2>3. tick' \in Ticks
    BY <1>4 DEF ScanIncidents, TickGoes, TelemetryTypeOK, Ticks
  <2> QED
    BY <1>4, <2>2, <2>3 DEF ScanIncidents, TelemetryTypeOK, telemetryHistory
<1>5. CASE DetectSilence
  <2>1. \A s \in Services : Silent(s) => beats[s][1].at \in Times
    BY NewestIsABeat DEF Silent, Beats
  <2>2. {[of |-> "silence", service |-> s, since |-> beats[s][1].at] : s \in {v \in Services : Silent(v)}}
          \in SUBSET (Keys \union {Unset})
    BY <2>1 DEF Keys, SilenceKeys
  <2>3. events' \subseteq EventRows /\ written' \in Nat
    BY <1>5, <2>2, EmitsRows DEF DetectSilence
  <2>4. tick' \in Ticks
    BY <1>5 DEF DetectSilence, TickGoes, TelemetryTypeOK, Ticks
  <2> QED
    BY <1>5, <2>3, <2>4 DEF DetectSilence, TelemetryTypeOK, telemetryHistory
<1>6. CASE EvaluateCostAlerts
  <2>1. \A l \in Levels : Firing(l) \in AlertKeys
    BY FiresInType DEF Firing, AlertKeys, TelemetryTypeOK
  <2>2. {Firing(l) : l \in Fires} \in SUBSET (Keys \union {Unset})
    BY <2>1 DEF Keys, Fires
  <2>3. events' \subseteq EventRows /\ written' \in Nat
    BY <1>6, <2>2, EmitsRows DEF EvaluateCostAlerts
  <2>4. tick' \in Ticks
    BY <1>6 DEF EvaluateCostAlerts, TickGoes, TelemetryTypeOK, Ticks
  <2>5. \A l \in Levels : [last |-> clock, fires |-> FireCount(alerts[month][l]) + 1] \in AlertRows
    BY FiresInType DEF TelemetryTypeOK, AlertRows
  <2>6. alerts' \in [Periods -> [Levels -> AlertRows \union {Unset}]]
    BY <1>6, <2>5 DEF EvaluateCostAlerts, TelemetryTypeOK
  <2> QED
    BY <1>6, <2>3, <2>4, <2>6 DEF EvaluateCostAlerts, TelemetryTypeOK, telemetryHistory
<1>7. CASE PruneExpired
  <2>1. events' \subseteq EventRows
    BY <1>7 DEF PruneExpired, TelemetryTypeOK
  <2>2. spent' \in [Periods -> Nat] /\ billed' \subseteq [bill : Bills, period : Periods]
    BY <1>7 DEF PruneExpired, TelemetryTypeOK
  <2>3. alerts' \in [Periods -> [Levels -> AlertRows \union {Unset}]]
    BY <1>7 DEF PruneExpired, TelemetryTypeOK
  <2>4. tick' \in Ticks
    BY <1>7 DEF PruneExpired, TickGoes, TelemetryTypeOK, Ticks
  <2> QED
    BY <1>7, <2>1, <2>2, <2>3, <2>4 DEF PruneExpired, TelemetryTypeOK, telemetryHistory
<1>8. CASE UnforwardedRecent
  <2>1. \A batch \in Newest(Recent, ForwardBatch) : batch \subseteq EventRows
    BY DEF Newest, Picks, Recent, TelemetryTypeOK
  <2>2. tick' \in Ticks
    BY <1>8, <2>1 DEF UnforwardedRecent, TelemetryTypeOK, Ticks
  <2> QED
    BY <1>8, <2>2 DEF UnforwardedRecent, TelemetryTypeOK, telemetryHistory
<1>9. CASE Ingest
  <2>1. \A row \in tick.batch : Name(row) \in Names
    BY DEF Name, Names, TelemetryTypeOK, Ticks, EventRows
  <2>2. ingested' \subseteq Names
    BY <1>9, <2>1 DEF Ingest, TelemetryTypeOK
  <2>3. tick' \in Ticks
    BY <1>9 DEF Ingest, TelemetryTypeOK, Ticks
  <2> QED
    BY <1>9, <2>2, <2>3 DEF Ingest, TelemetryTypeOK
<1>10. CASE MarkForwarded
  <2>1. \A row \in tick.batch : Marked(row) \in EventRows
    BY MarkedIsARow DEF TelemetryTypeOK, Ticks
  <2>2. events' \subseteq EventRows
    BY <1>10, <2>1 DEF MarkForwarded, TelemetryTypeOK
  <2>3. beats' \in [Services -> Seq(Beats)]
    BY <1>10, BeatOfTheTick, HeartbeatIsNewest, TelemetryNumbers DEF MarkForwarded
  <2>4. tick' \in Ticks /\ outcome' \in Statuses \union {Unset, "never"}
    BY <1>10, NoTickIsATick DEF MarkForwarded, TelemetryTypeOK, Ticks
  <2> QED
    BY <1>10, <2>2, <2>3, <2>4 DEF MarkForwarded, TelemetryTypeOK
<1>11. CASE TickDies
  BY <1>11, NoTickIsATick DEF TickDies, TelemetryTypeOK, telemetryHistory
<1>12. CASE TimePasses
  BY <1>12, TelemetryNumbers DEF TimePasses, TelemetryTypeOK, telemetryHistory, Times
<1>13. ASSUME NEW x \in Troubles, TroubleTurns(x) PROVE TelemetryTypeOK'
  BY <1>13 DEF TroubleTurns, TelemetryTypeOK, telemetryHistory
<1>14. CASE UNCHANGED <<telemetryVars, telemetryHistory>>
  BY <1>14 DEF TelemetryTypeOK, telemetryVars, telemetryHistory
<1> QED
  BY <1>1, <1>2, <1>3, <1>4, <1>5, <1>6, <1>7, <1>8, <1>9, <1>10, <1>11, <1>12, <1>13, <1>14
    DEF TelemetryNext

(* Every variable keeps its type (operations/telemetry).                      *)
THEOREM TelemetryTypeCorrect == TelemetrySpec => []TelemetryTypeOK
  BY TelemetryTypeInit, TelemetryTypeStep, PTL DEF TelemetrySpec

(* Rows that are no firing disturb nothing (emitDiagnosticEvent).             *)
LEMMA EmitKeeps ==
  ASSUME NEW keys, \A k \in keys : k \notin AlertKeys,
         TelemetryTypeOK, TelemetryInv, EmitDiagnosticEvent(keys),
         UNCHANGED <<clock, month, alerts, tick, telemetryHistory>>
  PROVE  (FiringIsAnnounced /\ CountsAreKept /\ BatchHolds /\ MarkedIsIngested)'
<1>1. /\ events \subseteq events'
      /\ \A e \in events' \ events : e.key \in keys /\ e.forwardedAt = Unset
  BY DEF EmitDiagnosticEvent
<1>2. FiringIsAnnounced'
  BY <1>1 DEF TelemetryInv, FiringIsAnnounced
<1>3. CountsAreKept'
  BY <1>1 DEF TelemetryInv, CountsAreKept
<1>4. BatchHolds'
  BY <1>1 DEF TelemetryInv, BatchHolds, telemetryHistory
<1>5. MarkedIsIngested'
  BY <1>1 DEF TelemetryInv, MarkedIsIngested, telemetryHistory
<1> QED
  BY <1>2, <1>3, <1>4, <1>5

(* The same when a step of the tick writes them.                              *)
LEMMA TickEmitKeeps ==
  ASSUME NEW keys, \A k \in keys : k \notin AlertKeys, NEW step \in {"silence", "costs"},
         TelemetryTypeOK, TelemetryInv, EmitDiagnosticEvent(keys),
         tick.step \in {"idle", "silence"}, TickGoes(step),
         UNCHANGED <<clock, month, alerts, beats, telemetryHistory>>
  PROVE  TelemetryInv'
<1>1. /\ events \subseteq events'
      /\ \A e \in events' \ events : e.key \in keys /\ e.forwardedAt = Unset
  BY DEF EmitDiagnosticEvent
<1>2. FiringIsAnnounced'
  BY <1>1 DEF TelemetryInv, FiringIsAnnounced
<1>3. CountsAreKept'
  BY <1>1 DEF TelemetryInv, CountsAreKept
<1>4. BatchHolds'
  BY <1>1 DEF TelemetryInv, BatchHolds, TickGoes, TelemetryTypeOK, Ticks
<1>5. MarkedIsIngested' /\ LegHolds'
  BY <1>1 DEF TelemetryInv, MarkedIsIngested, LegHolds, telemetryHistory
<1> QED
  BY <1>2, <1>3, <1>4, <1>5 DEF TelemetryInv

LEMMA LegStands ==
  ASSUME TelemetryInv, beats'[Sink] = beats[Sink], UNCHANGED outcome
  PROVE  LegHolds'
  BY DEF TelemetryInv, LegHolds

(* A firing is new: no event has its identity (costAlertDedupKey).            *)
LEMMA FiringIsNew ==
  ASSUME TelemetryTypeOK, TelemetryInv, NEW l \in Levels
  PROVE  /\ Firing(l) \in AlertKeys /\ Firing(l) \notin Known
         /\ Firing(l).level = l /\ Firing(l).period = month
         /\ Firing(l).count = FireCount(alerts[month][l]) + 1
<1>1. month \in Periods /\ month \in Nat
  BY TelemetryNumbers DEF TelemetryTypeOK, Periods
<1>2. FireCount(alerts[month][l]) \in Nat
  BY <1>1, FiresInType
<1>3. /\ Firing(l) \in AlertKeys
      /\ Firing(l).level = l /\ Firing(l).period = month
      /\ Firing(l).count = FireCount(alerts[month][l]) + 1
  BY <1>1, <1>2 DEF Firing, AlertKeys
<1>4. ASSUME NEW e \in events, e.key = Firing(l) PROVE FALSE
  <2>1. e.key \in AlertKeys /\ e.key.level = l /\ e.key.period = month
    BY <1>3, <1>4
  <2>2. IF alerts[month][l] = Unset THEN month < month ELSE e.key.count <= alerts[month][l].fires
    BY <2>1 DEF TelemetryInv, CountsAreKept
  <2> QED
    BY <1>1, <1>2, <1>3, <1>4, <2>2 DEF FireCount
<1> QED
  BY <1>3, <1>4 DEF Known

LEMMA AlertsKeep ==
  ASSUME TelemetryTypeOK, TelemetryInv, EvaluateCostAlerts
  PROVE  TelemetryInv'
<1> DEFINE keys == {Firing(l) : l \in Fires}
<1>1. EmitDiagnosticEvent(keys) /\ UNCHANGED <<clock, month, beats, telemetryHistory>>
  BY DEF EvaluateCostAlerts
<1>2. month \in Periods /\ month \in Nat /\ clock \in Nat
  BY TelemetryNumbers DEF TelemetryTypeOK, Periods, Times
<1>3. /\ events \subseteq events'
      /\ \A e \in events' \ events : e.key \in keys /\ e.forwardedAt = Unset
      /\ \A k \in keys : k \notin Known => \E e \in events' : e.key = k /\ e.at = clock
  <2> DEFINE row(k) == [no |-> written + 1, key |-> k, at |-> clock, forwardedAt |-> Unset, status |-> Unset]
  <2>1. events' = events \union {row(k) : k \in keys \ Known}
    BY <1>1 DEF EmitDiagnosticEvent
  <2>2. \A k \in keys : row(k).key = k /\ row(k).at = clock /\ row(k).forwardedAt = Unset
    OBVIOUS
  <2> HIDE DEF row, keys
  <2> QED
    BY <2>1, <2>2
<1> HIDE DEF keys
<1>4. \A p \in Periods, l \in Levels :
        alerts'[p][l] = IF p = month /\ l \in Fires
                        THEN [last |-> clock, fires |-> FireCount(alerts[month][l]) + 1] ELSE alerts[p][l]
  BY <1>2 DEF EvaluateCostAlerts, TelemetryTypeOK
<1>4a. \A l \in Fires : l \in Levels /\ alerts'[month][l].last = clock
                        /\ alerts'[month][l].fires = FireCount(alerts[month][l]) + 1
                        /\ alerts'[month][l] \in AlertRows
  <2> SUFFICES ASSUME NEW l \in Fires
               PROVE  l \in Levels /\ alerts'[month][l].last = clock
                        /\ alerts'[month][l].fires = FireCount(alerts[month][l]) + 1
                        /\ alerts'[month][l] \in AlertRows
    OBVIOUS
  <2>1. l \in Levels
    BY DEF Fires
  <2>2. alerts'[month][l] = [last |-> clock, fires |-> FireCount(alerts[month][l]) + 1]
    BY <1>2, <1>4, <2>1
  <2>3. clock \in Times /\ FireCount(alerts[month][l]) \in Nat
    BY <1>2, <2>1, FiresInType DEF TelemetryTypeOK
  <2> QED
    BY <2>1, <2>2, <2>3 DEF AlertRows
<1>5. FiringIsAnnounced'
  <2> SUFFICES ASSUME NEW p \in Periods, NEW l \in Levels, alerts'[p][l] # Unset,
                      ~(alerts'[p][l].last + KeptFor < clock')
               PROVE  \E e \in events' : e.at = alerts'[p][l].last
                        /\ e.key = [of |-> "alert", level |-> l, period |-> p, count |-> alerts'[p][l].fires]
    BY DEF FiringIsAnnounced
  <2>1. CASE p = month /\ l \in Fires
    <3>1. alerts'[p][l].last = clock /\ alerts'[p][l].fires = FireCount(alerts[month][l]) + 1
      BY <1>4a, <2>1
    <3>2. Firing(l) \in keys /\ Firing(l) \notin Known
      BY <2>1, FiringIsNew DEF keys
    <3> QED
      BY <1>3, <2>1, <3>1, <3>2 DEF Firing
  <2>2. CASE ~(p = month /\ l \in Fires)
    <3>1. alerts'[p][l] = alerts[p][l] /\ clock' = clock
      BY <1>1, <1>4, <2>2
    <3>2. \E e \in events : e.at = alerts[p][l].last
             /\ e.key = [of |-> "alert", level |-> l, period |-> p, count |-> alerts[p][l].fires]
      BY <3>1 DEF TelemetryInv, FiringIsAnnounced
    <3> QED
      BY <1>3, <3>1, <3>2
  <2> QED
    BY <2>1, <2>2
<1>6. CountsAreKept'
  <2> SUFFICES ASSUME NEW e \in events', e.key \in AlertKeys
               PROVE  IF alerts'[e.key.period][e.key.level] = Unset THEN e.key.period < month
                      ELSE e.key.count <= alerts'[e.key.period][e.key.level].fires
    BY <1>1 DEF CountsAreKept
  <2>0. e.key.period \in Periods /\ e.key.level \in Levels /\ e.key.count \in Nat
    BY DEF AlertKeys
  <2>1. CASE e.key \in keys
    <3>1. PICK l \in Fires : e.key = Firing(l)
      BY <2>1 DEF keys
    <3>2. l \in Levels
      BY DEF Fires
    <3>3. alerts'[month][l].fires = FireCount(alerts[month][l]) + 1 /\ alerts'[month][l] \in AlertRows
      BY <1>4a
    <3>4. alerts'[month][l] # Unset
      BY <3>3, UnsetIsNoRow
    <3>5. e.key.period = month /\ e.key.level = l /\ e.key.count = FireCount(alerts[month][l]) + 1
      BY <3>1, <3>2, FiringIsNew
    <3>6. FireCount(alerts[month][l]) \in Nat
      BY <1>2, <3>2, FiresInType
    <3> QED
      BY <3>3, <3>4, <3>5, <3>6
  <2>2. CASE e \in events
    <3> DEFINE row == alerts[e.key.period][e.key.level]
    <3>1. IF row = Unset THEN e.key.period < month ELSE e.key.count <= row.fires
      BY <2>2 DEF TelemetryInv, CountsAreKept
    <3>2. CASE e.key.period = month /\ e.key.level \in Fires
      <4>1. row # Unset /\ e.key.count <= row.fires /\ row.fires \in Nat
        BY <1>2, <2>0, <3>1, <3>2, FiresInType DEF AlertRows
      <4>2. alerts'[e.key.period][e.key.level] = [last |-> clock, fires |-> row.fires + 1]
        BY <1>4, <2>0, <3>2, <4>1 DEF FireCount
      <4>3. [last |-> clock, fires |-> row.fires + 1] \in AlertRows
        BY <4>1 DEF TelemetryTypeOK, AlertRows
      <4> QED
        BY <2>0, <4>1, <4>2, <4>3, UnsetIsNoRow
    <3>3. CASE ~(e.key.period = month /\ e.key.level \in Fires)
      BY <1>4, <2>0, <3>1, <3>3
    <3> QED
      BY <3>2, <3>3
  <2> QED
    BY <1>3, <2>1, <2>2
<1>7. MarkedIsIngested' /\ LegHolds'
  <2>1. MarkedIsIngested'
    BY <1>1, <1>3 DEF TelemetryInv, MarkedIsIngested, telemetryHistory
  <2>2. LegHolds'
    BY <1>1, LegStands DEF telemetryHistory
  <2> QED
    BY <2>1, <2>2
<1>8. BatchHolds'
  <2>1. tick.step = "costs" /\ tick' = [tick EXCEPT !.step = "prune"]
    BY DEF EvaluateCostAlerts, TickGoes
  <2> QED
    BY <1>1, <1>3, <2>1 DEF TelemetryInv, BatchHolds, TelemetryTypeOK, Ticks
<1> QED
  BY <1>5, <1>6, <1>7, <1>8 DEF TelemetryInv

(* Pruning takes only what is past its retention (pruneExpired).              *)
LEMMA PruneKeeps ==
  ASSUME TelemetryTypeOK, TelemetryInv, PruneExpired
  PROVE  TelemetryInv'
<1>0. month \in Periods /\ month \in Nat /\ Horizon \in Nat /\ \A p \in Periods : p \in Nat
  BY TelemetryNumbers DEF TelemetryTypeOK, Periods
<1>1. PICK gone \in Oldest(Outdated, PruneBatch) : events' = events \ gone
  BY DEF PruneExpired
<1>2. /\ UNCHANGED <<clock, month, beats, ingested, outcome>>
      /\ tick.step = "prune" /\ tick' = [tick EXCEPT !.step = "read"]
      /\ alerts' = [p \in Periods |-> IF p + Horizon >= month THEN alerts[p] ELSE [l \in Levels |-> Unset]]
  BY DEF PruneExpired, TickGoes, telemetryHistory
<1>3. /\ events' \subseteq events
      /\ \A e \in events \ events' : e.at + KeptFor < clock
  BY <1>1 DEF Oldest, Picks, Outdated
<1>4. FiringIsAnnounced'
  BY <1>2, <1>3 DEF TelemetryInv, FiringIsAnnounced
<1>5. CountsAreKept'
  <2> SUFFICES ASSUME NEW e \in events, e.key \in AlertKeys
               PROVE  IF alerts'[e.key.period][e.key.level] = Unset THEN e.key.period < month
                      ELSE e.key.count <= alerts'[e.key.period][e.key.level].fires
    BY <1>2, <1>3 DEF CountsAreKept
  <2>1. e.key.period \in Periods /\ e.key.level \in Levels
    BY DEF AlertKeys
  <2>2. IF alerts[e.key.period][e.key.level] = Unset THEN e.key.period < month
        ELSE e.key.count <= alerts[e.key.period][e.key.level].fires
    BY DEF TelemetryInv, CountsAreKept
  <2> QED
    BY <1>0, <1>2, <2>1, <2>2
<1>6. BatchHolds'
  BY <1>2 DEF TelemetryInv, BatchHolds, TelemetryTypeOK, Ticks
<1>7. MarkedIsIngested' /\ LegHolds'
  BY <1>2, <1>3, LegStands DEF TelemetryInv, MarkedIsIngested
<1> QED
  BY <1>4, <1>5, <1>6, <1>7 DEF TelemetryInv

(* The rows are marked with what the sink answered for them                   *)
(* (performMarkForwarded).                                                    *)
LEMMA MarkKeeps ==
  ASSUME TelemetryTypeOK, TelemetryInv, MarkForwarded
  PROVE  TelemetryInv'
<1>1. /\ UNCHANGED <<clock, month, alerts, ingested>>
      /\ tick.step = "mark" /\ tick' = NoTick /\ outcome' = tick.status
      /\ events' = (events \ tick.batch) \union {Marked(row) : row \in tick.batch}
  BY DEF MarkForwarded
<1>2. tick.batch \subseteq events /\ events \subseteq EventRows
  BY DEF TelemetryInv, BatchHolds, TelemetryTypeOK
<1>3. \A e \in events : \E f \in events' : f.key = e.key /\ f.at = e.at
  BY <1>1, <1>2, MarkedIsARow
<1>4. \A f \in events' : \E e \in events : f.key = e.key
  BY <1>1, <1>2, MarkedIsARow
<1>5. FiringIsAnnounced'
  BY <1>1, <1>3 DEF TelemetryInv, FiringIsAnnounced
<1>6. CountsAreKept'
  BY <1>1, <1>4 DEF TelemetryInv, CountsAreKept
<1>7. BatchHolds'
  BY <1>1 DEF BatchHolds, NoTick
<1>8. MarkedIsIngested'
  <2>1. ASSUME NEW row \in tick.batch, Marked(row).forwardedAt # Unset PROVE Name(Marked(row)) \in ingested
    <3>1. row \in EventRows /\ row.forwardedAt = Unset
      BY <1>2 DEF TelemetryInv, BatchHolds
    <3>2. tick.status = "ok"
      BY <2>1, <3>1, MarkedIsARow
    <3> QED
      BY <1>1, <3>1, <3>2, MarkedIsARow DEF TelemetryInv, BatchHolds
  <2> QED
    BY <1>1, <2>1 DEF TelemetryInv, MarkedIsIngested
<1>9. LegHolds'
  <2>1. beats'[Sink] # << >> /\ beats'[Sink][1].forward = tick.status
    BY BeatOfTheTick, HeartbeatIsNewest, TelemetryNumbers DEF MarkForwarded
  <2>2. tick.status # "never"
    BY TelemetryNumbers DEF TelemetryTypeOK, Ticks, Statuses
  <2> QED
    BY <1>1, <2>1, <2>2 DEF LegHolds
<1> QED
  BY <1>5, <1>6, <1>7, <1>8, <1>9 DEF TelemetryInv

LEMMA TelemetryInvStep ==
  ASSUME TelemetryTypeOK, TelemetryInv, [TelemetryNext]_<<telemetryVars, telemetryHistory>>
  PROVE  TelemetryInv'
<1>1. CASE RecordEvent
  <2>1. Unset \notin AlertKeys
    BY UnsetIsNoRow
  <2>2. (FiringIsAnnounced /\ CountsAreKept /\ BatchHolds /\ MarkedIsIngested)'
    BY <1>1, <2>1, EmitKeeps DEF RecordEvent
  <2>3. LegHolds'
    BY <1>1, LegStands DEF RecordEvent, telemetryHistory
  <2> QED
    BY <2>2, <2>3 DEF TelemetryInv
<1>2. ASSUME NEW s \in Services, NEW status \in {"ok", "degraded"}, RecordHeartbeat(s, status)
      PROVE  TelemetryInv'
  <2>1. Unset \notin AlertKeys
    BY UnsetIsNoRow
  <2>2. (FiringIsAnnounced /\ CountsAreKept /\ BatchHolds /\ MarkedIsIngested)'
    BY <1>2, <2>1, EmitKeeps DEF RecordHeartbeat
  <2>3. beats'[Sink] = beats[Sink]
    BY <1>2, BeatSent, HeartbeatIsNewest, TelemetryNumbers DEF RecordHeartbeat, MayReport
  <2>4. LegHolds'
    BY <1>2, <2>3, LegStands DEF RecordHeartbeat, telemetryHistory
  <2> QED
    BY <2>2, <2>4 DEF TelemetryInv
<1>3. ASSUME NEW amount \in Amounts, NEW period \in Periods, RecordCostEntry(amount, period)
      PROVE  TelemetryInv'
  <2>1. Unset \notin AlertKeys /\ \A b \in Bills : [of |-> "bill", bill |-> b] \notin AlertKeys
    BY UnsetIsNoRow DEF AlertKeys
  <2>2. /\ UNCHANGED <<clock, month, beats, alerts, tick, telemetryHistory>>
        /\ \/ EmitDiagnosticEvent({Unset})
           \/ \E b \in Bills : EmitDiagnosticEvent({[of |-> "bill", bill |-> b]})
    BY <1>3 DEF RecordCostEntry
  <2>3. (FiringIsAnnounced /\ CountsAreKept /\ BatchHolds /\ MarkedIsIngested)'
    <3>1. CASE EmitDiagnosticEvent({Unset})
      BY <2>1, <2>2, <3>1, EmitKeeps
    <3>2. ASSUME NEW b \in Bills, EmitDiagnosticEvent({[of |-> "bill", bill |-> b]})
          PROVE  (FiringIsAnnounced /\ CountsAreKept /\ BatchHolds /\ MarkedIsIngested)'
      BY <2>1, <2>2, <3>2, EmitKeeps
    <3> QED
      BY <2>2, <3>1, <3>2
  <2>4. LegHolds'
    BY <2>2, LegStands DEF telemetryHistory
  <2> QED
    BY <2>3, <2>4 DEF TelemetryInv
<1>4. CASE ScanIncidents
  <2> DEFINE keys == {[of |-> "incident", trouble |-> x] : x \in standing}
  <2>1. \A k \in keys : k \notin AlertKeys
    BY DEF AlertKeys
  <2>2. /\ EmitDiagnosticEvent(keys) /\ TickGoes("silence") /\ tick.step = "idle"
        /\ UNCHANGED <<clock, month, alerts, beats, telemetryHistory>>
    BY <1>4 DEF ScanIncidents
  <2> HIDE DEF keys
  <2> QED
    BY <2>1, <2>2, TickEmitKeeps
<1>5. CASE DetectSilence
  <2> DEFINE keys == {[of |-> "silence", service |-> s, since |-> beats[s][1].at] :
                        s \in {v \in Services : Silent(v)}}
  <2>1. \A k \in keys : k \notin AlertKeys
    BY DEF AlertKeys
  <2>2. /\ EmitDiagnosticEvent(keys) /\ TickGoes("costs") /\ tick.step = "silence"
        /\ UNCHANGED <<clock, month, alerts, beats, telemetryHistory>>
    BY <1>5 DEF DetectSilence
  <2> HIDE DEF keys
  <2> QED
    BY <2>1, <2>2, TickEmitKeeps
<1>6. CASE EvaluateCostAlerts
  BY <1>6, AlertsKeep
<1>7. CASE PruneExpired
  BY <1>7, PruneKeeps
<1>8. CASE UnforwardedRecent
  <2>1. /\ tick'.batch \subseteq events /\ tick'.status = Unset /\ tick'.step \in {"mark", "ingest"}
        /\ \A row \in tick'.batch : row.forwardedAt = Unset
        /\ UNCHANGED <<clock, month, events, beats, alerts, ingested, outcome>>
    BY <1>8 DEF UnforwardedRecent, Newest, Picks, Recent, telemetryHistory
  <2>2. BatchHolds'
    BY <2>1, TelemetryNumbers DEF BatchHolds
  <2> QED
    BY <2>1, <2>2 DEF TelemetryInv, FiringIsAnnounced, CountsAreKept, LegHolds, MarkedIsIngested
<1>9. CASE Ingest
  <2>1. PICK status \in Statuses, took \in BOOLEAN :
          /\ status = "ok" => took
          /\ ingested' = IF took THEN ingested \union {Name(row) : row \in tick.batch} ELSE ingested
          /\ tick' = [tick EXCEPT !.step = "mark", !.status = status]
    BY <1>9 DEF Ingest
  <2>2. UNCHANGED <<clock, month, events, beats, alerts, outcome>> /\ tick.step = "ingest"
    BY <1>9 DEF Ingest
  <2>3. tick'.batch = tick.batch /\ tick'.step = "mark" /\ tick'.status = status
    BY <2>1 DEF TelemetryTypeOK, Ticks
  <2>4. BatchHolds'
    BY <2>1, <2>2, <2>3 DEF TelemetryInv, BatchHolds
  <2>5. MarkedIsIngested'
    BY <2>1, <2>2 DEF TelemetryInv, MarkedIsIngested
  <2> QED
    BY <2>2, <2>4, <2>5 DEF TelemetryInv, FiringIsAnnounced, CountsAreKept, LegHolds
<1>10. CASE MarkForwarded
  BY <1>10, MarkKeeps
<1>11. CASE TickDies
  BY <1>11 DEF TickDies, NoTick, TelemetryInv, FiringIsAnnounced, CountsAreKept, BatchHolds, LegHolds,
    MarkedIsIngested, telemetryHistory
<1>12. CASE TimePasses
  <2>1. /\ clock' = clock + 1 /\ month' \in {month, month + 1}
        /\ UNCHANGED <<events, beats, alerts, tick, ingested, outcome>>
    BY <1>12 DEF TimePasses, telemetryHistory
  <2>2. /\ clock \in Nat /\ month \in Nat /\ KeptFor \in Nat /\ \A p \in Periods : p \in Nat
    BY TelemetryNumbers DEF TelemetryTypeOK, Periods, Times
  <2>3. \A p \in Periods, l \in Levels : alerts[p][l] # Unset => alerts[p][l].last \in Nat
    BY FiresInType DEF AlertRows, Times
  <2>4. FiringIsAnnounced'
    BY <2>1, <2>2, <2>3 DEF TelemetryInv, FiringIsAnnounced
  <2>5. CountsAreKept'
    BY <2>1, <2>2 DEF TelemetryInv, CountsAreKept, AlertKeys
  <2> QED
    BY <2>1, <2>4, <2>5 DEF TelemetryInv, BatchHolds, LegHolds, MarkedIsIngested
<1>13. ASSUME NEW x \in Troubles, TroubleTurns(x) PROVE TelemetryInv'
  BY <1>13 DEF TroubleTurns, TelemetryInv, FiringIsAnnounced, CountsAreKept, BatchHolds, LegHolds,
    MarkedIsIngested, telemetryHistory
<1>14. CASE UNCHANGED <<telemetryVars, telemetryHistory>>
  BY <1>14 DEF TelemetryInv, FiringIsAnnounced, CountsAreKept, BatchHolds, LegHolds,
    MarkedIsIngested, telemetryVars, telemetryHistory
<1> QED
  BY <1>1, <1>2, <1>3, <1>4, <1>5, <1>6, <1>7, <1>8, <1>9, <1>10, <1>11, <1>12, <1>13, <1>14
    DEF TelemetryNext

(* The counts of the alert states never run behind the events, a tick's batch *)
(* is of unmarked rows the sink has when it said so, and the newest row of    *)
(* the leg is of the last forward.                                            *)
THEOREM TelemetryInvAlways == TelemetrySpec => []TelemetryInv
  BY TelemetryTypeInit, TelemetryTypeStep, TelemetryInvStep, PTL DEF TelemetrySpec

(* No firing of an alert is swallowed as a repetition (evaluateCostAlerts).   *)
THEOREM FiringsAreAnnounced == TelemetrySpec => []FiringIsAnnounced
<1>1. TelemetryInv => FiringIsAnnounced
  BY DEF TelemetryInv
<1> QED
  BY <1>1, TelemetryInvAlways, PTL

(* The health surface tells how the last forward ended, and what is marked    *)
(* reached the sink (sinkForwardHealth, performMarkForwarded).                *)
THEOREM ForwardIsAlwaysTold == TelemetrySpec => []ForwardIsTold
<1>1. TelemetryTypeOK /\ TelemetryInv => ForwardIsTold
  BY TelemetryNumbers DEF TelemetryInv, TelemetryTypeOK, LegHolds, MarkedIsIngested, ForwardIsTold,
    ForwardState, Statuses
<1> QED
  BY <1>1, TelemetryTypeCorrect, TelemetryInvAlways, PTL

-----------------------------------------------------------------------------
(* Quiet hours.  Four days of the wall clock hold an end of every window,    *)
(* however long a day is and however far summer time moves the clocks.       *)

LEMMA OffsetRange ==
  ASSUME NEW t \in Int
  PROVE  TimezoneOffset(t) \in Int /\ Zone <= TimezoneOffset(t) /\ TimezoneOffset(t) <= Zone + Shift
BY ClockConstants DEF TimezoneOffset

LEMMA WallIsDays ==
  ASSUME NEW t \in Int
  PROVE  /\ DayOf(t) \in Int /\ MinuteOfDay(t) \in Minutes
         /\ WallTime(t) \in Int /\ WallTime(t) = DayOf(t) * Day + MinuteOfDay(t)
<1>1. WallTime(t) \in Int
  BY OffsetRange DEF WallTime
<1> DEFINE v == WallTime(t)
<1> HIDE DEF v
<1>2. v \in Int /\ Day \in Int /\ Day > 0
  BY <1>1, ClockConstants DEF v
<1>3. v \div Day \in Int
  BY <1>2
<1>4. v % Day \in 0 .. Day - 1
  BY <1>2
<1>5. v = Day * (v \div Day) + (v % Day)
  BY <1>2
<1>6. Day * (v \div Day) = (v \div Day) * Day
  BY <1>2, <1>3
<1>7. DayOf(t) = v \div Day /\ MinuteOfDay(t) = v % Day /\ WallTime(t) = v
  BY DEF DayOf, MinuteOfDay, v
<1> QED
  BY <1>2, <1>3, <1>4, <1>5, <1>6, <1>7 DEF Minutes

LEMMA InstantRange ==
  ASSUME NEW wall \in Int
  PROVE  /\ WallTimeToInstant(wall) \in Int
         /\ wall - Zone - Shift <= WallTimeToInstant(wall)
<1>1. wall - TimezoneOffset(wall) \in Int
  BY OffsetRange
<1> QED
  BY <1>1, OffsetRange, ClockConstants DEF WallTimeToInstant

LEMMA CandidateRange ==
  ASSUME NEW t \in Int, NEW w \in Bounds, NEW n \in 0 .. 3
  PROVE  Candidate(t, w, n) \in Int
<1>1. (DayOf(t) + n) * Day + w.end \in Int
  BY WallIsDays, ClockConstants DEF Bounds, Minutes
<1> QED
  BY <1>1, InstantRange DEF Candidate

(* The third day is far enough.                                              *)
LEMMA EndAlwaysFound ==
  ASSUME NEW t \in Int, NEW w \in Bounds
  PROVE  EndIsFound(t, w)
<1> DEFINE q == DayOf(t)
           r == MinuteOfDay(t)
           o == TimezoneOffset(t)
<1>1. /\ q \in Int /\ r \in 0 .. Day - 1 /\ o \in Int /\ w.end \in 0 .. Day - 1
      /\ Zone <= o /\ t + o = q * Day + r /\ Day \in Int /\ Day > 0
      /\ Shift <= Day /\ Shift \in Int /\ Zone \in Int
  BY WallIsDays, OffsetRange, ClockConstants DEF WallTime, Bounds, Minutes
<1>2. Candidate(t, w, 3) = WallTimeToInstant((q + 3) * Day + w.end)
  BY DEF Candidate
<1> HIDE DEF q, r, o
<1>3. (q + 3) * Day = q * Day + 3 * Day /\ q * Day \in Int
  BY <1>1
<1>4. (q + 3) * Day + w.end - Zone - Shift <= Candidate(t, w, 3) /\ Candidate(t, w, 3) \in Int
  BY <1>1, <1>2, <1>3, InstantRange
<1>5. t <= Candidate(t, w, 3)
  <2> DEFINE z == q * Day
  <2>1. z \in Int /\ t + o = z + r /\ z + 3 * Day + w.end - Zone - Shift <= Candidate(t, w, 3)
    BY <1>1, <1>3, <1>4
  <2> HIDE DEF z
  <2> QED
    BY <1>1, <1>4, <2>1
<1> QED
  BY <1>4, <1>5 DEF EndIsFound

(* The end that is named is none of the past: of the days the search looks   *)
(* at, the first that will do is taken.                                      *)
LEMMA EndIsAhead ==
  ASSUME NEW t \in Int, NEW w \in Bounds
  PROVE  NextQuietHoursEnd(t, w) \in Int /\ t <= NextQuietHoursEnd(t, w)
<1> DEFINE Good(n) == Candidate(t, w, n) >= t
           First(n) == Good(n) /\ \A m \in 0 .. n - 1 : Candidate(t, w, m) < t
<1>1. \A n \in 0 .. 3 : Good(n) \/ Candidate(t, w, n) < t
  BY CandidateRange
<1>2. \E n \in 0 .. 3 : Good(n)
  BY EndAlwaysFound DEF EndIsFound
<1>3. \E n \in 0 .. 3 : First(n)
  <2> HIDE DEF Good
  <2>0. 0 .. 3 = {0, 1, 2, 3} /\ 0 .. (0 - 1) = {} /\ 0 .. (1 - 1) = {0} /\ 0 .. (2 - 1) = {0, 1}
        /\ 0 .. (3 - 1) = {0, 1, 2}
    OBVIOUS
  <2>1. CASE Good(0)
    BY <2>0, <2>1
  <2>2. CASE ~Good(0) /\ Good(1)
    BY <2>0, <2>2, <1>1
  <2>3. CASE ~Good(0) /\ ~Good(1) /\ Good(2)
    BY <2>0, <2>3, <1>1
  <2>4. CASE ~Good(0) /\ ~Good(1) /\ ~Good(2)
    BY <2>0, <2>4, <1>1, <1>2
  <2> QED
    BY <2>1, <2>2, <2>3, <2>4
<1> DEFINE d == CHOOSE n \in 0 .. 3 : First(n)
<1>4. d \in 0 .. 3 /\ First(d)
  BY <1>3
<1>5. NextQuietHoursEnd(t, w) = Candidate(t, w, d)
  BY DEF NextQuietHoursEnd
<1> QED
  BY <1>4, <1>5, CandidateRange

(* The days of the wall clock: a minute of a day is the minute of no other.  *)
LEMMA DayPart ==
  ASSUME NEW a \in Int, NEW b \in Minutes
  PROVE  (a * Day + b) % Day = b
<1> DEFINE v == a * Day + b
           c == v \div Day
           r == v % Day
<1>1. Day \in Int /\ Day > 0 /\ b \in Int /\ 0 <= b /\ b < Day
  BY ClockConstants DEF Minutes
<1>2. v \in Int
  BY <1>1
<1> HIDE DEF v
<1>3. c \in Int /\ r \in Int /\ 0 <= r /\ r < Day
  BY <1>1, <1>2
<1>4. v = Day * c + r
  BY <1>1, <1>2
<1> HIDE DEF c, r
<1>5. Day * c + r = a * Day + b
  BY <1>4 DEF v
<1>6. c = a
  <2>1. CASE c >= a + 1
    <3>1. Day * c >= Day * (a + 1)
      BY <1>1, <1>3, <2>1
    <3>2. Day * (a + 1) = a * Day + Day
      BY <1>1
    <3> QED
      BY <1>1, <1>3, <1>5, <3>1, <3>2
  <2>2. CASE c <= a - 1
    <3>1. Day * c <= Day * (a - 1)
      BY <1>1, <1>3, <2>2
    <3>2. Day * (a - 1) = a * Day - Day
      BY <1>1
    <3> QED
      BY <1>1, <1>3, <1>5, <3>1, <3>2
  <2> QED
    BY <1>3, <2>1, <2>2
<1>7. r = b
  BY <1>1, <1>3, <1>5, <1>6
<1> QED
  BY <1>7 DEF r, v

(* A wall time at a minute that is not moved is left out by no turn of the    *)
(* clocks and shown twice by none.                                           *)
LEMMA NotMoved ==
  ASSUME NEW x \in Int, x % Day \notin Moved, NEW turn \in {Spring, Fall}
  PROVE  x < turn + Zone \/ turn + Zone + Shift <= x
<1>1. turn \in Int /\ Zone \in Int /\ Shift \in Int
  BY ClockConstants
<1>2. SUFFICES ASSUME turn + Zone <= x, x < turn + Zone + Shift PROVE FALSE
  BY <1>1
<1> DEFINE k == x - turn - Zone
<1>3. k \in 0 .. Shift - 1 /\ turn + Zone + k = x
  BY <1>1, <1>2
<1>4. x % Day \in Moved
  BY <1>3 DEF Moved
<1> QED
  BY <1>4

(* At such a wall time the correction finds the one instant that shows it.    *)
LEMMA InstantShowsWall ==
  ASSUME NEW x \in Int, x % Day \notin Moved
  PROVE  WallTime(WallTimeToInstant(x)) = x
<1>1. /\ x < Spring + Zone \/ Spring + Zone + Shift <= x
      /\ x < Fall + Zone \/ Fall + Zone + Shift <= x
  BY NotMoved
<1>2. Spring \in Int /\ Fall \in Int /\ Zone \in Int /\ Shift \in Int /\ 0 <= Shift
  BY ClockConstants
<1> QED
  BY <1>1, <1>2 DEF WallTime, WallTimeToInstant, TimezoneOffset

(* Of two instants the later one shows the later wall time, unless the clocks *)
(* are put back between them, and then what is shown twice.                   *)
LEMMA WallOrder ==
  ASSUME NEW t \in Int, NEW u \in Int, t < u, WallTime(u) <= WallTime(t)
  PROVE  Fall + Zone <= WallTime(u) /\ WallTime(t) < Fall + Zone + Shift
BY ClockConstants DEF WallTime, TimezoneOffset

(* The wall times of one night: from the start of a window to its end.       *)
NightLength(w) == IF w.start < w.end THEN w.end - w.start ELSE w.end - w.start + Day

LEMMA NightIsQuiet ==
  ASSUME NEW w \in Bounds, w.start # w.end, NEW a \in Int, NEW x \in Int,
         (a * Day + w.end) - NightLength(w) <= x, x < a * Day + w.end
  PROVE  IsWithinQuietHours(x % Day, w)
<1>1. /\ Day \in Int /\ Day > 0 /\ w.start \in Int /\ w.end \in Int
      /\ 0 <= w.start /\ w.start < Day /\ 0 <= w.end /\ w.end < Day
  BY ClockConstants DEF Bounds, Minutes
<1> DEFINE z == a * Day
<1>2. z \in Int /\ (a - 1) * Day = z - Day /\ a - 1 \in Int
  BY <1>1
<1>3. (z + w.end) - NightLength(w) <= x /\ x < z + w.end
  BY DEF z
<1>4. \A b \in Minutes : (z + b) % Day = b /\ (z - Day + b) % Day = b
  BY <1>2, DayPart
<1> HIDE DEF z
<1>5. CASE w.start < w.end
  <2>1. x - z \in Minutes /\ w.start <= x - z /\ x - z < w.end /\ x = z + (x - z)
    BY <1>1, <1>2, <1>3, <1>5 DEF NightLength, Minutes
  <2>2. x % Day = x - z
    BY <1>4, <2>1
  <2> QED
    BY <1>5, <2>1, <2>2 DEF IsWithinQuietHours
<1>6. CASE ~(w.start < w.end) /\ z <= x
  <2>1. x - z \in Minutes /\ x - z < w.end /\ x = z + (x - z)
    BY <1>1, <1>2, <1>3, <1>6 DEF Minutes
  <2>2. x % Day = x - z
    BY <1>4, <2>1
  <2> QED
    BY <1>6, <2>1, <2>2 DEF IsWithinQuietHours
<1>7. CASE ~(w.start < w.end) /\ x < z
  <2> DEFINE b == x - z + Day
  <2>1. b \in Minutes /\ w.start <= b /\ x = z - Day + b
    BY <1>1, <1>2, <1>3, <1>7 DEF NightLength, Minutes
  <2> HIDE DEF b
  <2>2. x % Day = b
    BY <1>4, <2>1
  <2> QED
    BY <1>7, <2>1, <2>2 DEF IsWithinQuietHours
<1> QED
  BY <1>1, <1>2, <1>5, <1>6, <1>7

(* A quiet instant lies in the night that ends today or tomorrow.            *)
LEMMA NightOfInstant ==
  ASSUME NEW w \in Bounds, w.start # w.end, NEW t \in Int, Quiet(t, w)
  PROVE  \E n \in {0, 1} :
           /\ ((DayOf(t) + n) * Day + w.end) - NightLength(w) <= WallTime(t)
           /\ WallTime(t) < (DayOf(t) + n) * Day + w.end
<1> DEFINE q == DayOf(t)
           r == MinuteOfDay(t)
           z == q * Day
<1>1. /\ Day \in Int /\ Day > 0 /\ w.start \in Int /\ w.end \in Int
      /\ 0 <= w.start /\ w.start < Day /\ 0 <= w.end /\ w.end < Day
  BY ClockConstants DEF Bounds, Minutes
<1>2. q \in Int /\ r \in Int /\ 0 <= r /\ r < Day /\ WallTime(t) = z + r
  BY WallIsDays, <1>1 DEF Minutes
<1>3. IF w.start < w.end THEN w.start <= r /\ r < w.end ELSE w.start <= r \/ r < w.end
  BY DEF Quiet, IsWithinQuietHours
<1> HIDE DEF q, r
<1>4. z \in Int /\ (q + 0) * Day = z /\ (q + 1) * Day = z + Day
  BY <1>1, <1>2
<1> HIDE DEF z
<1> DEFINE Goal == \E n \in {0, 1} :
                       /\ ((q + n) * Day + w.end) - NightLength(w) <= z + r
                       /\ z + r < (q + n) * Day + w.end
<1>5.ASSUME w.start < w.end
     PROVE  Goal
  <2>1. (z + w.end) - NightLength(w) <= z + r /\ z + r < z + w.end
    BY <1>1, <1>2, <1>3, <1>4, <1>5 DEF NightLength
  <2> QED
    BY <1>4, <2>1
<1>6.ASSUME ~(w.start < w.end) /\ r < w.end
     PROVE  Goal
  <2>1. (z + w.end) - NightLength(w) <= z + r /\ z + r < z + w.end
    BY <1>1, <1>2, <1>4, <1>6 DEF NightLength
  <2> QED
    BY <1>4, <2>1
<1>7.ASSUME ~(w.start < w.end) /\ ~(r < w.end)
     PROVE  Goal
  <2>1. ((z + Day) + w.end) - NightLength(w) <= z + r /\ z + r < z + Day + w.end
    BY <1>1, <1>2, <1>3, <1>4, <1>7 DEF NightLength
  <2> QED
    BY <1>4, <2>1
<1>8. Goal
  BY <1>5, <1>6, <1>7
<1> QED
  BY <1>2, <1>8 DEF q

LEMMA NightBounds ==
  ASSUME NEW w \in Bounds, w.start # w.end, NEW a \in Int
  PROVE  LET e == a * Day + w.end
             s == e - NightLength(w)
         IN /\ e \in Int /\ s \in Int /\ e - Day < s
            /\ e % Day = w.end /\ s % Day = w.start
<1> DEFINE z == a * Day
<1>1. /\ Day \in Int /\ Day > 0 /\ w.start \in Int /\ w.end \in Int
      /\ 0 <= w.start /\ w.start < Day /\ 0 <= w.end /\ w.end < Day
      /\ w.start \in Minutes /\ w.end \in Minutes
  BY ClockConstants DEF Bounds, Minutes
<1>2. z \in Int /\ (a - 1) * Day = z - Day /\ a - 1 \in Int
  BY <1>1
<1>3. \A b \in Minutes : (z + b) % Day = b /\ (z - Day + b) % Day = b
  BY <1>2, DayPart
<1> HIDE DEF z
<1>4. (z + w.end) % Day = w.end
  BY <1>1, <1>3
<1>5. CASE w.start < w.end
  <2>1. (z + w.end) - NightLength(w) = z + w.start
    BY <1>1, <1>2, <1>5 DEF NightLength
  <2>2. ((z + w.end) - NightLength(w)) % Day = w.start
    BY <1>1, <1>3, <2>1
  <2> QED
    BY <1>1, <1>2, <1>4, <2>1, <2>2 DEF z
<1>6. CASE ~(w.start < w.end)
  <2>1. (z + w.end) - NightLength(w) = z - Day + w.start
    BY <1>1, <1>2, <1>6 DEF NightLength
  <2>2. ((z + w.end) - NightLength(w)) % Day = w.start
    BY <1>1, <1>3, <2>1
  <2>3. (z + w.end) - Day < (z + w.end) - NightLength(w)
    BY <1>1, <1>2, <1>6, <2>1
  <2>4. z + w.end \in Int /\ (z + w.end) - NightLength(w) \in Int
    BY <1>1, <1>2, <2>1
  <2> QED
    BY <1>4, <2>2, <2>3, <2>4 DEF z
<1> QED
  BY <1>5, <1>6

(* From a quiet instant on it is quiet until the end that is named, where it  *)
(* is not, whatever turn the clocks take in between.                         *)
LEMMA EndOfTheNight ==
  ASSUME NEW w \in Bounds, w.start # w.end, {w.start, w.end} \intersect Moved = {},
         NEW t \in Int, Quiet(t, w)
  PROVE  /\ ~Quiet(NextQuietHoursEnd(t, w), w)
         /\ \A u \in t .. NextQuietHoursEnd(t, w) - 1 : Quiet(u, w)
<1> DEFINE q == DayOf(t)
<1>1. PICK n \in {0, 1} : /\ ((q + n) * Day + w.end) - NightLength(w) <= WallTime(t)
                          /\ WallTime(t) < (q + n) * Day + w.end
  BY NightOfInstant
<1> DEFINE e == (q + n) * Day + w.end
           s == e - NightLength(w)
           c == Candidate(t, w, n)
<1>q. q \in Int /\ q + n \in Int /\ WallTime(t) \in Int
  BY WallIsDays
<1>c. c = WallTimeToInstant(e)
  BY DEF Candidate
<1>2. /\ e \in Int /\ s \in Int /\ e - Day < s
      /\ e % Day = w.end /\ s % Day = w.start
  BY <1>q, NightBounds
<1>3. s <= WallTime(t) /\ WallTime(t) < e
  BY <1>1
<1>k. Fall \in Int /\ Zone \in Int /\ Shift \in Int /\ Day \in Int
  BY ClockConstants
<1> HIDE DEF s
<1>4. /\ e < Fall + Zone \/ Fall + Zone + Shift <= e
      /\ s < Fall + Zone \/ Fall + Zone + Shift <= s
      /\ WallTime(c) = e /\ c \in Int
  <2>1. e % Day \notin Moved /\ s % Day \notin Moved
    BY <1>2
  <2> HIDE DEF e
  <2> QED
    BY <1>2, <1>c, <2>1, NotMoved, InstantShowsWall, InstantRange
<1>5. t <= c
  <2> SUFFICES ASSUME c < t PROVE FALSE
    BY <1>4
  <2>1. Fall + Zone <= WallTime(t) /\ WallTime(c) < Fall + Zone + Shift
    BY <1>3, <1>4, <1>q, <1>2, WallOrder
  <2> HIDE DEF e, c
  <2> QED
    BY <2>1, <1>3, <1>4, <1>q, <1>2, <1>k
<1>6. \A m \in 0 .. n - 1 : Candidate(t, w, m) < t
  <2> SUFFICES ASSUME n = 1 PROVE Candidate(t, w, 0) < t
    OBVIOUS
  <2> DEFINE f == (q + 0) * Day + w.end
             b == Candidate(t, w, 0)
  <2>1. f \in Int /\ f % Day = w.end /\ b = WallTimeToInstant(f)
    BY <1>q, NightBounds DEF Candidate
  <2>2. f = e - Day
    <3>1. (q + 0) * Day = q * Day /\ (q + 1) * Day = q * Day + Day /\ q * Day \in Int
      BY <1>q, <1>k
    <3>2. w.end \in Int
      BY <1>k DEF Bounds, Minutes
    <3> QED
      BY <3>1, <3>2, <1>k
  <2>3. /\ f < Fall + Zone \/ Fall + Zone + Shift <= f
        /\ WallTime(b) = f /\ b \in Int
    <3>1. f % Day \notin Moved
      BY <2>1
    <3> HIDE DEF f
    <3> QED
      BY <2>1, <3>1, NotMoved, InstantShowsWall, InstantRange
  <2> HIDE DEF e, f, b
  <2>4. f < WallTime(t)
    BY <1>2, <1>3, <1>k, <1>q, <2>1, <2>2
  <2> SUFFICES ASSUME t <= b PROVE FALSE
    BY <2>3 DEF b
  <2>5. t < b
    BY <2>1, <2>3, <2>4, <1>q
  <2>6. Fall + Zone <= WallTime(b) /\ WallTime(t) < Fall + Zone + Shift
    BY <2>1, <2>3, <2>4, <2>5, <1>q, WallOrder
  <2> QED
    BY <2>1, <2>3, <2>4, <2>6, <1>k, <1>q
<1>7. NextQuietHoursEnd(t, w) = c
  <2> DEFINE First(m) == /\ Candidate(t, w, m) >= t
                         /\ \A l \in 0 .. m - 1 : Candidate(t, w, l) < t
  <2>1. n \in 0 .. 3 /\ First(n)
    BY <1>4, <1>5, <1>6
  <2>2. \A m \in 0 .. 3 : Candidate(t, w, m) \in Int
    BY CandidateRange
  <2>3. \A m \in 0 .. 3 : First(m) => m = n
    <3> SUFFICES ASSUME NEW m \in 0 .. 3, First(m), m # n PROVE FALSE
      OBVIOUS
    <3>1. CASE m < n
      BY <2>1, <2>2, <3>1
    <3>2. CASE n < m
      BY <2>1, <2>2, <3>2
    <3> QED
      BY <3>1, <3>2
  <2> HIDE DEF First
  <2>4. (CHOOSE m \in 0 .. 3 : First(m)) = n
    BY <2>1, <2>3
  <2> QED
    BY <2>4 DEF NextQuietHoursEnd, First
<1> HIDE DEF e, c
<1>8. ~Quiet(c, w)
  <2>1. MinuteOfDay(c) = w.end
    BY <1>2, <1>4 DEF MinuteOfDay
  <2> QED
    BY <2>1, <1>k DEF Quiet, IsWithinQuietHours, Bounds, Minutes
<1>9. \A u \in t .. c - 1 : Quiet(u, w)
  <2> SUFFICES ASSUME NEW u \in t .. c - 1 PROVE Quiet(u, w)
    OBVIOUS
  <2>1. u \in Int /\ t <= u /\ u < c /\ WallTime(u) \in Int
    BY <1>4, WallIsDays
  <2>2. WallTime(u) < e
    <3> SUFFICES ASSUME e <= WallTime(u) PROVE FALSE
      BY <1>2, <2>1
    <3>1. Fall + Zone <= WallTime(c) /\ WallTime(u) < Fall + Zone + Shift
      BY <1>4, <2>1, WallOrder
    <3> QED
      BY <3>1, <1>2, <1>4, <1>k, <2>1
  <2>3. s <= WallTime(u)
    <3> SUFFICES ASSUME WallTime(u) < s PROVE FALSE
      BY <1>2, <2>1
    <3>1. t < u
      BY <1>2, <1>3, <1>q, <2>1
    <3>2. Fall + Zone <= WallTime(u) /\ WallTime(t) < Fall + Zone + Shift
      BY <1>2, <1>3, <1>q, <2>1, <3>1, WallOrder
    <3> QED
      BY <3>2, <1>2, <1>3, <1>4, <1>k, <1>q, <2>1
  <2>4. ((q + n) * Day + w.end) - NightLength(w) <= WallTime(u) /\ WallTime(u) < (q + n) * Day + w.end
    BY <2>2, <2>3 DEF s, e
  <2>5. IsWithinQuietHours(WallTime(u) % Day, w)
    BY <1>q, <2>1, <2>4, NightIsQuiet
  <2> QED
    BY <2>5 DEF Quiet, MinuteOfDay
<1> QED
  BY <1>7, <1>8, <1>9

-----------------------------------------------------------------------------
(* The settings and the notice.                                              *)

LEMMA PreferencesAreSettings ==
  ASSUME QuietTypeOK
  PROVE  /\ PreferenceWriteOf(stored) \in Settings
         /\ EffectiveQuietHours(PreferenceWriteOf(stored)) \in Bounds
<1>1. PreferenceWriteOf(stored) \in Settings
  BY DEF QuietTypeOK, PreferenceWriteOf, Settings
<1> QED
  BY <1>1, WindowConstants DEF EffectiveQuietHours, Settings

LEMMA PatchesAreApplied ==
  ASSUME NEW base \in Settings, NEW patch \in Changes
  PROVE  ApplyPreferencePatch(base, patch) \in Settings
<1>1. patch \in Patches
  BY ChangesArePatches
<1>2. /\ Either(patch.mutedProjects, base.mutedProjects) \in SUBSET Conversations
      /\ Either(patch.companyEntriesMuted, base.companyEntriesMuted) \in BOOLEAN
      /\ Either(patch.taskRemindersMuted, base.taskRemindersMuted) \in BOOLEAN
      /\ Either(patch.quietHours, base.quietHours) \in Windows \union {NotSet}
  BY <1>1 DEF Either, Patches, Settings
<1> QED
  BY <1>2 DEF ApplyPreferencePatch, Settings

(* The two evaluators do the same with the answer.                           *)
LEMMA EvaluatedAsDecided ==
  ASSUME EvaluateDueNotice \/ EvaluateDueReminder
  PROVE  NoticeIsDue /\ Decides /\ now' = now /\ stored' = stored
BY DEF EvaluateDueNotice, EvaluateDueReminder

(* The settings, the notice and what is known of its deferral have their      *)
(* types: a change leaves whole settings, and a deferral names an instant.    *)
THEOREM QuietTypeCorrect == QuietSpec => []QuietTypeOK
<1>1. QuietInit => QuietTypeOK
  BY ClockConstants, WindowConstants
     DEF QuietInit, QuietTypeOK, NoIntent, IntentRows, DeliveryKinds
<1>2. QuietTypeOK /\ [QuietNext]_quietVars => QuietTypeOK'
  <2> SUFFICES ASSUME QuietTypeOK, [QuietNext]_quietVars PROVE QuietTypeOK'
    OBVIOUS
  <2> USE DEF QuietTypeOK
  <2>1. ASSUME NEW patch \in Changes, ChangeNotificationPreferences(patch) PROVE QuietTypeOK'
    <3>1. stored' \in Settings
      BY <2>1, PreferencesAreSettings, PatchesAreApplied DEF ChangeNotificationPreferences
    <3> QED
      BY <2>1, <3>1 DEF ChangeNotificationPreferences, deferralVars
  <2>2. ASSUME NEW kind \in DeliveryKinds, NEW projects \in SUBSET Conversations,
               EnsureNotice(kind, projects)
        PROVE  QuietTypeOK'
    <3>1. notice' \in IntentRows
      BY <2>2, ClockConstants DEF EnsureNotice, IntentRows
    <3> QED
      BY <2>2, <3>1 DEF EnsureNotice
  <2>3. CASE MarkRead
    BY <2>3 DEF MarkRead, IntentRows
  <2>4. CASE EvaluateDueNotice \/ EvaluateDueReminder
    <3> DEFINE applied == EffectiveQuietHours(PreferenceWriteOf(stored))
    <3>1. applied \in Bounds /\ now \in Int
      BY PreferencesAreSettings, ClockConstants
    <3>2. NextQuietHoursEnd(now, applied) \in Int
      BY <3>1, EndIsAhead
    <3>d. NoticeIsDue /\ Decides /\ now' = now /\ stored' = stored
      BY <2>4, EvaluatedAsDecided
    <3>3. /\ now' = now /\ stored' = stored
          /\ \/ notice' = [notice EXCEPT !.state = "suppressed"] /\ since' = since /\ window' = window
             \/ /\ notice' = [notice EXCEPT !.due = NextQuietHoursEnd(now, applied)]
                /\ since' = now /\ window' = applied
             \/ notice' = [notice EXCEPT !.state = "delivered"] /\ since' = since /\ window' = window
      BY <3>d DEF Decides
    <3> HIDE DEF applied
    <3>4. notice' \in IntentRows
      BY <3>2, <3>3 DEF IntentRows
    <3> QED
      BY <3>1, <3>3, <3>4
  <2>5. CASE TimeGoesOn
    BY <2>5, ClockConstants DEF TimeGoesOn, deferralVars
  <2>6. CASE UNCHANGED quietVars
    BY <2>6 DEF quietVars
  <2> QED
    BY <2>1, <2>2, <2>3, <2>4, <2>5, <2>6 DEF QuietNext
<1> QED
  BY <1>1, <1>2, PTL DEF QuietSpec

(* A window has a length: an empty one is refused before it is stored.       *)
LEMMA WindowsHaveLength ==
  ASSUME QuietTypeOK, QuietInv
  PROVE  HasLength(EffectiveQuietHours(PreferenceWriteOf(stored)))
BY WindowConstants
   DEF QuietTypeOK, QuietInv, EffectiveQuietHours, PreferenceWriteOf, HasLength, Settings

(* What a change leaves for the quiet hours is the window it carries, none,   *)
(* or the one that was stored.                                               *)
LEMMA ChangedWindowHasLength ==
  ASSUME QuietTypeOK, QuietInv, NEW patch \in Changes, ChangeNotificationPreferences(patch),
         stored'.quietHours # NotSet
  PROVE  HasLength(stored'.quietHours)
<1>1. patch \in Patches
  BY ChangesArePatches
<1>2. stored'.quietHours = Either(patch.quietHours, PreferenceWriteOf(stored).quietHours)
  BY DEF ChangeNotificationPreferences, ApplyPreferencePatch
<1>3. CASE patch.quietHours = Omitted
  <2>1. stored'.quietHours = PreferenceWriteOf(stored).quietHours
    BY <1>2, <1>3 DEF Either
  <2> QED
    BY <2>1 DEF QuietInv, PreferenceWriteOf
<1>4. CASE patch.quietHours # Omitted
  <2>1. stored'.quietHours = patch.quietHours
    BY <1>2, <1>4 DEF Either
  <2>2. patch.quietHours \in Windows
    BY <1>1, <1>4, <2>1 DEF Patches
  <2>3. patch.quietHours \in Bounds
    BY <2>2, WindowConstants
  <2> QED
    BY <2>1, <2>3 DEF ChangeNotificationPreferences, HasLength
<1> QED
  BY <1>3, <1>4

(* A deferral is made at a quiet instant.                                    *)
LEMMA DeferredIsQuiet ==
  ASSUME NEW settings, DecidePersonalDelivery(settings) = "deferred"
  PROVE  Quiet(now, EffectiveQuietHours(settings))
BY DEF DecidePersonalDelivery

(* What rests between the steps: every window that may apply has a length,    *)
(* and a notice that waits waits for the end that was named for the window    *)
(* and the instant of its deferral, which was quiet.                         *)
THEOREM QuietInvAlways == QuietSpec => []QuietInv
<1>1. QuietInit => QuietInv
  BY WindowConstants DEF QuietInit, QuietInv, HasLength, NoIntent
<1>2. QuietTypeOK /\ QuietInv /\ [QuietNext]_quietVars => QuietInv'
  <2> SUFFICES ASSUME QuietTypeOK, QuietInv, [QuietNext]_quietVars PROVE QuietInv'
    OBVIOUS
  <2> USE DEF QuietInv
  <2>1. ASSUME NEW patch \in Changes, ChangeNotificationPreferences(patch) PROVE QuietInv'
    <3>1. stored'.quietHours # NotSet => HasLength(stored'.quietHours)
      BY <2>1, ChangedWindowHasLength
    <3>2. notice' = notice /\ since' = since /\ window' = window
      BY <2>1 DEF ChangeNotificationPreferences, deferralVars
    <3> QED
      BY <3>1, <3>2 DEF HasLength
  <2>2. ASSUME NEW kind \in DeliveryKinds, NEW projects \in SUBSET Conversations,
               EnsureNotice(kind, projects)
        PROVE  QuietInv'
    BY <2>2 DEF EnsureNotice, HasLength
  <2>3. CASE MarkRead
    <3>1. notice'.state = notice.state /\ notice'.due = notice.due
      BY <2>3 DEF MarkRead, QuietTypeOK, IntentRows
    <3> QED
      BY <2>3, <3>1 DEF MarkRead, HasLength
  <2>4. CASE EvaluateDueNotice \/ EvaluateDueReminder
    <3> DEFINE settings == PreferenceWriteOf(stored)
               applied == EffectiveQuietHours(settings)
    <3>d. NoticeIsDue /\ Decides /\ now' = now /\ stored' = stored
      BY <2>4, EvaluatedAsDecided
    <3>1. HasLength(applied)
      BY WindowsHaveLength
    <3>2. stored' = stored /\ notice.state = "pending"
      BY <3>d DEF NoticeIsDue
    <3>3. CASE /\ DecidePersonalDelivery(settings) = "deferred"
               /\ notice' = [notice EXCEPT !.due = NextQuietHoursEnd(now, applied)]
               /\ since' = now /\ window' = applied
      <4>1. Quiet(now, applied)
        BY <3>3, DeferredIsQuiet
      <4> HIDE DEF applied, settings
      <4>2. notice'.due = NextQuietHoursEnd(now, applied) /\ notice'.state = "pending"
        BY <3>2, <3>3 DEF QuietTypeOK, IntentRows
      <4> QED
        BY <3>1, <3>2, <3>3, <4>1, <4>2 DEF HasLength
    <3>4. CASE /\ notice'.state # "pending" /\ notice'.state # "none"
               /\ since' = since /\ window' = window
      BY <3>2, <3>4 DEF HasLength
    <3>5. \/ notice' = [notice EXCEPT !.state = "suppressed"] /\ since' = since /\ window' = window
          \/ notice' = [notice EXCEPT !.state = "delivered"] /\ since' = since /\ window' = window
          \/ /\ DecidePersonalDelivery(settings) = "deferred"
             /\ notice' = [notice EXCEPT !.due = NextQuietHoursEnd(now, applied)]
             /\ since' = now /\ window' = applied
      BY <3>d DEF Decides
    <3>6. \/ notice' = [notice EXCEPT !.state = "suppressed"]
          \/ notice' = [notice EXCEPT !.state = "delivered"]
          => notice'.state # "pending" /\ notice'.state # "none"
      BY DEF QuietTypeOK, IntentRows
    <3> QED
      BY <3>3, <3>4, <3>5, <3>6
  <2>5. CASE TimeGoesOn
    BY <2>5 DEF TimeGoesOn, deferralVars, HasLength
  <2>6. CASE UNCHANGED quietVars
    BY <2>6 DEF quietVars, HasLength
  <2> QED
    BY <2>1, <2>2, <2>3, <2>4, <2>5, <2>6 DEF QuietNext
<1> QED
  BY <1>1, <1>2, QuietTypeCorrect, PTL DEF QuietSpec

(* A deferral ends with the quiet hours it was made for: the instant it names *)
(* is not quiet and every instant before it is, on the nights on which the    *)
(* clocks are moved as on every other, for every length of the day, zone and  *)
(* shift and every window no bound of which is a moved minute.               *)
THEOREM DeferralsEndWithTheQuiet == QuietSpec => []DeferralEndsWithTheQuiet
<1>1. QuietTypeOK /\ QuietInv => DeferralEndsWithTheQuiet
  <2> SUFFICES ASSUME QuietTypeOK, QuietInv, since # NotSet, notice.state = "pending",
                      {window.start, window.end} \intersect Moved = {}
               PROVE  /\ ~Quiet(notice.due, window)
                      /\ \A t \in since .. notice.due - 1 : Quiet(t, window)
    BY DEF DeferralEndsWithTheQuiet
  <2>1. /\ Quiet(since, window) /\ notice.due = NextQuietHoursEnd(since, window)
        /\ window.start # window.end
    BY DEF QuietInv, HasLength
  <2>2. since \in Int /\ window \in Bounds
    BY ClockConstants DEF QuietTypeOK
  <2> QED
    BY <2>1, <2>2, EndOfTheNight
<1> QED
  BY <1>1, QuietTypeCorrect, QuietInvAlways, PTL

(* The search for the end of the quiet hours never fails, and what it finds   *)
(* is not of the past: a deferred notice is decided about again.             *)
THEOREM DeferralsAreAhead == QuietSpec => []DeferralIsAhead
<1>1. QuietTypeOK /\ QuietInv => DeferralIsAhead
  <2> SUFFICES ASSUME QuietTypeOK, QuietInv PROVE DeferralIsAhead
    OBVIOUS
  <2>1. EndIsFound(now, EffectiveQuietHours(PreferenceWriteOf(stored)))
    BY PreferencesAreSettings, EndAlwaysFound, ClockConstants DEF QuietTypeOK
  <2>2. since # NotSet /\ notice.state = "pending" => notice.due >= since
    BY EndIsAhead, ClockConstants DEF QuietTypeOK, QuietInv
  <2> QED
    BY <2>1, <2>2 DEF DeferralIsAhead
<1> QED
  BY <1>1, QuietTypeCorrect, QuietInvAlways, PTL
=============================================================================
