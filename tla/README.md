# Kiero: TLA+ models, model-checking runs and proofs

Kiero is a company memory: people send messages, photos and recordings, the
backend (Convex, TypeScript) accepts them, processes them with AI providers,
publishes findings into a shared memory, searches it, answers questions, keeps
tasks and projects, reminds people, exports, backs up and deletes. This
directory holds the formal side of the backend and of the parts of the web client
that keep what people typed: TLA+ modules translated from the
source, TLC runs on small instances, and TLAPS proofs that hold for every value
of the constants.

Sections: 1 inventory, 2 what is modelled, 3 runs, 4 findings and observations,
5 proofs, 6 what stays with TLC or outside, 7 plan.

Every model rests on one fact about the platform. A Convex *mutation* is one
serialisable transaction, so a mutation handler, with everything it calls, is
one action of the model. A Convex *action* (and a gateway request, or a worker
container) is an ordinary process: it calls mutations, queries and the network
one after the other, may be overtaken between two calls, and may die; each of
its calls is an action of the model. A *query* reads one consistent snapshot, and
two queries of one action read two.

Paths below are relative to `src/`. `PROJECT.json` lists the components with
their sources, the lines every definition stands for, the runs, one mutant per
checked property, the hazards at the line where each bites, and the theorems.

## 1. Inventory

| component | state | operations | hard behaviours | correct when |
|---|---|---|---|---|
| durable execution, `convex/platform`, `packages/runtime` | `outboxEvents`, `durableJobs`, scheduled functions | publish with dedup, drain, register, run, deliver, reconcile | publishers and drain register one job; an external call may act without an answer; its action dies; four writers of one event row | one operation has at most one effect, success is real, every job is driven by exactly one party and settles |
| search index, `convex/search`, `packages/retrieval` | generations, `searchEntries`, build and refresh jobs | start, cut over, build, refresh, evidence query | passes read and write in different transactions, queries take three snapshots | one generation builds and one serves, an answer is current, the gate reopens |
| identity and linking, `convex/access/identity`, `linking` | persons, credentials, sessions, ceremonies, email changes | sign in by code or Google, link, change address, recover | callbacks, codes and ceremonies of one person interleave | a Google account is one person; a code credential is at the person's address |
| membership and GM mode, `convex/access/membership`, `gm` | firms, memberships, invitations, grants | found, invite, accept, revoke, transfer, restore, recover | concurrent departures, two invitations of one person | a firm with members has an administrator; one firm per person, one admission per invitation |
| uploads and acceptance, `convex/sources/uploads`, `accept`, gateway uploads | ledger, attachments, R2 sessions and objects, sources | prepare, stream a part, complete, finalise, collect, accept | requests in flight for hours, lost or stale, against collection | accepted media is stored as recorded and belongs to one source |
| images, `convex/processing/images`, gateway images | representations, objects, job, drives | normalise, record, verify, delete the original, order vision | two overlapping drives, a drive that dies anywhere | what readers resolve exists |
| audio, `convex/processing/audio` | transcript, segments, job, workflow | plan, attempt and record a segment, assemble | a workflow that throws and resumes | a transcript is whole or none |
| analysis, `convex/processing/text`, `multimodal`, `operations/processing` | runs, checkpoints, steps, two workflows | load, model, publish per group; evaluate, wait, join; retry, reanalyse | two lanes share a checkpoint, coverage moves, retries | the workflow identity is kept; claims rest on inspected media |
| shared memory and recomputation, `convex/memory` | findings, dependencies, change sets, reactions | prepare, publish, correct, withdraw, mark, revalidate, reassign | plans and reactions wait while the memory moves | corrections stand, derivations are acyclic, a lone witness counts |
| exports, `convex/operations/exports`, export worker | export rows, jobs, archives | request, build, publish, expire, invalidate, clean up | a purge during a build; the worker or its answer is lost | no archive offers a purged source, none is stranded |
| deletion, `convex/operations/deletion`, gateway purge | stages, jobs, tombstones | purge, stage by stage, media route | stages fail and repeat, two purges meet in one case | purged text is redacted, failure is visible |
| reminders, `convex/attention/reminders` | schedules, intents, snoozes | recompute, evaluate, snooze | a task changes between schedule and due time | only the current schedule reminds, and someone is always reminded |
| notifications and push, `convex/attention/delivery`, `push`, `read_state` | intents, device rows, push jobs | evaluate, prepare, post legs, complete, safety net, purge | uncertain answers, job against safety net, passes that die | a device is told once; nothing purged is shown |
| calendar, `convex/calendar` | connection, flows, copies, ledger, attempts | authorise, exchange, refresh, project, reconcile | callbacks against disconnects, lost answers, a calendar people edit | one event per copy |
| backups, `convex/operations/backups`, backup worker | slots with attempts and leases, media pool | claim, export, copy, verify, complete, sweep | a lease lapses under a live worker, sweeps beside backups | a verified set can be restored |
| work and projects, `convex/work`, `projects`, `packages/domain` | tasks, points, events, histories, projects, aliases | versioned commands | a sheet read before another change | nothing unseen is overwritten, a codename is one project |
| agent, `convex/agent`, `packages/agent` | run, context, evidence ledger, answer, record | turns, searches, submit, refresh, clarifications | the memory moves while the model thinks | inferences rest on known findings |
| dispatch, contracts, composition | registries | decode, authorise, route | none of its own | stateless |
| quiet hours and preferences, `convex/attention/preferences` | one row per person, due instants of intents | patch the settings, decide about a delivery, find the end of the quiet hours | summer time begins or ends inside the night, settings change while a deferral waits | a deferral ends with the quiet hours it was made for |
| composer, `apps/web` capture and drafts | the draft in memory and in IndexedDB, blobs, a queue of mutations, the recorder, the send | type, record, attach, send, recover, discard | a tab dies or a write fails between two steps, a send overlaps typing | what was sent is a source or still shown; what was typed is not undone |
| update of a tab, `apps/web/src/pwa/update` | service worker registration, prompt, marks, the migrated draft | detect, migrate, prompt, reload | a worker installs, the page hides, the composer saves while the migration runs | words come back after a reload, an accepted worker is not offered again |
| telemetry and incidents, `convex/operations/telemetry` | events, heartbeats, costs, alert states, the tick | record, scan, alert, prune, forward | a tick dies between two steps or overlaps a report, months turn | no firing is swallowed, a forward's outcome is told |
| providers, gateway routing, other features of the client, schema | none; none; caches; declarations | calls with fallback; routing; interface | see section 6 | nothing modelled depends on them |

How they interact: a business transaction writes its records and its event at
once; the drain turns each event into the jobs of its consumers; jobs run in
their own transaction or hand over to an action or a workflow. A message goes
from uploads over acceptance into images, audio and analysis, whose plans become
findings; findings feed the index, the agent and the work; withdrawing or
deleting a message reaches memory, index, exports, notifications and, through
the backup ledger, backups. No module leaves one of these hand-overs implicit:
where a component starts from what another left, its `Init` ranges over it.

## 2. What is modelled

| module | models | the state in one line |
|---|---|---|
| `JobDecisions` | pure decisions on a job row | none; operators shared by the next two |
| `DurableExecution` | outbox, drain, jobs, delivery | event row, job row, scheduled runs, instances and requests per key |
| `ExternalDelivery` | the abstract at-most-once delivery | a report and a set of effects |
| `SearchIndex` | generations, refreshes, query | canonical revisions, generations, rows, jobs, passes, one query |
| `SignIn`, `Membership` (extends it) | identity, linking; firms, GM mode | persons, credentials, sessions, ceremonies; memberships, invitations |
| `Intake` | uploads, R2, acceptance | ledger rows, objects by key, requests between two steps, sources |
| `Media` | image normalisation and readers | representation rows, objects, drives, vision orders |
| `Transcript`, `Pipeline` (extends it) | audio; the two analysis lanes | segments and one workflow; runs, flows, steps, what was published |
| `Memory` | findings, plans, reactions | current revisions, derivation edges, plans, pending reactions |
| `Exports`, `Deletion` (extends it) | exports; the staged purge | rows, builds, archives; stages, jobs, clarifications |
| `Reminders` | schedules, slots, snoozes | task facts, anchors, intents by dedup key, the day |
| `Notifications` | intents and push | entries, notices, device rows, passes, what was received |
| `CalendarConnection`, `CalendarCopies` (extends it) | authorisation; projection and sync | connection, flows; copies, ledger, attempts, Google's events |
| `Backups` | slots, worker, pool, sweep | rows by day, files, pool, runs under way |
| `BackupVault` | the abstract vault `Backups` implements | sealed sets, the pool, the day |
| `Work`, `Projects` | tasks and events; the catalogue | rows, histories, the sheets authors hold |
| `RecordJournal` | the abstract journal `Work` implements | a journal of entries per record, what each author has on the table |
| `Agent` (extends `Memory`) | the answer loop | the run, its context and ledger, the answer and the record |
| `Telemetry` | events, heartbeats, costs, alerts, the forward | rows by identity, alert states, the tick under way, what the sink has |
| `QuietHours` | settings, decision, the wall clock of a firm | one row of settings, one notice, the instant and the window of its deferral |
| `Capture` | the composer and its send | the draft in memory and in storage, queue, recorder, send, what the server keeps |
| `AppUpdate` | the update of a tab | registration, page, mark, draft, stored record, the record a migration read |
| `MC...` (one per `.cfg` and the parts they extend) | instances for TLC | bounds and symmetry |
| `..._proofs` | theorems | inductive invariants |

In every module an operation keeps the name it has in the source, its guard is
the conjunction of the conditions and early returns, and an operation that is
refused without writing is no step. What each abstracts:

**`DurableExecution`.** A key is the dedup identity that an event row, a job row
and the effects of an operation share. `Kind` says how its job executes: `echo`
(external), `flow` (a workflow), `cleanup` (in the transaction, with hooks that
flip the event row), `inline`, `silent` (no consumer). Five BOOLEAN constants
name what the environment may do: reconcile while an attempt is unsettled
(`EagerReconcile`), break the connection after the effect (`CutAfterEffect`),
fail to record an answer (`RecordMayFail`), lose an action (`ActionsMayDie`),
throw in an executor (`ExecutorsThrow`). An event has one consumer; payloads and
backoff lengths are left out; time is "due or not"; configuration errors
(`unsupported_job_kind`, ...) and the key collision that throws in
`registerDurableJob` are left out. `ExternalDelivery` is implemented under
`report <- ReportOf(jobs[d])`, `effects <- EffectsOf(d)`.

**`SearchIndex`.** One row per source stands for its text, transcript and image
rows; vectors and ranking are left out (whether a row has a vector changes the
disclosed coverage, never which rows exist). The staleness window is modelled by
what justifies it: a living pass heartbeats after every batch, so only a pass that
died looks stale.

**`SignIn`, `Membership`.** Codes are not data: "staged" says that a code was
mailed. All windows are 15 minutes from inside the ceremony, so its own expiry is
the one that matters. The issuance throttle, GM audit rows and GM inspection are
left out.

**`Intake`.** All parts have one length, so a byte count is a number of parts; one
firm and one author, so the owner checks pass. A gateway request is a record that
takes its steps at any time and may be lost before any of them. `collected` of a
key is a history variable.

**`Media`.** The encoder is a function of the received bytes, so two conversions
that succeed write the same object. A drive dies between any two steps and goes
on after its action stopped waiting.

**`Transcript`, `Pipeline`.** A provider pass is an attempt and a record. A stage
that throws rolls back and ends the workflow; a restart replays the journal up to
the stage it names. What a model plans is any plan of the size bound; the stages
that raise clarifications are left out.

**`Memory`.** A finding stands for a scope and a semantic key; a change set has
one planned revision, with evidence of the kinds that count as a witness. Only the
current revision is kept, and `edges` holds the derivations older ones left.
Extension definitions are left out.

**`Exports`, `Deletion`.** An attempt is known by its build token, an archive by
export and token. A case keeps whether its texts stand or were replaced by the
redaction copy, and which sources they stem from. The contents of an archive and
its download are left out: the download refuses what expiry and invalidation
change anyway.

**`Reminders`.** Time is counted in days of the firm's timezone, from 07:00. The
pure arithmetic of `dueness.ts` below that grain is left out.

**`Notifications`.** What a person chose in the settings, and the hour, is a verdict
the evaluator draws; `QuietHours` is that verdict. The sweep decides per person.
Passes of one intent do not overlap (a row is stale after 60 s, a leg ends within 10
s). A 5xx answer is `unknown`, a 429 `retry_later`. `received` and `lost` are
history variables.

**`CalendarConnection`, `CalendarCopies`.** A live action finishes within the 60 s
in which its attempt counts as open; a request takes effect before its answer or
timeout; a removal leaves no matching event; the token is read at prepare;
calendar ids supplied by a client exist. Deferred beyond the first version
(`docs/adr/calendar-deferral-2026-09.md`), so no cron drives the passes and no
liveness is stated.

**`Backups`.** Days are slots. The deletion ledger of a set and the check of its
length follow the attempt and are left out, as is the refusal of an invalid
inventory. The store may refuse deletions without the worker noticing
(`StoreRefuses`).

**`Work`, `Projects`, `Agent`.** One project in `Work`; a title stands for every
field that needs no reference. The model is untrusted: it calls anything with any
arguments. The agent's own task and event changes are commands of `Work`;
`validate_extension` is left out.

**`Telemetry`.** One tick at a time (the cron waits for its action). An event is
its identity and the count of the transaction that wrote it; `recordEvent` is
called without a dedup key, as the HTTP handlers do. Redaction of payloads, the
staging fixtures and the pruning of deletion batches are left out. `ingested` and
`outcome` are history variables.

**`QuietHours`.** An instant is a number of minutes, the clock of a firm is a zone
and one summer time between `Spring` and `Fall`; years, months and `Intl` are the
quotient and the remainder by the length of a day. The notice is one intent of one
person; which intents there are, their batches and the rights of the recipient
belong to `Notifications` and `Reminders`. The preview preference is left out
(nothing is decided by it). `since` and `window` are history: when the notice was
deferred last, and by which window.

**`Capture`.** A draft, one tab at a time, one chunk of a recording is one part of
its upload. Writes to IndexedDB take effect in the order they were requested and
may fail where `StorageFails`; discarding is atomic; no mutation of an earlier
draft is under way when a message is sent (`MaySend`). `server` is what the backend
keeps under the id of a draft, `lost` and the like are history.

**`AppUpdate`.** One draft, one tab. The flush of a page that hides or reloads
commits. No feature holds the gate (none in the source does), so a moment is
unsafe when the page is hidden or somebody has just typed. `typed`, `agreed`,
`renewed` and `died` are history variables.

## 3. Runs

A passing run has the components that belong together. They share no variable, so
a behaviour is the life of one of them (which `part` names, or the first step
chooses) and the others stand still in an initial state: the instance costs the
sum of its parts, not their product. All runs disable the deadlock check: a state
in which everything is finished and nobody acts is a legitimate end.

| run | instance | checks |
|---|---|---|
| `platform` | an external, a delegated and a silent key, three attempts, actions that die, executors that throw; two generations, a finding with three revisions, a source, passes that die, a query | `DeliversAtMostOnce` (the refinement of `ExternalDelivery`), `OneBuildsOneServes`, `RetiredGainsNothing`, `AnswerIsCurrent` |
| `live` | an external, a cleanup and an inline key, two attempts, batches of two, no lost actions; three generations, passes that die; fair scheduler | `OneDriver`, `JobSettles`, `GateReopens` |
| `access` | two persons, two addresses, a Google account, two devices, two ceremonies, two firms, two invitations, one operator | `OneOwnerPerSubject`, `CredentialFollowsAddress`, `StaffedFirmHasAdministrator`, `OneFirmOneAdmission` |
| `messages` | a draft with an attachment of two parts and two requests in flight; two images and two drives; two segments; two runs with one group and one retry | `AcceptedMediaStored`, `MediaBelongsToOneSource`, `CollectedStaysCollected`, `ReadersFindBytes`, `TranscriptIsWhole`, `WorkflowIdentityKept`, `ClaimsInspected` |
| `knowledge` | two findings, two sources, two plans; an export, two sources, a case; a task, two persons, three days; a copy, two accounts, two calendars, two flows, two runners, two event ids | `CorrectionStands`, `DerivationsAcyclic`, `LoneWitnessCounts`, `PurgedLeavesNoArchive`, `NoStrandedArchive`, `PurgedTextIsRedacted`, `ReminderIsPending`, `SupersededDies`, `NoDuplicateEvent` |
| `services` | a person, two sources, a question about one of them, two devices, two attempts; three days, one medium, two workers; a service, a trouble, a bill, two levels, two months; a day of 24 minutes with an hour of summer time, three windows and the usual one | `NotifiedOnce`, `NothingClearedIsPrepared`, `KeepsAVault` (the refinement of `BackupVault`), `FiringIsAnnounced`, `ForwardIsTold`, `DeferralEndsWithTheQuiet` |
| `workplace` | two tasks, a point, an event, two bosses, revisions up to three; two projects, two codenames; one finding, two turns, one refresh, one clarification; two drafts, a photo, two chunks, two attempts, one failing write; two texts and a tab | `NothingUnseenIsOverwritten`, `KeepsAJournal` (the refinement of `RecordJournal`), `OneCodenameOneProject`, `InferencesRestOnKnownFindings`, `NothingSentIsLost`, `NothingTypedIsUndone`, `WordsComeBack` |
| `cut`, `collapsed`, `withdrawn`, `leftover`, `retained` | the smallest instance that shows it | the findings of section 4 |

The type invariants are not among them: section 5 proves them for every value of
the constants. Each property has a mutant, an operator beside the
definition it falsifies and named as a fault in its comment; under it TLC finds
the property violated.

*Bounds.* The constants are the smallest for which the cases meet: two drives,
workers, runners, devices, bosses, plans, because every race of the inventory is
between two parties; three revisions in the index, for a row older and one newer
than the one a pass has read; two attempts for a retry and an exhausted counter
(three, as in the code, in `platform`); a first and a last day of backups, so that
the first set expires while the last is made. The `MC...Bound` constraints limit how
much else happens in one behaviour, never what a step does, and say so where they
stand: e.g. in `knowledge` one thing happens to the calendar besides the first
authorization, its copy and what reconciles it; in `access` a behaviour has firms,
or ceremonies under an address that changes, or ceremonies and recoveries, since
these meet in persons and sessions only. The composer sends a recording, or a photo
with words; the telemetry spends until the forward, or hears a service, or meets a
trouble. The quiet hours run over five nights, the second and the fourth of which
move the clocks, with a window whose end is just before the moved minute, where a
wrong offset shows. What a bound might hide in a safety property is what the
theorems of section 5 are for: they have none of these bounds. Symmetry is over
values that no constant distinguishes; `live`, which checks liveness, has none.

*Fairness.* Only `live` assumes fairness. `Fairness` is weak fairness of the
drain, the scheduled runs, the steps of a running action, a workflow's report and
the passing of `nextAttemptAtMs`: the Convex scheduler runs every scheduled
function, the action's `fetch` carries a deadline that aborts it, and workflows
report through their `onComplete`. `IndexFairness` assumes the same of the
scheduled jobs and says of a pass that it goes on or is lost. Nothing is assumed
of publishers, operators or of the network delivering a request. `live` excludes
dying actions and throwing executors, since a job behind them does not settle
(section 4).

## 4. Findings and observations

Findings, each a run that violates what the repository says:

1. `cut`, `convex/platform/echo.ts:121`. An error of `fetch` other than the
   deadline is recorded as a definite failure and retried. A connection that
   breaks after the target acted is such an error: the retry doubles the effect.
2. `collapsed` (`DrainedRevisionIsServed`), `convex/platform/outbox.ts:381`. The
   refresh of a finding is keyed by the finding. Once one succeeded (or while one
   runs), later revisions are deduplicated against it and never indexed until the
   next build.
3. `withdrawn` (`WithdrawnSourceIsDropped`), `convex/search/records.ts:249`. A build
   that read a source before its withdrawal records it afterwards; nothing drops the
   row again. Answers stay safe (`AnswerIsCurrent`), the prepared text stays in the
   table.
4. `leftover` (`PurgedMediaIsGone`), `convex/operations/deletion/executor.ts:405`.
   An image normalisation under way stores its derivative after the purge recorded
   which objects to delete: the job succeeds and the bytes stay.
5. `retained` (`PurgedMediaExpires`), `convex/operations/backups/functions.ts:251`.
   Every later verified set refers to the purged object, so no sweep ever plans its
   deletion: `NothingLeavesThePool` proves that the pool only grows.

Met while modelling, without a run of their own:

- *Engine.* An action that dies leaves its job `running` for good (`echo.ts:57`;
  its header counts the case among the uncertain outcomes). With `EagerReconcile`
  or `RecordMayFail` alone `AtMostOneEffect` fails as well. A refresh whose pass
  dies leaves its job running, so later refreshes of that finding are skipped.
- *Calendar.* `NoDuplicateEvent` does not hold of every instance. A row does not
  say which calendar it was observed in: when the connection comes back to a
  calendar it had left (four flows, two calendars, two firms), the copy is
  observed absent in the new one and created again in the old one (27
  states). An action that recreates a copy and dies before it records the answer
  creates it twice when a third attempt is allowed (15 states). The instance of
  `knowledge` has two flows and excludes the second by `FatalReasons`; the theorem
  states both conditions. Also: a completion that is late overwrites a newer
  ledger; a refresh racing a switch writes the old credential on the new binding;
  a failed switch restores `connected` without a credential; after
  `creation_unknown`, a disconnect and a new connection a second calendar is
  created unacknowledged; `calendar_access_lost` of a leg in flight marks the new
  connection in error.
- *Media.* Two drives that overlap may remove the bytes of a retained-original
  exception (`images/ledger.ts:385`); readers are still served. A refresh may be
  applied out of order (`uploads/protocol.ts:220`), completing without effect.
- *Analysis.* A restart after the publication of a group publishes it again under
  the next revision; the bump by the first group makes later groups stale; a
  stale group with `new:N` leaves an orphan project; an audio order that failed
  uncertainly is never reconcilable.
- *Memory.* Two withdrawn witnesses of one finding leave it known
  (`withdrawal.ts:5-8`); markings carry no links; derivation bases are not among
  the expected revisions.
- *Exports.* The worker treats a lost publish answer as an error and deletes the
  object although the row says available; a refused deletion is answered 200, so
  the cleanup is recorded as done; a build action that dies leaves its row
  `building`, and every later request reuses it.
- *Reminders.* Revoking a coordinator registers no recompute. A task that moves
  away and back between two recomputes leaves reminders that the evaluator
  suppressed, the exception `ReminderIsPending` makes.
- *Notifications.* A pass that dies after the push service took the message sends
  it again (the `lost` of `NotifiedOnce`); "one notification per batch" of
  `push/model.ts:12-14` does not hold; twenty denied pending rows starve the
  safety net; the purge of one source suppresses every intent of its batch.
- *Backups.* Files of a set are keyed by slot, not by attempt: a run whose lease
  lapsed overwrites files its successor has already checked (`pipeline.ts:268`,
  against `pipeline.ts:21-23`). The database of a failed slot is never deleted, a
  stale `building` row protects orphans for ever.
- *Preferences.* A window one bound of which is a minute that summer time leaves
  out or shows twice makes a deferral end up to an hour late, or name an instant
  that is still quiet (`evaluation.ts:233-237` says that a shift inside the night
  "resolves to the correct absolute instant"). A deferral that was made keeps its
  instant when the person shortens the window.
- *Telemetry.* The forward takes the newest fifty of its window, rows it forwarded
  before included, so that many events and one missed tick lose some
  (`retention.ts`: "one missed tick loses nothing"). Pruning the row of an incident
  that still stands reports it again. Clearing the costs of a staging fixture
  deletes the alert states, and the next firing reuses a count and is swallowed.
- *Composer.* A part the server refuses is not looked at (`uploader.ts`, `putPart`),
  so a shorter recording may be accepted, against `uploader.ts:18-24`; the send
  stores a snapshot it read before its awaits (`use-capture-composer.ts:16-19`);
  nothing writes the phase "sent", so the recovery that reads it is never taken;
  the button that discards works during a send; text edited after a lost receipt
  ends in an idempotency conflict.
- *Update.* `evaluateNow` looks at nothing again after it awaited the migration, so
  the first prompt may appear in a hidden page or under typing; `gate.ts` and
  `composition.ts:42` say that recordings and uploads defer the prompt, but nothing
  holds the gate; the migration reads and writes in two transactions, so that a
  save between them is undone in the store until the next one; the mark is
  consumed by the first load, so a second manual reload asks again for the same
  worker (`module.ts:208-211`); a new worker found after an accepted required
  reload is not offered in that tab; an unreadable health answer takes the
  required prompt away.
- *Agent.* After a refresh the ledger of evidence is not replaced, so a direct
  statement may cite a withdrawn source (five states; against
  `context.ts:31-35`). A dead action leaves its record open.

## 5. Proofs

Eight modules hold the theorems; each EXTENDS the modules it is about and needs no
assumption on a constant beyond the named ASSUMEs there, except where said. A
proof has the form: an invariant `Inv` that is inductive (`Init => Inv`, one lemma
per action that it keeps `Inv`, `Inv => Property`), and a temporal step.

**`Platform_proofs`.** *Engine*: `TypeCorrect` holds whatever the environment does.
The others assume `Patient`: the operator waits for unsettled attempts, a
connection does not break after the effect, an answer once received is recorded
(actions may die, executors may throw). `DeliveryInvariant` is the invariant. That
two attempts never both take effect is not inductive: an attempt may start only
when no earlier one acted or still can (`OnlyLatestActed`); a retry keeps that
because what an instance is about to record is true of its request
(`ObservationsHold`), and a late answer belongs to the latest attempt
(`NumberedAttempts`) and finds its job running (`AtMostOneDriver`).
`RowFollowsJob` carries the agreement of event row and job row through every
writer. From it: `EffectTakenOnce`, `SuccessReported`, `RowsReport`, `NoOrphans`,
`SucceededStays`, `NoBlindRetry`, `PendingRowsDriven`, and `Implements`, the
refinement of `ExternalDelivery`, initial states and every step. `OneDriverEach`
also assumes `Reliable` (actions survive, executors do not throw). Both
assumptions are necessary: `cut` violates the conclusion without the first, a
dying action without the second.

*Index*: `IndexInv` adds to the properties what makes them
inductive: a living pass has a running job, so a succeeded build never runs again
and no late build pass reaches a serving generation; the drafts of a pass name an
item once; what a query has read is of one generation. From it: `OneOfEach`,
`ServingVerified`, `OneRowEach`, `ServiceGoesOn`, `RetiredStaysAsItIs`,
`AnswersAreCurrent`.

**`Access_proofs`.** A code credential follows the address only because a living
ceremony is at its owner's present address (`CeremoniesAreAtAddress`), a person
has one ceremony (`OneCeremonyPerPerson`), so that a change of address ends them
all, and an unconfirmed change remembers the present one
(`ChangesStartFromPresent`). A staffed firm keeps an administrator because a firm
that has issued a member's invitation has one (`MemberInvitationsAreAnswered`).

**`Messages_proofs`.** *Intake*: for every kind of request in flight, what it will
write is backed by the bucket (`RequestFits`: a part in hand was stored, a
completion's manifest lies within the present one, a collection holds keys of
orphaned drafts only); an attachment that is completed and not orphaned has the
object its manifest records. *Media*: received bytes go only when the normalized row
is verified, and no step of another drive takes that back (`DrivesAreSafe`); what a
drive may leave of exception rows is bounded by the drives there are
(`MediaTypeCorrect`). *Audio*: the verdict a workflow carries is about the segment
as it is, because one workflow runs at a time (`VerdictHolds`), and an extraction is
over whole segments (`ExtractionIsWhole`). *Analysis*: flows keep a group at hand
while they publish, and the two lanes never drop each other's keys of the
checkpoint.

**`Memory_proofs`.** `CorrectionsStand` and `LoneWitnessAlwaysCounts` rest on how
a finding may change in one step, and on the fact that a withdrawn witness of a
known finding has its reaction pending. `DerivationsAreAcyclic` needs the most
mathematics: a publication checks that the finding is not among what its bases
reach, so one must know that this set, which the model computes from paths with at
most as many edges as there are findings, is closed under one more edge
(`ReachIsClosed`). A shortest path visits each finding at most once, hence a
full-length one visits them all (`Findings` is finite); an edge added to a graph
without cycles from a finding to bases that do not reach it closes none.

**`Knowledge_proofs`.** *Exports*: a token is fresh when its build is posted; an
archive no worker holds belongs to the row that names its token (`BuildFits`); an
available row has the links of the build it names and none is purged. *Deletion*:
a source that was asked or cited keeps its link until the text is redacted
(`CaseFits`), though another purge of the same case goes first; a job ends with
its stages (`PurgeFits`). *Reminders*: every schedule has a chain of overdue slots
in which a settled slot has a successor, so the last one, which exists because
days are finite and a least day is found, is pending; what was superseded is of an
earlier epoch. *Calendar*: `NeverTwiceInOneCalendar` assumes that
`observed_absent_recreate` is not among the reasons whose action dies and that a
bound calendar and account stay (`[][BindingStays]_calendarVars`); section 4 shows
that each is needed. Its invariant `OnceInv` says when the row may be trusted: an
attempt is the only open one of its copy, so what it learns stays true until it
completes; a row observed absent has no event unless its creation is under way
(`RowOnce`); a creation was counted and was decided without an event in sight
(`AttemptOnce`); every living event stands for the bound calendar and account.
`OnceInv` was model-checked under the same condition before it was proved.

**`Services_proofs`.** *Backups* (`Grace < Retention < ContentExpiry` and a
retention of at least two days, as in `slot.ts`): a set names all that was retained
when its last attempt began, so a later set names what an earlier one names
(`SetFits`), the set a sweep is for does not expire meanwhile, and what may be
deleted is empty. That proves `VerifiedMediaStaysPooled`, `NothingLeavesThePool`
(the reason for finding 5), and `BackupsAlwaysKeepAVault`, the refinement of
`BackupVault` under which a set is what its row lists without what it dropped:
completing a run seals a set of an unused slot whose media the pool has, a sweep
drops expired sets only, and what it releases no set that has not expired names;
every other step keeps the sealed sets and the pool, or adds to it. *Notifications*:
of every intent and device, received is at most one more than lost, and at most lost
while the row may yet be sent (`LegFits`); a row that may be sent shows a part of
its intent's batch and nothing cleared (`SendingFits`). *Telemetry*: `TelemetryInv`
says that no event of a month has a count above the one its alert state keeps, so
that the next firing has a new identity (`CountsAreKept`), that the batch of a tick
is of rows that were unmarked, which the sink has once it said so (`BatchHolds`),
and that the newest heartbeat of the leg is of the last forward (`LegHolds`). *Quiet
hours*: in two parts. The arithmetic is lemmas about every instant, window, length
of a day, zone and shift: four days always hold an end that is not past
(`EndAlwaysFound`, `EndIsAhead`); a wall time at a minute that is not moved is shown
by one instant, which the correction finds (`InstantShowsWall`); of two instants the
later shows the later wall time unless it shows it again (`WallOrder`); a quiet
instant lies in the night that ends today or tomorrow (`NightOfInstant`), and all of
that night is quiet (`NightIsQuiet`); hence from a quiet instant it is quiet until
the end that is named, where it is not (`EndOfTheNight`). The invariant `QuietInv`
says that no window is stored without a length and that a notice that waits was
quiet when it was deferred and waits for the end named then.
`DeferralsEndWithTheQuiet` has the condition that no bound of the window is a moved
minute; section 4 says what happens otherwise. `DeferralsAreAhead` has no condition.

**`Workplace_proofs`.** *Work*: a sheet is a past state of its record
(`SheetsAreOfThePast`: same revision, same contents), and a history has as many
rows as revisions with the present as its latest (`HistoryIsWhole`).
`WorkAlwaysKeepsAJournal` is the refinement of `RecordJournal`: a command
appends an entry that says something new to the journals it writes, of which one
at most is of a record that exists, and its author has that record on the table
as it stands. It needs that every entry is about the record or a point of its own
checklist (`HistoryIsOfTheRecord`). *Projects*: a
codename is claimed once for ever (`CodenamesAreClaimed`), generated ones are
counted by the projects there are. *Agent*: a loaded context is of the past
(`ContextIsOfThePast`), so a submission whose counters have not moved is judged on
the present tags.

**`Client_proofs`.** *Composer*: `CaptureInv` is that a mutation under way holds a
record of a draft that was drawn (`TurnHolds`), and of the draft shown when that one
was sent, so that its save cannot bring an earlier one back (`SentIsHeld`), that a
send is of the draft shown (`SendHolds`), that a receipt is of a source that exists
(`ReceiptIsReal`), and that a draft which was sent and neither given up nor accepted
is the one shown and the one stored, unless a write failed (`LostOrKept`).
`NothingSentIsEverLost` and the action property `NothingTypedIsEverUndone` follow.
*Update*: `UpdateInv` is that a button that was pressed has left its mark, that a
page which took one asks for no worker of before, and that a record is held by a
migration, and a prompt awaited, only while the migration runs.
`WordsAlwaysComeBack` and `AcceptedIsNeverAskedAgain` (until a new worker is found)
follow, for any texts.

| property checked by a run | theorem |
|---|---|
| `DeliversAtMostOnce`, `OneDriver` | `Implements`, `OneDriverEach` |
| `OneBuildsOneServes`, `RetiredGainsNothing`, `AnswerIsCurrent` | `OneOfEach`, `RetiredStaysAsItIs`, `AnswersAreCurrent` |
| `OneOwnerPerSubject`, `CredentialFollowsAddress` | `SubjectsAlwaysHaveOneOwner`, `CredentialsAlwaysFollowTheAddress` |
| `StaffedFirmHasAdministrator`, `OneFirmOneAdmission` | `StaffAlwaysHasAnAdministrator`, `AlwaysOneFirmAndOneAdmission` |
| `AcceptedMediaStored`, `MediaBelongsToOneSource`, `CollectedStaysCollected` | `AcceptedMediaIsAlwaysStored`, `MediaAlwaysBelongsToOneSource`, `CollectedAlwaysStaysCollected` |
| `ReadersFindBytes`, `TranscriptIsWhole` | `ReadersAlwaysFindBytes`, `TranscriptAlwaysWhole` |
| `WorkflowIdentityKept`, `ClaimsInspected` | `RetriesAlwaysFindTheirWorkflow`, `ClaimsAreAlwaysInspected` |
| `CorrectionStands`, `DerivationsAcyclic`, `LoneWitnessCounts` | `CorrectionsStand`, `DerivationsAreAcyclic`, `LoneWitnessAlwaysCounts` |
| `PurgedLeavesNoArchive`, `NoStrandedArchive` | `PurgedIsNotOffered`, `ArchivesAreAccountedFor` |
| `PurgedTextIsRedacted` | `DeletedTextIsRedacted` |
| `SupersededDies`, `ReminderIsPending` | `OnlyTheCurrentScheduleReminds`, `SomeReminderIsPending` |
| `NoDuplicateEvent` | `NeverTwiceInOneCalendar` |
| `NotifiedOnce`, `NothingClearedIsPrepared`, `KeepsAVault` | `ToldOnce`, `ClearedIsNotShown`, `BackupsAlwaysKeepAVault` |
| `FiringIsAnnounced`, `ForwardIsTold`, `DeferralEndsWithTheQuiet` | `FiringsAreAnnounced`, `ForwardIsAlwaysTold`, `DeferralsEndWithTheQuiet` |
| `NothingUnseenIsOverwritten`, `KeepsAJournal` | `NothingUnseenIsEverOverwritten`, `WorkAlwaysKeepsAJournal` |
| `OneCodenameOneProject`, `InferencesRestOnKnownFindings` | `OneCodenameAlwaysOneProject`, `InferencesAlwaysRestOnKnownFindings` |
| `NothingSentIsLost`, `NothingTypedIsUndone`, `WordsComeBack` | `NothingSentIsEverLost`, `NothingTypedIsEverUndone`, `WordsAlwaysComeBack` |

Type invariants are theorems of their own: `TypeCorrect`, `IndexTypeCorrect`,
`AccessTypeCorrect`, `IntakeTypeCorrect`, `MediaTypeCorrect`,
`TranscriptTypeCorrect`, `PipelineTypeCorrect`, `MemoryTypeCorrect`,
`DeletionTypeCorrect` (with `Exports`), `RemindersTypeCorrect`,
`CalendarTypeCorrect`, `BackupsTypeCorrect`, `NotificationsTypeCorrect`,
`TelemetryTypeCorrect`, `QuietTypeCorrect`, `WorkTypeCorrect`,
`ProjectsTypeCorrect`, `AgentTypeCorrect`, `CaptureTypeCorrect`,
`UpdateTypeCorrect`. Proved beside what the runs check: `FailedPurgeIsVisible` (a
purge fails with a stage that failed and succeeds with all of them purged),
`VerifiedMediaStaysPooled`, `LifecycleIsAlwaysSeen`, `ServingVerified`,
`ServiceGoesOn`, `DeferralsAreAhead`, `AcceptedIsNeverAskedAgain`.

## 6. What stays with TLC, and what is out of reach

Model-checked only:

- `JobSettles` and `GateReopens`: liveness under fairness is out of the prover's
  reach, as is ENABLED.
- The counterexamples of section 4.

Induction over data is out of reach of the installed backends (what a recursive
definition computes for every input), and a module with a RECURSIVE operator loses
the SMT backend, so none is used here; where a path or a chain is needed
(`Memory`, `Reminders`) it is a function or a least element.

Not modelled: command dispatch and contracts, the provider clients and their
fallback routes (their failures are outcomes of the modules that call them), the
routing gateway, the features of the web client other than the composer and the
update of the tab, table declarations, wall-clock lengths, and Convex itself.

## 7. Plan

Done: the engine and the index, every component that keeps state of its own in the
backend, the telemetry, and of the web client the composer and the update of a tab;
a theorem for every safety property a run checks and for the type invariant of every
module; the refinements `DurableExecution` of `ExternalDelivery`, `Work` of
`RecordJournal` and `Backups` of `BackupVault`. Next:

1. An abstract specification of `Memory` (a sequence of revisions per finding,
   corrections standing) and its refinement.
2. The drain with a registration that throws and several consumers per event.
3. The row of the calendar with the calendar it was observed in, so that
   `NeverTwiceInOneCalendar` can drop its condition once the code does.
4. Two tabs of the composer, and the deferrals of a person who changes the window
   while one waits.
