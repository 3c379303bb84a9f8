----------------------------- MODULE SearchIndex -----------------------------
(***************************************************************************)
(* The derived search index of convex/search: index generations (start,    *)
(* build, verified cutover), the durable refreshes that follow a withdrawn *)
(* or purged source and a revised finding, and the evidence query.         *)
(*                                                                         *)
(* The index is derived state.  A mutation is one action; the external     *)
(* index pass (runIndexPass) reads its work in one transaction, embeds it  *)
(* outside of any transaction and records it in a later one, so canonical  *)
(* records, generations and rows may change in between.  The evidence      *)
(* query reads the generation, the rows and the canonical records in three *)
(* separate transactions.                                                  *)
(*                                                                         *)
(* One row stands for all the rows of a source (its text, transcript and   *)
(* image fragments), vectors are not represented: whether a row carries    *)
(* one changes what coverage is disclosed, never which rows exist.         *)
(***************************************************************************)
EXTENDS Naturals, FiniteSets, JobDecisions

CONSTANTS
  Findings,      \* findings of the shared memory
  Sources,       \* accepted messages
  Generations,   \* identities of index generations
  MaxRevision,   \* bound: revisions of one finding
  IndexAttempts, \* maxAttempts of the registrations (3 in the code)
  PassesMayDie   \* may an external index pass be lost before it records?

Items == Findings \union Sources
ASSUME ItemsAssumption == Findings \intersect Sources = {}
ASSUME BoundAssumption == MaxRevision \in Nat /\ IndexAttempts \in Nat \ {0}
ASSUME PassesMayDieAssumption == PassesMayDie \in BOOLEAN

VARIABLES
  revision,    \* currentRevisionId of each finding, 0: no current revision
  lifecycle,   \* lifecycle of each source
  generation,  \* searchIndexGenerations
  entries,     \* searchEntries
  events,      \* pending outbox rows the index consumes
  indexJobs,   \* durableJobs of kind search.index_generation, by dedup key
  passes,      \* the external pass of each job and the drafts it has read
  query        \* one evidence query

indexVars == <<revision, lifecycle, generation, entries, events, indexJobs, passes, query>>
canonical == <<revision, lifecycle>>

(* The dedup keys: buildDedupKey, and the refresh keys of the drain.       *)
BuildKey(g)     == <<"build", g>>
FindingKey(f)   == <<"refresh_finding", f>>
SourceKey(s)    == <<"refresh_source", s>>
JobKeys == {BuildKey(g) : g \in Generations}
             \union {FindingKey(f) : f \in Findings}
             \union {SourceKey(s) : s \in Sources}

Rows   == [gen : Generations, item : Items, rev : 0..MaxRevision]
Events == [name : {"findingRevised", "sourceWithdrawn", "sourcePurged"},
           on : Items, rev : 0..MaxRevision]

IndexJobRows == [state : {"none", "queued", "running", "succeeded", "failed"},
            tries : 0..IndexAttempts, ext : {"none", "succeeded", "failed"}]
PassStates  == [phase : {"none", "scheduled", "loaded", "dead"}, drafts : SUBSET Rows]
QueryStates == [phase : {"scope", "rows", "hydrate", "done"},
                gen : SUBSET Generations, rows : SUBSET Rows]

NoPass  == [phase |-> "none", drafts |-> {}]
NoQuery == [phase |-> "scope", gen |-> {}, rows |-> {}]

IndexTypeOK ==
  /\ revision \in [Findings -> 0..MaxRevision]
  /\ lifecycle \in [Sources -> {"none", "active", "withdrawn", "purged"}]
  /\ generation \in [Generations -> {"none", "building", "active", "retired"}]
  /\ entries \subseteq Rows
  /\ events \subseteq Events
  /\ indexJobs \in [JobKeys -> IndexJobRows]
  /\ passes \in [JobKeys -> PassStates]
  /\ query \in QueryStates

InState(state) == {g \in Generations : generation[g] = state}
LivePass(k)    == passes[k].phase \in {"scheduled", "loaded"}

-----------------------------------------------------------------------------
(* The canonical records the index is derived from.                        *)

AcceptSource(s) ==
  /\ lifecycle[s] = "none"
  /\ lifecycle' = [lifecycle EXCEPT ![s] = "active"]
  /\ UNCHANGED <<revision, generation, entries, events, indexJobs, passes, query>>

(* The projection moves with its revision, in the publishing transaction.  *)
ReviseFinding(f) ==
  /\ revision[f] < MaxRevision
  /\ revision' = [revision EXCEPT ![f] = @ + 1]
  /\ events' = events \union
       {[name |-> "findingRevised", on |-> f, rev |-> revision[f] + 1]}
  /\ UNCHANGED <<lifecycle, generation, entries, indexJobs, passes, query>>

(* performWithdrawSource and performPurgeSource: one-time transitions.     *)
WithdrawSource(s) ==
  /\ lifecycle[s] = "active"
  /\ lifecycle' = [lifecycle EXCEPT ![s] = "withdrawn"]
  /\ events' = events \union {[name |-> "sourceWithdrawn", on |-> s, rev |-> 0]}
  /\ UNCHANGED <<revision, generation, entries, indexJobs, passes, query>>

PurgeSource(s) ==
  /\ lifecycle[s] \in {"active", "withdrawn"}
  /\ lifecycle' = [lifecycle EXCEPT ![s] = "purged"]
  /\ events' = events \union {[name |-> "sourcePurged", on |-> s, rev |-> 0]}
  /\ UNCHANGED <<revision, generation, entries, indexJobs, passes, query>>

(* The keys of the refreshes name the subject only, not the revision.      *)
RefreshKey(e) ==
  IF e.name = "findingRevised" THEN FindingKey(e.on) ELSE SourceKey(e.on)

(* The drain projects each event onto a refresh of its subject.            *)
DrainEvents(E) ==
  /\ E # {}
  /\ events' = events \ E
  /\ indexJobs' = [k \in JobKeys |-> IF k \in {RefreshKey(e) : e \in E}
                                  THEN RegisteredRow(indexJobs[k]) ELSE indexJobs[k]]
  /\ UNCHANGED <<canonical, generation, entries, passes, query>>

-----------------------------------------------------------------------------
(* Generations.                                                            *)

(* A fault: only a recorded failure counts as interrupted.                 *)
FailedOnly(g) == indexJobs[BuildKey(g)].state \in {"none", "failed"}

(* retireInterruptedBuilding: the build failed, or it shows no progress    *)
(* within STALE_BUILD_JOB_MS.  A pass heartbeats after every batch and a   *)
(* batch stays under the window, so only a pass that died looks stale.     *)
Interrupted(g) ==
  \/ indexJobs[BuildKey(g)].state \in {"none", "failed"}
  \/ indexJobs[BuildKey(g)].state = "running" /\ ~LivePass(BuildKey(g))

(* Two faults: the gate is not there; the serving generation retires with  *)
(* the interrupted one.                                                    *)
StartUngated(g) ==
  /\ generation[g] = "none"
  /\ generation' = [generation EXCEPT ![g] = "building"]
  /\ indexJobs' = [indexJobs EXCEPT ![BuildKey(g)] = RegisteredRow(@)]
  /\ UNCHANGED <<canonical, entries, events, passes, query>>

StartRetiresAll(g) ==
  /\ generation[g] = "none"
  /\ \A b \in InState("building") : Interrupted(b)
  /\ generation' = [h \in Generations |->
       IF h = g THEN "building"
       ELSE IF generation[h] = "none" THEN "none" ELSE "retired"]
  /\ indexJobs' = [indexJobs EXCEPT ![BuildKey(g)] = RegisteredRow(@)]
  /\ UNCHANGED <<canonical, entries, events, passes, query>>

(* performStartIndexGeneration: one building generation at a time; an      *)
(* interrupted one retires, any other refuses the start.                   *)
StartIndexGeneration(g) ==
  /\ generation[g] = "none"
  /\ \A b \in InState("building") : Interrupted(b)
  /\ generation' = [h \in Generations |->
       CASE h = g                        -> "building"
         [] generation[h] = "building"   -> "retired"
         [] OTHER                        -> generation[h]]
  /\ indexJobs' = [indexJobs EXCEPT ![BuildKey(g)] = RegisteredRow(@)]
  /\ UNCHANGED <<canonical, entries, events, passes, query>>

(* A fault: the build evidence is not asked for.                           *)
CutOverUnverified(g) ==
  /\ generation[g] = "building"
  /\ generation' = [h \in Generations |->
       CASE h = g                      -> "active"
         [] generation[h] = "active"   -> "retired"
         [] OTHER                      -> generation[h]]
  /\ UNCHANGED <<canonical, entries, events, indexJobs, passes, query>>

(* performCutOverIndexGeneration: the verified, atomic switch.             *)
CutOverIndexGeneration(g) ==
  /\ generation[g] = "building"
  /\ indexJobs[BuildKey(g)].state = "succeeded"
  /\ generation' = [h \in Generations |->
       CASE h = g                      -> "active"
         [] generation[h] = "active"   -> "retired"
         [] OTHER                      -> generation[h]]
  /\ UNCHANGED <<canonical, entries, events, indexJobs, passes, query>>

-----------------------------------------------------------------------------
(* The executor half: executeJob with searchIndexExecutor.                 *)

(* A fault: the attempts are not counted against maxAttempts.              *)
StartsAlways(k) == indexJobs[k].state = "queued"

Starts(k) == indexJobs[k].state = "queued" /\ indexJobs[k].tries < IndexAttempts

Ends(k, state) ==
  indexJobs' = [indexJobs EXCEPT ![k].state = state, ![k].tries = @ + 1, ![k].ext = state]

(* deleteSourceEntries, deleteFindingEntries: in every generation.         *)
DropRows(item) == entries' = {e \in entries : e.item # item}

RunExhausted(k) ==
  /\ indexJobs[k].state = "queued" /\ indexJobs[k].tries >= IndexAttempts
  /\ indexJobs' = [indexJobs EXCEPT ![k].state = "failed"]
  /\ UNCHANGED <<canonical, generation, entries, events, passes, query>>

RunRefreshSource(s) ==
  /\ Starts(SourceKey(s))
  /\ DropRows(s)
  /\ Ends(SourceKey(s), "succeeded")
  /\ UNCHANGED <<canonical, generation, events, passes, query>>

(* Outcome "external": the job stays running, the pass is scheduled.       *)
SchedulePass(k) ==
  /\ indexJobs' = [indexJobs EXCEPT ![k].state = "running", ![k].tries = @ + 1]
  /\ passes' = [passes EXCEPT ![k] = [phase |-> "scheduled", drafts |-> {}]]

RunRefreshFinding(f) ==
  /\ Starts(FindingKey(f))
  /\ DropRows(f)
  /\ \/ revision[f] = 0 /\ Ends(FindingKey(f), "succeeded") /\ UNCHANGED passes
     \/ revision[f] # 0 /\ SchedulePass(FindingKey(f))
  /\ UNCHANGED <<canonical, generation, events, query>>

RunBuild(g) ==
  /\ Starts(BuildKey(g))
  /\ \/ generation[g] # "building" /\ Ends(BuildKey(g), "failed") /\ UNCHANGED passes
     \/ generation[g] = "building" /\ SchedulePass(BuildKey(g))
  /\ UNCHANGED <<canonical, generation, entries, events, query>>

-----------------------------------------------------------------------------
(* The external pass.                                                      *)

(* collectGenerationWork: active sources, findings with a current revision.*)
BuildDrafts(g) ==
  {[gen |-> g, item |-> s, rev |-> 0] : s \in {s \in Sources : lifecycle[s] = "active"}}
    \union {[gen |-> g, item |-> f, rev |-> revision[f]] :
              f \in {f \in Findings : revision[f] # 0}}

(* collectFindingWork: the current revision, per generation not retired.   *)
FindingDrafts(f) ==
  IF revision[f] = 0 THEN {}
  ELSE {[gen |-> g, item |-> f, rev |-> revision[f]] :
          g \in InState("building") \union InState("active")}

DraftsOf(k) ==
  CASE k \in {BuildKey(g) : g \in Generations} -> BuildDrafts(k[2])
    [] k \in {FindingKey(f) : f \in Findings}  -> FindingDrafts(k[2])
    [] OTHER                                   -> {}

LoadWork(k) ==
  /\ passes[k].phase = "scheduled"
  /\ passes' = [passes EXCEPT ![k] = [phase |-> "loaded", drafts |-> DraftsOf(k)]]
  /\ UNCHANGED <<canonical, generation, entries, events, indexJobs, query>>

PassEnds(k, state) ==
  /\ passes[k].phase = "loaded"
  /\ passes' = [passes EXCEPT ![k] = NoPass]
  /\ indexJobs' = [indexJobs EXCEPT ![k].state = state, ![k].ext = state]

(* The provider answered with a vector that is rejected: nothing commits.  *)
RejectOutput(k) ==
  /\ passes[k].drafts # {}
  /\ PassEnds(k, "failed")
  /\ UNCHANGED <<canonical, generation, entries, events, query>>

(* Two faults: the generation is not re-validated at the write; the rows   *)
(* of superseded revisions stay.                                           *)
NeverRefused(drafts) == FALSE
Pile(drafts) == entries \union drafts

(* recordIndexEntries refuses the whole batch over one retired generation. *)
Refused(drafts) == \E d \in drafts : generation[d.gen] = "retired"

(* Each draft replaces the row of its item in its generation, whichever    *)
(* revision that row has; the row of a source is never replaced.           *)
Written(drafts) ==
  {e \in entries : \A d \in drafts : d.gen # e.gen \/ d.item # e.item} \union drafts

RecordEntries(k) ==
  /\ \/ Refused(passes[k].drafts) /\ PassEnds(k, "failed") /\ UNCHANGED entries
     \/ /\ ~Refused(passes[k].drafts)
        /\ PassEnds(k, "succeeded")
        /\ entries' = Written(passes[k].drafts)
  /\ UNCHANGED <<canonical, generation, events, query>>

(* The process of the pass is lost; nobody records anything for its job.   *)
PassDies(k) ==
  /\ PassesMayDie
  /\ LivePass(k)
  /\ passes' = [passes EXCEPT ![k] = [phase |-> "dead", drafts |-> {}]]
  /\ UNCHANGED <<canonical, generation, entries, events, indexJobs, query>>

-----------------------------------------------------------------------------
(* runEvidenceQuery.                                                       *)

(* Without an active generation the answer is empty, coverage degraded.    *)
(* A query changes nothing, so one that may start at any time stands for   *)
(* all of them.                                                            *)
QueryScope ==
  /\ query.phase = "scope"
  /\ query' = [phase |-> IF InState("active") = {} THEN "done" ELSE "rows",
               gen |-> InState("active"), rows |-> {}]
  /\ UNCHANGED <<canonical, generation, entries, events, indexJobs, passes>>

QueryRows ==
  /\ query.phase = "rows"
  /\ query' = [query EXCEPT !.phase = "hydrate",
                            !.rows = {e \in entries : e.gen \in query.gen}]
  /\ UNCHANGED <<canonical, generation, entries, events, indexJobs, passes>>

(* A fault: the row's revision is not compared with the current one.       *)
KeepAnyRevision(e) ==
  \/ e.item \in Sources /\ lifecycle[e.item] = "active"
  \/ e.item \in Findings /\ revision[e.item] # 0

(* keepSourceEntry and keepFindingEntry, without the caller's filters.     *)
Keep(e) ==
  \/ e.item \in Sources /\ lifecycle[e.item] = "active"
  \/ e.item \in Findings /\ revision[e.item] # 0 /\ revision[e.item] = e.rev

QueryHydrate ==
  /\ query.phase = "hydrate"
  /\ query' = [query EXCEPT !.phase = "done", !.rows = {e \in @ : Keep(e)}]
  /\ UNCHANGED <<canonical, generation, entries, events, indexJobs, passes>>

-----------------------------------------------------------------------------
IndexInit ==
  /\ revision = [f \in Findings |-> 0]
  /\ lifecycle = [s \in Sources |-> "none"]
  /\ generation = [g \in Generations |-> "none"]
  /\ entries = {}
  /\ events = {}
  /\ indexJobs = [k \in JobKeys |-> NoJob]
  /\ passes = [k \in JobKeys |-> NoPass]
  /\ query = NoQuery

RunJob(k) ==
  \/ RunExhausted(k)
  \/ \E s \in Sources : k = SourceKey(s) /\ RunRefreshSource(s)
  \/ \E f \in Findings : k = FindingKey(f) /\ RunRefreshFinding(f)
  \/ \E g \in Generations : k = BuildKey(g) /\ RunBuild(g)

Pass(k) == LoadWork(k) \/ RejectOutput(k) \/ RecordEntries(k)

IndexNext ==
  \/ \E s \in Sources : AcceptSource(s) \/ WithdrawSource(s) \/ PurgeSource(s)
  \/ \E f \in Findings : ReviseFinding(f)
  \/ \E E \in SUBSET events : DrainEvents(E)
  \/ \E g \in Generations : StartIndexGeneration(g) \/ CutOverIndexGeneration(g)
  \/ \E k \in JobKeys : RunJob(k) \/ Pass(k) \/ PassDies(k)
  \/ QueryScope \/ QueryRows \/ QueryHydrate

(* The scheduler runs every queued job, and a pass goes on or is lost.     *)
IndexFairness == \A k \in JobKeys : WF_indexVars(RunJob(k)) /\ WF_indexVars(Pass(k) \/ PassDies(k))

IndexSpec     == IndexInit /\ [][IndexNext]_indexVars
IndexFairSpec == IndexSpec /\ IndexFairness

-----------------------------------------------------------------------------
(* Safety.                                                                 *)

(* The index is global: at most one generation builds (the gate of the     *)
(* start) and at most one serves (the atomic switch of the cutover), so a  *)
(* query never mixes the vectors of two generations.                       *)
OneBuildsOneServes ==
  /\ Cardinality(InState("building")) <= 1
  /\ Cardinality(InState("active")) <= 1

(* A generation serves only on the evidence of its build: the build job    *)
(* succeeded and no build pass is still on its way to the serving rows.    *)
ServingIsVerified ==
  \A g \in InState("active") :
    /\ indexJobs[BuildKey(g)].state = "succeeded"
    /\ ~LivePass(BuildKey(g))

(* A set of rows that tells of each item once per generation.              *)
OnePerItem(S) == \A d, e \in S : d.gen = e.gen /\ d.item = e.item => d = e

(* A generation holds one row of a finding, whatever order the build and   *)
(* the refreshes of several revisions record in.                           *)
FindingHasOneRow == OnePerItem(entries)

(* The refresh of k succeeded and no event asks for another.               *)
RefreshDone(k) ==
  indexJobs[k].state = "succeeded" /\ \A e \in events : RefreshKey(e) # k

(* A withdrawal drops the rows of its source: once its refresh succeeded   *)
(* and no event of the source is pending, no generation that is not        *)
(* retired has a row of it (outbox.ts: "a withdrawal drops the source's    *)
(* index rows in every non-retired generation, a purge does the same").    *)
WithdrawnSourceIsDropped ==
  \A s \in Sources :
    lifecycle[s] \in {"withdrawn", "purged"} /\ RefreshDone(SourceKey(s)) =>
      \A e \in entries : e.item = s => generation[e.gen] = "retired"

-----------------------------------------------------------------------------
(* The inductive invariant behind the safety properties.                   *)

AtMostOne(S) == \A g, h \in S : g = h

(* A pass lives only while its job is running.                             *)
PassesRun == \A k \in JobKeys : LivePass(k) => indexJobs[k].state = "running"

ActiveIsBuilt ==
  \A g \in InState("active") : indexJobs[BuildKey(g)].state = "succeeded"

(* What a query has read is of the one generation that served then.        *)
QueryIsOfOne ==
  /\ AtMostOne(query.gen)
  /\ \A e \in query.rows : e.gen \in query.gen
  /\ OnePerItem(query.rows)

IndexInv ==
  /\ AtMostOne(InState("building"))
  /\ AtMostOne(InState("active"))
  /\ PassesRun
  /\ ActiveIsBuilt
  /\ \A k \in JobKeys : OnePerItem(passes[k].drafts)
  /\ OnePerItem(entries)
  /\ QueryIsOfOne

-----------------------------------------------------------------------------
(* Action properties.                                                      *)

(* Once an index serves, some generation always serves.                    *)
ServingContinues == [][InState("active") # {} => InState("active")' # {}]_indexVars

(* A retired generation gains no row, although a pass that read its work   *)
(* before a cutover records it afterwards.                                 *)
RetiredGainsNothing ==
  [][\A e \in entries' \ entries : generation[e.gen] # "retired"]_indexVars

(* A refresh of f is on its way that writes revision r or a later one.     *)
WillBeWritten(f, r) ==
  \/ indexJobs'[FindingKey(f)].state = "queued"
  \/ passes[FindingKey(f)].phase = "scheduled"
  \/ \E d \in passes[FindingKey(f)].drafts : d.rev >= r

(* No revision is collapsed away: when the drain takes the event of a      *)
(* revision, the serving rows have that revision or a later one, or a      *)
(* refresh that has yet to read its work, or has read that revision, will  *)
(* write it (registry.ts: "a revised finding rebuilds its rows from the    *)
(* CURRENT revision").                                                     *)
DrainedRevisionIsServed ==
  [][\A e \in events \ events', g \in InState("active") :
       e.name = "findingRevised" =>
         \/ WillBeWritten(e.on, e.rev)
         \/ \E row \in entries : row.gen = g /\ row.item = e.on /\ row.rev >= e.rev]_indexVars

(* A stale derived row never authorizes an answer: whatever happened since *)
(* the rows were read, the answer has only sources that are active and     *)
(* findings at their current revision, one row each (query.ts, hydration). *)
AnswerIsCurrent ==
  [][query.phase = "hydrate" /\ query'.phase = "done" =>
       /\ \A e \in query'.rows :
            IF e.item \in Sources THEN lifecycle[e.item] = "active"
                                  ELSE e.rev = revision[e.item]
       /\ \A d, e \in query'.rows : d.item = e.item => d = e]_indexVars

-----------------------------------------------------------------------------
(* Liveness.                                                               *)

(* The start gate never closes for good, whatever becomes of the build: a  *)
(* building generation is retired or serves, or is verified and waits for  *)
(* its cutover, or the next start will retire it (generations.ts on "the   *)
(* one-at-a-time gate refusing every later generation forever").           *)
GateReopens ==
  \A g \in Generations :
    generation[g] = "building" ~>
      \/ generation[g] # "building"
      \/ indexJobs[BuildKey(g)].state = "succeeded"
      \/ Interrupted(g)
=============================================================================
