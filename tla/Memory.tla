------------------------------- MODULE Memory -------------------------------
(***************************************************************************)
(* The shared memory of a company: findings with their revisions, change   *)
(* sets prepared by an analysis and published later, corrections, and the  *)
(* reactions to a withdrawn, purged or reassigned source that walk the     *)
(* derivation graph (convex/memory/findings, convex/memory/recompute,      *)
(* convex/sources/reassign, convex/operations/deletion/marking).           *)
(*                                                                         *)
(* Every mutation is one transaction, so one action.  Between two of them  *)
(* time passes: a plan waits between prepare and publish, a reaction waits *)
(* as a durable job, keyed by the event it answers and run once.           *)
(*                                                                         *)
(* A finding stands for one scope and semantic key.  Only its current      *)
(* revision is kept: decisions read older ones only for the derivation     *)
(* edges they left, which `edges` holds.  A change set has one planned     *)
(* revision and its evidence is of the kinds that count as a witness.      *)
(***************************************************************************)
EXTENDS Naturals, FiniteSets

CONSTANTS
  Findings,         \* scope and semantic key pairs a finding may have
  ProjectFindings,  \* those scoped to the one project of the model
  Messages,         \* accepted messages
  Plans,            \* identities of change sets that are prepared at one time
  PlanTags,         \* knowledge states a plan may publish
  NoSource

ASSUME ProjectScopeAssumption == ProjectFindings \subseteq Findings
ASSUME NoSourceAssumption == NoSource \notin Messages

VARIABLES
  findings,   \* findings with their current revision
  edges,      \* findingDependencies: <<dependent, basis>>
  standing,   \* lifecycle of each source
  placed,     \* is the source linked to the project?
  moves,      \* reassignments of each source so far: they name their jobs
  plans,      \* change sets; a terminal one is never read again, so its row is freed
  reactions,  \* pending jobs of kind memory.recompute_dependents and the purge marking
  analyses    \* analysis runs of each source that have not prepared their plan

memoryVars == <<findings, edges, standing, placed, moves, plans, reactions, analyses>>

Tags == {"known", "unknown", "updating"}
Origins == {"publication", "correction", "withdrawal_marking", "reassignment_marking",
            "purge_marking"}
FindingRows == [revision : Nat, tag : Tags \union {"none"}, origin : Origins \union {"none"},
                witnesses : SUBSET Messages, provenance : Messages \union {NoSource},
                lost : Messages \union {NoSource}]
PlanRows == [prepared : BOOLEAN, source : Messages \union {NoSource}, finding : Findings,
             expected : Nat, tag : PlanTags, witnesses : SUBSET Messages,
             derivesFrom : SUBSET Findings]
Reactions == {"withdrawn", "purged"} \X Messages
               \union {"reassigned"} \X Messages \X Nat
               \union {"stale", "revised"} \X Findings \X Nat

\* A path through the derivations visits each finding at most once.
ASSUME FindingsAssumption == IsFiniteSet(Findings)

\* A plan publishes a knowledge state, and there is something to publish.
ASSUME PlanAssumption == Findings # {} /\ PlanTags # {} /\ PlanTags \subseteq Tags

MemoryTypeOK ==
  /\ findings \in [Findings -> FindingRows]
  /\ edges \subseteq Findings \X Findings
  /\ standing \in [Messages -> {"active", "withdrawn", "purged"}]
  /\ placed \in [Messages -> BOOLEAN]
  /\ moves \in [Messages -> Nat]
  /\ plans \in [Plans -> PlanRows]
  /\ \A r \in reactions : r \in Reactions
  /\ analyses \in [Messages -> Nat]

NoFinding == [revision |-> 0, tag |-> "none", origin |-> "none", witnesses |-> {},
              provenance |-> NoSource, lost |-> NoSource]
NoPlanRow == [prepared |-> FALSE, source |-> NoSource, finding |-> CHOOSE f \in Findings : TRUE,
              expected |-> 0, tag |-> CHOOSE t \in PlanTags : TRUE, witnesses |-> {},
              derivesFrom |-> {}]

Published(n, t, witnesses, s) ==
  [revision |-> n, tag |-> t, origin |-> "publication", witnesses |-> witnesses,
   provenance |-> s, lost |-> NoSource]

\* Some findings have been published from a source before.
MemoryInit ==
  /\ \E known \in SUBSET Findings, s \in Messages :
       findings = [f \in Findings |-> IF f \in known THEN Published(1, "known", {s}, s)
                                      ELSE NoFinding]
  /\ edges = {}
  /\ standing = [s \in Messages |-> "active"]
  /\ placed = [s \in Messages |-> TRUE]
  /\ moves = [s \in Messages |-> 0]
  /\ plans = [p \in Plans |-> NoPlanRow]
  /\ reactions = {}
  /\ analyses = [s \in Messages |-> 1]

Exists(f) == findings[f].revision > 0
Active(s) == standing[s] = "active"

\* Is g reachable from f along the edges of E?
Reaches(E, f, g) ==
  \E path \in [1 .. Cardinality(Findings) -> Findings] :
    /\ path[1] = f
    /\ \E n \in DOMAIN path :
         /\ path[n] = g
         /\ \A m \in 1 .. n - 1 : <<path[m], path[m + 1]>> \in E

WouldCreateCycle(E, f, bases) ==
  \E b \in bases : Reaches(E, b, f)

(***************************************************************************)
(* Change sets.                                                            *)
(***************************************************************************)
PlanConsistent(f, witnesses, bases) ==
  /\ witnesses \union bases # {}
  /\ f \notin bases

PrepareChangeSet(p, s, f) ==
  /\ ~plans[p].prepared /\ analyses[s] > 0
  /\ Active(s)
  /\ \E witnesses \in SUBSET Messages, bases \in SUBSET {b \in Findings : Exists(b)}, t \in PlanTags :
       /\ PlanConsistent(f, witnesses, bases)
       /\ ~WouldCreateCycle(edges, f, bases)
       /\ plans' = [plans EXCEPT ![p] =
                      [prepared |-> TRUE, source |-> s, finding |-> f,
                       expected |-> findings[f].revision, tag |-> t,
                       witnesses |-> witnesses, derivesFrom |-> bases]]
  /\ analyses' = [analyses EXCEPT ![s] = @ - 1]
  /\ UNCHANGED <<findings, edges, standing, placed, moves, reactions>>

\* A fault: the publish trusts the lifecycles of witnesses that prepare has read.
SupportWasActive(plan) == Active(plan.source)

SupportIsActive(plan) == Active(plan.source) /\ \A w \in plan.witnesses : Active(w)

\* A fault: the publish does not look at the revision the plan was made for.
TakesAnyRevision(plan) == plan.expected = 0 => ~Exists(plan.finding)

NothingRevisedSince(plan) == findings[plan.finding].revision = plan.expected

\* A fault: the publish trusts the cycle check of prepare.
WasAcyclic(plan) == plan.finding \notin plan.derivesFrom

StaysAcyclic(plan) == ~WouldCreateCycle(edges, plan.finding, plan.derivesFrom)

MayPublish(plan) ==
  /\ SupportIsActive(plan)
  /\ NothingRevisedSince(plan)
  /\ PlanConsistent(plan.finding, plan.witnesses, plan.derivesFrom)
  /\ StaysAcyclic(plan)

Publish(p) ==
  /\ plans[p].prepared
  /\ MayPublish(plans[p])
  /\ LET plan == plans[p]
         f == plan.finding
         n == findings[f].revision + 1
     IN /\ findings' = [findings EXCEPT ![f] =
                          Published(n, plan.tag, plan.witnesses, plan.source)]
        /\ edges' = edges \union ({f} \X plan.derivesFrom)
        /\ reactions' = reactions \union {<<"revised", f, n>>}
  /\ plans' = [plans EXCEPT ![p] = NoPlanRow]
  /\ UNCHANGED <<standing, placed, moves, analyses>>

FailChangeSet(p) ==
  /\ plans[p].prepared
  /\ ~MayPublish(plans[p])
  /\ plans' = [plans EXCEPT ![p] = NoPlanRow]
  /\ UNCHANGED <<findings, edges, standing, placed, moves, reactions, analyses>>

\* The revision the administrator saw is the current one, or the command is
\* refused and nothing changes.
CorrectFinding(f) ==
  /\ Exists(f)
  /\ LET n == findings[f].revision + 1
     IN /\ findings' = [findings EXCEPT ![f] =
                          [NoFinding EXCEPT !.revision = n, !.tag = "known",
                                            !.origin = "correction"]]
        /\ reactions' = reactions \union {<<"revised", f, n>>}
  /\ UNCHANGED <<edges, standing, placed, moves, plans, analyses>>

(***************************************************************************)
(* Markings: a revision that keeps the value and moves the knowledge       *)
(* state.  It carries no evidence links and no provenance.                 *)
(***************************************************************************)
Marked(F, origin, t, s) ==
  [f \in Findings |->
     IF f \in F
     THEN [NoFinding EXCEPT !.revision = findings[f].revision + 1, !.tag = t,
                            !.origin = origin, !.lost = s]
     ELSE findings[f]]

RevisedEvents(F) == {<<"revised", f, findings[f].revision + 1>> : f \in F}

\* The carriers of roots whose current revision is row[f].
Carriers(F, row) ==
  {<<"stale", f, row[f].revision>> : f \in {g \in F : \E d \in Findings : <<d, g>> \in edges}}

\* One analysis for each active source the current revisions of F were published from.
Reanalysed(F) ==
  [s \in Messages |->
     IF Active(s) /\ \E f \in F : findings[f].provenance = s
     THEN analyses[s] + 1 ELSE analyses[s]]

\* decideWithdrawalMarking: the survivor is any other witness.
LosesSupport(f, s) ==
  /\ s \in findings[f].witnesses
  /\ findings[f].origin \notin {"correction", "withdrawal_marking", "purge_marking"}
  /\ findings[f].witnesses \ {s} = {}

\* decideScopeReassessment
LosesPlacement(f, s) ==
  /\ f \in ProjectFindings /\ ~placed[s]
  /\ findings[f].tag = "known" /\ findings[f].origin # "correction"
  /\ findings[f].provenance = s \/ s \in findings[f].witnesses
  /\ ~ \E w \in findings[f].witnesses \ {s} : Active(w) /\ placed[w]

\* decideDependentRecomputation
GoesStale(d) ==
  /\ findings[d].tag = "known" /\ findings[d].origin # "correction"
  /\ ~ \E w \in findings[d].witnesses : Active(w)

Dependents(f) == {d \in Findings : <<d, f>> \in edges}

WithdrawnRoots(s, row) ==
  {f \in Findings : row[f].origin = "withdrawal_marking" /\ row[f].lost = s}

(***************************************************************************)
(* Messages that are withdrawn, purged or moved, and the jobs that follow. *)
(***************************************************************************)
WithdrawSource(s) ==
  /\ Active(s)
  /\ standing' = [standing EXCEPT ![s] = "withdrawn"]
  /\ reactions' = reactions \union {<<"withdrawn", s>>}
  /\ UNCHANGED <<findings, edges, placed, moves, plans, analyses>>

DeleteSource(s) ==
  /\ standing[s] # "purged"
  /\ standing' = [standing EXCEPT ![s] = "purged"]
  /\ reactions' = reactions \union {<<"purged", s>>}
  /\ UNCHANGED <<findings, edges, placed, moves, plans, analyses>>

ReassignSource(s) ==
  /\ Active(s)
  /\ placed' = [placed EXCEPT ![s] = ~@]
  /\ moves' = [moves EXCEPT ![s] = @ + 1]
  /\ reactions' = reactions \union {<<"reassigned", s, moves[s] + 1>>}
  /\ UNCHANGED <<findings, edges, standing, plans, analyses>>

MarkWithdrawnSupport(s) ==
  /\ <<"withdrawn", s>> \in reactions /\ standing[s] = "withdrawn"
  /\ LET marked == {f \in Findings : LosesSupport(f, s)}
         row == Marked(marked, "withdrawal_marking", "unknown", s)
     IN /\ findings' = row
        /\ reactions' = (reactions \ {<<"withdrawn", s>>})
             \union RevisedEvents(marked) \union Carriers(WithdrawnRoots(s, row), row)
  /\ UNCHANGED <<edges, standing, placed, moves, plans, analyses>>

MarkPurgedSupport(s) ==
  /\ <<"purged", s>> \in reactions
  /\ LET marked == {f \in Findings : LosesSupport(f, s)}
         row == Marked(marked, "purge_marking", "unknown", s)
     IN /\ findings' = row
        /\ reactions' = (reactions \ {<<"purged", s>>})
             \union RevisedEvents(marked) \union Carriers(marked, row)
  /\ plans' = [p \in Plans |-> IF plans[p].source = s THEN NoPlanRow ELSE plans[p]]
  /\ UNCHANGED <<edges, standing, placed, moves, analyses>>

MarkReassignedScope(s, n) ==
  /\ <<"reassigned", s, n>> \in reactions /\ Active(s)
  /\ LET marked == {f \in Findings : LosesPlacement(f, s)}
         row == Marked(marked, "reassignment_marking", "updating", s)
     IN /\ findings' = row
        /\ reactions' = (reactions \ {<<"reassigned", s, n>>})
             \union RevisedEvents(marked) \union Carriers(marked, row)
        /\ analyses' = Reanalysed(marked)
  /\ UNCHANGED <<edges, standing, placed, moves, plans>>

\* The lifecycle the reaction was registered for is gone: the job fails for good.
RefuseReaction(s) ==
  /\ \E r \in reactions :
       /\ \/ r = <<"withdrawn", s>> /\ standing[s] # "withdrawn"
          \/ r \in {<<"reassigned", s, n>> : n \in 1 .. moves[s]} /\ ~Active(s)
       /\ reactions' = reactions \ {r}
  /\ UNCHANGED <<findings, edges, standing, placed, moves, plans, analyses>>

MarkStaleDependents(f, n) ==
  /\ <<"stale", f, n>> \in reactions
  /\ LET marked == {d \in Dependents(f) : GoesStale(d)}
         row == Marked(marked, "withdrawal_marking", "updating", NoSource)
     IN /\ findings' = row
        /\ reactions' = (reactions \ {<<"stale", f, n>>})
             \union RevisedEvents(marked) \union Carriers(marked, row)
        /\ analyses' = Reanalysed(marked)
  /\ UNCHANGED <<edges, standing, placed, moves, plans>>

RevalidateDependents(f, n) ==
  /\ <<"revised", f, n>> \in reactions
  /\ reactions' = reactions \ {<<"revised", f, n>>}
  /\ analyses' = IF findings[f].tag = "known"
                 THEN Reanalysed({d \in Dependents(f) : findings[d].tag = "updating"})
                 ELSE analyses
  /\ UNCHANGED <<findings, edges, standing, placed, moves, plans>>

MemoryNext ==
  \/ \E p \in Plans, s \in Messages, f \in Findings : PrepareChangeSet(p, s, f)
  \/ \E p \in Plans : Publish(p) \/ FailChangeSet(p)
  \/ \E f \in Findings : CorrectFinding(f)
  \/ \E s \in Messages :
       \/ WithdrawSource(s)
       \/ DeleteSource(s)
       \/ ReassignSource(s)
       \/ MarkWithdrawnSupport(s)
       \/ MarkPurgedSupport(s)
       \/ RefuseReaction(s)
       \/ \E n \in 1 .. moves[s] : MarkReassignedScope(s, n)
  \/ \E f \in Findings : \E n \in 1 .. findings[f].revision :
       MarkStaleDependents(f, n) \/ RevalidateDependents(f, n)

MemorySpec == MemoryInit /\ [][MemoryNext]_memoryVars

(***************************************************************************)
(* Properties.                                                             *)
(***************************************************************************)
\* An explicit correction stands until another correction replaces it, or a
\* publication whose plan was prepared when the correction was already the
\* current revision: no plan that waited, no withdrawal, purge, reassignment
\* and no cascade overwrites it (plan.ts decidePublish, provenance.ts,
\* recompute.ts, reassignment.ts).
CorrectionStands ==
  [][\A f \in Findings :
       findings[f].origin = "correction" /\ findings'[f] # findings[f] =>
         \/ findings'[f].origin = "correction"
         \/ \E p \in Plans : /\ plans[p].prepared /\ plans[p].finding = f
                             /\ plans[p].expected = findings[f].revision
                             /\ findings'[f].origin = "publication"]_memoryVars

\* Derivations never form a cycle, though each plan was checked against the
\* graph of the moment it was prepared and the other was published since
\* (publish.ts rechecks): the cascade walks this graph level by level.
DerivationsAcyclic ==
  \A e \in edges : ~Reaches(edges, e[2], e[1])

\* A finding published on one witness is not left known once the reaction to
\* the withdrawal or the purge of that witness has run: a plan that waited
\* cannot publish behind the reaction's back, and a purge that overtakes the
\* reaction of a withdrawal takes its place.
LoneWitnessCounts ==
  \A f \in Findings, s \in Messages :
    /\ findings[f].origin = "publication" /\ findings[f].tag = "known"
    /\ findings[f].witnesses = {s} /\ ~Active(s)
    => {<<"withdrawn", s>>, <<"purged", s>>} \intersect reactions # {}
=============================================================================
