------------------------------ MODULE Projects ------------------------------
(* The project catalogue (convex/projects, packages/domain/projects): stages, *)
(* the pause mark, working aliases and contacts.  One mutation per command;   *)
(* the stage and the pause share one counter, a codename is claimed against   *)
(* every alias the firm ever used.                                            *)
EXTENDS Naturals, Sequences, FiniteSets

CONSTANTS
  Projects,
  Generated,       \* the working aliases in the order in which they are generated
  Chosen,          \* codenames bosses may ask for
  Clients, Roles,  \* catalogue contacts, and what they are to a project
  Screens,         \* who sends commands
  Nothing,
  MaxStage         \* bound of the counters

ASSUME ProjectsAssumption ==
  /\ MaxStage \in Nat \ {0}
  /\ IsFiniteSet(Projects) /\ Len(Generated) >= Cardinality(Projects)
  /\ Generated \in Seq({Generated[n] : n \in DOMAIN Generated})
  /\ \A m, n \in DOMAIN Generated : Generated[m] = Generated[n] => m = n
  /\ \A n \in DOMAIN Generated : Generated[n] \notin Chosen   \* '#7' is no boss's codename

VARIABLES
  projects,        \* the rows
  aliases,         \* alias rows, never deleted: [name, project, active]
  contacts, roles,
  views            \* the project an author has read

projectVars == <<projects, aliases, contacts, roles, views>>

Stages ==
  {"inquiry", "offer_preparation", "awaiting_decision", "agreed", "in_progress",
   "completed", "cancelled"}
IsClosed(stage) == stage \in {"completed", "cancelled"}

ProjectRow ==
  [stage : Stages, revision : 1..MaxStage, paused : BOOLEAN,
   closedAt : 0..MaxStage]           \* the revision of the closing, 0 when unset
AliasRow ==
  [name : Chosen \union {Generated[n] : n \in DOMAIN Generated},
   project : Projects, active : BOOLEAN]

ASSUME NothingIsNoRow == Nothing \notin ProjectRow

Identified == {p \in Projects : projects[p] # Nothing}

ProjectsInit ==
  /\ projects = [p \in Projects |-> Nothing]
  /\ aliases = {}
  /\ contacts = {}
  /\ roles = {}
  /\ views = [s \in Screens |-> Nothing]

(* A fault: the next alias counts the projects whose work goes on.            *)
NextAmongOpen ==
  Generated[1 + Cardinality({p \in Identified : ~IsClosed(projects[p].stage)})]

(* One past the number of projects identified so far.                         *)
NextWorkingAlias == Generated[1 + Cardinality(Identified)]

IdentifyProject(p, stage) ==
  /\ projects[p] = Nothing
  /\ projects' = [projects EXCEPT ![p] =
       [stage |-> stage, revision |-> 1, paused |-> FALSE,
        closedAt |-> IF IsClosed(stage) THEN 1 ELSE 0]]
  /\ aliases' = aliases \union {[name |-> NextWorkingAlias, project |-> p, active |-> TRUE]}
  /\ UNCHANGED <<contacts, roles, views>>

(* The rows another project holds or ever held.                               *)
Reserved(name, p) == \E row \in aliases : row.name = name /\ row.project # p

Own(name, p) == {row \in aliases : row.name = name /\ row.project = p}

Retired(p) ==
  {IF row.project = p THEN [row EXCEPT !.active = FALSE] ELSE row : row \in aliases}

(* The codename is kept, reactivated or claimed; the one in use is retired    *)
(* and stays in the history.                                                  *)
AssignCodename(p, name) ==
  /\ p \in Identified
  /\ ~Reserved(name, p)
  /\ \A row \in Own(name, p) : ~row.active
  /\ aliases' = (Retired(p) \ Own(name, p))
                  \union {[name |-> name, project |-> p, active |-> TRUE]}
  /\ UNCHANGED <<projects, contacts, roles, views>>

ExpectsStage(s, p) ==
  /\ views[s] # Nothing
  /\ views[s].project = p
  /\ views[s].row.revision = projects[p].revision
  /\ projects[p].revision < MaxStage

(* Closing dates the end of work, reopening clears the date, an explicit      *)
(* correction of what ended the work keeps it.                                *)
ClosedAt(row, stage) ==
  IF ~IsClosed(stage) THEN 0
  ELSE IF IsClosed(row.stage) THEN row.closedAt ELSE row.revision + 1

ChangeStage(s, p, stage) ==
  /\ p \in Identified
  /\ ExpectsStage(s, p)
  /\ stage # projects[p].stage
  /\ projects' = [projects EXCEPT ![p] =
       [projects[p] EXCEPT !.stage = stage, !.revision = @ + 1,
                           !.closedAt = ClosedAt(projects[p], stage)]]
  /\ UNCHANGED <<aliases, contacts, roles, views>>

(* Only work that goes on can be paused; clearing is always allowed, and      *)
(* closing keeps the mark.                                                    *)
SetPause(s, p, paused) ==
  /\ p \in Identified
  /\ ExpectsStage(s, p)
  /\ paused => ~IsClosed(projects[p].stage)
  /\ projects' = [projects EXCEPT ![p] =
       [projects[p] EXCEPT !.paused = paused, !.revision = @ + 1]]
  /\ UNCHANGED <<aliases, contacts, roles, views>>

UpsertContact(c) ==
  /\ contacts' = contacts \union {c}
  /\ UNCHANGED <<projects, aliases, roles, views>>

(* A role already held is returned as it is.                                  *)
AssignContactRole(p, c, role) ==
  /\ p \in Identified
  /\ c \in contacts
  /\ roles' = roles \union {[project |-> p, contact |-> c, role |-> role]}
  /\ UNCHANGED <<projects, aliases, contacts, views>>

ProjectsOverview(s, p) ==
  /\ p \in Identified
  /\ views' = [views EXCEPT ![s] = [project |-> p, row |-> projects[p]]]
  /\ UNCHANGED <<projects, aliases, contacts, roles>>

ProjectsNext ==
  \E p \in Projects :
    \/ \E stage \in Stages : IdentifyProject(p, stage)
    \/ \E name \in Chosen : AssignCodename(p, name)
    \/ \E s \in Screens :
         \/ \E stage \in Stages : ChangeStage(s, p, stage)
         \/ \E paused \in BOOLEAN : SetPause(s, p, paused)
         \/ ProjectsOverview(s, p)
    \/ \E c \in Clients : UpsertContact(c)
    \/ \E c \in Clients, role \in Roles : AssignContactRole(p, c, role)

ProjectsSpec == ProjectsInit /\ [][ProjectsNext]_projectVars

-----------------------------------------------------------------------------
ProjectsTypeOK ==
  /\ projects \in [Projects -> ProjectRow \union {Nothing}]
  /\ aliases \subseteq AliasRow
  /\ contacts \subseteq Clients
  /\ roles \subseteq [project : Projects, contact : contacts, role : Roles]
  /\ views \in [Screens -> [project : Projects, row : ProjectRow] \union {Nothing}]

(* A codename, in use or given up, denotes one project in all of the firm's   *)
(* history, whichever stage that project has reached, and every project is    *)
(* called by exactly one of its own (aliases.ts header).                      *)
OneCodenameOneProject ==
  /\ \A x, y \in aliases : x.name = y.name => x = y
  /\ \A p \in Identified : Cardinality({row \in aliases : row.project = p /\ row.active}) = 1

(* The stage and the pause an author saw are those the command changes:       *)
(* neither a pause nor a stage is decided over the other's back               *)
(* (operations.ts, Revision discipline).                                      *)
LifecycleIsSeen ==
  \A s \in Screens : views[s] # Nothing =>
    LET p == views[s].project IN
    views[s].row.revision = projects[p].revision => views[s].row = projects[p]
=============================================================================
