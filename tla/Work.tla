-------------------------------- MODULE Work --------------------------------
(* Tasks, their checklists and events (convex/work, packages/domain/work).    *)
(* Every command is one mutation: the references are resolved, the revision   *)
(* its author saw is compared with the current one, and the change, its       *)
(* history row and its event are written together.  A checklist point has no  *)
(* revision of its own to compare: the task's counter serialises the whole    *)
(* aggregate.  One project; a title stands for every field that needs no      *)
(* reference to be resolved.                                                  *)
EXTENDS Naturals, Sequences, FiniteSets

CONSTANTS
  Tasks, Points, Events,      \* records, in the order in which they may be created
  Bosses,                     \* who sends commands: screens and the agent
  Members, Dates, Grounds,    \* what a command may refer to: bosses, findings, sources
  Titles, Reasons,            \* titles and obstacles
  None,
  MaxRevision                 \* bound of the counters

ASSUME WorkAssumption ==
  /\ MaxRevision \in Nat \ {0}
  /\ None \notin Tasks \union Points \union Events \union Members \union Dates
                   \union Grounds \union Titles \union Reasons
  /\ Tasks \intersect Events = {}
  /\ "row" \notin Points

VARIABLES
  tasks, points, events,
  revisions,                  \* the history rows of a task or event, oldest first
  sheets,                     \* what the author of the next command has read
  coordinators,               \* active memberships
  terms,                      \* what the current revision of a finding says
  bases                       \* active sources

workVars == <<tasks, points, events, revisions, sheets, coordinators, terms, bases>>

Optional(S) == S \union {None}
Subjects == Tasks \union Events

TaskStates == {"todo", "in_progress", "waiting", "done", "cancelled"}
EventStates == {"planned", "occurred", "cancelled"}

TaskRow ==
  [title : Titles, state : TaskStates, reason : Optional(Reasons),
   coordinator : Optional(Members), deadline : Optional(Dates),
   event : Optional(Events), parent : Optional(Tasks), revision : 1..MaxRevision]
PointRow == [task : Tasks, text : Titles, checked : BOOLEAN, promoted : Optional(Tasks)]
EventRow ==
  [title : Titles, state : EventStates, time : Optional(Dates), revision : 1..MaxRevision]

SheetRow ==
  [subject : Subjects, row : TaskRow \union EventRow,
   checklist : UNION {[I -> PointRow] : I \in SUBSET Points}]

ASSUME NoneIsNoRow == None \notin TaskRow \union PointRow \union EventRow
ASSUME NoneIsNoSheet == None \notin SheetRow

WorkInit ==
  /\ tasks = [t \in Tasks |-> None]
  /\ points = [i \in Points |-> None]
  /\ events = [e \in Events |-> None]
  /\ revisions = [s \in Subjects |-> << >>]
  /\ sheets = [b \in Bosses |-> None]
  /\ coordinators = Members
  /\ terms = [f \in Dates |-> "ahead"]
  /\ bases = Grounds

-----------------------------------------------------------------------------
(* What a change reads and what it records.                                   *)

CurrentRow(s) == IF s \in Tasks THEN tasks[s] ELSE events[s]

PointsOf(t) == {i \in Points : points[i] # None /\ points[i].task = t}

Checklist(s) == [i \in PointsOf(s) |-> points[i]]

BasisStands(basis) == basis \in Optional(bases)

CoordinatorStands(m) == m \in Optional(coordinators)

(* A deadline is a term still ahead; an event may also have its actual date.  *)
BindsTask(f) == f # None => terms[f] = "ahead"
BindsEvent(f) == f # None => terms[f] \in {"ahead", "actual"}

ExpectsRevision(b, s) ==
  /\ sheets[b] # None
  /\ sheets[b].subject = s
  /\ sheets[b].row.revision = CurrentRow(s).revision

CanMove(s) == CurrentRow(s).revision < MaxRevision

Snapshot(row) == [field \in DOMAIN row \ {"revision"} |-> row[field]]

(* The one pattern of a commit: the full state of what changed, as it is      *)
(* after the change, under the subject's new revision.                        *)
Entry(what, snapshot, basis) == [what |-> what, snapshot |-> snapshot, basis |-> basis]

(* A fault: the row of a change is written before the record is patched.      *)
RecordedBefore(s, what, snapshot, basis) ==
  revisions' = [revisions EXCEPT ![s] = Append(@, Entry(what,
    IF what = "row" /\ CurrentRow(s) # None THEN Snapshot(CurrentRow(s)) ELSE snapshot, basis))]

Recorded(s, what, snapshot, basis) ==
  revisions' = [revisions EXCEPT ![s] = Append(@, Entry(what, snapshot, basis))]

-----------------------------------------------------------------------------
(* Tasks.                                                                     *)

NewTask(title, coordinator, deadline, event, parent) ==
  [title |-> title, state |-> "todo", reason |-> None, coordinator |-> coordinator,
   deadline |-> deadline, event |-> event, parent |-> parent, revision |-> 1]

(* The parts of a task a field change replaces, all at once.                  *)
TaskFields ==
  [title : Titles, coordinator : Optional(Members), deadline : Optional(Dates),
   event : Optional(Events)]

Resolves(fields) ==
  /\ CoordinatorStands(fields.coordinator)
  /\ BindsTask(fields.deadline)
  /\ fields.event # None => events[fields.event] # None

CreateTask(t, fields, basis) ==
  /\ tasks[t] = None
  /\ BasisStands(basis)
  /\ Resolves(fields)
  /\ LET row == NewTask(fields.title, fields.coordinator, fields.deadline, fields.event, None)
     IN /\ tasks' = [tasks EXCEPT ![t] = row]
        /\ Recorded(t, "row", Snapshot(row), basis)
  /\ UNCHANGED <<points, events, sheets, coordinators, terms, bases>>

(* An update that commands the current values writes nothing.                 *)
ChangeTask(b, t, fields, basis) ==
  /\ tasks[t] # None
  /\ ExpectsRevision(b, t)
  /\ CanMove(t)
  /\ BasisStands(basis)
  /\ Resolves(fields)
  /\ LET row == [tasks[t] EXCEPT !.title = fields.title,
                   !.coordinator = fields.coordinator, !.deadline = fields.deadline,
                   !.event = fields.event, !.revision = @ + 1]
     IN /\ Snapshot(row) # Snapshot(tasks[t])
        /\ tasks' = [tasks EXCEPT ![t] = row]
        /\ Recorded(t, "row", Snapshot(row), basis)
  /\ UNCHANGED <<points, events, sheets, coordinators, terms, bases>>

(* Any state may follow any other; only Czeka carries a reason, and needs it. *)
StateCommand(state, reason) == (state = "waiting") <=> (reason # None)

ChangeTaskState(b, t, state, reason, basis) ==
  /\ tasks[t] # None
  /\ ExpectsRevision(b, t)
  /\ CanMove(t)
  /\ BasisStands(basis)
  /\ StateCommand(state, reason)
  /\ LET row == [tasks[t] EXCEPT !.state = state, !.reason = reason, !.revision = @ + 1]
     IN /\ Snapshot(row) # Snapshot(tasks[t])
        /\ tasks' = [tasks EXCEPT ![t] = row]
        /\ Recorded(t, "row", Snapshot(row), basis)
  /\ UNCHANGED <<points, events, sheets, coordinators, terms, bases>>

-----------------------------------------------------------------------------
(* Checklists.  The state of the task is neither read nor written.            *)

(* A fault: a point that changes without moving the counter of its task.      *)
LeaveParent(t) == tasks' = tasks

MoveParent(t) == tasks' = [tasks EXCEPT ![t].revision = @ + 1]

(* A new point, or a change of one that is not frozen by its promotion.       *)
ChangeChecklistItem(b, t, i, text, checked, basis) ==
  /\ tasks[t] # None
  /\ ExpectsRevision(b, t)
  /\ CanMove(t)
  /\ BasisStands(basis)
  /\ points[i] # None => points[i].task = t /\ points[i].promoted = None
  /\ LET row == [task |-> t, text |-> text, checked |-> checked, promoted |-> None]
     IN /\ points[i] # row
        /\ points' = [points EXCEPT ![i] = row]
        /\ Recorded(t, i, row, basis)
  /\ MoveParent(t)
  /\ UNCHANGED <<events, sheets, coordinators, terms, bases>>

(* A point that is neither promoted nor checked becomes a task u of its own.  *)
Promotable(i) == points[i].promoted = None /\ ~points[i].checked

PromoteChecklistItem(b, t, i, u, coordinator, deadline, basis) ==
  /\ tasks[t] # None
  /\ ExpectsRevision(b, t)
  /\ CanMove(t)
  /\ BasisStands(basis)
  /\ i \in PointsOf(t)
  /\ Promotable(i)
  /\ tasks[u] = None
  /\ CoordinatorStands(coordinator)
  /\ BindsTask(deadline)
  /\ LET row == NewTask(points[i].text, coordinator, deadline, None, t)
         point == [points[i] EXCEPT !.promoted = u]
     IN /\ tasks' = [tasks EXCEPT ![u] = row, ![t].revision = @ + 1]
        /\ points' = [points EXCEPT ![i] = point]
        /\ revisions' = [revisions EXCEPT
             ![u] = Append(@, Entry("row", Snapshot(row), basis)),
             ![t] = Append(@, Entry(i, point, basis))]
  /\ UNCHANGED <<events, sheets, coordinators, terms, bases>>

-----------------------------------------------------------------------------
(* Events, with a counter of their own.                                       *)

CreateEvent(e, title, time, basis) ==
  /\ events[e] = None
  /\ BasisStands(basis)
  /\ BindsEvent(time)
  /\ LET row == [title |-> title, state |-> "planned", time |-> time, revision |-> 1]
     IN /\ events' = [events EXCEPT ![e] = row]
        /\ Recorded(e, "row", Snapshot(row), basis)
  /\ UNCHANGED <<tasks, points, sheets, coordinators, terms, bases>>

MoveEvent(b, e, row, basis) ==
  /\ events[e] # None
  /\ ExpectsRevision(b, e)
  /\ CanMove(e)
  /\ BasisStands(basis)
  /\ Snapshot(row) # Snapshot(events[e])
  /\ events' = [events EXCEPT ![e] = row]
  /\ Recorded(e, "row", Snapshot(row), basis)
  /\ UNCHANGED <<tasks, points, sheets, coordinators, terms, bases>>

ChangeEvent(b, e, title, time, basis) ==
  /\ events[e] # None
  /\ BindsEvent(time)
  /\ MoveEvent(b, e, [events[e] EXCEPT !.title = title, !.time = time, !.revision = @ + 1], basis)

ChangeEventState(b, e, state, basis) ==
  /\ events[e] # None
  /\ MoveEvent(b, e, [events[e] EXCEPT !.state = state, !.revision = @ + 1], basis)

(* One agreement: an event and the task that serves it, both or neither.      *)
RecordEventWithTask(e, t, fields, time, basis) ==
  /\ events[e] = None
  /\ tasks[t] = None
  /\ BasisStands(basis)
  /\ BindsEvent(time)
  /\ CoordinatorStands(fields.coordinator)
  /\ BindsTask(fields.deadline)
  /\ LET event == [title |-> fields.title, state |-> "planned", time |-> time, revision |-> 1]
         row == NewTask(fields.title, fields.coordinator, fields.deadline, e, None)
     IN /\ events' = [events EXCEPT ![e] = event]
        /\ tasks' = [tasks EXCEPT ![t] = row]
        /\ revisions' = [revisions EXCEPT
             ![e] = Append(@, Entry("row", Snapshot(event), basis)),
             ![t] = Append(@, Entry("row", Snapshot(row), basis))]
  /\ UNCHANGED <<points, sheets, coordinators, terms, bases>>

-----------------------------------------------------------------------------
(* Reads, and what changes around the work.                                   *)

(* One consistent read of a task with its checklist, or of an event.          *)
WorkOverview(b, s) ==
  /\ CurrentRow(s) # None
  /\ sheets' = [sheets EXCEPT ![b] =
       [subject |-> s, row |-> CurrentRow(s), checklist |-> Checklist(s)]]
  /\ UNCHANGED <<tasks, points, events, revisions, coordinators, terms, bases>>

RevokeCoordinator(m) ==
  /\ m \in coordinators
  /\ coordinators' = coordinators \ {m}
  /\ UNCHANGED <<tasks, points, events, revisions, sheets, terms, bases>>

CorrectTerm(f, meaning) ==
  /\ terms[f] # meaning
  /\ terms' = [terms EXCEPT ![f] = meaning]
  /\ UNCHANGED <<tasks, points, events, revisions, sheets, coordinators, bases>>

LoseBasis(s) ==
  /\ s \in bases
  /\ bases' = bases \ {s}
  /\ UNCHANGED <<tasks, points, events, revisions, sheets, coordinators, terms>>

TaskCommand ==
  \E basis \in Optional(Grounds), t \in Tasks :
    \/ \E fields \in TaskFields : CreateTask(t, fields, basis)
    \/ \E b \in Bosses :
         \/ \E fields \in TaskFields : ChangeTask(b, t, fields, basis)
         \/ \E state \in TaskStates, reason \in Optional(Reasons) :
              ChangeTaskState(b, t, state, reason, basis)
         \/ \E i \in Points, text \in Titles, checked \in BOOLEAN :
              ChangeChecklistItem(b, t, i, text, checked, basis)
         \/ \E i \in Points, u \in Tasks, m \in Optional(Members), f \in Optional(Dates) :
              PromoteChecklistItem(b, t, i, u, m, f, basis)

EventCommand ==
  \E basis \in Optional(Grounds), e \in Events, time \in Optional(Dates) :
    \/ \E title \in Titles : CreateEvent(e, title, time, basis)
    \/ \E b \in Bosses, title \in Titles : ChangeEvent(b, e, title, time, basis)
    \/ \E b \in Bosses, state \in EventStates : ChangeEventState(b, e, state, basis)
    \/ \E t \in Tasks, fields \in TaskFields : RecordEventWithTask(e, t, fields, time, basis)

WorkNext ==
  \/ TaskCommand
  \/ EventCommand
  \/ \E b \in Bosses, s \in Subjects : WorkOverview(b, s)
  \/ \E m \in Members : RevokeCoordinator(m)
  \/ \E f \in Dates, meaning \in {"ahead", "actual", "other"} : CorrectTerm(f, meaning)
  \/ \E s \in Grounds : LoseBasis(s)

WorkSpec == WorkInit /\ [][WorkNext]_workVars

-----------------------------------------------------------------------------
WorkTypeOK ==
  /\ tasks \in [Tasks -> TaskRow \union {None}]
  /\ points \in [Points -> PointRow \union {None}]
  /\ events \in [Events -> EventRow \union {None}]
  /\ coordinators \subseteq Members
  /\ terms \in [Dates -> {"ahead", "actual", "other"}]
  /\ bases \subseteq Grounds
  /\ \A b \in Bosses : sheets[b] # None => sheets[b].subject \in Subjects
  /\ DOMAIN revisions = Subjects

(* The revision an author saw tells all the author saw: while it is still     *)
(* current, the task with every point of its checklist (or the event) is      *)
(* still the one on the author's screen, so a command that passes the         *)
(* comparison never overwrites what its author has not read (operations.ts,   *)
(* REVISION discipline).                                                      *)
NothingUnseenIsOverwritten ==
  \A b \in Bosses : sheets[b] # None =>
    LET s == sheets[b].subject IN
    sheets[b].row.revision = CurrentRow(s).revision =>
      /\ sheets[b].row = CurrentRow(s)
      /\ sheets[b].checklist = Checklist(s)

(* The history alone tells the present.  A record is what its history rows    *)
(* say, whoever reads it; every change appends one row that says something    *)
(* new, and equal counters stand for equal records: the one compared number   *)
(* does what comparing the whole record would do (references.ts,              *)
(* recordCommittedChange, and operations.ts, REVISION discipline).            *)
Document(row, checklist) ==
  [part \in {"row"} \union DOMAIN checklist |->
     IF part = "row" THEN Snapshot(row) ELSE checklist[part]]

OnTheTable(b) ==
  [author |-> b, subject |-> sheets[b].subject,
   told |-> Document(sheets[b].row, sheets[b].checklist)]

Journal == INSTANCE RecordJournal
  WITH Authors <- Bosses, journal <- revisions,
       seen <- {OnTheTable(b) : b \in {x \in Bosses : sheets[x] # None}}

KeepsAJournal == Journal!JournalSpec
=============================================================================
