--------------------------- MODULE Workplace_proofs ---------------------------
(* What Work, Projects and Agent guarantee for every set of records, authors  *)
(* and values and every bound on the counters.                                *)
EXTENDS Work, Projects, Agent, Memory_proofs, FiniteSetTheorems, TLAPS

-----------------------------------------------------------------------------
(* Work: the state the induction runs over.  A history is a sequence of       *)
(* entries; an author's sheet is of a record that exists, never of a later    *)
(* revision than the current one.                                             *)

Snapshots == PointRow \union {Snapshot(row) : row \in TaskRow \union EventRow}
HistoryEntries ==
  [what : Points \union {"row"}, snapshot : Snapshots, basis : Optional(Grounds)]

WorkTypes ==
  /\ WorkTypeOK
  /\ revisions \in [Subjects -> Seq(HistoryEntries)]
  /\ sheets = [b \in Bosses |-> sheets[b]]

SheetIsOfThePast(sheet) ==
  LET s == sheet.subject IN
  /\ s \in Subjects
  /\ CurrentRow(s) # None
  /\ sheet.row.revision \in Nat
  /\ sheet.row.revision <= CurrentRow(s).revision
  /\ sheet.row.revision = CurrentRow(s).revision =>
       sheet.row = CurrentRow(s) /\ sheet.checklist = Checklist(s)

SheetsAreOfThePast == \A b \in Bosses : sheets[b] # None => SheetIsOfThePast(sheets[b])

(* The latest entry of a history about `what` says `snapshot`.                *)
Latest(history, what, snapshot) ==
  \E n \in DOMAIN history :
    /\ history[n].what = what
    /\ history[n].snapshot = snapshot
    /\ \A k \in DOMAIN history : history[k].what = what => k <= n

HistoryIsWhole ==
  /\ \A s \in Subjects :
       /\ CurrentRow(s) = None => revisions[s] = << >>
       /\ CurrentRow(s) # None =>
            /\ Len(revisions[s]) = CurrentRow(s).revision
            /\ Latest(revisions[s], "row", Snapshot(CurrentRow(s)))
  /\ \A i \in Points : points[i] # None => Latest(revisions[points[i].task], i, points[i])

WorkInv == WorkTypes /\ SheetsAreOfThePast /\ HistoryIsWhole

-----------------------------------------------------------------------------
(* Rows and histories.                                                        *)

LEMMA NextRevision ==
  ASSUME NEW row \in TaskRow \union EventRow, row.revision < MaxRevision
  PROVE  row.revision + 1 \in 1..MaxRevision
BY WorkAssumption DEF TaskRow, EventRow

(* The row a command leaves, under revision n.                                *)
EditedTask(row, fields, n) ==
  [row EXCEPT !.title = fields.title, !.coordinator = fields.coordinator,
     !.deadline = fields.deadline, !.event = fields.event, !.revision = n]
TaskIn(row, state, reason, n) ==
  [row EXCEPT !.state = state, !.reason = reason, !.revision = n]
EditedEvent(row, title, time, n) ==
  [row EXCEPT !.title = title, !.time = time, !.revision = n]
EventIn(row, state, n) == [row EXCEPT !.state = state, !.revision = n]

LEMMA RowsOfCommands ==
  ASSUME NEW n \in 1..MaxRevision
  PROVE  /\ \A row \in TaskRow, fields \in TaskFields :
              EditedTask(row, fields, n) \in TaskRow /\ EditedTask(row, fields, n).revision = n
         /\ \A row \in TaskRow, state \in TaskStates, reason \in Optional(Reasons) :
              /\ TaskIn(row, state, reason, n) \in TaskRow
              /\ TaskIn(row, state, reason, n).revision = n
         /\ \A row \in EventRow, title \in Titles, time \in Optional(Dates) :
              /\ EditedEvent(row, title, time, n) \in EventRow
              /\ EditedEvent(row, title, time, n).revision = n
         /\ \A row \in EventRow, state \in EventStates :
              EventIn(row, state, n) \in EventRow /\ EventIn(row, state, n).revision = n
<1>1. ASSUME NEW row \in TaskRow, NEW fields \in TaskFields
      PROVE  EditedTask(row, fields, n) \in TaskRow /\ EditedTask(row, fields, n).revision = n
  BY DEF EditedTask, TaskRow, TaskFields
<1>2. ASSUME NEW row \in TaskRow, NEW state \in TaskStates, NEW reason \in Optional(Reasons)
      PROVE  /\ TaskIn(row, state, reason, n) \in TaskRow
             /\ TaskIn(row, state, reason, n).revision = n
  BY DEF TaskIn, TaskRow
<1>3. ASSUME NEW row \in EventRow, NEW title \in Titles, NEW time \in Optional(Dates)
      PROVE  /\ EditedEvent(row, title, time, n) \in EventRow
             /\ EditedEvent(row, title, time, n).revision = n
  BY DEF EditedEvent, EventRow
<1>4. ASSUME NEW row \in EventRow, NEW state \in EventStates
      PROVE  EventIn(row, state, n) \in EventRow /\ EventIn(row, state, n).revision = n
  BY DEF EventIn, EventRow
<1> QED
  BY <1>1, <1>2, <1>3, <1>4

LEMMA TouchedRow ==
  ASSUME NEW row \in TaskRow, row.revision < MaxRevision
  PROVE  /\ [row EXCEPT !.revision = @ + 1] \in TaskRow
         /\ [row EXCEPT !.revision = @ + 1].revision = row.revision + 1
         /\ Snapshot([row EXCEPT !.revision = @ + 1]) = Snapshot(row)
BY WorkAssumption DEF TaskRow, Snapshot

LEMMA AppendIsLatest ==
  ASSUME NEW history \in Seq(HistoryEntries), NEW entry \in HistoryEntries
  PROVE  /\ Append(history, entry) \in Seq(HistoryEntries)
         /\ Len(Append(history, entry)) = Len(history) + 1
         /\ Latest(Append(history, entry), entry.what, entry.snapshot)
<1> DEFINE q == Append(history, entry)
           n == Len(history) + 1
<1>1. q \in Seq(HistoryEntries) /\ Len(q) = n /\ DOMAIN q = 1..n /\ q[n] = entry
  OBVIOUS
<1>2. n \in DOMAIN q /\ \A k \in DOMAIN q : k <= n
  BY <1>1
<1> QED
  BY <1>1, <1>2 DEF Latest

LEMMA AppendKeepsLatest ==
  ASSUME NEW history \in Seq(HistoryEntries), NEW entry \in HistoryEntries,
         NEW what, NEW snapshot, what # entry.what, Latest(history, what, snapshot)
  PROVE  Latest(Append(history, entry), what, snapshot)
<1> DEFINE q == Append(history, entry)
<1>1. /\ DOMAIN q = 1..(Len(history) + 1) /\ DOMAIN history = 1..Len(history)
      /\ q[Len(history) + 1] = entry
      /\ \A k \in DOMAIN history : q[k] = history[k]
  OBVIOUS
<1>2. PICK n \in DOMAIN history :
        /\ history[n].what = what /\ history[n].snapshot = snapshot
        /\ \A k \in DOMAIN history : history[k].what = what => k <= n
  BY DEF Latest
<1>3. n \in DOMAIN q /\ q[n].what = what /\ q[n].snapshot = snapshot
  BY <1>1, <1>2
<1>4. ASSUME NEW k \in DOMAIN q, q[k].what = what PROVE k <= n
  BY <1>1, <1>2, <1>4
<1> QED
  BY <1>3, <1>4 DEF Latest

-----------------------------------------------------------------------------
(* The kinds of step.  A command writes a task or an event under its next     *)
(* revision with one entry about it, or touches a task with an entry about    *)
(* one of its points.                                                         *)

WritesTask(t, row, basis) ==
  /\ row \in TaskRow
  /\ \/ tasks[t] = None /\ row.revision = 1
     \/ tasks[t] # None /\ row.revision = tasks[t].revision + 1
  /\ tasks' = [tasks EXCEPT ![t] = row]
  /\ Recorded(t, "row", Snapshot(row), basis)
  /\ UNCHANGED <<points, events, sheets, coordinators, terms, bases>>

WritesEvent(e, row, basis) ==
  /\ row \in EventRow
  /\ \/ events[e] = None /\ row.revision = 1
     \/ events[e] # None /\ row.revision = events[e].revision + 1
  /\ events' = [events EXCEPT ![e] = row]
  /\ Recorded(e, "row", Snapshot(row), basis)
  /\ UNCHANGED <<tasks, points, sheets, coordinators, terms, bases>>

LEMMA TaskWritten ==
  ASSUME WorkTypes, NEW t \in Tasks, NEW basis \in Optional(Grounds),
         \/ \E fields \in TaskFields :
              CreateTask(t, fields, basis) \/ \E b \in Bosses : ChangeTask(b, t, fields, basis)
         \/ \E b \in Bosses, state \in TaskStates, reason \in Optional(Reasons) :
              ChangeTaskState(b, t, state, reason, basis)
  PROVE  \E row : WritesTask(t, row, basis)
<1>1. ASSUME NEW fields \in TaskFields, CreateTask(t, fields, basis)
      PROVE  \E row : WritesTask(t, row, basis)
  <2> DEFINE row == NewTask(fields.title, fields.coordinator, fields.deadline, fields.event, None)
  <2>1. row \in TaskRow /\ row.revision = 1
    BY WorkAssumption DEF NewTask, TaskRow, TaskFields, TaskStates, Optional
  <2> QED
    BY <1>1, <2>1 DEF CreateTask, WritesTask
<1>2. ASSUME NEW fields \in TaskFields, NEW b \in Bosses, ChangeTask(b, t, fields, basis)
      PROVE  \E row : WritesTask(t, row, basis)
  <2> DEFINE row == EditedTask(tasks[t], fields, tasks[t].revision + 1)
  <2>1. tasks[t] \in TaskRow /\ tasks[t].revision < MaxRevision
    BY <1>2 DEF ChangeTask, WorkTypes, WorkTypeOK, CanMove, CurrentRow
  <2>2. tasks[t].revision + 1 \in 1..MaxRevision
    BY <2>1, NextRevision
  <2>3. row \in TaskRow /\ row.revision = tasks[t].revision + 1
    BY <2>1, <2>2, RowsOfCommands
  <2> QED
    BY <1>2, <2>3 DEF ChangeTask, WritesTask, EditedTask
<1>3. ASSUME NEW b \in Bosses, NEW state \in TaskStates, NEW reason \in Optional(Reasons),
             ChangeTaskState(b, t, state, reason, basis)
      PROVE  \E row : WritesTask(t, row, basis)
  <2> DEFINE row == TaskIn(tasks[t], state, reason, tasks[t].revision + 1)
  <2>1. tasks[t] \in TaskRow /\ tasks[t].revision < MaxRevision
    BY <1>3 DEF ChangeTaskState, WorkTypes, WorkTypeOK, CanMove, CurrentRow
  <2>2. tasks[t].revision + 1 \in 1..MaxRevision
    BY <2>1, NextRevision
  <2>3. row \in TaskRow /\ row.revision = tasks[t].revision + 1
    BY <2>1, <2>2, RowsOfCommands
  <2> QED
    BY <1>3, <2>3 DEF ChangeTaskState, WritesTask, TaskIn
<1> QED
  BY <1>1, <1>2, <1>3

LEMMA EventWritten ==
  ASSUME WorkTypes, NEW e \in Events, NEW time \in Optional(Dates), NEW basis \in Optional(Grounds),
         \/ \E title \in Titles : CreateEvent(e, title, time, basis)
         \/ \E b \in Bosses, title \in Titles : ChangeEvent(b, e, title, time, basis)
         \/ \E b \in Bosses, state \in EventStates : ChangeEventState(b, e, state, basis)
  PROVE  \E row : WritesEvent(e, row, basis)
<1>1. ASSUME NEW title \in Titles, CreateEvent(e, title, time, basis)
      PROVE  \E row : WritesEvent(e, row, basis)
  <2> DEFINE row == [title |-> title, state |-> "planned", time |-> time, revision |-> 1]
  <2>1. row \in EventRow /\ row.revision = 1
    BY WorkAssumption DEF EventRow, EventStates
  <2> QED
    BY <1>1, <2>1 DEF CreateEvent, WritesEvent
<1>2. ASSUME NEW b \in Bosses, NEW row, MoveEvent(b, e, row, basis), row \in EventRow,
             row.revision = events[e].revision + 1
      PROVE  WritesEvent(e, row, basis)
  BY <1>2 DEF MoveEvent, WritesEvent
<1>3. ASSUME NEW b \in Bosses, events[e] # None, CanMove(e)
      PROVE  events[e] \in EventRow /\ events[e].revision < MaxRevision
  BY <1>3, WorkAssumption DEF WorkTypes, WorkTypeOK, CanMove, CurrentRow
<1>4. ASSUME NEW b \in Bosses, NEW title \in Titles, ChangeEvent(b, e, title, time, basis)
      PROVE  \E row : WritesEvent(e, row, basis)
  <2> DEFINE row == EditedEvent(events[e], title, time, events[e].revision + 1)
  <2>1. MoveEvent(b, e, row, basis) /\ events[e] # None /\ CanMove(e)
    BY <1>4 DEF ChangeEvent, MoveEvent, EditedEvent
  <2>2. events[e] \in EventRow /\ events[e].revision + 1 \in 1..MaxRevision
    BY <2>1, <1>3, NextRevision
  <2>3. row \in EventRow /\ row.revision = events[e].revision + 1
    BY <2>1, <2>2, RowsOfCommands
  <2> QED
    BY <2>1, <2>3, <1>2
<1>5. ASSUME NEW b \in Bosses, NEW state \in EventStates, ChangeEventState(b, e, state, basis)
      PROVE  \E row : WritesEvent(e, row, basis)
  <2> DEFINE row == EventIn(events[e], state, events[e].revision + 1)
  <2>1. MoveEvent(b, e, row, basis) /\ events[e] # None /\ CanMove(e)
    BY <1>5 DEF ChangeEventState, MoveEvent, EventIn
  <2>2. events[e] \in EventRow /\ events[e].revision + 1 \in 1..MaxRevision
    BY <2>1, <1>3, NextRevision
  <2>3. row \in EventRow /\ row.revision = events[e].revision + 1
    BY <2>1, <2>2, RowsOfCommands
  <2> QED
    BY <2>1, <2>3, <1>2
<1> QED
  BY <1>1, <1>4, <1>5

-----------------------------------------------------------------------------
(* A subject that a step does not move stands as every sheet of it left it.   *)

Advanced(s) == CurrentRow(s)' # None /\ CurrentRow(s)'.revision = CurrentRow(s).revision + 1
Stands(s) == CurrentRow(s)' = CurrentRow(s) /\ Checklist(s)' = Checklist(s)

LEMMA SheetsKeep ==
  ASSUME WorkTypes, SheetsAreOfThePast, UNCHANGED sheets,
         \A s \in Subjects : CurrentRow(s) # None => Advanced(s) \/ Stands(s)
  PROVE  SheetsAreOfThePast'
<1> SUFFICES ASSUME NEW b \in Bosses, sheets[b] # None
             PROVE  SheetIsOfThePast(sheets[b])'
  BY DEF SheetsAreOfThePast
<1> DEFINE s == sheets[b].subject
<1>1. SheetIsOfThePast(sheets[b])
  BY DEF SheetsAreOfThePast
<1>2. CurrentRow(s) # None => CurrentRow(s).revision \in Nat
  BY <1>1, WorkAssumption
     DEF SheetIsOfThePast, WorkTypes, WorkTypeOK, CurrentRow, TaskRow, EventRow, Subjects
<1>3. CASE Advanced(s)
  BY <1>1, <1>2, <1>3 DEF SheetIsOfThePast, Advanced
<1>4. CASE Stands(s)
  BY <1>1, <1>4 DEF SheetIsOfThePast, Stands
<1> QED
  BY <1>1, <1>3, <1>4 DEF SheetIsOfThePast

LEMMA CurrentRows ==
  ASSUME WorkTypes
  PROVE  /\ \A s \in Subjects : CurrentRow(s) # None => CurrentRow(s) \in TaskRow \union EventRow
         /\ \A t \in Tasks : CurrentRow(t) = tasks[t] /\ CurrentRow(t)' = tasks'[t]
         /\ \A e \in Events : CurrentRow(e) = events[e] /\ CurrentRow(e)' = events'[e]
         /\ Subjects' = Subjects
BY WorkAssumption DEF WorkTypes, WorkTypeOK, CurrentRow, Subjects

LEMMA EntryType ==
  ASSUME NEW basis \in Optional(Grounds)
  PROVE  /\ \A row \in TaskRow \union EventRow :
              Entry("row", Snapshot(row), basis) \in HistoryEntries
         /\ \A i \in Points, point \in PointRow : Entry(i, point, basis) \in HistoryEntries
BY DEF Entry, HistoryEntries, Snapshots

(* A step that only writes records: each subject rests, or has a next row and *)
(* the entry about it.                                                        *)
Rests(s) == CurrentRow(s)' = CurrentRow(s) /\ revisions'[s] = revisions[s]

Follows(s, row) ==
  \/ CurrentRow(s) = None /\ row.revision = 1
  \/ CurrentRow(s) # None /\ row.revision = CurrentRow(s).revision + 1

Written(s, row, basis) ==
  /\ row \in TaskRow \union EventRow
  /\ Follows(s, row)
  /\ CurrentRow(s)' = row
  /\ revisions'[s] = Append(revisions[s], Entry("row", Snapshot(row), basis))

LEMMA RowsWrittenKeep ==
  ASSUME WorkInv, WorkTypes', UNCHANGED <<points, sheets>>,
         \A s \in Subjects :
           \/ Rests(s)
           \/ \E row \in TaskRow \union EventRow, basis \in Optional(Grounds) : Written(s, row, basis)
  PROVE  WorkInv'
<1>1. WorkTypes
  BY DEF WorkInv
<1>2. ASSUME NEW s \in Subjects, NEW row, NEW basis \in Optional(Grounds), Written(s, row, basis)
      PROVE  /\ Advanced(s) \/ CurrentRow(s) = None
             /\ CurrentRow(s)' # None
             /\ Len(revisions'[s]) = CurrentRow(s)'.revision
             /\ Latest(revisions'[s], "row", Snapshot(CurrentRow(s)'))
             /\ \A i \in Points : \A point :
                  Latest(revisions[s], i, point) => Latest(revisions'[s], i, point)
  <2> DEFINE entry == Entry("row", Snapshot(row), basis)
  <2>1. /\ entry \in HistoryEntries /\ row # None /\ revisions[s] \in Seq(HistoryEntries)
        /\ entry.what = "row" /\ entry.snapshot = Snapshot(row)
        /\ revisions'[s] = Append(revisions[s], entry)
    BY <1>1, <1>2, EntryType, NoneIsNoRow DEF Written, Entry, WorkTypes
  <2>2. /\ Len(revisions'[s]) = Len(revisions[s]) + 1
        /\ Latest(revisions'[s], "row", Snapshot(row))
    BY <2>1, AppendIsLatest
  <2>3. Len(revisions'[s]) = row.revision
    BY <1>2, <2>2 DEF Written, Follows, WorkInv, HistoryIsWhole
  <2>4. \A i \in Points : \A point :
          Latest(revisions[s], i, point) => Latest(revisions'[s], i, point)
    BY <2>1, AppendKeepsLatest, WorkAssumption
  <2>5. CurrentRow(s)' # None /\ (Advanced(s) \/ CurrentRow(s) = None)
    BY <1>2, <2>1 DEF Written, Follows, Advanced
  <2> QED
    BY <1>2, <2>2, <2>3, <2>4, <2>5 DEF Written
<1>3. SheetsAreOfThePast'
  <2>1. \A s \in Subjects : Checklist(s)' = Checklist(s)
    BY DEF Checklist, PointsOf
  <2>2. \A s \in Subjects : CurrentRow(s) # None => Advanced(s) \/ Stands(s)
    BY <1>2, <2>1 DEF Stands, Rests
  <2> QED
    BY <1>1, <2>2, SheetsKeep DEF WorkInv
<1>4. ASSUME NEW s \in Subjects
      PROVE  /\ CurrentRow(s)' = None => revisions'[s] = << >>
             /\ CurrentRow(s)' # None =>
                  /\ Len(revisions'[s]) = CurrentRow(s)'.revision
                  /\ Latest(revisions'[s], "row", Snapshot(CurrentRow(s)'))
  BY <1>2, <1>4 DEF WorkInv, HistoryIsWhole, Rests
<1>5. ASSUME NEW i \in Points, points'[i] # None
      PROVE  Latest(revisions'[points'[i].task], i, points'[i])
  <2>1. points'[i] = points[i] /\ Latest(revisions[points[i].task], i, points[i])
    BY <1>5 DEF WorkInv, HistoryIsWhole
  <2>2. points[i].task \in Subjects
    BY <1>1, <1>5, <2>1 DEF WorkTypes, WorkTypeOK, PointRow, Subjects
  <2> QED
    BY <1>2, <2>1, <2>2 DEF Rests
<1> QED
  BY <1>3, <1>4, <1>5 DEF WorkInv, HistoryIsWhole, Subjects, Latest, Snapshot

LEMMA WritesTaskKeeps ==
  ASSUME WorkInv, NEW t \in Tasks, NEW basis \in Optional(Grounds), NEW row,
         WritesTask(t, row, basis)
  PROVE  WorkInv'
<1> DEFINE entry == Entry("row", Snapshot(row), basis)
<1>1. WorkTypes /\ t \in Subjects /\ entry \in HistoryEntries
  BY EntryType DEF WorkInv, WritesTask, Subjects
<1>2. revisions' = [revisions EXCEPT ![t] = Append(revisions[t], entry)]
  BY DEF WritesTask, Recorded
<1>3. WorkTypes'
  <2>1. revisions' \in [Subjects -> Seq(HistoryEntries)]
    BY <1>1, <1>2, AppendIsLatest DEF WorkTypes
  <2>2. WorkTypeOK'
    BY <1>1, <2>1 DEF WorkTypes, WorkTypeOK, WritesTask
  <2> QED
    BY <1>1, <2>1, <2>2 DEF WorkTypes, WritesTask
<1>4. Written(t, row, basis)
  BY <1>1, <1>2, CurrentRows DEF WritesTask, Written, Follows, WorkTypes, WorkTypeOK
<1>5. \A s \in Subjects : s # t => Rests(s)
  BY <1>1, <1>2, CurrentRows DEF Rests, WritesTask, WorkTypes, WorkTypeOK, Subjects
<1> QED
  BY <1>3, <1>4, <1>5, RowsWrittenKeep DEF WritesTask, Written

LEMMA WritesEventKeeps ==
  ASSUME WorkInv, NEW e \in Events, NEW basis \in Optional(Grounds), NEW row,
         WritesEvent(e, row, basis)
  PROVE  WorkInv'
<1> DEFINE entry == Entry("row", Snapshot(row), basis)
<1>1. WorkTypes /\ e \in Subjects /\ entry \in HistoryEntries
  BY EntryType DEF WorkInv, WritesEvent, Subjects
<1>2. revisions' = [revisions EXCEPT ![e] = Append(revisions[e], entry)]
  BY DEF WritesEvent, Recorded
<1>3. WorkTypes'
  <2>1. revisions' \in [Subjects -> Seq(HistoryEntries)]
    BY <1>1, <1>2, AppendIsLatest DEF WorkTypes
  <2>2. WorkTypeOK'
    BY <1>1, <2>1 DEF WorkTypes, WorkTypeOK, WritesEvent
  <2> QED
    BY <1>1, <2>1, <2>2 DEF WorkTypes, WritesEvent
<1>4. Written(e, row, basis)
  BY <1>1, <1>2, CurrentRows DEF WritesEvent, Written, Follows, WorkTypes, WorkTypeOK
<1>5. \A s \in Subjects : s # e => Rests(s)
  BY <1>1, <1>2, CurrentRows DEF Rests, WritesEvent, WorkTypes, WorkTypeOK, Subjects
<1> QED
  BY <1>3, <1>4, <1>5, RowsWrittenKeep DEF WritesEvent, Written

LEMMA RecordEventWithTaskKeeps ==
  ASSUME WorkInv, NEW e \in Events, NEW t \in Tasks, NEW fields \in TaskFields,
         NEW time \in Optional(Dates), NEW basis \in Optional(Grounds),
         RecordEventWithTask(e, t, fields, time, basis)
  PROVE  WorkInv'
<1> DEFINE event == [title |-> fields.title, state |-> "planned", time |-> time, revision |-> 1]
           row == NewTask(fields.title, fields.coordinator, fields.deadline, e, None)
           first == Entry("row", Snapshot(event), basis)
           second == Entry("row", Snapshot(row), basis)
<1>1. event \in EventRow /\ event.revision = 1
  BY WorkAssumption DEF EventRow, EventStates, TaskFields
<1>2. row \in TaskRow /\ row.revision = 1
  BY WorkAssumption DEF NewTask, TaskRow, TaskFields, TaskStates, Optional
<1>3. /\ WorkTypes /\ t \in Subjects /\ e \in Subjects /\ t # e
      /\ first \in HistoryEntries /\ second \in HistoryEntries
  BY <1>1, <1>2, EntryType, WorkAssumption DEF WorkInv, Subjects
<1> HIDE DEF event, row
<1>4. /\ events[e] = None /\ tasks[t] = None
      /\ events' = [events EXCEPT ![e] = event]
      /\ tasks' = [tasks EXCEPT ![t] = row]
      /\ revisions' = [revisions EXCEPT ![e] = Append(revisions[e], first),
                                        ![t] = Append(revisions[t], second)]
      /\ UNCHANGED <<points, sheets, coordinators, terms, bases>>
  BY <1>3 DEF RecordEventWithTask, event, row, WorkTypes
<1>5. WorkTypes'
  <2>1. revisions' \in [Subjects -> Seq(HistoryEntries)]
    BY <1>3, <1>4, AppendIsLatest DEF WorkTypes
  <2>2. WorkTypeOK'
    BY <1>1, <1>2, <1>3, <1>4, <2>1 DEF WorkTypes, WorkTypeOK
  <2> QED
    BY <1>3, <1>4, <2>1, <2>2 DEF WorkTypes
<1>6. Written(e, event, basis) /\ Written(t, row, basis)
  BY <1>1, <1>2, <1>3, <1>4, CurrentRows DEF Written, Follows, WorkTypes, WorkTypeOK
<1>7. \A s \in Subjects : s \notin {e, t} => Rests(s)
  BY <1>3, <1>4, CurrentRows DEF Rests, WorkTypes, WorkTypeOK, Subjects
<1> QED
  BY <1>4, <1>5, <1>6, <1>7, RowsWrittenKeep DEF Written

(* A step that also changes one point of a task: the task is touched, and the *)
(* entry is about the point.                                                  *)
Touched(t, i, point, basis) ==
  /\ tasks[t] # None /\ tasks[t].revision < MaxRevision
  /\ CurrentRow(t)' = [tasks[t] EXCEPT !.revision = @ + 1]
  /\ point \in PointRow /\ point.task = t
  /\ points[i] # None => points[i].task = t
  /\ points' = [points EXCEPT ![i] = point]
  /\ revisions'[t] = Append(revisions[t], Entry(i, point, basis))

LEMMA PointTouchedKeeps ==
  ASSUME WorkInv, WorkTypes', UNCHANGED sheets,
         NEW t \in Tasks, NEW i \in Points, NEW point, NEW basis \in Optional(Grounds),
         Touched(t, i, point, basis),
         \A s \in Subjects \ {t} :
           \/ Rests(s)
           \/ CurrentRow(s) = None
                /\ \E row \in TaskRow, b \in Optional(Grounds) : Written(s, row, b)
  PROVE  WorkInv'
<1> DEFINE entry == Entry(i, point, basis)
           touched == [tasks[t] EXCEPT !.revision = @ + 1]
<1>1. /\ WorkTypes /\ t \in Subjects /\ entry \in HistoryEntries /\ i # "row"
      /\ entry.what = i /\ entry.snapshot = point
      /\ revisions[t] \in Seq(HistoryEntries)
  BY EntryType, WorkAssumption DEF WorkInv, Touched, Subjects, Entry, WorkTypes
<1>2. /\ touched \in TaskRow /\ touched # None /\ touched.revision = tasks[t].revision + 1
      /\ Snapshot(touched) = Snapshot(tasks[t])
      /\ CurrentRow(t) = tasks[t] /\ CurrentRow(t)' = touched
  <2>1. tasks[t] \in TaskRow
    BY <1>1 DEF Touched, WorkTypes, WorkTypeOK
  <2> QED
    BY <1>1, <2>1, TouchedRow, NoneIsNoRow, CurrentRows DEF Touched
<1>3. /\ revisions'[t] = Append(revisions[t], entry)
      /\ Len(revisions'[t]) = Len(revisions[t]) + 1
      /\ Latest(revisions'[t], i, point)
      /\ \A what, snapshot : what # i /\ Latest(revisions[t], what, snapshot) =>
           Latest(revisions'[t], what, snapshot)
  BY <1>1, AppendIsLatest, AppendKeepsLatest DEF Touched
<1>4. \A j \in Points : points'[j] = IF j = i THEN point ELSE points[j]
  BY <1>1 DEF Touched, WorkTypes, WorkTypeOK
<1>5. SheetsAreOfThePast'
  <2>1. Advanced(t)
    BY <1>2 DEF Advanced
  <2>2. ASSUME NEW s \in Subjects \ {t}, Rests(s) PROVE Stands(s)
    <3>1. PointsOf(s)' = PointsOf(s)
      BY <1>1, <1>4, <2>2 DEF PointsOf, Touched
    <3>2. i \notin PointsOf(s)
      BY <2>2 DEF PointsOf, Touched
    <3>3. Checklist(s)' = Checklist(s)
      BY <1>4, <3>1, <3>2 DEF Checklist, PointsOf
    <3> QED
      BY <2>2, <3>3 DEF Stands, Rests
  <2>3. \A s \in Subjects : CurrentRow(s) # None => Advanced(s) \/ Stands(s)
    BY <2>1, <2>2
  <2> QED
    BY <1>1, <2>3, SheetsKeep DEF WorkInv
<1>6. ASSUME NEW s \in Subjects \ {t}, NEW row \in TaskRow, NEW b \in Optional(Grounds),
             CurrentRow(s) = None, Written(s, row, b)
      PROVE  /\ CurrentRow(s)' # None
             /\ Len(revisions'[s]) = CurrentRow(s)'.revision
             /\ Latest(revisions'[s], "row", Snapshot(CurrentRow(s)'))
             /\ \A what, snapshot : ~Latest(revisions[s], what, snapshot)
  <2>1. /\ Entry("row", Snapshot(row), b) \in HistoryEntries
        /\ Entry("row", Snapshot(row), b).what = "row"
        /\ Entry("row", Snapshot(row), b).snapshot = Snapshot(row)
        /\ row.revision = 1 /\ row # None /\ CurrentRow(s)' = row
        /\ revisions[s] = << >> /\ revisions[s] \in Seq(HistoryEntries)
        /\ revisions'[s] = Append(revisions[s], Entry("row", Snapshot(row), b))
    BY <1>1, <1>6, EntryType, NoneIsNoRow
       DEF Written, Follows, Entry, WorkInv, HistoryIsWhole, WorkTypes
  <2>2. Latest(revisions'[s], "row", Snapshot(row))
    BY <2>1, AppendIsLatest
  <2>3. Len(revisions'[s]) = 1
    BY <2>1
  <2> QED
    BY <2>1, <2>2, <2>3 DEF Latest
<1>7. ASSUME NEW s \in Subjects
      PROVE  /\ CurrentRow(s)' = None => revisions'[s] = << >>
             /\ CurrentRow(s)' # None =>
                  /\ Len(revisions'[s]) = CurrentRow(s)'.revision
                  /\ Latest(revisions'[s], "row", Snapshot(CurrentRow(s)'))
  <2>1. CASE s = t
    <3>1. /\ Len(revisions[t]) = tasks[t].revision
          /\ Latest(revisions[t], "row", Snapshot(tasks[t]))
      BY <1>1, <1>2 DEF WorkInv, HistoryIsWhole, Touched
    <3>2. Latest(revisions'[t], "row", Snapshot(touched))
      BY <1>1, <1>2, <1>3, <3>1
    <3> QED
      BY <1>2, <1>3, <2>1, <3>1, <3>2
  <2>2. CASE s # t
    BY <1>6, <1>7, <2>2 DEF WorkInv, HistoryIsWhole, Rests
  <2> QED
    BY <2>1, <2>2
<1>8. ASSUME NEW j \in Points, points'[j] # None
      PROVE  Latest(revisions'[points'[j].task], j, points'[j])
  <2>1. CASE j = i
    BY <1>3, <1>4, <2>1 DEF Touched
  <2>2. CASE j # i
    <3>1. points'[j] = points[j] /\ Latest(revisions[points[j].task], j, points[j])
      BY <1>4, <1>8, <2>2 DEF WorkInv, HistoryIsWhole
    <3>2. points[j].task \in Subjects
      BY <1>1, <1>8, <3>1 DEF WorkTypes, WorkTypeOK, PointRow, Subjects
    <3>3. CASE points[j].task = t
      BY <1>3, <2>2, <3>1, <3>3
    <3>4. CASE points[j].task # t
      BY <1>6, <3>1, <3>2, <3>4 DEF Rests
    <3> QED
      BY <3>3, <3>4
  <2> QED
    BY <2>1, <2>2
<1> QED
  BY <1>5, <1>7, <1>8 DEF WorkInv, HistoryIsWhole, Subjects, Latest, Snapshot

LEMMA ChangeChecklistItemKeeps ==
  ASSUME WorkInv, NEW b \in Bosses, NEW t \in Tasks, NEW i \in Points, NEW text \in Titles,
         NEW checked \in BOOLEAN, NEW basis \in Optional(Grounds),
         ChangeChecklistItem(b, t, i, text, checked, basis)
  PROVE  WorkInv'
<1> DEFINE point == [task |-> t, text |-> text, checked |-> checked, promoted |-> None]
           touched == [tasks[t] EXCEPT !.revision = @ + 1]
<1>1. point \in PointRow /\ point.task = t
  BY DEF PointRow, Optional
<1> HIDE DEF point
<1>2. /\ tasks[t] # None /\ tasks[t].revision < MaxRevision
      /\ points[i] # None => points[i].task = t
      /\ points' = [points EXCEPT ![i] = point]
      /\ revisions' = [revisions EXCEPT ![t] = Append(revisions[t], Entry(i, point, basis))]
      /\ tasks' = [tasks EXCEPT ![t] = touched]
      /\ UNCHANGED <<events, sheets, coordinators, terms, bases>>
  BY DEF ChangeChecklistItem, MoveParent, Recorded, CanMove, CurrentRow, point
<1>3. WorkTypes /\ t \in Subjects /\ touched \in TaskRow /\ Entry(i, point, basis) \in HistoryEntries
  BY <1>1, <1>2, TouchedRow, EntryType DEF WorkInv, WorkTypes, WorkTypeOK, Subjects
<1> HIDE DEF touched
<1>4. WorkTypes'
  <2>1. revisions' \in [Subjects -> Seq(HistoryEntries)]
    BY <1>2, <1>3, AppendIsLatest DEF WorkTypes
  <2>2. WorkTypeOK'
    BY <1>1, <1>2, <1>3, <2>1 DEF WorkTypes, WorkTypeOK
  <2> QED
    BY <1>2, <1>3, <2>1, <2>2 DEF WorkTypes
<1>5. CurrentRow(t)' = touched
  BY <1>2, <1>3, CurrentRows DEF WorkTypes, WorkTypeOK
<1>6. Touched(t, i, point, basis)
  BY <1>1, <1>2, <1>3, <1>5 DEF Touched, WorkTypes, touched
<1>7. \A s \in Subjects \ {t} : Rests(s)
  BY <1>2, <1>3, CurrentRows DEF Rests, WorkTypes, WorkTypeOK, Subjects
<1> QED
  BY <1>2, <1>4, <1>6, <1>7, PointTouchedKeeps

LEMMA PromoteChecklistItemKeeps ==
  ASSUME WorkInv, NEW b \in Bosses, NEW t \in Tasks, NEW i \in Points, NEW u \in Tasks,
         NEW m \in Optional(Members), NEW f \in Optional(Dates), NEW basis \in Optional(Grounds),
         PromoteChecklistItem(b, t, i, u, m, f, basis)
  PROVE  WorkInv'
<1> DEFINE row == NewTask(points[i].text, m, f, None, t)
           point == [points[i] EXCEPT !.promoted = u]
           touched == [tasks[t] EXCEPT !.revision = @ + 1]
<1>1. WorkTypes /\ points[i] \in PointRow /\ points[i].task = t /\ tasks[t] \in TaskRow
  BY DEF WorkInv, WorkTypes, WorkTypeOK, PromoteChecklistItem, PointsOf
<1>2. row \in TaskRow /\ row.revision = 1
  BY <1>1, WorkAssumption DEF NewTask, TaskRow, PointRow, TaskStates, Optional
<1>3. point \in PointRow /\ point.task = t
  BY <1>1 DEF PointRow, Optional
<1> HIDE DEF point, row
<1>4. /\ tasks[t] # None /\ tasks[t].revision < MaxRevision /\ tasks[u] = None /\ t # u
      /\ tasks' = [tasks EXCEPT ![u] = row, ![t] = touched]
      /\ points' = [points EXCEPT ![i] = point]
      /\ revisions' = [revisions EXCEPT
             ![u] = Append(revisions[u], Entry("row", Snapshot(row), basis)),
             ![t] = Append(revisions[t], Entry(i, point, basis))]
      /\ UNCHANGED <<events, sheets, coordinators, terms, bases>>
  <2>1. tasks[t] # None /\ tasks[u] = None /\ t # u /\ tasks[t].revision < MaxRevision
    BY DEF PromoteChecklistItem, CanMove, CurrentRow
  <2>2. /\ tasks' = [tasks EXCEPT ![u] = row, ![t].revision = @ + 1]
        /\ points' = [points EXCEPT ![i] = point]
        /\ revisions' = [revisions EXCEPT ![u] = Append(@, Entry("row", Snapshot(row), basis)),
                                          ![t] = Append(@, Entry(i, point, basis))]
        /\ UNCHANGED <<events, sheets, coordinators, terms, bases>>
    BY DEF PromoteChecklistItem, row, point
  <2>3. tasks' = [tasks EXCEPT ![u] = row, ![t] = touched]
    BY <1>1, <2>1, <2>2 DEF WorkTypes, WorkTypeOK
  <2>4. revisions' = [revisions EXCEPT
             ![u] = Append(revisions[u], Entry("row", Snapshot(row), basis)),
             ![t] = Append(revisions[t], Entry(i, point, basis))]
    BY <1>1, <2>1, <2>2 DEF WorkTypes
  <2> QED
    BY <2>1, <2>2, <2>3, <2>4
<1>5. /\ t \in Subjects /\ u \in Subjects /\ touched \in TaskRow
      /\ Entry(i, point, basis) \in HistoryEntries
      /\ Entry("row", Snapshot(row), basis) \in HistoryEntries
  BY <1>1, <1>2, <1>3, <1>4, TouchedRow, EntryType DEF Subjects
<1> HIDE DEF touched
<1>6. WorkTypes'
  <2>1. revisions' \in [Subjects -> Seq(HistoryEntries)]
    BY <1>1, <1>4, <1>5, AppendIsLatest DEF WorkTypes
  <2>2. WorkTypeOK'
    BY <1>1, <1>2, <1>3, <1>4, <1>5, <2>1 DEF WorkTypes, WorkTypeOK
  <2> QED
    BY <1>1, <1>4, <2>1, <2>2 DEF WorkTypes
<1>7. CurrentRow(t)' = touched
  BY <1>1, <1>4, CurrentRows DEF WorkTypes, WorkTypeOK
<1>8. Touched(t, i, point, basis)
  BY <1>1, <1>3, <1>4, <1>5, <1>7 DEF Touched, WorkTypes, touched
<1>9. CurrentRow(u) = None /\ Written(u, row, basis)
  BY <1>1, <1>2, <1>4, <1>5, CurrentRows DEF Written, Follows, WorkTypes, WorkTypeOK
<1>10. \A s \in Subjects \ {t, u} : Rests(s)
  BY <1>1, <1>4, <1>5, CurrentRows DEF Rests, WorkTypes, WorkTypeOK, Subjects
<1> QED
  BY <1>2, <1>4, <1>6, <1>8, <1>9, <1>10, PointTouchedKeeps

LEMMA HistoryUndisturbed ==
  ASSUME HistoryIsWhole, UNCHANGED <<tasks, points, events, revisions>>
  PROVE  HistoryIsWhole'
<1>1. \A s : CurrentRow(s)' = CurrentRow(s) /\ Snapshot(CurrentRow(s))' = Snapshot(CurrentRow(s))
  BY DEF CurrentRow, Snapshot
<1>2. \A s, what, snapshot :
        Latest(revisions'[s], what, snapshot) <=> Latest(revisions[s], what, snapshot)
  OBVIOUS
<1>3. \A s, what : Latest(revisions[s], what, Snapshot(CurrentRow(s)))' <=>
                     Latest(revisions'[s], what, Snapshot(CurrentRow(s))')
  BY DEF Latest
<1>4. \A i : Latest(revisions[points[i].task], i, points[i])' <=>
               Latest(revisions'[points'[i].task], i, points'[i])
  BY DEF Latest
<1>5. \A s, what : Latest(revisions[s], what, Snapshot(CurrentRow(s)))' <=>
                     Latest(revisions[s], what, Snapshot(CurrentRow(s)))
  BY <1>1, <1>2, <1>3
<1>6. \A i : Latest(revisions[points[i].task], i, points[i])' <=>
               Latest(revisions[points[i].task], i, points[i])
  BY <1>4
<1> QED
  BY <1>1, <1>5, <1>6 DEF HistoryIsWhole, Subjects

LEMMA WorkOverviewKeeps ==
  ASSUME WorkInv, NEW b \in Bosses, NEW s \in Subjects, WorkOverview(b, s)
  PROVE  WorkInv'
<1> DEFINE sheet == [subject |-> s, row |-> CurrentRow(s), checklist |-> Checklist(s)]
<1>1. /\ sheets' = [sheets EXCEPT ![b] = sheet] /\ CurrentRow(s) # None
      /\ UNCHANGED <<tasks, points, events, revisions, coordinators, terms, bases>>
  BY DEF WorkOverview
<1>2. WorkTypes'
  BY <1>1 DEF WorkInv, WorkTypes, WorkTypeOK
<1>3. HistoryIsWhole'
  BY <1>1, HistoryUndisturbed DEF WorkInv
<1>4. \A x : SheetIsOfThePast(x)' <=> SheetIsOfThePast(x)
  BY <1>1 DEF SheetIsOfThePast, CurrentRow, Checklist, PointsOf, Subjects
<1>5. SheetIsOfThePast(sheet)
  BY <1>1, CurrentRows, WorkAssumption
     DEF SheetIsOfThePast, WorkInv, TaskRow, EventRow
<1>6. ASSUME NEW c \in Bosses, sheets'[c] # None PROVE SheetIsOfThePast(sheets'[c])
  <2>1. sheets'[c] = IF c = b THEN sheet ELSE sheets[c]
    BY <1>1 DEF WorkInv, WorkTypes
  <2> QED
    BY <1>5, <1>6, <2>1 DEF WorkInv, SheetsAreOfThePast
<1>7. SheetsAreOfThePast'
  BY <1>4, <1>6 DEF SheetsAreOfThePast
<1> QED
  BY <1>2, <1>3, <1>7 DEF WorkInv

LEMMA SurroundingsKeep ==
  ASSUME WorkInv, UNCHANGED <<tasks, points, events, revisions, sheets>>,
         (coordinators \subseteq Members)', (bases \subseteq Grounds)',
         terms' \in [Dates -> {"ahead", "actual", "other"}]
  PROVE  WorkInv'
<1>1. WorkTypes'
  BY DEF WorkInv, WorkTypes, WorkTypeOK
<1>2. HistoryIsWhole'
  BY HistoryUndisturbed DEF WorkInv
<1>3. SheetsAreOfThePast'
  BY DEF WorkInv, SheetsAreOfThePast, SheetIsOfThePast, CurrentRow, Checklist, PointsOf, Subjects
<1> QED
  BY <1>1, <1>2, <1>3 DEF WorkInv

LEMMA WorkInvInit == WorkInit => WorkInv
<1> SUFFICES ASSUME WorkInit PROVE WorkInv
  OBVIOUS
<1>1. WorkTypes
  BY DEF WorkInit, WorkTypes, WorkTypeOK
<1>2. SheetsAreOfThePast
  BY DEF WorkInit, SheetsAreOfThePast
<1>3. HistoryIsWhole
  BY DEF WorkInit, HistoryIsWhole, CurrentRow, Subjects
<1> QED
  BY <1>1, <1>2, <1>3 DEF WorkInv

LEMMA WorkInvStep == WorkInv /\ [WorkNext]_workVars => WorkInv'
<1> SUFFICES ASSUME WorkInv, [WorkNext]_workVars PROVE WorkInv'
  OBVIOUS
<1>0. WorkTypes
  BY DEF WorkInv
<1>1. CASE TaskCommand
  <2>1. PICK basis \in Optional(Grounds), t \in Tasks :
          \/ \E fields \in TaskFields :
               CreateTask(t, fields, basis) \/ \E b \in Bosses : ChangeTask(b, t, fields, basis)
          \/ \E b \in Bosses, state \in TaskStates, reason \in Optional(Reasons) :
               ChangeTaskState(b, t, state, reason, basis)
          \/ \E b \in Bosses, i \in Points, text \in Titles, checked \in BOOLEAN :
               ChangeChecklistItem(b, t, i, text, checked, basis)
          \/ \E b \in Bosses, i \in Points, u \in Tasks, m \in Optional(Members),
                f \in Optional(Dates) :
               PromoteChecklistItem(b, t, i, u, m, f, basis)
    BY <1>1 DEF TaskCommand
  <2> QED
    BY <1>0, <2>1, TaskWritten, WritesTaskKeeps, ChangeChecklistItemKeeps,
       PromoteChecklistItemKeeps
<1>2. CASE EventCommand
  <2>1. PICK basis \in Optional(Grounds), e \in Events, time \in Optional(Dates) :
          \/ \E title \in Titles : CreateEvent(e, title, time, basis)
          \/ \E b \in Bosses, title \in Titles : ChangeEvent(b, e, title, time, basis)
          \/ \E b \in Bosses, state \in EventStates : ChangeEventState(b, e, state, basis)
          \/ \E t \in Tasks, fields \in TaskFields :
               RecordEventWithTask(e, t, fields, time, basis)
    BY <1>2 DEF EventCommand
  <2> QED
    BY <1>0, <2>1, EventWritten, WritesEventKeeps, RecordEventWithTaskKeeps
<1>3. ASSUME NEW b \in Bosses, NEW s \in Subjects, WorkOverview(b, s) PROVE WorkInv'
  BY <1>3, WorkOverviewKeeps
<1>4. CASE \/ \E m \in Members : RevokeCoordinator(m)
           \/ \E f \in Dates, meaning \in {"ahead", "actual", "other"} : CorrectTerm(f, meaning)
           \/ \E s \in Grounds : LoseBasis(s)
  <2>1. /\ coordinators \subseteq Members /\ bases \subseteq Grounds
        /\ terms \in [Dates -> {"ahead", "actual", "other"}]
    BY <1>0 DEF WorkTypes, WorkTypeOK
  <2>2. /\ UNCHANGED <<tasks, points, events, revisions, sheets>>
        /\ (coordinators \subseteq Members)' /\ (bases \subseteq Grounds)'
        /\ terms' \in [Dates -> {"ahead", "actual", "other"}]
    BY <1>4, <2>1 DEF RevokeCoordinator, CorrectTerm, LoseBasis
  <2> QED
    BY <2>2, SurroundingsKeep
<1>5. CASE UNCHANGED workVars
  <2>1. WorkTypes' /\ UNCHANGED <<tasks, points, events, revisions, sheets, coordinators, bases, terms>>
    BY <1>0, <1>5 DEF workVars, WorkTypes, WorkTypeOK
  <2> QED
    BY <2>1, SurroundingsKeep DEF WorkTypes, WorkTypeOK
<1> QED
  BY <1>1, <1>2, <1>3, <1>4, <1>5 DEF WorkNext

LEMMA WorkInvAlways == WorkSpec => []WorkInv
BY WorkInvInit, WorkInvStep, PTL DEF WorkSpec

(* No record of work, no counter and no sheet ever leaves its type.           *)
THEOREM WorkTypeCorrect == WorkSpec => []WorkTypeOK
<1>1. WorkInv => WorkTypeOK
  BY DEF WorkInv, WorkTypes
<1> QED
  BY <1>1, WorkInvAlways, PTL

(* A command that passes the revision comparison overwrites nothing its       *)
(* author has not read (operations.ts, REVISION discipline).                  *)
THEOREM NothingUnseenIsEverOverwritten == WorkSpec => []NothingUnseenIsOverwritten
<1>1. WorkInv => NothingUnseenIsOverwritten
  BY DEF WorkInv, SheetsAreOfThePast, SheetIsOfThePast, NothingUnseenIsOverwritten
<1> QED
  BY <1>1, WorkInvAlways, PTL

(* Every entry of a history is about the record or about a point of its       *)
(* checklist, which is never moved to another task.                           *)
HistoryIsOfTheRecord ==
  \A s \in Subjects : \A n \in DOMAIN revisions[s] :
    revisions[s][n].what \in {"row"} \union PointsOf(s)

(* An entry that a history did not end in already.                            *)
SaysSomethingNew(history, what, snapshot) ==
  \/ \A n \in DOMAIN history : history[n].what # what
  \/ \E old : old # snapshot /\ Latest(history, what, old)

Adds(s, what, snapshot) ==
  \E basis \in Optional(Grounds) :
    /\ Entry(what, snapshot, basis) \in HistoryEntries
    /\ revisions'[s] = Append(revisions[s], Entry(what, snapshot, basis))
    /\ SaysSomethingNew(revisions[s], what, snapshot)

(* A command: it adds an entry to each history of S, one of which at most is  *)
(* of a record that exists, and its author has compared the revision of that. *)
Commands(S) ==
  /\ S \in SUBSET Subjects /\ S # {}
  /\ \A s \in S : \E snapshot :
       Adds(s, "row", snapshot) \/ \E i \in PointsOf(s)' : Adds(s, i, snapshot)
  /\ \A s \in Subjects \ S : revisions'[s] = revisions[s]
  /\ \/ \A s \in S : CurrentRow(s) = None
     \/ \E b \in Bosses : \A s \in S : CurrentRow(s) # None => ExpectsRevision(b, s)
  /\ \A i \in Points : points[i] # None => points'[i] # None /\ points'[i].task = points[i].task
  /\ UNCHANGED sheets

LEMMA LatestIsTold ==
  ASSUME NEW history \in Seq(HistoryEntries), NEW what, NEW snapshot,
         Latest(history, what, snapshot)
  PROVE  what \in Journal!Parts(history) /\ Journal!Tells(history)[what] = snapshot
<1> DEFINE rows == Journal!About(history, what)
           latest == CHOOSE n \in rows : \A k \in rows : k <= n
<1>1. PICK n \in DOMAIN history :
        /\ history[n].what = what /\ history[n].snapshot = snapshot
        /\ \A k \in DOMAIN history : history[k].what = what => k <= n
  BY DEF Latest
<1>2. n \in rows /\ \A k \in rows : k <= n
  BY <1>1 DEF Journal!About
<1>3. latest \in rows /\ \A k \in rows : k <= latest
  BY <1>2
<1>4. latest = n
  <2>1. rows \subseteq Nat
    BY DEF Journal!About
  <2> QED
    BY <1>2, <1>3, <2>1
<1>5. what \in Journal!Parts(history)
  BY <1>1 DEF Journal!Parts
<1>6. Journal!Tells(history)[what] = history[latest].snapshot
  BY <1>5 DEF Journal!Tells
<1> QED
  BY <1>1, <1>4, <1>5, <1>6

LEMMA AddedIsTold ==
  ASSUME NEW history \in Seq(HistoryEntries), NEW entry \in HistoryEntries,
         SaysSomethingNew(history, entry.what, entry.snapshot)
  PROVE  LET longer == Append(history, entry) IN
         /\ Len(longer) = Len(history) + 1
         /\ \A n \in DOMAIN history : longer[n] = history[n]
         /\ Journal!Tells(longer) # Journal!Tells(history)
<1> DEFINE longer == Append(history, entry)
<1>1. /\ Len(longer) = Len(history) + 1 /\ longer \in Seq(HistoryEntries)
      /\ \A n \in DOMAIN history : longer[n] = history[n]
  OBVIOUS
<1> HIDE DEF longer
<1>2. /\ entry.what \in Journal!Parts(longer)
      /\ Journal!Tells(longer)[entry.what] = entry.snapshot
  <2>1. Latest(longer, entry.what, entry.snapshot)
    BY AppendIsLatest DEF longer
  <2> QED
    BY <1>1, <2>1, LatestIsTold
<1>3. CASE \A n \in DOMAIN history : history[n].what # entry.what
  <2>1. entry.what \notin Journal!Parts(history)
    BY <1>3 DEF Journal!Parts
  <2>2. DOMAIN Journal!Tells(longer) # DOMAIN Journal!Tells(history)
    BY <1>2, <2>1 DEF Journal!Tells
  <2> QED
    BY <1>1, <2>2 DEF longer
<1>4. CASE \E old : old # entry.snapshot /\ Latest(history, entry.what, old)
  BY <1>1, <1>2, <1>4, LatestIsTold DEF longer
<1> QED
  BY <1>3, <1>4 DEF SaysSomethingNew

(* What is read is what the history tells.                                    *)
LEMMA HistoryTellsTheRecord ==
  ASSUME WorkInv, HistoryIsOfTheRecord, NEW s \in Subjects, CurrentRow(s) # None
  PROVE  /\ Journal!Tells(revisions[s]) = Document(CurrentRow(s), Checklist(s))
         /\ revisions[s] # << >>
<1> DEFINE history == revisions[s]
           told == Journal!Tells(history)
           document == Document(CurrentRow(s), Checklist(s))
<1>1. /\ history \in Seq(HistoryEntries)
      /\ Latest(history, "row", Snapshot(CurrentRow(s)))
  BY DEF WorkInv, WorkTypes, HistoryIsWhole
<1>2. "row" \in Journal!Parts(history) /\ told["row"] = Snapshot(CurrentRow(s))
  BY <1>1, LatestIsTold
<1>3. ASSUME NEW i \in PointsOf(s)
      PROVE  i \in Journal!Parts(history) /\ told[i] = points[i]
  <2>1. Latest(history, i, points[i])
    BY <1>3 DEF WorkInv, HistoryIsWhole, PointsOf
  <2> QED
    BY <1>1, <2>1, LatestIsTold
<1>4. Journal!Parts(history) = {"row"} \union PointsOf(s)
  BY <1>2, <1>3 DEF HistoryIsOfTheRecord, Journal!Parts
<1>5. "row" \notin PointsOf(s)
  BY WorkAssumption DEF PointsOf
<1>6. document = [part \in {"row"} \union PointsOf(s) |->
                    IF part = "row" THEN Snapshot(CurrentRow(s)) ELSE points[part]]
  BY <1>5 DEF Document, Checklist
<1>7. told = [part \in {"row"} \union PointsOf(s) |-> told[part]]
  BY <1>4 DEF Journal!Tells
<1>8. \A part \in {"row"} \union PointsOf(s) :
        told[part] = IF part = "row" THEN Snapshot(CurrentRow(s)) ELSE points[part]
  BY <1>2, <1>3, <1>5
<1>9. told = document
  BY <1>6, <1>7, <1>8
<1> QED
  BY <1>1, <1>9 DEF Latest

(* One number compared is the whole record compared.                          *)
LEMMA ComparedIsSeen ==
  ASSUME WorkInv, HistoryIsOfTheRecord, NEW b \in Bosses, NEW s \in Subjects,
         CurrentRow(s) # None, ExpectsRevision(b, s)
  PROVE  Journal!SeesAsItStands(b, s)
<1>1. sheets[b] # None /\ sheets[b].subject = s /\ SheetIsOfThePast(sheets[b])
  BY DEF ExpectsRevision, WorkInv, SheetsAreOfThePast
<1>2. sheets[b].row = CurrentRow(s) /\ sheets[b].checklist = Checklist(s)
  BY <1>1 DEF ExpectsRevision, SheetIsOfThePast
<1>3. OnTheTable(b) = Journal!Sight(b, s)
  BY <1>1, <1>2, HistoryTellsTheRecord DEF OnTheTable, Journal!Sight
<1> QED
  BY <1>1, <1>3 DEF Journal!SeesAsItStands

LEMMA CommandsAreRefined ==
  ASSUME WorkInv, HistoryIsOfTheRecord, NEW S, Commands(S)
  PROVE  Journal!JournalNext
<1>1. \A s \in S : Journal!Extends(s)
  <2> SUFFICES ASSUME NEW s \in S PROVE Journal!Extends(s)
    OBVIOUS
  <2>1. revisions[s] \in Seq(HistoryEntries)
    BY DEF Commands, WorkInv, WorkTypes
  <2>2. PICK what, snapshot : Adds(s, what, snapshot)
    BY DEF Commands
  <2>3. PICK basis \in Optional(Grounds) :
          /\ Entry(what, snapshot, basis) \in HistoryEntries
          /\ revisions'[s] = Append(revisions[s], Entry(what, snapshot, basis))
          /\ SaysSomethingNew(revisions[s], what, snapshot)
    BY <2>2 DEF Adds
  <2>4. /\ Entry(what, snapshot, basis).what = what
        /\ Entry(what, snapshot, basis).snapshot = snapshot
    BY DEF Entry
  <2> QED
    BY <2>1, <2>3, <2>4, AddedIsTold DEF Journal!Extends
<1>2. \A s \in Subjects : revisions[s] = << >> <=> CurrentRow(s) = None
  BY HistoryTellsTheRecord DEF WorkInv, HistoryIsWhole
<1>3. \/ \A s \in S : revisions[s] = << >>
      \/ \E b \in Bosses : \A s \in S : revisions[s] # << >> => Journal!SeesAsItStands(b, s)
  BY <1>2, ComparedIsSeen DEF Commands
<1>4. UNCHANGED {OnTheTable(b) : b \in {x \in Bosses : sheets[x] # None}}
  BY DEF Commands, OnTheTable, Document, Snapshot
<1>5. Journal!Change(S)
  BY <1>1, <1>3, <1>4 DEF Commands, Journal!Change
<1> QED
  BY <1>5 DEF Commands, Journal!JournalNext

LEMMA CommandsKeepTheRecord ==
  ASSUME WorkInv, HistoryIsOfTheRecord, NEW S, Commands(S)
  PROVE  HistoryIsOfTheRecord'
<1> SUFFICES ASSUME NEW s \in Subjects, NEW n \in DOMAIN revisions'[s]
             PROVE  revisions'[s][n].what \in {"row"} \union PointsOf(s)'
  BY DEF HistoryIsOfTheRecord, Subjects
<1>1. PointsOf(s) \subseteq PointsOf(s)'
  BY DEF Commands, PointsOf
<1>2. CASE s \notin S
  BY <1>1, <1>2 DEF Commands, HistoryIsOfTheRecord
<1>3. CASE s \in S
  <2>1. PICK what, snapshot : what \in {"row"} \union PointsOf(s)' /\ Adds(s, what, snapshot)
    BY <1>3 DEF Commands
  <2>2. PICK entry \in HistoryEntries :
          entry.what = what /\ revisions'[s] = Append(revisions[s], entry)
    BY <2>1 DEF Adds, Entry
  <2>3. revisions[s] \in Seq(HistoryEntries)
    BY DEF WorkInv, WorkTypes
  <2>4. CASE n = Len(revisions[s]) + 1
    BY <2>1, <2>2, <2>3, <2>4
  <2>5. CASE n \in DOMAIN revisions[s] /\ revisions'[s][n] = revisions[s][n]
    BY <1>1, <2>5 DEF HistoryIsOfTheRecord
  <2> QED
    BY <2>2, <2>3, <2>4, <2>5
<1> QED
  BY <1>2, <1>3

(* The row a command writes differs from the one it replaces.                 *)
LEMMA RowAdds ==
  ASSUME WorkInv, NEW s \in Subjects, NEW row \in TaskRow \union EventRow,
         NEW basis \in Optional(Grounds),
         revisions'[s] = Append(revisions[s], Entry("row", Snapshot(row), basis)),
         CurrentRow(s) = None \/ Snapshot(row) # Snapshot(CurrentRow(s))
  PROVE  Adds(s, "row", Snapshot(row))
<1>1. Entry("row", Snapshot(row), basis) \in HistoryEntries
  BY EntryType
<1>2. SaysSomethingNew(revisions[s], "row", Snapshot(row))
  BY DEF SaysSomethingNew, WorkInv, HistoryIsWhole
<1> QED
  BY <1>1, <1>2 DEF Adds

LEMMA PointAdds ==
  ASSUME WorkInv, HistoryIsOfTheRecord, NEW t \in Tasks, NEW i \in Points,
         NEW point \in PointRow, NEW basis \in Optional(Grounds),
         revisions'[t] = Append(revisions[t], Entry(i, point, basis)),
         points[i] # None => points[i].task = t, point # points[i]
  PROVE  Adds(t, i, point)
<1>1. Entry(i, point, basis) \in HistoryEntries
  BY EntryType
<1>2. CASE points[i] = None
  <2>1. \A n \in DOMAIN revisions[t] : revisions[t][n].what # i
    BY <1>2, WorkAssumption DEF HistoryIsOfTheRecord, PointsOf, Subjects
  <2> QED
    BY <1>1, <2>1 DEF Adds, SaysSomethingNew
<1>3. CASE points[i] # None
  <2>1. Latest(revisions[t], i, points[i])
    BY <1>3 DEF WorkInv, HistoryIsWhole
  <2> QED
    BY <1>1, <2>1 DEF Adds, SaysSomethingNew
<1> QED
  BY <1>2, <1>3

LEMMA TaskCommandWrites ==
  ASSUME WorkInv, HistoryIsOfTheRecord, NEW t \in Tasks, NEW basis \in Optional(Grounds),
         \/ \E fields \in TaskFields :
              CreateTask(t, fields, basis) \/ \E b \in Bosses : ChangeTask(b, t, fields, basis)
         \/ \E b \in Bosses, state \in TaskStates, reason \in Optional(Reasons) :
              ChangeTaskState(b, t, state, reason, basis)
  PROVE  Commands({t})
<1>0. WorkTypes /\ t \in Subjects /\ CurrentRow(t) = tasks[t]
  BY CurrentRows DEF WorkInv, Subjects
<1>1. PICK row : WritesTask(t, row, basis)
  BY <1>0, TaskWritten
<1>2. /\ row \in TaskRow /\ tasks'[t] = row
      /\ revisions' = [revisions EXCEPT ![t] = Append(@, Entry("row", Snapshot(row), basis))]
      /\ UNCHANGED <<points, sheets>>
  BY <1>0, <1>1 DEF WritesTask, Recorded, WorkTypes, WorkTypeOK
<1>3. /\ revisions'[t] = Append(revisions[t], Entry("row", Snapshot(row), basis))
      /\ \A s \in Subjects \ {t} : revisions'[s] = revisions[s]
  BY <1>0, <1>2 DEF WorkTypes
<1>4. \/ tasks[t] = None
      \/ /\ Snapshot(row) # Snapshot(tasks[t])
         /\ \E b \in Bosses : ExpectsRevision(b, t)
  <2>1. ASSUME NEW other, tasks' = [tasks EXCEPT ![t] = other] PROVE row = other
    BY <1>0, <1>2, <2>1 DEF WorkTypes, WorkTypeOK
  <2>2. ASSUME NEW fields \in TaskFields, NEW b \in Bosses, ChangeTask(b, t, fields, basis)
        PROVE  Snapshot(row) # Snapshot(tasks[t]) /\ ExpectsRevision(b, t)
    BY <2>1, <2>2 DEF ChangeTask
  <2>3. ASSUME NEW b \in Bosses, NEW state \in TaskStates, NEW reason \in Optional(Reasons),
               ChangeTaskState(b, t, state, reason, basis)
        PROVE  Snapshot(row) # Snapshot(tasks[t]) /\ ExpectsRevision(b, t)
    BY <2>1, <2>3 DEF ChangeTaskState
  <2> QED
    BY <2>2, <2>3 DEF CreateTask
<1>5. Adds(t, "row", Snapshot(row))
  BY <1>0, <1>2, <1>3, <1>4, RowAdds
<1> QED
  BY <1>0, <1>2, <1>3, <1>4, <1>5 DEF Commands

LEMMA EventCommandWrites ==
  ASSUME WorkInv, HistoryIsOfTheRecord, NEW e \in Events, NEW time \in Optional(Dates),
         NEW basis \in Optional(Grounds),
         \/ \E title \in Titles : CreateEvent(e, title, time, basis)
         \/ \E b \in Bosses, title \in Titles : ChangeEvent(b, e, title, time, basis)
         \/ \E b \in Bosses, state \in EventStates : ChangeEventState(b, e, state, basis)
  PROVE  Commands({e})
<1>0. WorkTypes /\ e \in Subjects /\ CurrentRow(e) = events[e]
  BY CurrentRows DEF WorkInv, Subjects
<1>1. PICK row : WritesEvent(e, row, basis)
  BY <1>0, EventWritten
<1>2. /\ row \in EventRow /\ events'[e] = row
      /\ revisions' = [revisions EXCEPT ![e] = Append(@, Entry("row", Snapshot(row), basis))]
      /\ UNCHANGED <<points, sheets>>
  BY <1>0, <1>1 DEF WritesEvent, Recorded, WorkTypes, WorkTypeOK
<1>3. /\ revisions'[e] = Append(revisions[e], Entry("row", Snapshot(row), basis))
      /\ \A s \in Subjects \ {e} : revisions'[s] = revisions[s]
  BY <1>0, <1>2 DEF WorkTypes
<1>4. \/ events[e] = None
      \/ /\ Snapshot(row) # Snapshot(events[e])
         /\ \E b \in Bosses : ExpectsRevision(b, e)
  <2>1. ASSUME NEW b \in Bosses, NEW other, MoveEvent(b, e, other, basis)
        PROVE  Snapshot(row) # Snapshot(events[e]) /\ ExpectsRevision(b, e)
    <3>1. row = other
      BY <1>0, <1>2, <2>1 DEF MoveEvent, WorkTypes, WorkTypeOK
    <3> QED
      BY <2>1, <3>1 DEF MoveEvent
  <2> QED
    BY <2>1 DEF CreateEvent, ChangeEvent, ChangeEventState
<1>5. Adds(e, "row", Snapshot(row))
  BY <1>0, <1>2, <1>3, <1>4, RowAdds
<1> QED
  BY <1>0, <1>2, <1>3, <1>4, <1>5 DEF Commands

LEMMA RecordEventWithTaskWrites ==
  ASSUME WorkInv, HistoryIsOfTheRecord, NEW e \in Events, NEW t \in Tasks,
         NEW fields \in TaskFields, NEW time \in Optional(Dates), NEW basis \in Optional(Grounds),
         RecordEventWithTask(e, t, fields, time, basis)
  PROVE  Commands({e, t})
<1> DEFINE event == [title |-> fields.title, state |-> "planned", time |-> time, revision |-> 1]
           row == NewTask(fields.title, fields.coordinator, fields.deadline, e, None)
<1>1. event \in EventRow
  BY WorkAssumption DEF EventRow, EventStates, TaskFields
<1>2. row \in TaskRow
  BY WorkAssumption DEF NewTask, TaskRow, TaskFields, TaskStates, Optional
<1>3. /\ WorkTypes /\ t \in Subjects /\ e \in Subjects /\ t # e
      /\ CurrentRow(e) = None /\ CurrentRow(t) = None
  BY CurrentRows, WorkAssumption DEF WorkInv, Subjects, RecordEventWithTask
<1> HIDE DEF event, row
<1>4. /\ revisions'[e] = Append(revisions[e], Entry("row", Snapshot(event), basis))
      /\ revisions'[t] = Append(revisions[t], Entry("row", Snapshot(row), basis))
      /\ \A s \in Subjects \ {e, t} : revisions'[s] = revisions[s]
      /\ UNCHANGED <<points, sheets>>
  BY <1>3 DEF RecordEventWithTask, event, row, WorkTypes
<1>5. Adds(e, "row", Snapshot(event)) /\ Adds(t, "row", Snapshot(row))
  BY <1>1, <1>2, <1>3, <1>4, RowAdds
<1> QED
  BY <1>3, <1>4, <1>5 DEF Commands

LEMMA ChangeChecklistItemWrites ==
  ASSUME WorkInv, HistoryIsOfTheRecord, NEW b \in Bosses, NEW t \in Tasks, NEW i \in Points,
         NEW text \in Titles, NEW checked \in BOOLEAN, NEW basis \in Optional(Grounds),
         ChangeChecklistItem(b, t, i, text, checked, basis)
  PROVE  Commands({t})
<1> DEFINE point == [task |-> t, text |-> text, checked |-> checked, promoted |-> None]
<1>1. point \in PointRow /\ point.task = t
  BY DEF PointRow, Optional
<1>2. WorkTypes /\ t \in Subjects
  BY DEF WorkInv, Subjects
<1> HIDE DEF point
<1>3. /\ points[i] # None => points[i].task = t
      /\ points[i] # point
      /\ points' = [points EXCEPT ![i] = point]
      /\ revisions' = [revisions EXCEPT ![t] = Append(@, Entry(i, point, basis))]
      /\ ExpectsRevision(b, t)
      /\ UNCHANGED sheets
  BY DEF ChangeChecklistItem, Recorded, point
<1>4. /\ revisions'[t] = Append(revisions[t], Entry(i, point, basis))
      /\ \A s \in Subjects \ {t} : revisions'[s] = revisions[s]
      /\ \A j \in Points : points'[j] = IF j = i THEN point ELSE points[j]
  BY <1>2, <1>3 DEF WorkTypes, WorkTypeOK
<1>5. Adds(t, i, point)
  BY <1>1, <1>3, <1>4, PointAdds
<1>6. i \in PointsOf(t)'
  BY <1>1, <1>4, NoneIsNoRow DEF PointsOf
<1>7. \A j \in Points : points[j] # None => points'[j] # None /\ points'[j].task = points[j].task
  BY <1>1, <1>3, <1>4, NoneIsNoRow
<1> QED
  BY <1>2, <1>3, <1>4, <1>5, <1>6, <1>7 DEF Commands

LEMMA PromoteChecklistItemWrites ==
  ASSUME WorkInv, HistoryIsOfTheRecord, NEW b \in Bosses, NEW t \in Tasks, NEW i \in Points,
         NEW u \in Tasks, NEW m \in Optional(Members), NEW f \in Optional(Dates),
         NEW basis \in Optional(Grounds), PromoteChecklistItem(b, t, i, u, m, f, basis)
  PROVE  Commands({t, u})
<1> DEFINE row == NewTask(points[i].text, m, f, None, t)
           point == [points[i] EXCEPT !.promoted = u]
<1>1. WorkTypes /\ points[i] \in PointRow /\ points[i].task = t /\ points[i].promoted = None
  BY DEF WorkInv, WorkTypes, WorkTypeOK, PromoteChecklistItem, PointsOf, Promotable
<1>2. row \in TaskRow
  BY <1>1, WorkAssumption DEF NewTask, TaskRow, PointRow, TaskStates, Optional
<1>3. point \in PointRow /\ point.task = t /\ point # points[i]
  <2>1. point.promoted = u /\ u # None
    BY <1>1, WorkAssumption DEF PointRow
  <2> QED
    BY <1>1, <2>1 DEF PointRow, Optional
<1> HIDE DEF point, row
<1>4. /\ tasks[t] # None /\ tasks[u] = None /\ t # u /\ t \in Subjects /\ u \in Subjects
      /\ points' = [points EXCEPT ![i] = point]
      /\ revisions' = [revisions EXCEPT ![u] = Append(@, Entry("row", Snapshot(row), basis)),
                                        ![t] = Append(@, Entry(i, point, basis))]
      /\ ExpectsRevision(b, t)
      /\ UNCHANGED sheets
  BY DEF PromoteChecklistItem, row, point, Subjects
<1>5. /\ revisions'[t] = Append(revisions[t], Entry(i, point, basis))
      /\ revisions'[u] = Append(revisions[u], Entry("row", Snapshot(row), basis))
      /\ \A s \in Subjects \ {t, u} : revisions'[s] = revisions[s]
  BY <1>1, <1>4 DEF WorkTypes
<1>6. \A j \in Points : points'[j] = IF j = i THEN point ELSE points[j]
  BY <1>1, <1>4 DEF WorkTypes, WorkTypeOK
<1>7. CurrentRow(u) = None
  BY <1>1, <1>4, CurrentRows
<1>8. Adds(t, i, point) /\ Adds(u, "row", Snapshot(row))
  BY <1>1, <1>2, <1>3, <1>4, <1>5, <1>7, PointAdds, RowAdds
<1>9. i \in PointsOf(t)'
  BY <1>3, <1>6, NoneIsNoRow DEF PointsOf
<1>10. \A j \in Points : points[j] # None => points'[j] # None /\ points'[j].task = points[j].task
  BY <1>1, <1>3, <1>6, NoneIsNoRow
<1> QED
  BY <1>4, <1>5, <1>7, <1>8, <1>9, <1>10 DEF Commands

LEMMA WorkOverviewIsRefined ==
  ASSUME WorkInv, HistoryIsOfTheRecord, NEW b \in Bosses, NEW s \in Subjects, WorkOverview(b, s)
  PROVE  Journal!JournalNext /\ HistoryIsOfTheRecord'
<1> DEFINE sheet == [subject |-> s, row |-> CurrentRow(s), checklist |-> Checklist(s)]
<1>1. /\ sheets' = [sheets EXCEPT ![b] = sheet] /\ CurrentRow(s) # None
      /\ UNCHANGED <<tasks, points, events, revisions>>
  BY DEF WorkOverview
<1>2. HistoryIsOfTheRecord'
  BY <1>1 DEF HistoryIsOfTheRecord, PointsOf, Subjects
<1>3. sheets'[b] = sheet /\ sheet # None /\ \A c \in Bosses \ {b} : sheets'[c] = sheets[c]
  <2>1. CurrentRow(s) \in TaskRow \union EventRow
    BY <1>1, CurrentRows DEF WorkInv
  <2>2. Checklist(s) \in [PointsOf(s) -> PointRow] /\ PointsOf(s) \in SUBSET Points
    BY DEF WorkInv, WorkTypes, WorkTypeOK, Checklist, PointsOf
  <2>3. sheet \in SheetRow
    BY <2>1, <2>2 DEF SheetRow
  <2> QED
    BY <1>1, <2>3, NoneIsNoSheet DEF WorkInv, WorkTypes
<1>4. /\ Journal!Tells(revisions[s]) = Document(CurrentRow(s), Checklist(s))
      /\ revisions[s] # << >>
  BY <1>1, HistoryTellsTheRecord
<1>5. OnTheTable(b)' = Journal!Sight(b, s)
  BY <1>3, <1>4 DEF OnTheTable, Document, Snapshot, Journal!Sight
<1>6. \A c \in Bosses \ {b} : OnTheTable(c)' = OnTheTable(c) /\ OnTheTable(c).author = c
  BY <1>3 DEF OnTheTable, Document, Snapshot
<1>7. OnTheTable(b).author = b
  BY DEF OnTheTable
<1>8. {OnTheTable(c) : c \in {x \in Bosses : sheets[x] # None}}' =
        {other \in {OnTheTable(c) : c \in {x \in Bosses : sheets[x] # None}} : other.author # b}
          \union {Journal!Sight(b, s)}
  BY <1>3, <1>5, <1>6, <1>7
<1> QED
  BY <1>1, <1>2, <1>4, <1>8 DEF Journal!JournalNext, Journal!Read

LEMMA WorkIsRefinedStep ==
  ASSUME WorkInv, HistoryIsOfTheRecord, [WorkNext]_workVars
  PROVE  [Journal!JournalNext]_(Journal!journalVars) /\ HistoryIsOfTheRecord'
<1>1. CASE TaskCommand
  <2>1. PICK basis \in Optional(Grounds), t \in Tasks :
          \/ \E fields \in TaskFields :
               CreateTask(t, fields, basis) \/ \E b \in Bosses : ChangeTask(b, t, fields, basis)
          \/ \E b \in Bosses, state \in TaskStates, reason \in Optional(Reasons) :
               ChangeTaskState(b, t, state, reason, basis)
          \/ \E b \in Bosses, i \in Points, text \in Titles, checked \in BOOLEAN :
               ChangeChecklistItem(b, t, i, text, checked, basis)
          \/ \E b \in Bosses, i \in Points, u \in Tasks, m \in Optional(Members),
                f \in Optional(Dates) :
               PromoteChecklistItem(b, t, i, u, m, f, basis)
    BY <1>1 DEF TaskCommand
  <2>2. \E S : Commands(S)
    BY <2>1, TaskCommandWrites, ChangeChecklistItemWrites, PromoteChecklistItemWrites
  <2> QED
    BY <2>2, CommandsAreRefined, CommandsKeepTheRecord
<1>2. CASE EventCommand
  <2>1. PICK basis \in Optional(Grounds), e \in Events, time \in Optional(Dates) :
          \/ \E title \in Titles : CreateEvent(e, title, time, basis)
          \/ \E b \in Bosses, title \in Titles : ChangeEvent(b, e, title, time, basis)
          \/ \E b \in Bosses, state \in EventStates : ChangeEventState(b, e, state, basis)
          \/ \E t \in Tasks, fields \in TaskFields :
               RecordEventWithTask(e, t, fields, time, basis)
    BY <1>2 DEF EventCommand
  <2>2. \E S : Commands(S)
    BY <2>1, EventCommandWrites, RecordEventWithTaskWrites
  <2> QED
    BY <2>2, CommandsAreRefined, CommandsKeepTheRecord
<1>3. ASSUME NEW b \in Bosses, NEW s \in Subjects, WorkOverview(b, s)
      PROVE  Journal!JournalNext /\ HistoryIsOfTheRecord'
  BY <1>3, WorkOverviewIsRefined
<1>4. ASSUME UNCHANGED <<points, revisions, sheets>>
      PROVE  UNCHANGED Journal!journalVars /\ HistoryIsOfTheRecord'
  BY <1>4 DEF Journal!journalVars, OnTheTable, Document, Snapshot, HistoryIsOfTheRecord, PointsOf,
     Subjects
<1>5. CASE \/ \E m \in Members : RevokeCoordinator(m)
           \/ \E f \in Dates, meaning \in {"ahead", "actual", "other"} : CorrectTerm(f, meaning)
           \/ \E s \in Grounds : LoseBasis(s)
  BY <1>4, <1>5 DEF RevokeCoordinator, CorrectTerm, LoseBasis
<1>6. CASE UNCHANGED workVars
  BY <1>4, <1>6 DEF workVars
<1> QED
  BY <1>1, <1>2, <1>3, <1>5, <1>6 DEF WorkNext

(* The records of work are their histories: what is read is what the history  *)
(* tells, every command adds one entry that says something new, and the one   *)
(* revision it compares stands for the whole record its author has seen       *)
(* (operations.ts, REVISION discipline; references.ts, recordCommittedChange). *)
THEOREM WorkAlwaysKeepsAJournal == WorkSpec => KeepsAJournal
<1>1. WorkInit => Journal!JournalInit /\ HistoryIsOfTheRecord
  BY DEF WorkInit, Journal!JournalInit, HistoryIsOfTheRecord
<1>2. WorkInv /\ HistoryIsOfTheRecord /\ [WorkNext]_workVars =>
        [Journal!JournalNext]_(Journal!journalVars) /\ HistoryIsOfTheRecord'
  BY WorkIsRefinedStep
<1>3. WorkSpec => []HistoryIsOfTheRecord
  BY <1>1, <1>2, WorkInvAlways, PTL DEF WorkSpec
<1> QED
  BY <1>1, <1>2, <1>3, WorkInvAlways, PTL DEF WorkSpec, KeepsAJournal, Journal!JournalSpec

-----------------------------------------------------------------------------
(* Projects.  A codename that was generated counts the projects there were    *)
(* before it; one that was chosen is claimed by whoever holds its row.        *)

CodenamesAreClaimed ==
  /\ \A x, y \in aliases : x.name = y.name => x = y
  /\ \A row \in aliases :
       /\ row.project \in Identified
       /\ \/ row.name \in Chosen
          \/ \E n \in 1..Cardinality(Identified) : row.name = Generated[n]
  /\ \A p \in Identified :
       \E row \in aliases :
         /\ row.project = p /\ row.active
         /\ \A other \in aliases : other.project = p /\ other.active => other = row

ViewsAreOfThePast ==
  \A s \in Screens : views[s] # Nothing =>
    LET p == views[s].project IN
    /\ p \in Identified
    /\ views[s].row.revision <= projects[p].revision
    /\ views[s].row.revision = projects[p].revision => views[s].row = projects[p]

ProjectsInv == ProjectsTypeOK /\ CodenamesAreClaimed /\ ViewsAreOfThePast

LEMMA IdentifiedCount ==
  /\ IsFiniteSet(Identified) /\ Cardinality(Identified) \in Nat
  /\ \A p \in Projects \ Identified :
       /\ Cardinality(Identified \union {p}) = Cardinality(Identified) + 1
       /\ 1 + Cardinality(Identified) \in DOMAIN Generated
<1>1. IsFiniteSet(Identified) /\ Cardinality(Identified) \in Nat
  BY ProjectsAssumption, FS_Subset, FS_CardinalityType DEF Identified
<1>2. ASSUME NEW p \in Projects \ Identified
      PROVE  /\ Cardinality(Identified \union {p}) = Cardinality(Identified) + 1
             /\ 1 + Cardinality(Identified) \in DOMAIN Generated
  <2>1. Cardinality(Identified \union {p}) = Cardinality(Identified) + 1
    BY <1>1, FS_AddElement
  <2>2. Identified \union {p} \in SUBSET Projects
    BY DEF Identified
  <2>3. Cardinality(Identified \union {p}) <= Cardinality(Projects) /\ Cardinality(Projects) \in Nat
    BY <2>2, ProjectsAssumption, FS_Subset, FS_CardinalityType
  <2>4. Len(Generated) \in Nat /\ DOMAIN Generated = 1..Len(Generated)
    BY ProjectsAssumption
  <2>5. 1 + Cardinality(Identified) <= Len(Generated)
    BY <1>1, <2>1, <2>3, <2>4, ProjectsAssumption
  <2> QED
    BY <1>1, <2>1, <2>4, <2>5
<1> QED
  BY <1>1, <1>2

LEMMA IdentifyProjectKeeps ==
  ASSUME ProjectsInv, NEW p \in Projects, NEW stage \in Stages, IdentifyProject(p, stage)
  PROVE  ProjectsInv'
<1> DEFINE row == [stage |-> stage, revision |-> 1, paused |-> FALSE,
                   closedAt |-> IF IsClosed(stage) THEN 1 ELSE 0]
           alias == [name |-> NextWorkingAlias, project |-> p, active |-> TRUE]
           count == Cardinality(Identified)
<1>1. row \in ProjectRow /\ row # Nothing
  <2>1. row \in ProjectRow
    BY ProjectsAssumption DEF ProjectRow
  <2> QED
    BY <2>1, NothingIsNoRow
<1> HIDE DEF row
<1>2. /\ p \notin Identified /\ count \in Nat /\ 1 + count \in DOMAIN Generated
      /\ Cardinality(Identified \union {p}) = count + 1
      /\ DOMAIN Generated = 1..Len(Generated) /\ Len(Generated) \in Nat
      /\ NextWorkingAlias = Generated[1 + count]
  BY IdentifiedCount, ProjectsAssumption DEF IdentifyProject, Identified, NextWorkingAlias
<1> HIDE DEF count
<1>3. /\ projects' = [projects EXCEPT ![p] = row] /\ aliases' = aliases \union {alias}
      /\ UNCHANGED <<contacts, roles, views>>
  BY DEF IdentifyProject, row
<1>4. alias \in AliasRow /\ alias.name = Generated[1 + count] /\ alias.project = p /\ alias.active
  BY <1>2 DEF AliasRow
<1> HIDE DEF alias
<1>5. Identified' = Identified \union {p}
  BY <1>1, <1>3 DEF Identified, ProjectsInv, ProjectsTypeOK
<1>6. Cardinality(Identified') = count + 1
  BY <1>2, <1>5
<1>7. ProjectsTypeOK'
  BY <1>1, <1>3, <1>4 DEF ProjectsInv, ProjectsTypeOK
<1>8. \A x \in aliases : x.name # alias.name
  <2> SUFFICES ASSUME NEW x \in aliases, x.name = alias.name PROVE FALSE
    OBVIOUS
  <2>1. x.name \notin Chosen
    BY <1>2, <1>4, ProjectsAssumption
  <2>2. PICK n \in 1..count : x.name = Generated[n]
    BY <2>1 DEF ProjectsInv, CodenamesAreClaimed, count
  <2>3. n \in DOMAIN Generated
    BY <1>2, <2>2
  <2>4. n = 1 + count
    BY <1>2, <1>4, <2>2, <2>3, ProjectsAssumption
  <2> QED
    BY <1>2, <2>2, <2>4
<1>9. CodenamesAreClaimed'
  <2>1. \A x, y \in aliases' : x.name = y.name => x = y
    BY <1>3, <1>8 DEF ProjectsInv, CodenamesAreClaimed
  <2>2. ASSUME NEW x \in aliases'
        PROVE  /\ x.project \in Identified'
               /\ \/ x.name \in Chosen
                  \/ \E n \in 1..(count + 1) : x.name = Generated[n]
    <3>1. CASE x = alias
      BY <1>2, <1>4, <1>5, <3>1
    <3>2. CASE x \in aliases
      BY <1>2, <1>5, <3>2 DEF ProjectsInv, CodenamesAreClaimed, count
    <3> QED
      BY <1>3, <3>1, <3>2
  <2>3. ASSUME NEW q \in Identified'
        PROVE  \E x \in aliases' :
                 /\ x.project = q /\ x.active
                 /\ \A other \in aliases' : other.project = q /\ other.active => other = x
    <3>1. \A x \in aliases : x.project # p
      BY <1>2 DEF ProjectsInv, CodenamesAreClaimed
    <3>2. CASE q = p
      BY <1>3, <1>4, <3>1, <3>2
    <3>3. CASE q # p
      <4>1. PICK x \in aliases :
              /\ x.project = q /\ x.active
              /\ \A other \in aliases : other.project = q /\ other.active => other = x
        BY <1>5, <3>3 DEF ProjectsInv, CodenamesAreClaimed
      <4> QED
        BY <1>3, <1>4, <3>3, <4>1
    <3> QED
      BY <3>2, <3>3
  <2> QED
    BY <1>6, <2>1, <2>2, <2>3 DEF CodenamesAreClaimed
<1>10. ViewsAreOfThePast'
  BY <1>2, <1>3, <1>5 DEF ProjectsInv, ProjectsTypeOK, ViewsAreOfThePast
<1> QED
  BY <1>7, <1>9, <1>10 DEF ProjectsInv

LEMMA AssignCodenameKeeps ==
  ASSUME ProjectsInv, NEW p \in Projects, NEW name \in Chosen, AssignCodename(p, name)
  PROVE  ProjectsInv'
<1> DEFINE alias == [name |-> name, project |-> p, active |-> TRUE]
           Left(row) == IF row.project = p THEN [row EXCEPT !.active = FALSE] ELSE row
<1>1. /\ p \in Identified
      /\ aliases \subseteq AliasRow
      /\ \A x \in aliases : x.name = name => x.project = p /\ ~x.active
      /\ aliases' = (Retired(p) \ Own(name, p)) \union {alias}
      /\ UNCHANGED <<projects, contacts, roles, views>>
  BY DEF AssignCodename, Reserved, Own, ProjectsInv, ProjectsTypeOK
<1>2. alias \in AliasRow /\ alias.name = name /\ alias.project = p /\ alias.active
  BY <1>1 DEF AliasRow, Identified
<1>3. ASSUME NEW row \in AliasRow
      PROVE  /\ Left(row) \in AliasRow
             /\ Left(row).name = row.name /\ Left(row).project = row.project
             /\ row.project = p => ~Left(row).active
             /\ row.project # p => Left(row) = row
             /\ ~row.active => Left(row) = row
  BY DEF AliasRow
<1>4. ASSUME NEW x \in aliases', x # alias
      PROVE  \E row \in aliases : x = Left(row) /\ row.name # name
  <2>1. x \in Retired(p) /\ x \notin Own(name, p)
    BY <1>1, <1>4
  <2>2. PICK row \in aliases : x = Left(row)
    BY <2>1 DEF Retired
  <2>3. ASSUME row.name = name PROVE FALSE
    BY <1>1, <1>3, <2>1, <2>2, <2>3 DEF Own
  <2> QED
    BY <2>2, <2>3
<1>5. ASSUME NEW row \in aliases, row.name # name
      PROVE  Left(row) \in aliases' /\ Left(row) # alias
  <2>1. Left(row) \in Retired(p)
    BY DEF Retired
  <2>2. Left(row).name = row.name
    BY <1>1, <1>3
  <2> QED
    BY <1>1, <1>2, <1>5, <2>1, <2>2 DEF Own
<1>6. alias \in aliases'
  BY <1>1
<1> HIDE DEF alias, Left
<1>7. ProjectsTypeOK'
  <2>1. aliases' \subseteq AliasRow
    BY <1>1, <1>2, <1>3, <1>4
  <2> QED
    BY <1>1, <2>1 DEF ProjectsInv, ProjectsTypeOK
<1>8. Identified' = Identified
  BY <1>1 DEF Identified
<1>9. CodenamesAreClaimed'
  <2>1. ASSUME NEW x \in aliases', NEW y \in aliases', x.name = y.name PROVE x = y
    <3>1. CASE x = alias \/ y = alias
      BY <1>1, <1>2, <1>3, <1>4, <2>1, <3>1
    <3>2. CASE x # alias /\ y # alias
      <4>1. PICK v \in aliases : x = Left(v)
        BY <1>4, <3>2
      <4>2. PICK w \in aliases : y = Left(w)
        BY <1>4, <3>2
      <4>3. v.name = w.name
        BY <1>1, <1>3, <2>1, <4>1, <4>2
      <4> QED
        BY <4>1, <4>2, <4>3 DEF ProjectsInv, CodenamesAreClaimed
    <3> QED
      BY <3>1, <3>2
  <2>2. ASSUME NEW x \in aliases'
        PROVE  /\ x.project \in Identified
               /\ \/ x.name \in Chosen
                  \/ \E n \in 1..Cardinality(Identified) : x.name = Generated[n]
    <3>1. CASE x = alias
      BY <1>1, <1>2, <3>1
    <3>2. CASE x # alias
      <4>1. PICK row \in aliases : x = Left(row)
        BY <1>4, <3>2
      <4> QED
        BY <1>1, <1>3, <4>1 DEF ProjectsInv, CodenamesAreClaimed
    <3> QED
      BY <3>1, <3>2
  <2>3. ASSUME NEW q \in Identified
        PROVE  \E x \in aliases' :
                 /\ x.project = q /\ x.active
                 /\ \A other \in aliases' : other.project = q /\ other.active => other = x
    <3>1. CASE q = p
      <4>1. \A x \in aliases' : x.project = p /\ x.active => x = alias
        BY <1>1, <1>3, <1>4
      <4> QED
        BY <1>2, <1>6, <3>1, <4>1
    <3>2. CASE q # p
      <4>1. PICK row \in aliases :
              /\ row.project = q /\ row.active
              /\ \A other \in aliases : other.project = q /\ other.active => other = row
        BY DEF ProjectsInv, CodenamesAreClaimed
      <4>2. row.name # name /\ Left(row) = row
        BY <1>1, <1>3, <3>2, <4>1
      <4>3. row \in aliases'
        BY <1>5, <4>2
      <4>4. ASSUME NEW other \in aliases', other.project = q, other.active PROVE other = row
        <5>1. PICK v \in aliases : other = Left(v)
          BY <1>2, <1>4, <3>2, <4>4
        <5>2. other = v
          BY <1>1, <1>3, <3>2, <4>4, <5>1
        <5> QED
          BY <4>1, <4>4, <5>2
      <4> QED
        BY <4>1, <4>3, <4>4
    <3> QED
      BY <3>1, <3>2
  <2> QED
    BY <1>8, <2>1, <2>2, <2>3 DEF CodenamesAreClaimed
<1>10. ViewsAreOfThePast'
  BY <1>1, <1>8 DEF ProjectsInv, ViewsAreOfThePast
<1> QED
  BY <1>7, <1>9, <1>10 DEF ProjectsInv

LEMMA LifecycleMovesKeep ==
  ASSUME ProjectsInv, NEW p \in Identified, NEW row \in ProjectRow,
         row.revision = projects[p].revision + 1,
         projects' = [projects EXCEPT ![p] = row],
         UNCHANGED <<aliases, contacts, roles, views>>
  PROVE  ProjectsInv'
<1>1. p \in Projects /\ row # Nothing
  BY NothingIsNoRow DEF Identified
<1>2. Identified' = Identified
  BY <1>1 DEF Identified, ProjectsInv, ProjectsTypeOK
<1>3. ProjectsTypeOK'
  BY <1>1 DEF ProjectsInv, ProjectsTypeOK
<1>4. CodenamesAreClaimed'
  BY <1>2 DEF ProjectsInv, CodenamesAreClaimed
<1>5. \A q \in Identified : projects[q].revision \in Nat
  BY ProjectsAssumption DEF ProjectsInv, ProjectsTypeOK, Identified, ProjectRow
<1>6. \A s \in Screens : views[s] # Nothing => views[s].row.revision \in Nat
  BY ProjectsAssumption DEF ProjectsInv, ProjectsTypeOK, ProjectRow
<1>7. \A q \in Identified : projects'[q] = IF q = p THEN row ELSE projects[q]
  BY DEF ProjectsInv, ProjectsTypeOK, Identified
<1>8. ViewsAreOfThePast'
  BY <1>1, <1>2, <1>5, <1>6, <1>7 DEF ProjectsInv, ViewsAreOfThePast
<1> QED
  BY <1>3, <1>4, <1>8 DEF ProjectsInv

StageMoved(row, stage) ==
  [row EXCEPT !.stage = stage, !.revision = @ + 1, !.closedAt = ClosedAt(row, stage)]
PauseMoved(row, paused) == [row EXCEPT !.paused = paused, !.revision = @ + 1]

LEMMA MovedRows ==
  ASSUME NEW row \in ProjectRow, row.revision < MaxStage
  PROVE  /\ \A stage \in Stages : /\ StageMoved(row, stage) \in ProjectRow
                                  /\ StageMoved(row, stage).revision = row.revision + 1
         /\ \A paused \in BOOLEAN : /\ PauseMoved(row, paused) \in ProjectRow
                                    /\ PauseMoved(row, paused).revision = row.revision + 1
<1>1. PICK n : n = row.revision + 1
  OBVIOUS
<1>2. n \in 1..MaxStage /\ n \in 0..MaxStage
  BY <1>1, ProjectsAssumption DEF ProjectRow
<1>3. ASSUME NEW stage \in Stages
      PROVE  StageMoved(row, stage) \in ProjectRow /\ StageMoved(row, stage).revision = n
  <2>1. PICK closed : closed = ClosedAt(row, stage)
    OBVIOUS
  <2>2. closed \in 0..MaxStage
    BY <1>1, <1>2, <2>1, ProjectsAssumption DEF ClosedAt, ProjectRow
  <2>3. StageMoved(row, stage) = [row EXCEPT !.stage = stage, !.revision = n, !.closedAt = closed]
    BY <1>1, <2>1 DEF StageMoved
  <2>4. /\ [row EXCEPT !.stage = stage, !.revision = n, !.closedAt = closed] \in ProjectRow
        /\ [row EXCEPT !.stage = stage, !.revision = n, !.closedAt = closed].revision = n
    BY <1>2, <2>2 DEF ProjectRow
  <2> QED
    BY <2>3, <2>4
<1>4. ASSUME NEW paused \in BOOLEAN
      PROVE  PauseMoved(row, paused) \in ProjectRow /\ PauseMoved(row, paused).revision = n
  <2>1. PauseMoved(row, paused) = [row EXCEPT !.paused = paused, !.revision = n]
    BY <1>1 DEF PauseMoved
  <2>2. /\ [row EXCEPT !.paused = paused, !.revision = n] \in ProjectRow
        /\ [row EXCEPT !.paused = paused, !.revision = n].revision = n
    BY <1>2 DEF ProjectRow
  <2> QED
    BY <2>1, <2>2
<1> QED
  BY <1>1, <1>3, <1>4

LEMMA ProjectsInvInit == ProjectsInit => ProjectsInv
BY DEF ProjectsInit, ProjectsInv, ProjectsTypeOK, CodenamesAreClaimed, ViewsAreOfThePast,
       Identified

LEMMA ProjectsInvStep == ProjectsInv /\ [ProjectsNext]_projectVars => ProjectsInv'
<1> SUFFICES ASSUME ProjectsInv, [ProjectsNext]_projectVars PROVE ProjectsInv'
  OBVIOUS
<1>0. projects \in [Projects -> ProjectRow \union {Nothing}]
  BY DEF ProjectsInv, ProjectsTypeOK
<1>1. ASSUME NEW p \in Projects, NEW stage \in Stages, IdentifyProject(p, stage)
      PROVE  ProjectsInv'
  BY <1>1, IdentifyProjectKeeps
<1>2. ASSUME NEW p \in Projects, NEW name \in Chosen, AssignCodename(p, name)
      PROVE  ProjectsInv'
  BY <1>2, AssignCodenameKeeps
<1>3. ASSUME NEW s \in Screens, NEW p \in Projects, NEW stage \in Stages, ChangeStage(s, p, stage)
      PROVE  ProjectsInv'
  <2>1. /\ p \in Identified /\ projects[p] \in ProjectRow /\ projects[p].revision < MaxStage
        /\ projects' = [projects EXCEPT ![p] = StageMoved(projects[p], stage)]
        /\ UNCHANGED <<aliases, contacts, roles, views>>
    <3>1. p \in Identified /\ projects[p] \in ProjectRow /\ projects[p].revision < MaxStage
      BY <1>0, <1>3 DEF ChangeStage, ExpectsStage, Identified
    <3>2. /\ projects' = [projects EXCEPT ![p] =
               [projects[p] EXCEPT !.stage = stage, !.revision = projects[p].revision + 1,
                  !.closedAt = ClosedAt(projects[p], stage)]]
          /\ UNCHANGED <<aliases, contacts, roles, views>>
      BY <1>0, <1>3 DEF ChangeStage
    <3> QED
      BY <3>1, <3>2 DEF StageMoved
  <2>2. /\ StageMoved(projects[p], stage) \in ProjectRow
        /\ StageMoved(projects[p], stage).revision = projects[p].revision + 1
    BY <2>1, MovedRows
  <2> QED
    BY <2>1, <2>2, LifecycleMovesKeep
<1>4. ASSUME NEW s \in Screens, NEW p \in Projects, NEW paused \in BOOLEAN, SetPause(s, p, paused)
      PROVE  ProjectsInv'
  <2>1. /\ p \in Identified /\ projects[p] \in ProjectRow /\ projects[p].revision < MaxStage
        /\ projects' = [projects EXCEPT ![p] = PauseMoved(projects[p], paused)]
        /\ UNCHANGED <<aliases, contacts, roles, views>>
    <3>1. p \in Identified /\ projects[p] \in ProjectRow /\ projects[p].revision < MaxStage
      BY <1>0, <1>4 DEF SetPause, ExpectsStage, Identified
    <3>2. /\ projects' = [projects EXCEPT ![p] =
               [projects[p] EXCEPT !.paused = paused, !.revision = projects[p].revision + 1]]
          /\ UNCHANGED <<aliases, contacts, roles, views>>
      BY <1>0, <1>4 DEF SetPause
    <3> QED
      BY <3>1, <3>2 DEF PauseMoved
  <2>2. /\ PauseMoved(projects[p], paused) \in ProjectRow
        /\ PauseMoved(projects[p], paused).revision = projects[p].revision + 1
    BY <2>1, MovedRows
  <2> QED
    BY <2>1, <2>2, LifecycleMovesKeep
<1>5. ASSUME NEW s \in Screens, NEW p \in Projects, ProjectsOverview(s, p) PROVE ProjectsInv'
  <2>1. /\ p \in Identified /\ projects[p] \in ProjectRow
        /\ views' = [views EXCEPT ![s] = [project |-> p, row |-> projects[p]]]
        /\ UNCHANGED <<projects, aliases, contacts, roles>>
    BY <1>0, <1>5 DEF ProjectsOverview, Identified
  <2>2. ProjectsTypeOK'
    BY <2>1 DEF ProjectsInv, ProjectsTypeOK
  <2>3. Identified' = Identified
    BY <2>1 DEF Identified
  <2>4. CodenamesAreClaimed'
    BY <2>1, <2>3 DEF ProjectsInv, CodenamesAreClaimed
  <2>5. projects[p].revision \in Nat
    BY <2>1, ProjectsAssumption DEF ProjectRow
  <2>6. ViewsAreOfThePast'
    BY <2>1, <2>3, <2>5 DEF ProjectsInv, ProjectsTypeOK, ViewsAreOfThePast
  <2> QED
    BY <2>2, <2>4, <2>6 DEF ProjectsInv
<1>6. ASSUME UNCHANGED <<projects, aliases, views>>, ProjectsTypeOK' PROVE ProjectsInv'
  <2>1. Identified' = Identified
    BY <1>6 DEF Identified
  <2> QED
    BY <1>6, <2>1 DEF ProjectsInv, CodenamesAreClaimed, ViewsAreOfThePast
<1>7. ASSUME NEW c \in Clients, UpsertContact(c) PROVE ProjectsInv'
  <2>1. ProjectsTypeOK'
    BY <1>7 DEF UpsertContact, ProjectsInv, ProjectsTypeOK
  <2> QED
    BY <1>6, <1>7, <2>1 DEF UpsertContact
<1>8. ASSUME NEW p \in Projects, NEW c \in Clients, NEW role \in Roles, AssignContactRole(p, c, role)
      PROVE  ProjectsInv'
  <2>1. ProjectsTypeOK'
    BY <1>8 DEF AssignContactRole, ProjectsInv, ProjectsTypeOK
  <2> QED
    BY <1>6, <1>8, <2>1 DEF AssignContactRole
<1>9. CASE UNCHANGED projectVars
  <2>1. ProjectsTypeOK'
    BY <1>9 DEF projectVars, ProjectsInv, ProjectsTypeOK
  <2> QED
    BY <1>6, <1>9, <2>1 DEF projectVars
<1> QED
  BY <1>1, <1>2, <1>3, <1>4, <1>5, <1>7, <1>8, <1>9 DEF ProjectsNext

LEMMA ProjectsInvAlways == ProjectsSpec => []ProjectsInv
BY ProjectsInvInit, ProjectsInvStep, PTL DEF ProjectsSpec

(* No row of the catalogue ever leaves its type, and no role is of a contact  *)
(* that is not in it.                                                         *)
THEOREM ProjectsTypeCorrect == ProjectsSpec => []ProjectsTypeOK
<1>1. ProjectsInv => ProjectsTypeOK
  BY DEF ProjectsInv
<1> QED
  BY <1>1, ProjectsInvAlways, PTL

(* A codename denotes one project for ever, and every project is called by    *)
(* exactly one of its own (aliases.ts).                                       *)
THEOREM OneCodenameAlwaysOneProject == ProjectsSpec => []OneCodenameOneProject
<1>1. ASSUME ProjectsInv PROVE OneCodenameOneProject
  <2>1. ASSUME NEW p \in Identified
        PROVE  Cardinality({row \in aliases : row.project = p /\ row.active}) = 1
    <3>1. PICK row \in aliases :
            /\ row.project = p /\ row.active
            /\ \A other \in aliases : other.project = p /\ other.active => other = row
      BY <1>1 DEF ProjectsInv, CodenamesAreClaimed
    <3>2. {x \in aliases : x.project = p /\ x.active} = {row}
      BY <3>1
    <3> QED
      BY <3>2, FS_Singleton
  <2> QED
    BY <1>1, <2>1 DEF ProjectsInv, CodenamesAreClaimed, OneCodenameOneProject
<1> QED
  BY <1>1, ProjectsInvAlways, PTL

(* Neither a pause nor a stage is decided over the other's back: while the    *)
(* counter an author saw is current, so is all else the author saw            *)
(* (operations.ts, Revision discipline).                                      *)
THEOREM LifecycleIsAlwaysSeen == ProjectsSpec => []LifecycleIsSeen
<1>1. ProjectsInv => LifecycleIsSeen
  BY DEF ProjectsInv, ViewsAreOfThePast, LifecycleIsSeen
<1> QED
  BY <1>1, ProjectsInvAlways, PTL

-----------------------------------------------------------------------------
(* The agent.  What a run has loaded of a finding is never newer than the     *)
(* memory, and of the same tag while its revision is the current one.         *)

ContextIsOfThePast ==
  \A f \in Findings : context.findings[f].tag # "none" =>
    /\ context.findings[f].revision \in Nat
    /\ context.findings[f].revision <= findings[f].revision
    /\ context.findings[f].revision = findings[f].revision =>
         context.findings[f].tag = findings[f].tag

LEMMA ContextKeeps ==
  ASSUME MemoryTypeOK, ContextIsOfThePast, [AgentNext]_<<memoryVars, agentVars>>
  PROVE  ContextIsOfThePast'
<1>1. CASE [MemoryNext]_memoryVars /\ UNCHANGED agentVars
  <2> SUFFICES ASSUME NEW f \in Findings, context.findings[f].tag # "none"
               PROVE  /\ context.findings[f].revision \in Nat
                      /\ context.findings[f].revision <= findings'[f].revision
                      /\ context.findings[f].revision = findings'[f].revision =>
                           context.findings[f].tag = findings'[f].tag
    BY <1>1 DEF ContextIsOfThePast, agentVars
  <2>1. findings'[f] = findings[f] \/ findings'[f].revision = findings[f].revision + 1
    BY <1>1, FindingSteps DEF Republished, Remarked
  <2>2. findings[f].revision \in Nat
    BY DEF MemoryTypeOK, FindingRows
  <2> QED
    BY <2>1, <2>2 DEF ContextIsOfThePast
<1>2. CASE UNCHANGED <<memoryVars, context>>
  BY <1>2 DEF ContextIsOfThePast, memoryVars
<1>3. CASE UNCHANGED memoryVars /\ context' = CurrentContext
  <2> SUFFICES ASSUME NEW f \in Findings
               PROVE  /\ context'.findings[f].revision \in Nat
                      /\ context'.findings[f].revision <= findings[f].revision
                      /\ context'.findings[f].tag = findings[f].tag
    BY <1>3 DEF ContextIsOfThePast, memoryVars
  <2>1. findings[f].revision \in Nat
    BY DEF MemoryTypeOK, FindingRows
  <2> QED
    BY <1>3, <2>1 DEF CurrentContext
<1>4. AgentStep => UNCHANGED context \/ context' = CurrentContext
  BY DEF AgentStep, StartAnswerRun, TakeTurn, TakeTextTurn, ProviderFails, SpendTurns, EndTurn,
         AskDies, SearchEvidence, SubmitAnswer, RefreshContext, AskClarification,
         ResolveClarification, SignOut
<1> QED
  BY <1>1, <1>2, <1>3, <1>4 DEF AgentNext, memoryVars, agentVars

(* An inference is accepted only over findings that are known in the memory   *)
(* at that moment, however the memory moved while the model was thinking      *)
(* (toolExecution.ts, gateSubmitFreshness).                                   *)
THEOREM InferencesAlwaysRestOnKnownFindings == AgentSpec => InferencesRestOnKnownFindings
<1> DEFINE OnFindings ==
      answer' # answer /\ answer'.basis = "inference" =>
        \A f \in answer'.derivedFrom : findings[f].tag = "known"
<1>1. MemoryInit /\ AgentInit => MemoryTypeOK /\ ContextIsOfThePast
  BY MemoryTypeInit DEF AgentInit, NothingLoaded, ContextIsOfThePast
<1>2. MemoryTypeOK /\ [AgentNext]_<<memoryVars, agentVars>> => MemoryTypeOK'
  BY MemoryTypeStep DEF AgentNext, memoryVars
<1>3. MemoryTypeOK /\ ContextIsOfThePast /\ [AgentNext]_<<memoryVars, agentVars>> =>
        ContextIsOfThePast'
  BY ContextKeeps
<1>4. MemoryTypeOK /\ ContextIsOfThePast /\ [AgentNext]_<<memoryVars, agentVars>> =>
        [OnFindings]_<<memoryVars, agentVars>>
  <2> SUFFICES ASSUME ContextIsOfThePast, [AgentNext]_<<memoryVars, agentVars>>,
                      answer' # answer, answer'.basis = "inference",
                      NEW f \in answer'.derivedFrom
               PROVE  findings[f].tag = "known"
    OBVIOUS
  <2>1. PICK st \in [basis : {"direct", "corroboration", "inference"}, cites : SUBSET ledger,
                     derivedFrom : SUBSET Loaded] : SubmitAnswer(st)
    BY DEF AgentNext, AgentStep, StartAnswerRun, TakeTurn, TakeTextTurn, ProviderFails,
           SpendTurns, EndTurn, AskDies, SearchEvidence, RefreshContext, AskClarification,
           ResolveClarification, SignOut, memoryVars, agentVars
  <2>2. f \in Loaded /\ context.findings[f].tag = "known"
    BY <2>1 DEF SubmitAnswer, StatementStands
  <2>3. findings[f].revision = context.findings[f].revision
    BY <2>1, <2>2 DEF SubmitAnswer, PlanAccepts, Moved
  <2> QED
    BY <2>2, <2>3 DEF ContextIsOfThePast, Loaded
<1> QED
  BY <1>1, <1>2, <1>3, <1>4, PTL DEF AgentSpec, InferencesRestOnKnownFindings

-----------------------------------------------------------------------------
(* What a run of the agent holds.  The evidence is of sources and findings of *)
(* the memory, and the counters stop at their bounds because every turn,      *)
(* refresh and question is checked before it is taken.                        *)

AskRows == [step : {"none", "round", "calls", "over", "dead"}, turns : 0..MaxTurns,
            refreshes : 0..MaxRefreshes, raised : 0..MaxRaised, done : BOOLEAN,
            outcome : Outcomes]
RecordRows == [state : {"none", "started", "final"}, outcome : Outcomes,
               turns : SUBSET (1..MaxTurns)]

ContextTyped ==
  /\ \A f \in Findings : context.findings[f].revision \in Nat
  /\ context.open \subseteq Cases

AgentTyped ==
  /\ ask \in AskRows
  /\ ContextTyped
  /\ ledger \subseteq Evidence
  /\ answer = NoAnswer \/ answer \in Statement
  /\ record \in RecordRows
  /\ cases \in [Cases -> {"none", "open", "resolved"}]
  /\ signedIn \in BOOLEAN

LEMMA EvidenceOfTheMemory ==
  ASSUME MemoryTypeOK PROVE CurrentEvidence \subseteq Evidence
<1> SUFFICES ASSUME NEW f \in Findings, NEW w \in findings[f].witnesses
             PROVE  [source |-> w, grounds |-> f, updating |-> findings[f].tag = "updating"]
                      \in Evidence
  BY DEF CurrentEvidence
<1>1. w \in Messages
  BY DEF MemoryTypeOK, FindingRows
<1> QED
  BY <1>1 DEF Evidence

LEMMA LoadedIsTyped ==
  ASSUME MemoryTypeOK PROVE context' = CurrentContext => ContextTyped'
<1>1. \A f \in Findings : findings[f].revision \in Nat
  BY DEF MemoryTypeOK, FindingRows
<1> QED
  BY <1>1 DEF CurrentContext, ContextTyped, Open

LEMMA OutcomesOfRuns ==
  /\ AgentTyped => OwnOutcome \in Outcomes /\ "provider_failed" \in Outcomes
  /\ \A run \in AskRows, outcome \in Outcomes : Finished(run, outcome) \in AskRows
  /\ \A row \in RecordRows, outcome \in Outcomes : Finalized(row, outcome) \subseteq RecordRows
<1>1. (AgentTyped => OwnOutcome \in Outcomes) /\ "provider_failed" \in Outcomes
  BY DEF OwnOutcome, Outcomes, AgentTyped, AskRows
<1>2. ASSUME NEW run \in AskRows, NEW outcome \in Outcomes
      PROVE  Finished(run, outcome) \in AskRows
  BY DEF Finished, AskRows
<1>3. ASSUME NEW row \in RecordRows, NEW outcome \in Outcomes
      PROVE  Finalized(row, outcome) \subseteq RecordRows
  BY DEF Finalized, RecordRows
<1> QED
  BY <1>1, <1>2, <1>3

LEMMA RoundsKeepTypes ==
  ASSUME MemoryTypeOK, AgentTyped,
         \/ StartAnswerRun \/ TakeTurn \/ TakeTextTurn \/ SpendTurns \/ EndTurn \/ AskDies
         \/ \E rejected \in BOOLEAN : ProviderFails(rejected)
  PROVE  AgentTyped'
<1>1. UNCHANGED <<answer, cases, signedIn>>
  BY DEF StartAnswerRun, TakeTurn, TakeTextTurn, SpendTurns, EndTurn, AskDies, ProviderFails
<1>2. ledger' \subseteq Evidence /\ ContextTyped'
  BY EvidenceOfTheMemory, LoadedIsTyped
     DEF AgentTyped, ContextTyped, StartAnswerRun, TakeTurn, TakeTextTurn, SpendTurns, EndTurn,
         AskDies, ProviderFails
<1>3. ASSUME TurnLeft
      PROVE  /\ Noted \subseteq RecordRows
             /\ [ask EXCEPT !.turns = @ + 1] \in AskRows
  <2>1. ask.turns + 1 \in 1..MaxTurns
    BY <1>3, AgentAssumption DEF AgentTyped, AskRows, TurnLeft
  <2> QED
    BY <2>1 DEF AgentTyped, AskRows, RecordRows, Noted
<1>4. ask' \in AskRows
  <2>1. CASE StartAnswerRun \/ AskDies
    BY <2>1 DEF StartAnswerRun, AskDies, AgentTyped, AskRows
  <2>2. CASE TakeTurn
    <3>1. [ask EXCEPT !.turns = @ + 1] \in AskRows
      BY <1>3, <2>2 DEF TakeTurn
    <3> QED
      BY <2>2, <3>1 DEF TakeTurn, AgentTyped, AskRows
  <2>3. CASE TakeTextTurn
    BY <1>3, <2>3, OutcomesOfRuns DEF TakeTextTurn
  <2>4. CASE \E rejected \in BOOLEAN : ProviderFails(rejected)
    BY <1>3, <2>4, OutcomesOfRuns DEF ProviderFails
  <2>5. CASE SpendTurns
    BY <2>5, OutcomesOfRuns DEF SpendTurns, AgentTyped
  <2>6. CASE EndTurn
    <3>1. [ask EXCEPT !.step = "round"] \in AskRows
      BY DEF AgentTyped, AskRows
    <3> QED
      BY <2>6, <3>1, OutcomesOfRuns DEF EndTurn, AgentTyped
  <2> QED
    BY <2>1, <2>2, <2>3, <2>4, <2>5, <2>6
<1>5. record' \in RecordRows
  <2>1. CASE StartAnswerRun \/ AskDies
    BY <2>1 DEF StartAnswerRun, AskDies, AgentTyped, RecordRows
  <2>2. CASE TakeTurn
    BY <1>3, <2>2 DEF TakeTurn
  <2>3. CASE TakeTextTurn
    BY <1>3, <2>3, OutcomesOfRuns DEF TakeTextTurn
  <2>4. CASE \E rejected \in BOOLEAN : ProviderFails(rejected)
    BY <1>3, <2>4, OutcomesOfRuns DEF ProviderFails
  <2>5. CASE SpendTurns \/ EndTurn
    BY <2>5, OutcomesOfRuns DEF SpendTurns, EndTurn, AgentTyped
  <2> QED
    BY <2>1, <2>2, <2>3, <2>4, <2>5
<1> QED
  BY <1>1, <1>2, <1>4, <1>5 DEF AgentTyped

LEMMA CallsKeepTypes ==
  ASSUME MemoryTypeOK, AgentTyped,
         \/ SearchEvidence \/ RefreshContext \/ SignOut
         \/ \E st \in [basis : {"direct", "corroboration", "inference"}, cites : SUBSET ledger,
                        derivedFrom : SUBSET Loaded] : SubmitAnswer(st)
         \/ \E c \in Cases, cites \in SUBSET ledger, heard \in BOOLEAN :
              AskClarification(c, cites, heard)
         \/ \E c \in Cases, cites \in SUBSET ledger : ResolveClarification(c, cites)
  PROVE  AgentTyped'
<1>1. CASE SearchEvidence
  <2>1. ASSUME NEW s \in Messages
        PROVE  [source |-> s, grounds |-> Unanchored, updating |-> FALSE] \in Evidence
    BY DEF Evidence
  <2> QED
    BY <1>1, <2>1 DEF SearchEvidence, AgentTyped, ContextTyped
<1>2. CASE RefreshContext
  <2>1. ask' \in AskRows
    <3>1. ask \in AskRows /\ ask.refreshes + 1 \in 0..MaxRefreshes
      BY <1>2, AgentAssumption DEF RefreshContext, AgentTyped, AskRows
    <3> QED
      BY <1>2, <3>1 DEF RefreshContext, AskRows
  <2> QED
    BY <1>2, <2>1, LoadedIsTyped DEF RefreshContext, AgentTyped
<1>3. CASE SignOut
  BY <1>3 DEF SignOut, AgentTyped, ContextTyped
<1>4. ASSUME NEW st \in [basis : {"direct", "corroboration", "inference"},
                         cites : SUBSET ledger, derivedFrom : SUBSET Loaded], SubmitAnswer(st)
      PROVE  AgentTyped'
  <2>1. st \in Statement
    BY DEF AgentTyped, Statement, Loaded
  <2>2. ask' \in AskRows
    BY <1>4 DEF SubmitAnswer, AgentTyped, AskRows
  <2> QED
    BY <1>4, <2>1, <2>2 DEF SubmitAnswer, AgentTyped, ContextTyped
<1>5. ASSUME NEW c \in Cases, NEW cites \in SUBSET ledger, NEW heard \in BOOLEAN,
             AskClarification(c, cites, heard)
      PROVE  AgentTyped'
  <2>1. ask' \in AskRows
    BY <1>5, AgentAssumption DEF AskClarification, AgentTyped, AskRows
  <2> QED
    BY <1>5, <2>1 DEF AskClarification, AgentTyped, ContextTyped
<1>6. ASSUME NEW c \in Cases, NEW cites \in SUBSET ledger, ResolveClarification(c, cites)
      PROVE  AgentTyped'
  BY <1>6 DEF ResolveClarification, AgentTyped, ContextTyped
<1> QED
  BY <1>1, <1>2, <1>3, <1>4, <1>5, <1>6

(* A run of the agent never leaves its types: the turns, refreshes and        *)
(* questions stay within their bounds, and what may be cited is a source of   *)
(* the memory with the finding it grounds.                                    *)
THEOREM AgentTypeCorrect == AgentSpec => []AgentTypeOK
<1>1. MemoryInit /\ AgentInit => MemoryTypeOK /\ AgentTyped
  <2> SUFFICES ASSUME MemoryInit, AgentInit PROVE MemoryTypeOK /\ AgentTyped
    OBVIOUS
  <2>1. ask \in AskRows
    BY AgentAssumption DEF AgentInit, Idle, AskRows, Outcomes
  <2>2. record \in RecordRows
    BY DEF AgentInit, RecordRows, Outcomes
  <2> QED
    BY <2>1, <2>2, MemoryTypeInit DEF AgentInit, AgentTyped, ContextTyped, NothingLoaded
<1>2. MemoryTypeOK /\ [AgentNext]_<<memoryVars, agentVars>> => MemoryTypeOK'
  BY MemoryTypeStep DEF AgentNext, memoryVars
<1>3. MemoryTypeOK /\ AgentTyped /\ [AgentNext]_<<memoryVars, agentVars>> => AgentTyped'
  <2> SUFFICES ASSUME MemoryTypeOK, AgentTyped, [AgentNext]_<<memoryVars, agentVars>>
               PROVE  AgentTyped'
    OBVIOUS
  <2>1. CASE UNCHANGED agentVars
    BY <2>1 DEF agentVars, AgentTyped, ContextTyped
  <2>2. CASE AgentStep
    BY <2>2, RoundsKeepTypes, CallsKeepTypes DEF AgentStep
  <2> QED
    BY <2>1, <2>2 DEF AgentNext, agentVars, memoryVars
<1>4. AgentTyped => AgentTypeOK
  BY DEF AgentTyped, AgentTypeOK, AskRows, RecordRows, ContextTyped
<1> QED
  BY <1>1, <1>2, <1>3, <1>4, PTL DEF AgentSpec
=============================================================================
