----------------------------- MODULE Reminders -----------------------------
(* Task reminders (src/convex/attention/reminders): every change of a task    *)
(* registers a recompute job, which derives the slots of its schedule and     *)
(* keeps one intent row per recipient and slot; an evaluator, driven by hops  *)
(* and an hourly cron, re-checks every due row against the live task, chains  *)
(* the next daily slot and delivers, mutes or defers.                         *)
(* Time is counted in days of the firm's timezone, each taken from 07:00, so  *)
(* that a date-only term falls due on its day and is overdue from the next.   *)
EXTENDS Integers, FiniteSets

CONSTANTS Tasks,
          Persons,      \* the members of the firm at the start
          Terms,        \* the days a task may be due
          Days,         \* the last day modelled
          Epochs,       \* bound: recomputes that may move a schedule
          Unassigned    \* no coordinator

ASSUME RemindersAssumption ==
  /\ Days \in Nat \ {0}
  /\ Epochs \in Nat
  /\ Terms \subseteq 1..Days
  /\ Unassigned \notin Persons

VARIABLES tasks,        \* the live task facts
          members,      \* active memberships
          anchors,      \* reminderSchedules: the last schedule computed
          intents,      \* notificationIntents of this lane, by dedupKey
          snoozes,      \* reminderSnoozes: the day a person's snooze ends, 0 if none
          recomputes,   \* tasks with a registered recompute job
          today

remindersVars == <<tasks, members, anchors, intents, snoozes, recomputes, today>>

NoTerm == 0             \* no deadline, or a term that cannot be used
Someone == Persons \cup {Unassigned}

Task == [open : BOOLEAN, coordinator : Someone, term : Terms \cup {NoTerm}]

SlotKey == [task : Tasks, person : Persons, kind : {"pre_due", "overdue"},
            epoch : 0..Epochs, day : 0..Days + 1]

Anchor == [status : {"none", "scheduled", "suspended", "closed"},
           coordinator : Someone, term : Terms \cup {NoTerm},
           epoch : 0..Epochs, pendingKeys : SUBSET SlotKey]

Intent == [state : {"pending", "delivered", "muted", "superseded", "dead"},
           due : 1..Days + 1, term : Terms, coordinator : Someone]

RemindersTypeOK ==
  /\ tasks \in [Tasks -> Task]
  /\ members \subseteq Persons
  /\ anchors \in [Tasks -> Anchor]
  /\ DOMAIN intents \subseteq SlotKey
  /\ \A k \in DOMAIN intents : intents[k] \in Intent
  /\ snoozes \in [Persons \X Tasks -> 0..Days]
  /\ recomputes \subseteq Tasks
  /\ today \in 1..Days

RemindersInit ==
  /\ tasks = [t \in Tasks |-> [open |-> FALSE, coordinator |-> Unassigned, term |-> NoTerm]]
  /\ members = Persons
  /\ anchors = [t \in Tasks |-> [status |-> "none", coordinator |-> Unassigned,
                                 term |-> NoTerm, epoch |-> 0, pendingKeys |-> {}]]
  /\ intents = [k \in {} |-> {}]
  /\ snoozes = [pt \in Persons \X Tasks |-> 0]
  /\ recomputes = {}
  /\ today = 1

-----------------------------------------------------------------------------
(* What a task's live facts say.                                              *)

Later(a, b) == IF a < b THEN b ELSE a

\* A revoked coordinator reads as none.
EffectiveCoordinator(t) ==
  IF tasks[t].coordinator \in members THEN tasks[t].coordinator ELSE Unassigned

\* The kind of schedule: only an open task with a usable term has slots.
ScheduleStatus(t) ==
  IF ~tasks[t].open THEN "closed"
  ELSE IF tasks[t].term = NoTerm THEN "suspended" ELSE "scheduled"

TermAnchor(t) == IF ScheduleStatus(t) = "scheduled" THEN tasks[t].term ELSE NoTerm

Recipients(t) ==
  IF EffectiveCoordinator(t) = Unassigned THEN members ELSE {EffectiveCoordinator(t)}

\* Slots: the day's own reminder and the first overdue one, or, once the term
\* has passed, today's overdue summary alone.
SlotDays(t) ==
  IF ScheduleStatus(t) # "scheduled" THEN {}
  ELSE IF today <= tasks[t].term
       THEN {<<"pre_due", 0>>, <<"overdue", tasks[t].term + 1>>}
       ELSE {<<"overdue", today>>}

Key(t, p, kind, epoch, day) ==
  [task |-> t, person |-> p, kind |-> kind, epoch |-> epoch, day |-> day]

\* The day a slot first falls due.
IdealDay(k, term) == IF k.kind = "pre_due" THEN term ELSE k.day

FreshIntent(k, term, coordinator) ==
  [state |-> "pending", due |-> Later(IdealDay(k, term), today),
   term |-> term, coordinator |-> coordinator]

-----------------------------------------------------------------------------
(* performRecomputeTaskReminders.                                             *)

Moved(t) ==
  \/ anchors[t].coordinator # EffectiveCoordinator(t)
  \/ anchors[t].term # TermAnchor(t)

SnoozesInvalidated(t) ==
  /\ anchors[t].status # "none"
  /\ \/ Moved(t)
     \/ ScheduleStatus(t) = "closed" /\ anchors[t].status = "scheduled"

EpochMoves(t) ==
  /\ anchors[t].status # "none"
  /\ \/ Moved(t)
     \/ anchors[t].status # "scheduled" /\ ScheduleStatus(t) = "scheduled"

NextEpoch(t) == IF EpochMoves(t) THEN anchors[t].epoch + 1 ELSE anchors[t].epoch

DesiredKeys(t) ==
  {Key(t, p, s[1], NextEpoch(t), s[2]) : p \in Recipients(t), s \in SlotDays(t)}

\* Rows of the kill list that survive: chained slots of the same schedule.
KeptKeys(t) ==
  {k \in (anchors[t].pendingKeys \ DesiredKeys(t)) \cap DOMAIN intents :
     intents[k].state = "pending" /\ k.epoch = NextEpoch(t)}

\* A fault: everything pending that is not desired is killed, the chain too.
KillsAllUndesired(t) ==
  {k \in (anchors[t].pendingKeys \ DesiredKeys(t)) \cap DOMAIN intents :
     intents[k].state = "pending"}

KilledKeys(t) ==
  {k \in (anchors[t].pendingKeys \ DesiredKeys(t)) \cap DOMAIN intents :
     intents[k].state = "pending" /\ k.epoch # NextEpoch(t)}

Recompute(t) ==
  /\ t \in recomputes
  /\ NextEpoch(t) <= Epochs
  /\ recomputes' = recomputes \ {t}
  /\ snoozes' = IF SnoozesInvalidated(t)
                THEN [pt \in Persons \X Tasks |-> IF pt[2] = t THEN 0 ELSE snoozes[pt]]
                ELSE snoozes
  /\ intents' = [k \in DOMAIN intents \cup DesiredKeys(t) |->
                   IF k \notin DOMAIN intents
                   THEN FreshIntent(k, TermAnchor(t), EffectiveCoordinator(t))
                   ELSE IF k \in KilledKeys(t) THEN [intents[k] EXCEPT !.state = "superseded"]
                   ELSE intents[k]]
  /\ anchors' = [anchors EXCEPT ![t] =
                   [status |-> ScheduleStatus(t), coordinator |-> EffectiveCoordinator(t),
                    term |-> TermAnchor(t), epoch |-> NextEpoch(t),
                    pendingKeys |-> DesiredKeys(t) \cup KeptKeys(t)]]
  /\ UNCHANGED <<tasks, members, today>>

-----------------------------------------------------------------------------
(* performEvaluateDueReminders.                                               *)

DueKeys == {k \in DOMAIN intents : intents[k].state = "pending" /\ intents[k].due <= today}

\* recheckTaskAtDue: the live task decides, never the row's snapshot.
StillDue(k) ==
  /\ ScheduleStatus(k.task) = "scheduled"
  /\ anchors[k.task].status # "none"
  /\ k.epoch = anchors[k.task].epoch
  /\ tasks[k.task].term = intents[k].term
  /\ EffectiveCoordinator(k.task) = intents[k].coordinator
  /\ EffectiveCoordinator(k.task) = Unassigned => k.person \in members

Due == {k \in DueKeys : StillDue(k)}

Snoozed(k) == snoozes[<<k.person, k.task>>] > today

NextSlot(k) == [k EXCEPT !.day = @ + 1]

\* rearmNextOverdueSlot runs before the personal decision, for every due row.
Rearmed == {NextSlot(k) : k \in {d \in Due : d.kind = "overdue"}}

\* A fault: a chained slot is not recorded in the kill list.
TracksNothing(t) == anchors[t].pendingKeys

\* The kill list learns every chained slot.
Tracked(t) == anchors[t].pendingKeys \cup {k \in Rearmed : k.task = t}

\* decidePersonalDelivery over settings that this module does not track.
Verdicts == [Persons -> {"deliver", "mute", "defer"}]

Decided(row, verdict) ==
  IF verdict = "defer" THEN [row EXCEPT !.due = today + 1]
  ELSE [row EXCEPT !.state = IF verdict = "deliver" THEN "delivered" ELSE "muted"]

Settled(k, verdict) ==
  IF k \notin DueKeys THEN intents[k]
  ELSE IF k \notin Due THEN [intents[k] EXCEPT !.state = "dead"]
  ELSE IF Snoozed(k) THEN [intents[k] EXCEPT !.due = snoozes[<<k.person, k.task>>]]
  ELSE Decided(intents[k], verdict)

Predecessor(k) == [k EXCEPT !.day = @ - 1]

Evaluate ==
  /\ DueKeys # {}
  /\ \E verdict \in Verdicts :
       intents' = [k \in DOMAIN intents \cup Rearmed |->
                     IF k \in DOMAIN intents THEN Settled(k, verdict[k.person])
                     ELSE FreshIntent(k, intents[Predecessor(k)].term,
                                intents[Predecessor(k)].coordinator)]
  /\ anchors' = [t \in Tasks |-> [anchors[t] EXCEPT !.pendingKeys = Tracked(t)]]
  /\ UNCHANGED <<tasks, members, snoozes, recomputes, today>>

-----------------------------------------------------------------------------
(* Commands, and the passing of days.                                         *)

\* Any edit of the task or of the finding its deadline is bound to, a
\* title-only one included: each registers a recompute.
ChangeTask(t) ==
  /\ \E facts \in Task :
       /\ facts.coordinator \in members \cup {Unassigned}
       /\ tasks' = [tasks EXCEPT ![t] = facts]
  /\ recomputes' = recomputes \cup {t}
  /\ UNCHANGED <<members, anchors, intents, snoozes, today>>

\* A revocation registers no recompute.
RevokeMember(p) ==
  /\ p \in members
  /\ Cardinality(members) > 1
  /\ members' = members \ {p}
  /\ UNCHANGED <<tasks, anchors, intents, snoozes, recomputes, today>>

\* performSnoozeTaskReminders. The two conditions of its filter are joined by
\* the && of the host language, which keeps only the second: every pending
\* reminder of the person is deferred, whatever its task.
Snooze(p, t) ==
  /\ p \in members
  /\ \E until \in (today + 1)..Days :
       /\ snoozes' = [snoozes EXCEPT ![<<p, t>>] = until]
       /\ intents' = [k \in DOMAIN intents |->
                        IF k.person = p /\ intents[k].state = "pending"
                        THEN [intents[k] EXCEPT !.due = Later(@, until)]
                        ELSE intents[k]]
  /\ UNCHANGED <<tasks, members, anchors, recomputes, today>>

DayPasses ==
  /\ today < Days
  /\ today' = today + 1
  /\ UNCHANGED <<tasks, members, anchors, intents, snoozes, recomputes>>

RemindersNext ==
  \/ \E t \in Tasks : ChangeTask(t) \/ Recompute(t)
  \/ \E p \in Persons : RevokeMember(p)
  \/ \E p \in Persons, t \in Tasks : Snooze(p, t)
  \/ Evaluate
  \/ DayPasses

RemindersSpec == RemindersInit /\ [][RemindersNext]_remindersVars

-----------------------------------------------------------------------------
(* Properties.                                                                *)

\* The schedule of t still addresses p.
Addressed(t, p) ==
  /\ anchors[t].status = "scheduled"
  /\ p \in members
  /\ anchors[t].coordinator \in {Unassigned, p}

\* Whatever has happened since a schedule was computed, every person whom it
\* addresses has a pending reminder of it, through delivery, mute, snooze and
\* deferral, unless the evaluator met the task changed and suppressed a slot
\* of this very schedule (attention/reminders/operations.ts).
ReminderIsPending ==
  \A t \in Tasks, p \in Persons :
    Addressed(t, p) =>
      \E k \in DOMAIN intents :
        /\ k.task = t /\ k.person = p /\ k.epoch = anchors[t].epoch
        /\ intents[k].state \in {"pending", "dead"}

\* Only the current schedule of a task has pending reminders, and its kill
\* list names every one of them, so that the next recompute can end them.
SupersededDies ==
  \A k \in DOMAIN intents : intents[k].state = "pending" =>
    /\ k.epoch = anchors[k.task].epoch
    /\ k \in anchors[k.task].pendingKeys

=============================================================================
