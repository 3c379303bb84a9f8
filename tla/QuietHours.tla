----------------------------- MODULE QuietHours -----------------------------
(* When a boss may be disturbed (convex/attention/preferences): the personal  *)
(* settings and their changes, the decision about one delivery, and the       *)
(* instant a deferral names, which is found with the wall clock of the firm   *)
(* and so with its summer time.  The evaluators of the delivery and of the    *)
(* reminders (convex/attention/delivery, reminders) are what they do with the *)
(* answer: a deferred notice is decided about again, no earlier than that.    *)
EXTENDS Integers

CONSTANTS
  Day,           \* minutes of a day
  Zone,          \* what the clocks of the firm are ahead by, out of summer time
  Shift,         \* by how much summer time moves them
  Spring, Fall,  \* the instants at which it begins and ends
  Windows,       \* quiet hours a person may ask for
  Usual,         \* DEFAULT_QUIET_HOURS
  Conversations, \* projects of the firm
  Changes,       \* what a change of the settings may carry
  Start, End,    \* bound: the first and the last instant
  NotSet,        \* null: no row, no window of one's own
  Omitted        \* undefined: a key the change does not carry

Minutes == 0 .. Day - 1
Bounds == [start : Minutes, end : Minutes]

ASSUME ClockConstants ==
  /\ Day \in Nat \ {0} /\ Shift \in 0 .. Day /\ Zone \in Int
  /\ Spring \in Int /\ Fall \in Int
  /\ Start \in Int /\ End \in Int /\ Start <= End

ASSUME WindowConstants ==
  /\ Windows \subseteq Bounds /\ Usual \in Bounds /\ Usual.start # Usual.end
  /\ NotSet \notin Windows /\ NotSet \notin Start .. End
  /\ Omitted \notin Windows \union {NotSet}

VARIABLES
  now,      \* the clock
  stored,   \* the row of notificationPreferences
  notice    \* an intent of the person

\* When the notice was deferred last, and by which window.
VARIABLES since, window

deferralVars == <<notice, since, window>>
quietVars == <<now, stored, notice, since, window>>

Settings == [mutedProjects : SUBSET Conversations, companyEntriesMuted : BOOLEAN,
             taskRemindersMuted : BOOLEAN, quietHours : Windows \union {NotSet}]
Patches == [mutedProjects : (SUBSET Conversations) \union {Omitted},
            companyEntriesMuted : BOOLEAN \union {Omitted},
            taskRemindersMuted : BOOLEAN \union {Omitted},
            quietHours : Windows \union {NotSet, Omitted}]
ASSUME ChangesArePatches == Changes \subseteq Patches /\ NotSet \notin Settings

DeliveryKinds == {"source_entry", "clarification", "task_reminder"}
IntentRows == [kind : DeliveryKinds, projects : SUBSET Conversations, read : BOOLEAN, due : Int,
               state : {"none", "pending", "delivered", "suppressed"}]
NoIntent == [kind |-> "source_entry", projects |-> {}, read |-> FALSE, due |-> Start,
             state |-> "none"]

QuietTypeOK ==
  /\ now \in Start .. End
  /\ stored \in Settings \union {NotSet}
  /\ notice \in IntentRows
  /\ since \in (Start .. End) \union {NotSet} /\ window \in Bounds

QuietInit ==
  /\ now = Start /\ stored = NotSet
  /\ notice = NoIntent /\ since = NotSet /\ window = Usual

(******************************************************************************)
(* The wall clock of the firm.                                                *)
(******************************************************************************)
TimezoneOffset(t) == IF Spring <= t /\ t < Fall THEN Zone + Shift ELSE Zone
WallTime(t) == t + TimezoneOffset(t)
MinuteOfDay(t) == WallTime(t) % Day
DayOf(t) == WallTime(t) \div Day

\* A fault: the offset of the guess is not looked at again.
FirstGuess(wall) == wall - TimezoneOffset(wall)

\* The offset is guessed as if the wall clock were the instant, and corrected.
WallTimeToInstant(wall) == wall - TimezoneOffset(wall - TimezoneOffset(wall))

\* The end of a window on the n-th day from the instant.
Candidate(t, w, n) == WallTimeToInstant((DayOf(t) + n) * Day + w.end)

\* The code throws when four days hold no end.
EndIsFound(t, w) == \E n \in 0 .. 3 : Candidate(t, w, n) >= t

NextQuietHoursEnd(t, w) ==
  Candidate(t, w, CHOOSE n \in 0 .. 3 : /\ Candidate(t, w, n) >= t
                                        /\ \A m \in 0 .. n - 1 : Candidate(t, w, m) < t)

IsWithinQuietHours(minute, w) ==
  IF w.start < w.end THEN w.start <= minute /\ minute < w.end
  ELSE w.start <= minute \/ minute < w.end

Quiet(t, w) == IsWithinQuietHours(MinuteOfDay(t), w)

(******************************************************************************)
(* The settings.                                                              *)
(******************************************************************************)
PreferenceWriteOf(row) ==
  IF row = NotSet
  THEN [mutedProjects |-> {}, companyEntriesMuted |-> FALSE, taskRemindersMuted |-> FALSE,
        quietHours |-> NotSet]
  ELSE row

EffectiveQuietHours(settings) ==
  IF settings.quietHours = NotSet THEN Usual ELSE settings.quietHours

Either(new, old) == IF new = Omitted THEN old ELSE new

ApplyPreferencePatch(base, patch) ==
  [mutedProjects |-> Either(patch.mutedProjects, base.mutedProjects),
   companyEntriesMuted |-> Either(patch.companyEntriesMuted, base.companyEntriesMuted),
   taskRemindersMuted |-> Either(patch.taskRemindersMuted, base.taskRemindersMuted),
   quietHours |-> Either(patch.quietHours, base.quietHours)]

\* A change of nothing, and a window without a length, are refused.
ChangeNotificationPreferences(patch) ==
  /\ \E control \in DOMAIN patch : patch[control] # Omitted
  /\ patch.quietHours \in Bounds => patch.quietHours.start # patch.quietHours.end
  /\ stored' = ApplyPreferencePatch(PreferenceWriteOf(stored), patch)
  /\ UNCHANGED <<now, deferralVars>>

(******************************************************************************)
(* A notice and the decision about it.                                        *)
(******************************************************************************)
EnsureNotice(kind, projects) ==
  /\ notice.state = "none"
  /\ notice' = [kind |-> kind, projects |-> projects, read |-> FALSE, due |-> now,
                state |-> "pending"]
  /\ UNCHANGED <<now, stored, since, window>>

MarkRead ==
  /\ notice.state # "none"
  /\ notice' = [notice EXCEPT !.read = ~@]
  /\ UNCHANGED <<now, stored, since, window>>

Muted(settings) ==
  \/ notice.kind = "source_entry" /\ notice.projects \intersect settings.mutedProjects # {}
  \/ notice.kind = "source_entry" /\ notice.projects = {} /\ settings.companyEntriesMuted
  \/ notice.kind = "task_reminder" /\ settings.taskRemindersMuted

\* What suppresses is asked before what defers.  Nobody has a notice of an
\* entry of his own, so that own_entry is never the answer.
DecidePersonalDelivery(settings) ==
  IF (notice.kind # "task_reminder" /\ notice.read) \/ Muted(settings) THEN "suppressed"
  ELSE IF Quiet(now, EffectiveQuietHours(settings)) THEN "deferred"
  ELSE "eligible"

\* settleIntent and deferIntent, as the answer has it.
Decides ==
  LET settings == PreferenceWriteOf(stored)
      applied == EffectiveQuietHours(settings)
  IN \/ /\ DecidePersonalDelivery(settings) = "suppressed"
        /\ notice' = [notice EXCEPT !.state = "suppressed"]
        /\ UNCHANGED <<since, window>>
     \/ /\ DecidePersonalDelivery(settings) = "deferred"
        /\ notice' = [notice EXCEPT !.due = NextQuietHoursEnd(now, applied)]
        /\ since' = now /\ window' = applied
     \/ /\ DecidePersonalDelivery(settings) = "eligible"
        /\ notice' = [notice EXCEPT !.state = "delivered"]
        /\ UNCHANGED <<since, window>>

NoticeIsDue == notice.state = "pending" /\ notice.due <= now

EvaluateDueNotice ==
  /\ NoticeIsDue /\ notice.kind # "task_reminder" /\ Decides
  /\ UNCHANGED <<now, stored>>

EvaluateDueReminder ==
  /\ NoticeIsDue /\ notice.kind = "task_reminder" /\ Decides
  /\ UNCHANGED <<now, stored>>

TimeGoesOn ==
  /\ now < End /\ now' = now + 1
  /\ UNCHANGED <<stored, deferralVars>>

QuietNext ==
  \/ \E patch \in Changes : ChangeNotificationPreferences(patch)
  \/ \E kind \in DeliveryKinds, projects \in SUBSET Conversations : EnsureNotice(kind, projects)
  \/ MarkRead \/ EvaluateDueNotice \/ EvaluateDueReminder \/ TimeGoesOn

QuietSpec == QuietInit /\ [][QuietNext]_quietVars

(******************************************************************************)
(* What rests between the steps: a window has a length, and a notice that was *)
(* deferred and waits was quiet then and waits for the end that was named.    *)
(******************************************************************************)
HasLength(w) == w.start # w.end

QuietInv ==
  /\ stored # NotSet /\ stored.quietHours # NotSet => HasLength(stored.quietHours)
  /\ HasLength(window)
  /\ notice.state = "none" => since = NotSet
  /\ since # NotSet /\ notice.state = "pending" =>
       Quiet(since, window) /\ notice.due = NextQuietHoursEnd(since, window)

(******************************************************************************)
(* Properties.                                                                *)
(******************************************************************************)
\* The minutes of the wall clock that summer time leaves out or shows twice.
Moved == {(turn + Zone + k) % Day : turn \in {Spring, Fall}, k \in 0 .. Shift - 1}

(* A deferral ends with the quiet hours it was made for, on the nights on     *)
(* which the clocks are moved as on every other: the instant it names is not  *)
(* quiet, and every instant before it is, unless a bound of the window is one *)
(* of the minutes that are left out or shown twice (nextQuietHoursEndMs).     *)
DeferralEndsWithTheQuiet ==
  since # NotSet /\ notice.state = "pending" /\ {window.start, window.end} \intersect Moved = {} =>
    /\ ~Quiet(notice.due, window)
    /\ \A t \in since .. notice.due - 1 : Quiet(t, window)

(* A deferral is never for the past, and there is always an end to name, so   *)
(* that the search of nextQuietHoursEndMs does not fail.                      *)
DeferralIsAhead ==
  /\ EndIsFound(now, EffectiveQuietHours(PreferenceWriteOf(stored)))
  /\ since # NotSet /\ notice.state = "pending" => notice.due >= since
=============================================================================
