--------------------------- MODULE CalendarCopies ---------------------------
(* Copies of a firm's terms in a person's Google calendar                     *)
(* (src/convex/calendar/projection and sync): a projection pass writes what   *)
(* is desired, and reconciliation takes one bounded leg to Google per         *)
(* attempt, records the attempt before the leg leaves and the remote ledger   *)
(* after it answered, when the copy may have changed.                         *)
(* A live action finishes within the window in which its attempt counts as    *)
(* open; one that outlives the window is dead.                                *)
EXTENDS CalendarConnection

CONSTANTS Copies,
          CopyFirm,       \* [Copies -> Firms]: the firm of a copy's subject
          Versions,       \* texts of a subject, in the order it is corrected
          Runners,        \* passes, jobs and commands that run attempts
          EventIds,       \* Google event ids, in the order they are given
          CreateAttempts, \* MAX_CREATE_ATTEMPTS
          UpdateAttempts, \* MAX_UPDATE_ATTEMPTS
          DeleteAttempts, \* MAX_DELETE_ATTEMPTS
          FatalReasons,   \* decisions whose action may die
          NoCopy, NoEvent

ASSUME CalendarCopiesAssumption ==
  /\ CopyFirm \in [Copies -> Firms]
  /\ Versions \subseteq Nat \ {0}
  /\ EventIds = 1..Cardinality(EventIds)
  /\ {CreateAttempts, UpdateAttempts, DeleteAttempts} \subseteq Nat \ {0}
  /\ NoCopy \notin Copies
  /\ NoEvent \notin EventIds

VARIABLES copies,       \* calendarCopies rows, one per subject
          ledger,       \* calendarSyncAttempts of a copy, by its semantic id
          syncAttempts, \* attempts in flight
          events        \* what Google keeps

calendarVars == <<connectionVars, copies, ledger, syncAttempts, events>>

NoText == 0             \* none yet, or words the person wrote over ours
Semantics == Accounts \cup {NoAccount}   \* a semantic id names the account

\* A projected row has the payload of its revision, a withdrawn one has none.
Copy == [state : {"none", "projected", "withdrawn"}, revision : Versions \cup {NoText},
         semantic : Semantics, event : EventIds \cup {NoEvent},
         hidden : {"no", "user_request", "deleted_in_google", "moved_in_google"},
         outcome : {"confirmed", "absent", "unknown"}]

Sighting == [event : EventIds \cup {NoEvent}, status : {"confirmed", "cancelled"},
             text : Versions \cup {NoText}]
NoSighting == [event |-> NoEvent, status |-> "confirmed", text |-> NoText]

Ledger == [creates : 0..CreateAttempts, updates : 0..UpdateAttempts,
           deletes : 0..DeleteAttempts, authored : BOOLEAN, confirmed : BOOLEAN,
           seen : Sighting]

LegKinds == {"create", "update", "delete", "observe_get", "observe_list"}
DecisionReasons == {"projected_create", "observed_absent_recreate", "drift", "ensure_absent",
                    "observe"}

Attempt == [copy : Copies \cup {NoCopy}, leg : LegKinds, reason : DecisionReasons,
            basis : Copy, calendar : Calendars, token : Accounts,
            answer : {"none", "applied", "gone", "calendar_gone", "definitely_failed",
                      "unknown", "present", "empty"},
            found : Sighting]
NoSyncAttempt == [copy |-> NoCopy]

CalendarTypeOK ==
  /\ ConnectionTypeOK
  /\ copies \in [Copies -> Copy]
  /\ ledger \in [Copies -> [Semantics -> Ledger]]
  /\ syncAttempts \in [Runners -> Attempt \union {NoSyncAttempt}]
  /\ events \in [EventIds -> [state : {"unmade", "live", "cancelled", "removed", "deleted"},
                              calendar : Calendars \cup {NoCalendar},
                              copy : Copies \cup {NoCopy}, semantic : Semantics,
                              text : Versions \cup {NoText}]]

CalendarInit ==
  /\ ConnectionInit
  /\ copies = [c \in Copies |-> [state |-> "none", revision |-> NoText, semantic |-> NoAccount,
                                 event |-> NoEvent, hidden |-> "no", outcome |-> "unknown"]]
  /\ ledger = [c \in Copies |-> [a \in Semantics |->
                 [creates |-> 0, updates |-> 0, deletes |-> 0, authored |-> FALSE,
                  confirmed |-> FALSE, seen |-> NoSighting]]]
  /\ syncAttempts = [r \in Runners |-> NoSyncAttempt]
  /\ events = [e \in EventIds |-> [state |-> "unmade", calendar |-> NoCalendar, copy |-> NoCopy,
                                   semantic |-> NoAccount, text |-> NoText]]

-----------------------------------------------------------------------------
(* The projection pass: what is desired of every copy, in one transaction.    *)

\* A row gets what is desired; a new account re-mints its semantic id.
Rebound(row) ==
  IF row.semantic = connection.account THEN row
  ELSE [row EXCEPT !.semantic = connection.account, !.event = NoEvent, !.outcome = "unknown"]

\* A subject of another firm is an orphan, withdrawn under the id it has.
Desired(c, want, revision) ==
  LET row == copies[c] IN
  IF CopyFirm[c] = connection.firm /\ want
  THEN [Rebound(row) EXCEPT !.state = "projected", !.revision = revision]
  ELSE IF row.state = "none" THEN row
  ELSE IF CopyFirm[c] = connection.firm
  THEN [Rebound(row) EXCEPT !.state = "withdrawn", !.revision = revision]
  ELSE [row EXCEPT !.state = "withdrawn"]

Operable == connection.state = "connected" /\ activeFirm = connection.firm

\* A pass projects after a confirmed refresh; the subject qualifies or not, and
\* a correction has a revision of its own.
ProjectionPass(c, want, revision) ==
  /\ Operable
  /\ connection.credential # NoAccount
  /\ revision >= copies[c].revision
  /\ copies' = [copies EXCEPT ![c] = Desired(c, want, revision)]
  /\ copies' # copies
  /\ UNCHANGED <<connectionVars, ledger, syncAttempts, events>>

\* performSetCopyHidden.
SetCopyHidden(c, hide) ==
  /\ copies[c].state # "none"
  /\ activeFirm = connection.firm
  /\ (copies[c].hidden = "no") = hide
  /\ copies' = [copies EXCEPT ![c].hidden = IF hide THEN "user_request" ELSE "no"]
  /\ UNCHANGED <<connectionVars, ledger, syncAttempts, events>>

-----------------------------------------------------------------------------
(* prepareCopyAttempt.                                                        *)

MustBeAbsent(row) == row.state = "withdrawn" \/ row.hidden # "no"

\* decideCopyLeg: the leg and its reason, or nothing to do.  A converged copy
\* is observed again when its sighting is an hour old or a person asks.
CopyLeg(c) ==
  LET row == copies[c]
      facts == ledger[c][row.semantic]
      Leg(kind, reason) == {<<kind, reason>>}
  IN
  IF MustBeAbsent(row)
  THEN CASE row.event = NoEvent ->
              IF row.outcome = "unknown" /\ facts.creates > 0
              THEN Leg("observe_list", "observe") ELSE {}
         [] row.event # NoEvent /\ row.outcome = "unknown" -> Leg("observe_get", "observe")
         [] row.event # NoEvent /\ row.outcome = "confirmed" ->
              IF facts.deletes < DeleteAttempts THEN Leg("delete", "ensure_absent") ELSE {}
         [] row.event # NoEvent /\ row.outcome = "absent" -> {}
  ELSE IF row.event = NoEvent
  THEN CASE row.outcome = "unknown" ->
              IF facts.creates = 0 THEN Leg("create", "projected_create")
                                   ELSE Leg("observe_list", "observe")
         [] row.outcome = "absent" ->
              IF facts.creates < CreateAttempts
              THEN Leg("create", "observed_absent_recreate") ELSE {}
         [] row.outcome = "confirmed" -> Leg("observe_list", "observe")
  ELSE CASE row.outcome = "unknown" -> Leg("observe_get", "observe")
         [] row.outcome = "absent" -> Leg("observe_list", "observe")
         [] row.outcome = "confirmed" ->
              IF facts.seen.event # row.event \/ facts.seen.status = "cancelled"
              THEN Leg("observe_get", "observe")
              ELSE IF facts.seen.text # row.revision
              THEN IF facts.updates < UpdateAttempts THEN Leg("update", "drift") ELSE {}
              ELSE Leg("observe_get", "observe")

\* A fault: a creation is not counted when it is claimed.
CountsLaterLegs(facts, kind) ==
  CASE kind = "update" -> [facts EXCEPT !.updates = @ + 1]
    [] kind = "delete" -> [facts EXCEPT !.deletes = @ + 1]
    [] OTHER -> facts

Counted(facts, kind) ==
  CASE kind = "create" -> [facts EXCEPT !.creates = @ + 1]
    [] kind = "update" -> [facts EXCEPT !.updates = @ + 1]
    [] kind = "delete" -> [facts EXCEPT !.deletes = @ + 1]
    [] OTHER -> facts

AttemptOpen(c) == \E r \in Runners : syncAttempts[r].copy = c

\* The attempt opens, with its basis, in the transaction that decides it.
PrepareCopyAttempt(r, c) ==
  /\ syncAttempts[r] = NoSyncAttempt
  /\ copies[c].state # "none"
  /\ Operable
  /\ connection.credential # NoAccount
  /\ connection.calendar # NoCalendar
  /\ ~AttemptOpen(c)
  /\ \E leg \in CopyLeg(c) :
       /\ syncAttempts' = [syncAttempts EXCEPT ![r] =
            [copy |-> c, leg |-> leg[1], reason |-> leg[2], basis |-> copies[c],
             calendar |-> connection.calendar, token |-> connection.credential,
             answer |-> "none", found |-> NoSighting]]
       /\ ledger' = [ledger EXCEPT ![c][copies[c].semantic] = Counted(@, leg[1])]
  /\ UNCHANGED <<connectionVars, copies, events>>

-----------------------------------------------------------------------------
(* The leg.  Google refuses, answers, or answers too late to be heard.        *)

GoogleAnswers(r, answer, found) ==
  syncAttempts' = [syncAttempts EXCEPT ![r] = [@ EXCEPT !.answer = answer, !.found = found]]

At(r, e) == events[e].calendar = syncAttempts[r].calendar

\* Events with the private property of the copy, a remnant included.
Matching(r) ==
  {e \in EventIds : /\ At(r, e)
                    /\ events[e].copy = syncAttempts[r].copy
                    /\ events[e].semantic = syncAttempts[r].basis.semantic
                    /\ events[e].state \in {"live", "cancelled"}}

SightingOf(e) ==
  [event |-> e, text |-> events[e].text,
   status |-> IF events[e].state = "live" THEN "confirmed" ELSE "cancelled"]

InsertEvent(r) ==
  \E e \in EventIds :
    /\ events[e].state = "unmade"
    /\ \A d \in EventIds : d < e => events[d].state # "unmade"
    /\ events' = [events EXCEPT ![e] =
                    [state |-> "live", calendar |-> syncAttempts[r].calendar,
                     copy |-> syncAttempts[r].copy, semantic |-> syncAttempts[r].basis.semantic,
                     text |-> syncAttempts[r].basis.revision]]
    /\ \/ GoogleAnswers(r, "applied", [NoSighting EXCEPT !.event = e])
       \/ GoogleAnswers(r, "unknown", NoSighting)

PatchEvent(r) ==
  LET e == syncAttempts[r].basis.event IN
  IF At(r, e) /\ events[e].state = "live"
  THEN /\ events' = [events EXCEPT ![e].text = syncAttempts[r].basis.revision]
       /\ \E answer \in {"applied", "unknown"} : GoogleAnswers(r, answer, NoSighting)
  ELSE /\ GoogleAnswers(r, "gone", NoSighting)
       /\ UNCHANGED events

DeleteEvent(r) ==
  LET e == syncAttempts[r].basis.event IN
  IF At(r, e) /\ events[e].state = "live"
  THEN /\ events' = [events EXCEPT ![e].state = "removed"]
       /\ \E answer \in {"applied", "unknown"} : GoogleAnswers(r, answer, NoSighting)
  ELSE /\ GoogleAnswers(r, "gone", NoSighting)
       /\ UNCHANGED events

\* Events.get by id falls back to the list when the id answers nothing.
Observe(r) ==
  LET e == syncAttempts[r].basis.event
      known == syncAttempts[r].leg = "observe_get" /\ At(r, e)
                 /\ events[e].state \in {"live", "cancelled"}
      shown == IF known THEN {e} ELSE Matching(r)
  IN /\ IF shown = {} THEN GoogleAnswers(r, "empty", NoSighting)
                      ELSE \E x \in shown : GoogleAnswers(r, "present", SightingOf(x))
     /\ UNCHANGED events

CallGoogle(r) ==
  /\ syncAttempts[r] # NoSyncAttempt
  /\ syncAttempts[r].answer = "none"
  /\ LET a == syncAttempts[r] IN
     \/ GoogleAnswers(r, "unknown", NoSighting) /\ UNCHANGED events
     \/ /\ ~Reachable(a.calendar, a.token)
        /\ \/ GoogleAnswers(r, "calendar_gone", NoSighting)
           \/ a.leg \in {"update", "delete"} /\ GoogleAnswers(r, "gone", NoSighting)
        /\ UNCHANGED events
     \/ /\ Reachable(a.calendar, a.token)
        /\ \/ a.leg = "create" /\ InsertEvent(r)
           \/ a.leg = "update" /\ PatchEvent(r)
           \/ a.leg = "delete" /\ DeleteEvent(r)
           \/ a.leg \in {"observe_get", "observe_list"} /\ Observe(r)
           \/ /\ a.leg \in {"create", "update", "delete"}
              /\ GoogleAnswers(r, "definitely_failed", NoSighting)
              /\ UNCHANGED events
  /\ UNCHANGED <<connectionVars, copies, ledger>>

-----------------------------------------------------------------------------
(* performCompleteCopyAttempt: the answer meets the row as it is now.         *)

\* attemptStillWanted.
StillWanted(a) ==
  LET row == copies[a.copy] IN
  /\ a.basis.semantic = row.semantic
  /\ a.basis.revision = row.revision
  /\ a.basis.state = row.state
  /\ (a.basis.hidden = "no") = (row.hidden = "no")

\* Whether an empty answer is the person's doing, as far as the attempts of
\* the current semantic id tell.
PersonDeleted(a) ==
  LET row == copies[a.copy]
      facts == ledger[a.copy][row.semantic]
  IN ~MustBeAbsent(row) /\ ~facts.authored /\ facts.confirmed

\* decideObservationTransition.
AfterObservation(a) ==
  LET row == copies[a.copy]
      Hidden(origin, detected) == IF detected /\ StillWanted(a) THEN origin ELSE row.hidden
  IN
  CASE a.answer = "unknown" -> [row EXCEPT !.outcome = "unknown"]
    [] a.answer = "calendar_gone" -> row
    [] a.answer = "empty" ->
         [row EXCEPT !.event = NoEvent, !.outcome = "absent",
                     !.hidden = Hidden("deleted_in_google", PersonDeleted(a))]
    [] a.answer = "present" ->
         [row EXCEPT !.event = a.found.event, !.outcome = "confirmed",
                     !.hidden = Hidden("moved_in_google",
                                  a.found.status = "cancelled" /\ ~MustBeAbsent(row))]

\* decideMutationTransition.
AfterMutation(a) ==
  LET row == copies[a.copy] IN
  CASE a.leg = "create" ->
         [row EXCEPT !.event = a.found.event,
                     !.outcome = CASE a.answer = "applied" -> "confirmed"
                                   [] a.answer = "unknown" -> "unknown"
                                   [] OTHER -> "absent"]
    [] a.leg = "update" ->
         [row EXCEPT !.outcome = IF a.answer \in {"applied", "definitely_failed"}
                                 THEN "confirmed" ELSE "unknown"]
    [] a.leg = "delete" ->
         [row EXCEPT !.outcome = CASE a.answer \in {"applied", "gone"} -> "absent"
                                   [] a.answer = "definitely_failed" -> row.outcome
                                   [] OTHER -> "unknown"]

Observes(a) == a.leg \in {"observe_get", "observe_list"}

\* What the attempt row now shows; a mutation that was applied is taken for a
\* sighting of the payload the copy has by now.
Seen(a) ==
  LET row == copies[a.copy]
      target == IF a.leg = "create" THEN a.found.event ELSE row.event
  IN IF a.answer = "present" THEN a.found
     ELSE IF /\ a.answer = "applied" /\ a.leg # "delete"
             /\ row.state = "projected" /\ target # NoEvent
     THEN [event |-> target, status |-> "confirmed", text |-> row.revision]
     ELSE NoSighting

Recorded(a) ==
  LET facts == ledger[a.copy][a.basis.semantic]
      seen == Seen(a)
      present == \/ a.leg = "create" /\ a.answer = "applied"
                 \/ seen # NoSighting /\ seen.status = "confirmed"
  IN [facts EXCEPT
        !.seen = IF seen # NoSighting THEN seen ELSE @,
        !.authored = IF present THEN FALSE
                     ELSE @ \/ (a.leg = "delete" /\ a.answer \in {"applied", "gone"}),
        !.confirmed = @ \/ present]

CompleteCopyAttempt(r) ==
  LET a == syncAttempts[r] IN
  /\ a # NoSyncAttempt
  /\ a.answer # "none"
  /\ copies' = [copies EXCEPT ![a.copy] =
                  IF Observes(a) THEN AfterObservation(a) ELSE AfterMutation(a)]
  /\ ledger' = [ledger EXCEPT ![a.copy][a.basis.semantic] = Recorded(a)]
  /\ syncAttempts' = [syncAttempts EXCEPT ![r] = NoSyncAttempt]
  /\ connection' = IF a.answer = "calendar_gone" /\ connection.state # "error"
                   THEN [connection EXCEPT !.state = "error",
                                           !.reason = "calendar_access_lost"]
                   ELSE connection
  /\ UNCHANGED <<flows, calendars, activeFirm, refresh, events>>

\* The action dies, and its open attempt outlives the window.
AttemptDies(r) ==
  /\ syncAttempts[r] # NoSyncAttempt
  /\ syncAttempts[r].reason \in FatalReasons
  /\ syncAttempts' = [syncAttempts EXCEPT ![r] = NoSyncAttempt]
  /\ UNCHANGED <<connectionVars, copies, ledger, events>>

\* What the person does to a copy in Google.
PersonTouches(e) ==
  /\ events[e].state = "live"
  /\ \/ events' = [events EXCEPT ![e].state = "deleted"]
     \/ events' = [events EXCEPT ![e].state = "cancelled"]
     \/ events' = [events EXCEPT ![e].text = NoText]
  /\ UNCHANGED <<connectionVars, copies, ledger, syncAttempts>>

CalendarNext ==
  \/ ConnectionNext /\ UNCHANGED <<copies, ledger, syncAttempts, events>>
  \/ \E c \in Copies :
       \/ \E want \in BOOLEAN, revision \in Versions : ProjectionPass(c, want, revision)
       \/ \E hide \in BOOLEAN : SetCopyHidden(c, hide)
       \/ \E r \in Runners : PrepareCopyAttempt(r, c)
  \/ \E r \in Runners : CallGoogle(r) \/ CompleteCopyAttempt(r) \/ AttemptDies(r)
  \/ \E e \in EventIds : PersonTouches(e)

CalendarSpec == CalendarInit /\ [][CalendarNext]_calendarVars

-----------------------------------------------------------------------------
(* Properties.                                                                *)

\* Passes, jobs and commands that reconcile one copy at once, with answers
\* that are lost, never leave two events of it in one calendar, as long as
\* the connection does not come back to a calendar it had left: a row does
\* not say which calendar it was observed in.
NoDuplicateEvent ==
  \A d, e \in EventIds :
    /\ events[d].state = "live" /\ events[e].state = "live"
    /\ events[d].copy = events[e].copy
    /\ events[d].semantic = events[e].semantic
    /\ events[d].calendar = events[e].calendar
    => d = e

=============================================================================
