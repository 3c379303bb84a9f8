----------------------------- MODULE MCKnowledge -----------------------------
(* A finite instance of what a firm keeps of its messages: Memory, the        *)
(* deletion with its exports, Reminders and the calendar.  They share no      *)
(* variable; a behaviour is the life of one of them, which `part` names, and  *)
(* the others stand still in one of their initial states.                     *)
EXTENDS Memory, Deletion, Reminders, CalendarCopies, TLC

CONSTANTS v1, v2, ka, c1

VARIABLE part

MCVars == <<memoryVars, exportVars, deletionVars, remindersVars, calendarVars, part>>

MCCopyFirm == [c \in {c1} |-> ka]
MCFatalReasons == DecisionReasons \ {"observed_absent_recreate"}

(* What stands still has one initial state, and the first finding is the one  *)
(* that is known if only one is.                                              *)
MCInit ==
  /\ MemoryInit /\ DeletionInit /\ RemindersInit /\ CalendarInit
  /\ part \in {"memory", "deletion", "reminders", "calendar"}
  /\ \A f \in Findings : findings[f].provenance # "s2"
  /\ Exists("f2") => Exists("f1")
  /\ part # "memory" => ~Exists("f1")
  /\ part # "deletion" => recorded = [s \in Sources |-> {}] /\ cases = [c \in Cases |-> NoCase]
  /\ part # "calendar" => activeFirm = ka

MCNext ==
  /\ UNCHANGED part
  /\ \/ /\ part = "memory" /\ MemoryNext
        /\ UNCHANGED <<exportVars, deletionVars, remindersVars, calendarVars>>
     \/ /\ part = "deletion" /\ DeletionNext
        /\ UNCHANGED <<memoryVars, remindersVars, calendarVars>>
     \/ /\ part = "reminders" /\ RemindersNext
        /\ UNCHANGED <<memoryVars, exportVars, deletionVars, calendarVars>>
     \/ /\ part = "calendar" /\ CalendarNext
        /\ UNCHANGED <<memoryVars, exportVars, deletionVars, remindersVars>>

MCSpec == MCInit /\ [][MCNext]_MCVars

Count(S) == Cardinality(S)
One(holds) == IF holds THEN 1 ELSE 0

(* Bounds of Memory: one message is withdrawn, purged or moved, one finding   *)
(* is revised at a time, and none more than once.                             *)
MCMemoryBound ==
  /\ \A f \in Findings : findings[f].revision <= 2
  /\ Count({s \in Messages : ~Active(s)})
       + Count({s \in Messages : moves[s] > 0}) <= 1
  /\ \A s \in Messages : analyses[s] <= 1 /\ moves[s] <= 1
  /\ Count(reactions) <= 2
  /\ Count({r \in reactions : r[1] = "revised"}) <= 1

(* Bounds of Deletion: one source is deleted while an export is made, or both *)
(* are while a clarification that quotes them is raised and resolved.         *)
MCDeletionBound ==
  (\E x \in Exports : exports[x].state # "none") =>
    /\ \A s \in Sources : recorded[s] = {}
    /\ \A c \in Cases : cases[c].state = "none"
    /\ Count(purged) <= 1

(* Bounds of Reminders: one of a snooze, a suppressed reminder and a          *)
(* revocation, and a schedule that moves once.                                *)
MCRemindersBound ==
  /\ \A t \in Tasks : NextEpoch(t) <= Epochs
  /\ Count({pt \in Persons \X Tasks : snoozes[pt] > 0})
       + Count({k \in DOMAIN intents : intents[k].state \in {"dead", "muted"}})
       + Count(Persons \ members)
       + One(\E k \in DOMAIN intents : intents[k].state = "superseded") <= 1

(* Bounds of the calendar: one thing happens besides the first authorization, *)
(* its copy and what reconciles it; if it happens to the connection, the copy *)
(* was created at most once, and after a change of firm a second flow is      *)
(* plain and follows the first.                                               *)
ConnectionTroubles ==
  One(\/ \A f \in Flows : flows[f].step # "none"
      \/ connection.firm # NoFirm /\ activeFirm # connection.firm)
    + One(connection.state \in {"disconnected", "error"})
    + One(refresh # NoAccount)
    + Count({k \in Calendars : calendars[k].state = "gone"})

CopyTroubles ==
  Count({c \in Copies : \/ copies[c].state = "withdrawn" /\ connection.firm = CopyFirm[c]
                        \/ copies[c].hidden = "user_request"
                        \/ copies[c].revision > 1})
    + Count({e \in EventIds : \/ events[e].state \in {"cancelled", "deleted"}
                              \/ events[e].state = "live" /\ events[e].text = NoText})

MCCalendarBound ==
  /\ ConnectionTroubles + CopyTroubles <= 1
  /\ ConnectionTroubles > 0 => \A c \in Copies, a \in Accounts :
                                 ledger[c][a].creates <= 1 /\ ledger[c][a].updates = 0
  /\ activeFirm # ka => /\ connection.mode \in {"none", "connect"}
                        /\ flows[2].mode \in {"none", "connect"}
                        /\ flows[2] # NoFlowYet => flows[1] = FlowOver
                        /\ flows[2].reason = "none"

MCBound == MCMemoryBound /\ MCDeletionBound /\ MCRemindersBound /\ MCCalendarBound

(* Two plans, persons, sources, accounts and runners: each pair is alike.     *)
MCSymmetry == Permutations({v1, v2})
=============================================================================
