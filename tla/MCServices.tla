----------------------------- MODULE MCServices -----------------------------
(* A finite instance of the services around the messages.  They share no      *)
(* variable; a behaviour is the life of one of them, which `part` names, and  *)
(* the others stand still in their initial states.                            *)
EXTENDS Notifications, Backups, Telemetry, QuietHours, TLC

CONSTANTS s1, s2, d1, d2, w1, w2

VARIABLE part

MCTelemetryVars == <<telemetryVars, telemetryHistory>>
MCVars == <<notificationVars, backupVars, MCTelemetryVars, quietVars, part>>

MCAbout == [q \in Questions |-> s1]
MCAuthor == [s \in Sources |-> Nobody]
MCCadence == [s \in Services |-> 1]
MCThreshold == [warning |-> 1, alert |-> 2]

MCWindows ==
  {[start |-> 22, end |-> 1], [start |-> 9, end |-> 17], [start |-> 5, end |-> 5]}
MCUsual == [start |-> 20, end |-> 6]
MCKeep == [mutedProjects |-> Omitted, companyEntriesMuted |-> Omitted,
           taskRemindersMuted |-> Omitted, quietHours |-> Omitted]
MCChanges ==
  {MCKeep, [MCKeep EXCEPT !.companyEntriesMuted = TRUE],
   [MCKeep EXCEPT !.taskRemindersMuted = TRUE, !.mutedProjects = {}]}
    \union {[MCKeep EXCEPT !.mutedProjects = muted] : muted \in SUBSET Conversations}
    \union {[MCKeep EXCEPT !.quietHours = hours] : hours \in MCWindows \union {NotSet}}

MCInit ==
  /\ NotificationsInit /\ BackupsInit /\ TelemetryInit /\ QuietInit
  /\ part \in {"notifications", "backups", "telemetry", "quiet"}

MCNext ==
  /\ UNCHANGED part
  /\ \/ part = "notifications" /\ NotificationsNext
        /\ UNCHANGED <<backupVars, MCTelemetryVars, quietVars>>
     \/ part = "backups" /\ BackupsNext
        /\ UNCHANGED <<notificationVars, MCTelemetryVars, quietVars>>
     \/ part = "telemetry" /\ TelemetryNext
        /\ UNCHANGED <<notificationVars, backupVars, quietVars>>
     \/ part = "quiet" /\ QuietNext
        /\ UNCHANGED <<notificationVars, backupVars, MCTelemetryVars>>

MCSpec == MCInit /\ [][MCNext]_MCVars

Count(S) == Cardinality(S)

(* Bounds of Notifications: two entries and a device, or an entry and two     *)
(* devices; one pass at a time; one thing goes another way than straight to   *)
(* the delivery.                                                              *)
Legs3 == Persons \X Entries \X Devices

Astray(p, e, d) ==
  LET row == sendings[p][e][d] IN
  \/ lost[p][e][d] > 0 \/ row.attempts > 1 \/ row.state \in {"failed", "unknown"}
  \/ row.state = "pending" /\ (row.attempts > 0 \/ pushes[p][e].step = "none")
  \/ pushes[p][e].legs[d] \in {"gone", "refused", "retry_later", "unknown"}

MCNotificationsBound ==
  /\ Count({e \in Entries : entries[e] # "none"})
       + Count({d \in Devices : devices[d].owner # Nobody}) <= 3
  /\ entries[s2] # "none" => entries[s1] # "none"
  /\ Count({x \in Persons \X Entries : pushes[x[1]][x[2]].step # "none"}) <= 1
  /\ \A x \in Legs3 : lost[x[1]][x[2]][x[3]] <= 1
  /\ Count({s \in Sources : entries[s] \in {"closed", "purged"} \/ scopes[s] = "project"})
       + Count(seen) + Count(Persons \ staff)
       + Count({d \in Devices : devices[d].owner # Nobody /\ ~(devices[d].enabled /\ devices[d].session = "live")})
       + Count({x \in Legs3 : Astray(x[1], x[2], x[3])}) <= 1

(* Bounds of Backups: a set of the first day and one of the last, when the    *)
(* first expires, and one of them taken over, unless a message is purged.     *)
MCBackupsBound ==
  /\ rows[1].attempts = 0
  /\ rows[0].attempts + rows[2].attempts <= (IF Purged = {} THEN 3 ELSE 2)

(* Bounds of Telemetry: spending whose ticks end before the forward, or a     *)
(* service that reports, or a trouble.                                        *)
Spending == \E p \in Periods : spent[p] > 0
Beating == \E s \in Services \ {Sink} : beats[s] # << >>
Troubled == standing # {} \/ \E e \in events : e.key # Unset /\ e.key.of = "incident"
One(b) == IF b THEN 1 ELSE 0

MCTelemetryBound ==
  /\ One(Spending) + One(Beating) + One(Troubled) <= 1
  /\ written <= (IF Spending THEN 4 ELSE 3)
  /\ Count({e \in events : e.key = Unset}) <= 1
  /\ Spending => outcome = "never" /\ ingested = {} /\ tick.step \notin {"ingest", "mark"}
               /\ (billed = {} \/ \A e \in events : e.key # Unset)
  /\ month = 2 => Spending
  /\ clock <= (IF Spending THEN 3 ELSE 2)
  /\ Count(ingested) <= 2
  /\ \A p \in Periods : spent[p] <= 2

(* Bounds of QuietHours: only an entry of no project and a reminder, neither  *)
(* of them suppressed, are followed through the nights.                       *)
Mutes ==
  /\ stored # NotSet
  /\ stored.mutedProjects # {} \/ stored.companyEntriesMuted \/ stored.taskRemindersMuted

MCQuietBound ==
  Mutes \/ notice.read \/ notice.kind = "clarification" \/ notice.projects # {}
    => now <= Start + 1

MCBound ==
  CASE part = "notifications" -> MCNotificationsBound
    [] part = "backups" -> MCBackupsBound
    [] part = "telemetry" -> MCTelemetryBound
    [] part = "quiet" -> MCQuietBound

MCSymmetry == Permutations({d1, d2}) \union Permutations({w1, w2})
=============================================================================
