---------------------------- MODULE Notifications ----------------------------
(***************************************************************************)
(* How a person hears of a message: the notification intents with their    *)
(* due-time evaluator (convex/attention/delivery), the read state          *)
(* (convex/attention/read_state), and the web push that carries a          *)
(* delivered intent to the devices of its recipient                        *)
(* (convex/attention/push).                                                *)
(*                                                                         *)
(* A delivered intent keeps the entries of the summary it was fired with;  *)
(* the payload of a device row is the set of entries it shows, empty when  *)
(* it was replaced by the neutral notice.  What a person chose in the      *)
(* settings, and the hour, is the verdict the evaluator draws.             *)
(***************************************************************************)
EXTENDS Naturals, FiniteSets

CONSTANTS
  Persons,      \* possible members of the firm
  Sources,      \* messages of the firm
  Questions,    \* clarifications
  About,        \* the message a clarification is about
  Author,       \* the person who wrote a message
  Devices,      \* push endpoints
  LegAttempts,  \* MAX_LEG_ATTEMPTS
  PushAttempts, \* maxAttempts of a deliver_push job
  PassesDie,    \* an action may end without a word
  Nobody        \* not a person

ASSUME NotificationConstants ==
  /\ Sources \intersect Questions = {} /\ Nobody \notin Persons
  /\ About \in [Questions -> Sources] /\ Author \in [Sources -> Persons \union {Nobody}]
  /\ LegAttempts \in Nat \ {0} /\ PushAttempts \in Nat \ {0} /\ PassesDie \in BOOLEAN

Entries == Sources \union Questions

VARIABLES
  entries,   \* lifecycle of the sources, state of the clarifications
  scopes,    \* the assignment of a source by its latest run
  staff,     \* persons with an active membership
  seen,      \* readStates
  notices,   \* notificationIntents
  devices,   \* pushSubscriptions
  sendings,  \* pushDeliveries
  pushJobs,  \* durable jobs of kind attention.deliver_push
  pushes,    \* deliverOneIntent under way, for a job or for the safety net
  cleared,   \* sources whose notification_work stage is purged
  received,  \* notifications the push service took, by intent and device
  lost       \* of these, legs whose pass died before it recorded them

sourceVars == <<entries, scopes, staff, seen, cleared>>
noticeVars == <<notices, pushJobs>>
pushVars == <<devices, sendings, pushes, received, lost>>
notificationVars == <<sourceVars, noticeVars, pushVars>>

Scopes == {"pending", "company", "project"}
NoticeRows == [state : {"none", "pending", "suppressed", "delivered"}, due : BOOLEAN,
               batch : SUBSET Entries]
DeviceRows == [owner : Persons \union {Nobody}, session : {"live", "revoked"}, enabled : BOOLEAN]
SendingStates == {"none", "pending", "delivered", "failed", "unknown", "suppressed"}
SendingRows == [state : SendingStates, attempts : 0 .. LegAttempts, text : SUBSET Entries]
Reports == {"delivered", "gone", "refused", "retry_later", "unknown"}
Legs == {"none", "ready"} \union Reports
PushRows == [step : {"none", "started", "legs", "ok", "again", "fatal"},
             by : {"none", "job", "net"}, legs : [Devices -> Legs]]

NotificationsTypeOK ==
  /\ entries \in [Entries -> {"none", "active", "closed", "purged"}]
  /\ scopes \in [Sources -> Scopes]
  /\ staff \subseteq Persons /\ seen \subseteq Persons \X Sources /\ cleared \subseteq Sources
  /\ notices \in [Persons -> [Entries -> NoticeRows]]
  /\ devices \in [Devices -> DeviceRows]
  /\ sendings \in [Persons -> [Entries -> [Devices -> SendingRows]]]
  /\ pushJobs \in [Persons -> [Entries -> [state : {"none", "queued", "running", "succeeded", "failed"},
                                           attempts : 0 .. PushAttempts]]]
  /\ pushes \in [Persons -> [Entries -> PushRows]]
  /\ received \in [Persons -> [Entries -> [Devices -> Nat]]]
  /\ lost \in [Persons -> [Entries -> [Devices -> Nat]]]

NoNotice == [state |-> "none", due |-> FALSE, batch |-> {}]
NoSending == [state |-> "none", attempts |-> 0, text |-> {}]
NoPush == [step |-> "none", by |-> "none", legs |-> [d \in Devices |-> "none"]]

NotificationsInit ==
  /\ entries = [e \in Entries |-> "none"]
  /\ scopes = [s \in Sources |-> "pending"]
  /\ staff = Persons /\ seen = {} /\ cleared = {}
  /\ notices = [p \in Persons |-> [e \in Entries |-> NoNotice]]
  /\ devices = [d \in Devices |-> [owner |-> Nobody, session |-> "live", enabled |-> FALSE]]
  /\ sendings = [p \in Persons |-> [e \in Entries |-> [d \in Devices |-> NoSending]]]
  /\ pushJobs = [p \in Persons |-> [e \in Entries |-> [state |-> "none", attempts |-> 0]]]
  /\ pushes = [p \in Persons |-> [e \in Entries |-> NoPush]]
  /\ received = [p \in Persons |-> [e \in Entries |-> [d \in Devices |-> 0]]]
  /\ lost = received

(***************************************************************************)
(* The intents of an entry.                                                *)
(***************************************************************************)
Recipients(e) ==
  IF e \in Sources THEN staff \ {Author[e]}
  ELSE IF Author[About[e]] \in Persons THEN {Author[About[e]]} ELSE staff

\* Acceptance or raising, with the reaction that ensures the intents.
EnsureIntents(e) ==
  /\ entries[e] = "none"
  /\ e \in Questions => entries[About[e]] = "active"
  /\ entries' = [entries EXCEPT ![e] = "active"]
  /\ notices' = [p \in Persons |->
       IF p \in Recipients(e) THEN [notices[p] EXCEPT ![e].state = "pending"] ELSE notices[p]]
  /\ UNCHANGED <<scopes, staff, seen, cleared, pushJobs, pushVars>>

\* The window closes, or the instant a deferral named is reached.
FallsDue(p, e) ==
  /\ notices[p][e].state = "pending" /\ ~notices[p][e].due
  /\ notices' = [notices EXCEPT ![p][e].due = TRUE]
  /\ UNCHANGED <<sourceVars, pushJobs, pushVars>>

AssignSource(s) ==
  /\ entries[s] = "active" /\ scopes[s] = "pending"
  /\ \E b \in Scopes \ {"pending"} : scopes' = [scopes EXCEPT ![s] = b]
  /\ UNCHANGED <<entries, staff, seen, cleared, noticeVars, pushVars>>

MarkSourceRead(p, s) ==
  /\ p \in staff /\ entries[s] # "none"
  /\ seen' \in {seen \union {<<p, s>>}, seen \ {<<p, s>>}} \ {seen}
  /\ UNCHANGED <<entries, scopes, staff, cleared, noticeVars, pushVars>>

\* A source is withdrawn, or a clarification resolved.
CloseEntry(e) ==
  /\ entries[e] = "active"
  /\ entries' = [entries EXCEPT ![e] = "closed"]
  /\ UNCHANGED <<scopes, staff, seen, cleared, noticeVars, pushVars>>

RevokeMember(p) ==
  /\ staff' = staff \ {p} /\ p \in staff
  /\ UNCHANGED <<entries, scopes, seen, cleared, noticeVars, pushVars>>

(***************************************************************************)
(* The evaluator.                                                          *)
(***************************************************************************)
SourceOf(e) == IF e \in Sources THEN e ELSE About[e]
Kind(e) == IF e \in Sources THEN "source_entry" ELSE "clarification"

\* recheckIntent: "die", "wait" or the bucket.
Recheck(e) ==
  IF entries[e] # "active" THEN "die"
  ELSE IF e \in Questions THEN "question"
  ELSE IF scopes[e] = "pending" THEN "wait" ELSE scopes[e]

HasRead(p, e) == <<p, SourceOf(e)>> \in seen

Waiting(p) == {e \in Entries : notices[p][e].state = "pending"}
Due(p) == {e \in Waiting(p) : notices[p][e].due}
Buckets(p) == {Recheck(e) : e \in Due(p)} \ {"die", "wait"}

\* Whether the sibling scan of a bucket of the person meets the intent.
Met(p, e) == p \in staff /\ \E f \in Due(p) : Kind(f) = Kind(e) /\ Recheck(f) \notin {"die", "wait"}

\* The unread intents of a bucket: the due ones and every sibling that joins.
Batch(p, b) == {e \in Waiting(p) : Recheck(e) = b /\ ~HasRead(p, e)}

Verdicts == {"eligible", "suppressed", "deferred"}

\* verdict is decidePersonalDelivery for each bucket of the person.
Evaluated(p, e, verdict) ==
  LET row == notices[p][e]
      bucket == Recheck(e)
      suppressed == [row EXCEPT !.state = "suppressed"]
  IN IF bucket = "wait" THEN [row EXCEPT !.due = FALSE]
     ELSE IF bucket = "die" \/ p \notin staff \/ HasRead(p, e) THEN suppressed
     ELSE IF verdict[bucket] = "suppressed" THEN suppressed
     ELSE IF verdict[bucket] = "deferred" THEN [row EXCEPT !.due = FALSE]
     ELSE [row EXCEPT !.state = "delivered", !.batch = Batch(p, bucket)]

\* Which pending intents one sweep decides about.
Swept(p) ==
  Due(p) \union {e \in Waiting(p) : /\ Met(p, e)
                                    /\ Recheck(e) \in {"die"} \union Buckets(p)}

\* A sweep decides for every person alike and none depends on another: here it
\* decides for one.  The event of a settled intent registers its push job.
EvaluateDueIntents(p) ==
  /\ Due(p) # {}
  /\ \E verdict \in [Buckets(p) -> Verdicts] :
       LET after == [e \in Entries |->
                       IF e \in Swept(p) THEN Evaluated(p, e, verdict) ELSE notices[p][e]]
       IN /\ notices' = [notices EXCEPT ![p] = after]
          /\ pushJobs' = [pushJobs EXCEPT ![p] =
               [e \in Entries |-> IF e \in Swept(p) /\ after[e].state # "pending"
                                    THEN [state |-> "queued", attempts |-> 0]
                                    ELSE pushJobs[p][e]]]
  /\ UNCHANGED <<sourceVars, pushVars>>

(***************************************************************************)
(* The devices.                                                            *)
(***************************************************************************)
\* A browser renews its endpoint, also under another account.
RegisterPushSubscription(d, p) ==
  /\ p \in staff
  /\ devices' = [devices EXCEPT ![d] = [owner |-> p, session |-> "live", enabled |-> TRUE]]
  /\ devices' # devices
  /\ UNCHANGED <<sourceVars, noticeVars, sendings, pushes, received, lost>>

RevokePushSubscription(d) ==
  /\ devices[d].enabled
  /\ devices' = [devices EXCEPT ![d].enabled = FALSE]
  /\ UNCHANGED <<sourceVars, noticeVars, sendings, pushes, received, lost>>

RevokeSession(d) ==
  /\ devices[d].owner # Nobody /\ devices[d].session = "live"
  /\ devices' = [devices EXCEPT ![d].session = "revoked"]
  /\ UNCHANGED <<sourceVars, noticeVars, sendings, pushes, received, lost>>

PushHygiene ==
  /\ devices' = [d \in Devices |->
       IF devices[d].session = "revoked" \/ devices[d].owner \notin staff
         THEN [devices[d] EXCEPT !.enabled = FALSE] ELSE devices[d]]
  /\ devices' # devices
  /\ UNCHANGED <<sourceVars, noticeVars, sendings, pushes, received, lost>>

Reachable(p, d) == devices[d].owner = p /\ devices[d].enabled /\ devices[d].session = "live"

(***************************************************************************)
(* One pass: prepare, the legs, their record.  A job starts it, or the     *)
(* safety net for a row that nobody touched for a while; a pass is over    *)
(* sooner than that, so no two passes of an intent overlap.                *)
(***************************************************************************)
StartPushJob(p, e) ==
  /\ pushJobs[p][e].state = "queued" /\ pushes[p][e].step = "none"
  /\ pushJobs' = [pushJobs EXCEPT ![p][e] = [state |-> "running", attempts |-> @.attempts + 1]]
  /\ pushes' = [pushes EXCEPT ![p][e] = [@ EXCEPT !.step = "started", !.by = "job"]]
  /\ UNCHANGED <<sourceVars, notices, devices, sendings, received, lost>>

PushSafetyNet(p, e) ==
  /\ pushes[p][e].step = "none" /\ \E d \in Devices : sendings[p][e][d].state = "pending"
  /\ pushes' = [pushes EXCEPT ![p][e] = [@ EXCEPT !.step = "started", !.by = "net"]]
  /\ UNCHANGED <<sourceVars, noticeVars, devices, sendings, received, lost>>

Redacted(q) == entries[About[q]] = "purged"

\* What of the summary may be shown now.
LiveContent(p, e) ==
  {x \in notices[p][e].batch : entries[x] = "active" /\ (x \in Questions => ~Redacted(x))}

\* suppressPendingDeliveriesOfIntent
Suppressed(row) ==
  IF row.state = "pending" THEN [row EXCEPT !.state = "suppressed", !.text = {}] ELSE row

Enabled(p) == {d \in Devices : Reachable(p, d)}

PreparePushDelivery(p, e) ==
  /\ pushes[p][e].step = "started"
  /\ LET content == LiveContent(p, e)
         open == {d \in Enabled(p) : sendings[p][e][d].state \in {"none", "pending"}}
         denied == notices[p][e].state # "delivered" \/ p \notin staff \/ Enabled(p) = {}
     IN \/ /\ denied \/ (content # {} /\ open = {})
           /\ pushes' = [pushes EXCEPT ![p][e].step = "ok"]
           /\ UNCHANGED sendings
        \/ /\ ~denied /\ content = {}
           /\ sendings' = [sendings EXCEPT ![p][e] = [d \in Devices |-> Suppressed(@[d])]]
           /\ pushes' = [pushes EXCEPT ![p][e].step = "ok"]
        \/ /\ ~denied /\ content # {} /\ open # {}
           /\ sendings' = [sendings EXCEPT ![p][e] =
                [d \in Devices |-> IF d \in open
                                     THEN [@[d] EXCEPT !.state = "pending", !.text = content]
                                     ELSE @[d]]]
           /\ \E step \in {"legs", "fatal"} :
                pushes' = [pushes EXCEPT ![p][e] =
                  [@ EXCEPT !.step = step,
                            !.legs = [d \in Devices |-> IF step = "legs" /\ d \in open
                                                          THEN "ready" ELSE "none"]]]
  /\ UNCHANGED <<sourceVars, noticeVars, devices, received, lost>>

\* The push service took the notification, refused it, or may have taken it.
PostLeg(p, e, d) ==
  /\ pushes[p][e].legs[d] = "ready"
  /\ \E report \in Reports, taken \in {0, 1} :
       /\ report = "delivered" => taken = 1
       /\ report \in {"gone", "refused", "retry_later"} => taken = 0
       /\ pushes' = [pushes EXCEPT ![p][e].legs[d] = report]
       /\ received' = [received EXCEPT ![p][e][d] = @ + taken]
  /\ UNCHANGED <<sourceVars, noticeVars, devices, sendings, lost>>

\* A fault: an outcome nobody knows is tried again.
RetriesUnknown(report, attempts) ==
  CASE report = "delivered" -> "delivered"
    [] report \in {"gone", "refused"} -> "failed"
    [] OTHER -> IF attempts < LegAttempts THEN "pending" ELSE "failed"

SettleLegOutcome(report, attempts) ==
  CASE report = "delivered" -> "delivered"
    [] report = "unknown" -> "unknown"
    [] report = "retry_later" /\ attempts < LegAttempts -> "pending"
    [] OTHER -> "failed"

Completed(row, report) ==
  IF row.state = "pending" /\ report \in Reports
    THEN [row EXCEPT !.attempts = @ + 1, !.state = SettleLegOutcome(report, row.attempts + 1)]
    ELSE row

CompletePushLegs(p, e) ==
  /\ pushes[p][e].step = "legs" /\ \A d \in Devices : pushes[p][e].legs[d] # "ready"
  /\ LET legs == pushes[p][e].legs
         after == [d \in Devices |-> Completed(sendings[p][e][d], legs[d])]
         settles(d) == legs[d] \in Reports /\ sendings[p][e][d].state = "pending"
         again == \E d \in Devices : settles(d) /\ after[d].state = "pending"
     IN /\ sendings' = [sendings EXCEPT ![p][e] = after]
        /\ devices' = [d \in Devices |-> IF settles(d) /\ legs[d] = "gone"
                                             THEN [devices[d] EXCEPT !.enabled = FALSE]
                                             ELSE devices[d]]
        /\ pushes' = [pushes EXCEPT ![p][e].step = IF again THEN "again" ELSE "ok"]
  /\ UNCHANGED <<sourceVars, noticeVars, received, lost>>

\* completePushJob when a job drove the pass.
EndPush(p, e) ==
  /\ pushes[p][e].step \in {"ok", "again", "fatal"}
  /\ pushes' = [pushes EXCEPT ![p][e] = NoPush]
  /\ LET step == pushes[p][e].step
         retries == step = "again" /\ pushJobs[p][e].attempts < PushAttempts
     IN pushJobs' = IF pushes[p][e].by = "net" THEN pushJobs
                    ELSE [pushJobs EXCEPT ![p][e].state =
                            IF step = "ok" THEN "succeeded"
                            ELSE IF retries THEN "queued" ELSE "failed"]
  /\ UNCHANGED <<sourceVars, notices, devices, sendings, received, lost>>

PushDies(p, e) ==
  /\ PassesDie /\ pushes[p][e].step # "none"
  /\ pushes' = [pushes EXCEPT ![p][e] = NoPush]
  /\ lost' = [lost EXCEPT ![p][e] = [d \in Devices |->
       IF pushes[p][e].step = "legs" /\ pushes[p][e].legs[d] \in {"delivered", "unknown"}
         THEN @[d] + 1 ELSE @[d]]]
  /\ UNCHANGED <<sourceVars, noticeVars, devices, sendings, received>>

(***************************************************************************)
(* A source is deleted: its tombstone, then the notification_work stage.   *)
(***************************************************************************)
PurgeSourceEntry(s) ==
  /\ entries[s] \in {"active", "closed"}
  /\ entries' = [entries EXCEPT ![s] = "purged"]
  /\ UNCHANGED <<scopes, staff, seen, cleared, noticeVars, pushVars>>

\* A fault: the other entries of a summary are not looked at.
AffectedItself(p, e, s) == SourceOf(e) = s

\* pushIntentAffectedByPurge
AffectedByPurge(p, e, s) ==
  \/ SourceOf(e) = s
  \/ \E x \in notices[p][e].batch : SourceOf(x) = s \/ (x \in Questions /\ Redacted(x))

PurgeNotificationWork(s) ==
  /\ entries[s] = "purged" /\ s \notin cleared
  /\ cleared' = cleared \union {s}
  /\ notices' = [p \in Persons |-> [e \in Entries |->
       IF SourceOf(e) = s /\ notices[p][e].state = "pending"
         THEN [notices[p][e] EXCEPT !.state = "suppressed"] ELSE notices[p][e]]]
  /\ sendings' = [p \in Persons |-> [e \in Entries |->
       IF AffectedByPurge(p, e, s) THEN [d \in Devices |-> Suppressed(sendings[p][e][d])]
       ELSE sendings[p][e]]]
  /\ UNCHANGED <<entries, scopes, staff, seen, pushJobs, devices, pushes, received, lost>>

NotificationsNext ==
  \/ \E e \in Entries : EnsureIntents(e) \/ CloseEntry(e)
  \/ \E s \in Sources : AssignSource(s) \/ PurgeSourceEntry(s) \/ PurgeNotificationWork(s)
  \/ \E p \in Persons : EvaluateDueIntents(p) \/ RevokeMember(p)
  \/ \E p \in Persons, s \in Sources : MarkSourceRead(p, s)
  \/ \E d \in Devices : \/ RevokePushSubscription(d) \/ RevokeSession(d)
                         \/ \E p \in Persons : RegisterPushSubscription(d, p)
  \/ PushHygiene
  \/ \E p \in Persons, e \in Entries :
       \/ FallsDue(p, e) \/ StartPushJob(p, e) \/ PushSafetyNet(p, e)
       \/ PreparePushDelivery(p, e) \/ CompletePushLegs(p, e) \/ EndPush(p, e) \/ PushDies(p, e)
       \/ \E d \in Devices : PostLeg(p, e, d)

NotificationsSpec == NotificationsInit /\ [][NotificationsNext]_notificationVars

(***************************************************************************)
(* Properties.                                                             *)
(***************************************************************************)

(* A device is told of an intent once, except that a pass which died after *)
(* the push service took the notification lets it be told again: no retry  *)
(* of the job, no sweep and no answer nobody knows repeats it              *)
(* (performPreparePushDelivery, settleLegOutcome, completePushJob).        *)
NotifiedOnce ==
  \A p \in Persons, e \in Entries, d \in Devices : received[p][e][d] <= 1 + lost[p][e][d]

(* Once the notification stage of a deleted source is through, nothing     *)
(* that is still to be sent, nor what was kept of it when it was given up, *)
(* shows the source: not the summary of another entry it was fired with,   *)
(* and not a clarification that quotes it (pushIntentAffectedByPurge,      *)
(* payloadInputsOf).                                                       *)
NothingClearedIsPrepared ==
  \A s \in cleared, p \in Persons, e \in Entries, d \in Devices :
    sendings[p][e][d].state \in {"pending", "suppressed"} =>
      \A x \in sendings[p][e][d].text : SourceOf(x) # s

=============================================================================
