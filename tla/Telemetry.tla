------------------------------ MODULE Telemetry ------------------------------
(* What the operators see (operations/telemetry): diagnostic events with the  *)
(* identity that keeps a scan from reporting twice, the heartbeats of the     *)
(* services, the spending of a month with its alerts, and the tick that scans, *)
(* prunes and forwards to the sink outside.  A step of the tick is one        *)
(* transaction, or the call to the sink; the tick may die between any two.    *)
EXTENDS Naturals, Sequences, FiniteSets

CONSTANTS
  Troubles,           \* jobs, outbox rows and runs that may stand as an incident
  Services, Sink,     \* who sends heartbeats; the tick writes those of Sink
  Cadence, Tolerance, \* a service is silent after Tolerance missed cadences
  Failures,           \* classes of a forward that failed
  ForwardWindow, ForwardBatch, KeptFor, PruneBatch,
  TailKept,           \* heartbeats kept per service
  Bills, Amounts,     \* identities of cost entries, and what one may cost
  Levels, Threshold, Cooldown,
  Months, Horizon,    \* months 1 .. Months, and for how many the spending is kept
  MaxClock, Unset

Periods == 1 .. Months
Times == 0 .. MaxClock

ASSUME TelemetryNumbers ==
  /\ Tolerance \in Nat /\ Cadence \in [Services -> Nat] /\ Sink \in Services
  /\ ForwardWindow \in Nat /\ ForwardBatch \in Nat \ {0} /\ KeptFor \in Nat /\ PruneBatch \in Nat \ {0}
  /\ TailKept \in Nat \ {0} /\ Amounts \subseteq Nat
  /\ Threshold \in [Levels -> Nat] /\ Cooldown \in Nat
  /\ Months \in Nat \ {0} /\ Horizon \in Nat /\ MaxClock \in Nat
  /\ "ok" \notin Failures /\ Unset \notin Failures \union {"ok", "never"} /\ "never" \notin Failures

VARIABLES
  clock, month,
  standing,    \* the troubles that stand
  events,      \* diagnosticEvents
  written,     \* transactions that wrote events so far
  beats,       \* healthHeartbeats, per service the newest first
  spent,       \* costEntries: what a month sums up to
  billed,      \* their identities
  alerts,      \* costAlertStates, per month and level
  tick         \* the tick under way

telemetryVars == <<clock, month, standing, events, written, beats, spent, billed, alerts, tick>>

VARIABLES ingested, outcome     \* what reached the sink; how the last forward ended
telemetryHistory == <<ingested, outcome>>

Statuses == {"ok"} \union Failures

IncidentKeys == [of : {"incident"}, trouble : Troubles]
SilenceKeys == [of : {"silence"}, service : Services, since : Times]
AlertKeys == [of : {"alert"}, level : Levels, period : Periods, count : Nat]
BillKeys == [of : {"bill"}, bill : Bills]
Keys == IncidentKeys \union SilenceKeys \union AlertKeys \union BillKeys

\* The rows of one transaction share its number and differ in their keys.
EventRows == [no : Nat, key : Keys \union {Unset}, at : Times,
              forwardedAt : Times \union {Unset}, status : Statuses \union {Unset}]
Beats == [at : Times, status : {"ok", "degraded"}, forward : Statuses \union {Unset}]
AlertRows == [last : Times, fires : Nat]
ASSUME UnsetIsNoRow == Unset \notin AlertRows \union AlertKeys

Ticks == [step : {"idle", "silence", "costs", "prune", "read", "ingest", "mark"},
          batch : SUBSET EventRows, at : Times, status : Statuses \union {Unset}]
NoTick == [step |-> "idle", batch |-> {}, at |-> 0, status |-> Unset]

Name(row) == [no |-> row.no, key |-> row.key]
Names == [no : Nat, key : Keys \union {Unset}]

TelemetryTypeOK ==
  /\ clock \in Times /\ month \in Periods
  /\ standing \subseteq Troubles
  /\ events \subseteq EventRows
  /\ written \in Nat
  /\ beats \in [Services -> Seq(Beats)]
  /\ spent \in [Periods -> Nat]
  /\ billed \subseteq [bill : Bills, period : Periods]
  /\ alerts \in [Periods -> [Levels -> AlertRows \union {Unset}]]
  /\ tick \in Ticks
  /\ ingested \subseteq Names
  /\ outcome \in Statuses \union {Unset, "never"}

TelemetryInit ==
  /\ clock = 0 /\ month = 1
  /\ standing = {} /\ events = {} /\ written = 0
  /\ beats = [s \in Services |-> << >>]
  /\ spent = [p \in Periods |-> 0] /\ billed = {}
  /\ alerts = [p \in Periods |-> [l \in Levels |-> Unset]]
  /\ tick = NoTick
  /\ ingested = {} /\ outcome = "never"

(******************************************************************************)
(* Writing events: one row per key for as long as the row is kept.            *)
(******************************************************************************)
Known == {row.key : row \in events} \ {Unset}

EmitDiagnosticEvent(keys) ==
  /\ events' = events \union
       {[no |-> written + 1, key |-> k, at |-> clock, forwardedAt |-> Unset, status |-> Unset] :
          k \in keys \ Known}
  /\ written' = IF keys \subseteq Known THEN written ELSE written + 1

\* Newest first, and never more than are kept.
InsertHeartbeat(s, row) ==
  beats' = [beats EXCEPT ![s] =
              SubSeq(<<row>> \o @, 1, IF Len(@) < TailKept THEN Len(@) + 1 ELSE TailKept)]

RecordEvent ==
  /\ EmitDiagnosticEvent({Unset})
  /\ UNCHANGED <<clock, month, standing, beats, spent, billed, alerts, tick, telemetryHistory>>

\* A fault: anybody reports for the tick.
AnyReporter(s) == TRUE

MayReport(s) == s # Sink

RecordHeartbeat(s, status) ==
  /\ MayReport(s)
  /\ InsertHeartbeat(s, [at |-> clock, status |-> status, forward |-> Unset])
  /\ EmitDiagnosticEvent({Unset})
  /\ UNCHANGED <<clock, month, standing, spent, billed, alerts, tick, telemetryHistory>>

\* A bill is entered once, for the month it names; one without an identity always.
RecordCostEntry(amount, period) ==
  /\ spent' = [spent EXCEPT ![period] = @ + amount]
  /\ \/ billed' = billed /\ EmitDiagnosticEvent({Unset})
     \/ \E b \in Bills :
          /\ \A row \in billed : row.bill # b
          /\ billed' = billed \union {[bill |-> b, period |-> period]}
          /\ EmitDiagnosticEvent({[of |-> "bill", bill |-> b]})
  /\ UNCHANGED <<clock, month, standing, beats, alerts, tick, telemetryHistory>>

(******************************************************************************)
(* The tick.                                                                  *)
(******************************************************************************)
TickGoes(step) == tick' = [tick EXCEPT !.step = step]

ScanIncidents ==
  /\ tick.step = "idle"
  /\ EmitDiagnosticEvent({[of |-> "incident", trouble |-> x] : x \in standing})
  /\ TickGoes("silence")
  /\ UNCHANGED <<clock, month, standing, beats, spent, billed, alerts, telemetryHistory>>

\* Only a service that was heard of, once per silence.
Silent(s) == beats[s] # << >> /\ clock > beats[s][1].at + Cadence[s] * Tolerance

DetectSilence ==
  /\ tick.step = "silence"
  /\ EmitDiagnosticEvent({[of |-> "silence", service |-> s, since |-> beats[s][1].at] :
                            s \in {v \in Services : Silent(v)}})
  /\ TickGoes("costs")
  /\ UNCHANGED <<clock, month, standing, beats, spent, billed, alerts, telemetryHistory>>

Cools(row) == row # Unset /\ clock < row.last + Cooldown
Fires == {l \in Levels : spent[month] >= Threshold[l] /\ ~Cools(alerts[month][l])}
FireCount(row) == IF row = Unset THEN 0 ELSE row.fires

\* A fault: the identity of a firing leaves out its count.
SameFiring(l) == [of |-> "alert", level |-> l, period |-> month, count |-> 1]

Firing(l) == [of |-> "alert", level |-> l, period |-> month, count |-> FireCount(alerts[month][l]) + 1]

EvaluateCostAlerts ==
  /\ tick.step = "costs"
  /\ EmitDiagnosticEvent({Firing(l) : l \in Fires})
  /\ alerts' = [alerts EXCEPT ![month] =
                  [l \in Levels |-> IF l \in Fires THEN [last |-> clock, fires |-> FireCount(alerts[month][l]) + 1]
                                ELSE alerts[month][l]]]
  /\ TickGoes("prune")
  /\ UNCHANGED <<clock, month, standing, beats, spent, billed, telemetryHistory>>

\* n rows of a set, the ones first that `Before` the others.
Picks(S, n) ==
  {B \in SUBSET S : IF Cardinality(S) <= n THEN B = S ELSE Cardinality(B) = n}
Oldest(S, n) == {B \in Picks(S, n) : \A r \in B, q \in S \ B : r.no <= q.no}
Newest(S, n) == {B \in Picks(S, n) : \A r \in B, q \in S \ B : r.no >= q.no}

Outdated == {row \in events : row.at + KeptFor < clock}

\* Months past the horizon, which nothing reads, go with what belongs to them.
PruneExpired ==
  /\ tick.step = "prune"
  /\ \E gone \in Oldest(Outdated, PruneBatch) : events' = events \ gone
  /\ LET kept == {p \in Periods : p + Horizon >= month} IN
       /\ spent' = [p \in Periods |-> IF p \in kept THEN spent[p] ELSE 0]
       /\ billed' = {row \in billed : row.period \in kept}
       /\ alerts' = [p \in Periods |-> IF p \in kept THEN alerts[p] ELSE [l \in Levels |-> Unset]]
  /\ TickGoes("read")
  /\ UNCHANGED <<clock, month, standing, written, beats, telemetryHistory>>

Recent == {row \in events : row.at + ForwardWindow >= clock}

\* The newest are read first and those already forwarded then left out.
UnforwardedRecent ==
  /\ tick.step = "read"
  /\ \E batch \in Newest(Recent, ForwardBatch) :
       LET due == {row \in batch : row.forwardedAt = Unset} IN
         tick' = [step |-> IF due = {} THEN "mark" ELSE "ingest", batch |-> due, at |-> clock, status |-> Unset]
  /\ UNCHANGED <<clock, month, standing, events, written, beats, spent, billed, alerts, telemetryHistory>>

\* A sink that is not reached may have taken the batch.
Ingest ==
  /\ tick.step = "ingest"
  /\ \E status \in Statuses, took \in BOOLEAN :
       /\ status = "ok" => took
       /\ status # "unreachable" => took = (status = "ok")
       /\ ingested' = IF took THEN ingested \union {Name(row) : row \in tick.batch} ELSE ingested
       /\ tick' = [tick EXCEPT !.step = "mark", !.status = status]
  /\ UNCHANGED <<clock, month, standing, events, written, beats, spent, billed, alerts, outcome>>

\* A fault: the attempt marks the rows, whatever the sink answered.
MarkedAnyway(row) == [row EXCEPT !.forwardedAt = tick.at, !.status = "ok"]

Marked(row) ==
  IF tick.status = "ok" THEN [row EXCEPT !.forwardedAt = tick.at, !.status = "ok"]
  ELSE [row EXCEPT !.status = tick.status]

MarkForwarded ==
  /\ tick.step = "mark"
  /\ events' = (events \ tick.batch) \union {Marked(row) : row \in tick.batch}
  /\ InsertHeartbeat(Sink, [at |-> tick.at, forward |-> tick.status,
                            status |-> IF tick.status \in {Unset, "ok"} THEN "ok" ELSE "degraded"])
  /\ tick' = NoTick
  /\ outcome' = tick.status
  /\ UNCHANGED <<clock, month, standing, written, spent, billed, alerts, ingested>>

TickDies ==
  /\ tick.step # "idle"
  /\ tick' = NoTick
  /\ UNCHANGED <<clock, month, standing, events, written, beats, spent, billed, alerts, telemetryHistory>>

(******************************************************************************)
(* The world: time, months, and work that fails and is repaired.              *)
(******************************************************************************)
TimePasses ==
  /\ clock < MaxClock
  /\ clock' = clock + 1
  /\ month' \in {month, month + 1} \intersect Periods
  /\ UNCHANGED <<standing, events, written, beats, spent, billed, alerts, tick, telemetryHistory>>

TroubleTurns(x) ==
  /\ standing' = IF x \in standing THEN standing \ {x} ELSE standing \union {x}
  /\ UNCHANGED <<clock, month, events, written, beats, spent, billed, alerts, tick, telemetryHistory>>

TelemetryNext ==
  \/ RecordEvent
  \/ \E s \in Services, status \in {"ok", "degraded"} : RecordHeartbeat(s, status)
  \/ \E amount \in Amounts, period \in Periods : RecordCostEntry(amount, period)
  \/ ScanIncidents \/ DetectSilence \/ EvaluateCostAlerts \/ PruneExpired
  \/ UnforwardedRecent \/ Ingest \/ MarkForwarded \/ TickDies
  \/ TimePasses \/ \E x \in Troubles : TroubleTurns(x)

TelemetrySpec == TelemetryInit /\ [][TelemetryNext]_<<telemetryVars, telemetryHistory>>

(******************************************************************************)
(* What the health surface says of the forwarding leg.                        *)
(******************************************************************************)
ForwardState ==
  IF beats[Sink] = << >> THEN "never"
  ELSE LET status == beats[Sink][1].forward IN
       IF status = Unset THEN "idle" ELSE IF status = "ok" THEN "ok" ELSE "failing"

(******************************************************************************)
(* Properties.                                                                *)
(******************************************************************************)
(* What an alert state counts as fired was announced: the event of its last   *)
(* firing is there, or is past its retention.  No firing is swallowed as a    *)
(* repetition of an earlier one (evaluateCostAlerts, costAlertDedupKey).      *)
FiringIsAnnounced ==
  \A p \in Periods, l \in Levels :
    LET row == alerts[p][l] IN
      row # Unset =>
        \/ row.last + KeptFor < clock
        \/ \E e \in events : e.at = row.last
             /\ e.key = [of |-> "alert", level |-> l, period |-> p, count |-> row.fires]

(* The health surface tells how the last forward ended, whoever reports and   *)
(* whatever dies meanwhile, and a row that is marked has reached the sink     *)
(* (sinkForwardHealth, performRecordHeartbeat, performMarkForwarded).         *)
ForwardIsTold ==
  /\ ForwardState = CASE outcome \in Failures -> "failing"
                      [] outcome = Unset -> "idle"
                      [] OTHER -> outcome
  /\ \A row \in events : row.forwardedAt # Unset => Name(row) \in ingested
=============================================================================
