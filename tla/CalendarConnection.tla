------------------------- MODULE CalendarConnection -------------------------
(* A person's connection to a dedicated Google calendar                       *)
(* (src/convex/calendar/connection): one row per person, authorized by flows  *)
(* whose callback spends a single-use state, talks to Google outside any      *)
(* transaction and completes whatever the row has become meanwhile.           *)
EXTENDS Integers, FiniteSets

CONSTANTS Flows,        \* authorization attempts, in the order they start
          Accounts,     \* Google accounts of the person
          Calendars,    \* dedicated calendars, in the order they are created
          Firms,
          NoFlow, NoAccount, NoCalendar, NoFirm

ASSUME CalendarConnectionAssumption ==
  /\ Flows = 1..Cardinality(Flows)
  /\ Calendars = 1..Cardinality(Calendars)
  /\ NoFlow \notin Flows
  /\ NoAccount \notin Accounts
  /\ NoCalendar \notin Calendars
  /\ NoFirm \notin Firms

VARIABLES connection,   \* the calendarConnections row
          flows,        \* callbacks, from the start of their flow
          calendars,    \* what Google keeps
          activeFirm,   \* the person's earliest active membership
          refresh       \* the credential a refresh took to Google

connectionVars == <<connection, flows, calendars, activeFirm, refresh>>

Modes == {"connect", "switch", "recreate"}

\* Reasons the control tells apart; "failed" stands for the others.
Reasons == {"none", "failed", "creation_unknown", "calendar_access_lost",
            "refresh_failed", "membership_lost"}

Connection == [state : {"none", "pending_authorization", "connected", "disconnected", "error"},
               reason : Reasons, firm : Firms \cup {NoFirm},
               mode : Modes \cup {"none"}, ticket : Flows \cup {NoFlow}, expired : BOOLEAN,
               calendar : Calendars \cup {NoCalendar}, account : Accounts \cup {NoAccount},
               credential : Accounts \cup {NoAccount}]

Flow == [step : {"none", "consent", "exchange", "calendar", "complete", "done"},
         mode : Modes \cup {"none"},
         calendar : Calendars \cup {NoCalendar}, known : Accounts \cup {NoAccount},
         account : Accounts \cup {NoAccount}, reason : Reasons]

NoFlowYet == [step |-> "none", mode |-> "none", calendar |-> NoCalendar,
              known |-> NoAccount, account |-> NoAccount, reason |-> "none"]
FlowOver == [NoFlowYet EXCEPT !.step = "done"]

ConnectionTypeOK ==
  /\ connection \in Connection
  /\ flows \in [Flows -> Flow]
  /\ calendars \in [Calendars -> [owner : Accounts \cup {NoAccount},
                                  state : {"unmade", "live", "gone"}]]
  /\ activeFirm \in Firms \cup {NoFirm}
  /\ refresh \in Accounts \cup {NoAccount}

ConnectionInit ==
  /\ connection = [state |-> "none", reason |-> "none", firm |-> NoFirm, mode |-> "none",
                   ticket |-> NoFlow, expired |-> FALSE, calendar |-> NoCalendar,
                   account |-> NoAccount, credential |-> NoAccount]
  /\ flows = [f \in Flows |-> NoFlowYet]
  /\ calendars = [k \in Calendars |-> [owner |-> NoAccount, state |-> "unmade"]]
  /\ activeFirm \in Firms
  /\ refresh = NoAccount

-----------------------------------------------------------------------------
(* Row decisions.                                                             *)

\* The row without its flow fields.
WithoutFlow(row) ==
  [row EXCEPT !.ticket = NoFlow, !.mode = "none", !.expired = FALSE]

\* decideStartAuthorization, and the re-scope of a row of another firm.
MayStart(mode, acknowledged) ==
  CASE connection.state = "none" -> mode = "connect"
    [] connection.state = "pending_authorization" -> connection.expired
    [] connection.state = "connected" -> mode = "switch" \/ connection.firm # activeFirm
    [] connection.state = "disconnected" -> TRUE
    [] connection.state = "error" -> connection.reason = "creation_unknown" => acknowledged

\* A failed switch gives back the binding it was to replace.
RestoresBinding(row) == row.mode = "switch" /\ row.calendar # NoCalendar

FailedRow(row, reason) ==
  IF RestoresBinding(row)
  THEN [WithoutFlow(row) EXCEPT !.state = "connected"]
  ELSE [WithoutFlow(row) EXCEPT !.state = "error", !.reason = reason]

-----------------------------------------------------------------------------
(* A flow.                                                                    *)

StartAuthorization(f, mode, acknowledged) ==
  /\ activeFirm # NoFirm
  /\ flows[f].step = "none"
  /\ \A g \in Flows : g < f => flows[g].step # "none"
  /\ MayStart(mode, acknowledged)
  /\ connection' =
       LET row == [connection EXCEPT !.state = "pending_authorization", !.reason = "none",
                                     !.mode = mode, !.ticket = f, !.expired = FALSE]
       IN IF connection.firm = activeFirm THEN row
          ELSE [row EXCEPT !.firm = activeFirm, !.calendar = NoCalendar,
                           !.account = NoAccount, !.credential = NoAccount]
  /\ flows' = [flows EXCEPT ![f].step = "consent"]
  /\ UNCHANGED <<calendars, activeFirm, refresh>>

AuthorizationExpires ==
  /\ connection.state = "pending_authorization"
  /\ ~connection.expired
  /\ connection' = [connection EXCEPT !.expired = TRUE]
  /\ UNCHANGED <<flows, calendars, activeFirm, refresh>>

\* prepareCallbackTransaction: spend the state, then recheck the membership.
PrepareCallback(f) ==
  /\ flows[f].step = "consent"
  /\ connection.state = "pending_authorization"
  /\ connection.ticket = f
  /\ IF connection.expired
     THEN /\ connection' = FailedRow(connection, "failed")
          /\ flows' = [flows EXCEPT ![f] = FlowOver]
     ELSE IF activeFirm # connection.firm
     THEN /\ connection' = [connection EXCEPT !.state = "error", !.reason = "membership_lost",
                                              !.ticket = NoFlow, !.credential = NoAccount]
          /\ flows' = [flows EXCEPT ![f] = FlowOver]
     ELSE /\ connection' = [connection EXCEPT !.ticket = NoFlow]
          /\ flows' = [flows EXCEPT ![f] =
                         [@ EXCEPT !.step = "exchange", !.mode = connection.mode,
                                   !.calendar = connection.calendar,
                                   !.known = connection.account]]
  /\ UNCHANGED <<calendars, activeFirm, refresh>>

FlowFails(f, reason) ==
  flows' = [flows EXCEPT ![f] = [@ EXCEPT !.step = "complete", !.reason = reason,
                                          !.calendar = NoCalendar]]

\* A refusal, an error or a timeout of the exchange names no account.
ExchangeCode(f) ==
  /\ flows[f].step = "exchange"
  /\ \/ FlowFails(f, "failed")
     \/ \E a \in Accounts :
          flows' = [flows EXCEPT ![f] = [@ EXCEPT !.step = "calendar", !.account = a]]
  /\ UNCHANGED <<connection, calendars, activeFirm, refresh>>

\* decideCalendarStep.
VerifiesKnown(f) ==
  flows[f].calendar # NoCalendar /\ flows[f].known = flows[f].account

Reachable(k, a) == calendars[k].state = "live" /\ calendars[k].owner = a

ReadKnownCalendar(f) ==
  /\ flows[f].step = "calendar"
  /\ VerifiesKnown(f)
  /\ \/ /\ Reachable(flows[f].calendar, flows[f].account)
        /\ flows' = [flows EXCEPT ![f].step = "complete"]
     \/ /\ ~Reachable(flows[f].calendar, flows[f].account)
        /\ flows[f].mode # "recreate"
        /\ FlowFails(f, "calendar_access_lost")
     \/ FlowFails(f, "failed")
  /\ UNCHANGED <<connection, calendars, activeFirm, refresh>>

\* One creation, which may be refused or leave an id nobody learned.
CreateDedicatedCalendar(f, k) ==
  /\ flows[f].step = "calendar"
  /\ VerifiesKnown(f) =>
       /\ flows[f].mode = "recreate"
       /\ ~Reachable(flows[f].calendar, flows[f].account)
  /\ calendars[k].state = "unmade"
  /\ \A j \in Calendars : j < k => calendars[j].state # "unmade"
  /\ \/ UNCHANGED calendars /\ \E reason \in {"failed", "creation_unknown"} : FlowFails(f, reason)
     \/ /\ calendars' = [calendars EXCEPT ![k] = [owner |-> flows[f].account, state |-> "live"]]
        /\ \/ flows' = [flows EXCEPT ![f] = [@ EXCEPT !.step = "complete", !.calendar = k]]
           \/ FlowFails(f, "creation_unknown")
  /\ UNCHANGED <<connection, activeFirm, refresh>>

\* completeCallbackTransaction, whatever flow the row is pending for.
Completed(f) ==
  IF flows[f].reason = "none"
  THEN [WithoutFlow(connection) EXCEPT
          !.ticket = connection.ticket, !.state = "connected", !.reason = "none",
          !.calendar = flows[f].calendar, !.account = flows[f].account,
          !.credential = flows[f].account]
  ELSE IF RestoresBinding(connection)
  THEN [WithoutFlow(connection) EXCEPT !.ticket = connection.ticket, !.state = "connected"]
  ELSE LET row == [WithoutFlow(connection) EXCEPT !.ticket = connection.ticket,
                     !.state = "error", !.reason = flows[f].reason, !.credential = NoAccount]
       IN IF flows[f].account # NoAccount /\ connection.account # NoAccount
                                          /\ flows[f].account # connection.account
          THEN [row EXCEPT !.account = flows[f].account, !.calendar = NoCalendar]
          ELSE row

CompleteCallback(f) ==
  /\ flows[f].step = "complete"
  /\ flows' = [flows EXCEPT ![f] = FlowOver]
  /\ connection' = IF connection.state = "pending_authorization" THEN Completed(f)
                                                                 ELSE connection
  /\ UNCHANGED <<calendars, activeFirm, refresh>>

-----------------------------------------------------------------------------
(* Stops, and what happens at Google.                                         *)

StoppedRow(row) == [WithoutFlow(row) EXCEPT !.state = "disconnected", !.credential = NoAccount]

\* performDisconnect: a pending switch is cancelled, the rest is stopped.
Disconnected ==
  IF connection.state = "pending_authorization" /\ RestoresBinding(connection)
  THEN [WithoutFlow(connection) EXCEPT !.state = "connected"]
  ELSE StoppedRow(connection)

Disconnect ==
  /\ connection.state \notin {"none", "disconnected"}
  /\ connection' = Disconnected
  /\ UNCHANGED <<flows, calendars, activeFirm, refresh>>

\* calendar.connectCalendar: a pending flow completed by a command.
ConnectCalendar(k) ==
  /\ connection.state = "pending_authorization"
  /\ calendars[k].state # "unmade"
  /\ connection' = [WithoutFlow(connection) EXCEPT !.state = "connected", !.reason = "none",
                                                   !.calendar = k, !.credential = NoAccount]
  /\ UNCHANGED <<flows, calendars, activeFirm, refresh>>

\* refreshCredentials: the firm first, then the credential goes to Google.
LoadCredential ==
  /\ refresh = NoAccount
  /\ connection.state = "connected"
  /\ IF activeFirm # connection.firm
     THEN /\ connection' = [StoppedRow(connection) EXCEPT !.reason = "membership_lost"]
          /\ UNCHANGED refresh
     ELSE /\ refresh' = connection.credential
          /\ UNCHANGED connection
  /\ UNCHANGED <<flows, calendars, activeFirm>>

\* recordRefreshTransaction, on whatever the connected row has become; an
\* unknown answer changes nothing.
RecordRefresh ==
  /\ refresh # NoAccount
  /\ refresh' = NoAccount
  /\ \/ UNCHANGED connection
     \/ /\ connection.state = "connected"
        /\ \/ connection' = [connection EXCEPT !.credential = refresh]
           \/ connection' = [connection EXCEPT !.state = "error", !.reason = "refresh_failed",
                                               !.credential = NoAccount]
  /\ UNCHANGED <<flows, calendars, activeFirm>>

MembershipChanges(firm) ==
  /\ firm # activeFirm
  /\ activeFirm' = firm
  /\ UNCHANGED <<connection, flows, calendars, refresh>>

PersonDeletesCalendar(k) ==
  /\ calendars[k].state = "live"
  /\ calendars' = [calendars EXCEPT ![k].state = "gone"]
  /\ UNCHANGED <<connection, flows, activeFirm, refresh>>

ConnectionNext ==
  \/ \E f \in Flows :
       \/ \E mode \in Modes, acknowledged \in BOOLEAN : StartAuthorization(f, mode, acknowledged)
       \/ PrepareCallback(f)
       \/ ExchangeCode(f)
       \/ ReadKnownCalendar(f)
       \/ \E k \in Calendars : CreateDedicatedCalendar(f, k)
       \/ CompleteCallback(f)
  \/ AuthorizationExpires
  \/ Disconnect
  \/ LoadCredential
  \/ RecordRefresh
  \/ \E firm \in Firms \cup {NoFirm} : MembershipChanges(firm)
  \/ \E k \in Calendars : ConnectCalendar(k) \/ PersonDeletesCalendar(k)

=============================================================================
