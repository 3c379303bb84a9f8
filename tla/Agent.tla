-------------------------------- MODULE Agent --------------------------------
(* The answer loop over the shared memory (convex/agent, packages/agent/tools): *)
(* an action loads the firm's findings with the evidence that grounds them,     *)
(* takes a bounded number of model turns, and executes the calls of each turn   *)
(* one after the other, every write and every recheck in a transaction of its   *)
(* own while the memory moves on.  The model is untrusted: it may call anything *)
(* with any arguments.  A refused call changes nothing, so it is no step.       *)
EXTENDS Memory

CONSTANTS
  Question,          \* the message that asks
  Cases,             \* clarifications
  MaxTurns,          \* MAX_ANSWER_TURNS
  MaxRefreshes,      \* MAX_ANSWER_REFRESHES
  MaxRaised,         \* MAX_ANSWER_CLARIFICATIONS
  NoAnswer, Unanchored

ASSUME AgentAssumption ==
  /\ Question \in Messages
  /\ MaxTurns \in Nat \ {0} /\ MaxRefreshes \in Nat /\ MaxRaised \in Nat
  /\ Unanchored \notin Findings

VARIABLES
  ask,               \* the run between its rounds
  context,           \* what it has loaded: the findings and the open cases
  ledger,            \* the evidence the model may cite
  answer,            \* the accepted answer
  record,            \* the durable record of the run, written best effort
  cases,
  signedIn           \* does the author of the question have a session?

agentVars == <<ask, context, ledger, answer, record, cases, signedIn>>

Outcomes == {"none", "answered", "clarified", "gave_up", "provider_failed"}
Evidence ==
  [source : Messages, grounds : Findings \union {Unanchored}, updating : BOOLEAN]
Statement ==
  [basis : {"direct", "corroboration", "inference"}, cites : SUBSET Evidence,
   derivedFrom : SUBSET Findings]

Idle ==
  [step |-> "none", turns |-> 0, refreshes |-> 0, raised |-> 0, done |-> FALSE,
   outcome |-> "none"]
NothingLoaded ==
  [findings |-> [f \in Findings |-> [revision |-> 0, tag |-> "none"]], open |-> {}]

AgentInit ==
  /\ ask = Idle
  /\ context = NothingLoaded
  /\ ledger = {}
  /\ answer = NoAnswer
  /\ record = [state |-> "none", outcome |-> "none", turns |-> {}]
  /\ cases \in [Cases -> {"none", "open"}]
  /\ signedIn = TRUE

Open == {c \in Cases : cases[c] = "open"}

CurrentContext ==
  [findings |-> [f \in Findings |-> [revision |-> findings[f].revision, tag |-> findings[f].tag]],
   open |-> Open]

(* Only a source that is active grounds what the model may cite.              *)
CurrentEvidence ==
  UNION {{[source |-> w, grounds |-> f, updating |-> findings[f].tag = "updating"] :
            w \in {s \in findings[f].witnesses : Active(s)}} : f \in Findings}

StartAnswerRun ==
  /\ ask = Idle
  /\ Active(Question)
  /\ ask' = [ask EXCEPT !.step = "round"]
  /\ context' = CurrentContext
  /\ ledger' = CurrentEvidence
  /\ record' \in {record, [record EXCEPT !.state = "started"]}
  /\ UNCHANGED <<answer, cases, signedIn>>

-----------------------------------------------------------------------------
(* Rounds.                                                                    *)

OwnOutcome ==
  CASE answer # NoAnswer -> "answered"
    [] answer = NoAnswer /\ ask.raised > 0 -> "clarified"
    [] answer = NoAnswer /\ ask.raised = 0 -> "gave_up"

Finished(run, outcome) == [run EXCEPT !.step = "over", !.outcome = outcome]

(* The finalize is dropped, or finds no row of a start that was dropped.      *)
Finalized(row, outcome) ==
  {row} \union
    (IF row.state = "none" THEN {} ELSE {[row EXCEPT !.state = "final", !.outcome = outcome]})

Noted == {record, [record EXCEPT !.turns = @ \union {ask.turns + 1}]}

TurnLeft == ask.step = "round" /\ ask.turns < MaxTurns

(* The model called tools.                                                    *)
TakeTurn ==
  /\ TurnLeft
  /\ ask' = [ask EXCEPT !.step = "calls", !.turns = @ + 1]
  /\ record' \in Noted
  /\ UNCHANGED <<context, ledger, answer, cases, signedIn>>

(* The model wrote text: it is told that text is no answer, unless it has     *)
(* answered or asked, or this was its last turn.                              *)
TakeTextTurn ==
  /\ TurnLeft
  /\ LET over == \/ answer # NoAnswer \/ ask.raised > 0
                 \/ ask.turns + 1 = MaxTurns
         next == [ask EXCEPT !.turns = @ + 1]
     IN /\ ask' = IF over THEN Finished(next, OwnOutcome) ELSE next
        /\ \E row \in Noted : record' \in (IF over THEN Finalized(row, OwnOutcome) ELSE {row})
  /\ UNCHANGED <<context, ledger, answer, cases, signedIn>>

(* Output that is malformed does not undo an answer that was accepted.        *)
ProviderFails(rejected) ==
  /\ TurnLeft
  /\ LET outcome == IF rejected /\ answer # NoAnswer THEN OwnOutcome ELSE "provider_failed"
     IN /\ ask' = Finished([ask EXCEPT !.turns = @ + 1], outcome)
        /\ \E row \in Noted : record' \in Finalized(row, outcome)
  /\ UNCHANGED <<context, ledger, answer, cases, signedIn>>

SpendTurns ==
  /\ ask.step = "round" /\ ask.turns = MaxTurns
  /\ ask' = Finished(ask, OwnOutcome)
  /\ record' \in Finalized(record, OwnOutcome)
  /\ UNCHANGED <<context, ledger, answer, cases, signedIn>>

(* Every call of the turn has been executed.                                  *)
EndTurn ==
  /\ ask.step = "calls"
  /\ ask' = IF ask.done THEN Finished(ask, OwnOutcome) ELSE [ask EXCEPT !.step = "round"]
  /\ record' \in (IF ask.done THEN Finalized(record, OwnOutcome) ELSE {record})
  /\ UNCHANGED <<context, ledger, answer, cases, signedIn>>

(* The action dies: nothing ends its record.                                  *)
AskDies ==
  /\ ask.step \in {"round", "calls"}
  /\ ask' = [ask EXCEPT !.step = "dead"]
  /\ UNCHANGED <<context, ledger, answer, record, cases, signedIn>>

-----------------------------------------------------------------------------
(* Calls.                                                                     *)

SearchEvidence ==
  /\ ask.step = "calls"
  /\ \E s \in {m \in Messages \ {Question} : Active(m)} :
       ledger' = ledger \union {[source |-> s, grounds |-> Unanchored, updating |-> FALSE]}
  /\ UNCHANGED <<ask, context, answer, record, cases, signedIn>>

Loaded == {f \in Findings : context.findings[f].tag # "none"}

Moved == {f \in Loaded : findings[f].revision # context.findings[f].revision}

(* What a citation grounds is neither updating nor disputed, as far as loaded. *)
MayGround(e) ==
  e.grounds \in Loaded =>
    ~e.updating /\ context.findings[e.grounds].tag \notin {"updating", "conflicted"}

StatementStands(st) ==
  /\ st.cites \subseteq ledger
  /\ \A e \in st.cites : MayGround(e)
  /\ st.basis = "direct" => st.cites # {}
  /\ st.basis = "corroboration" => Cardinality({e.source : e \in st.cites}) >= 2
  /\ st.basis = "inference" =>
       /\ st.derivedFrom # {}
       /\ \A f \in st.derivedFrom : context.findings[f].tag = "known"

(* A fault: with the refreshes spent the answer is taken as it is.            *)
CurrentOrSpent == Moved = {} \/ ask.refreshes >= MaxRefreshes

(* Only a recheck that ran and found nothing moved accepts.                   *)
PlanAccepts == Moved = {}

SubmitAnswer(st) ==
  /\ ask.step = "calls"
  /\ Active(Question) /\ PlanAccepts
  /\ answer = NoAnswer
  /\ StatementStands(st)
  /\ answer' = st
  /\ ask' = [ask EXCEPT !.done = TRUE]
  /\ UNCHANGED <<context, ledger, record, cases, signedIn>>

(* The turn ends here, whatever calls were left; the evidence stays.          *)
RefreshContext ==
  /\ ask.step = "calls"
  /\ Active(Question) /\ Moved # {} /\ ask.refreshes < MaxRefreshes
  /\ ask' = [ask EXCEPT !.step = "round", !.refreshes = @ + 1, !.done = FALSE]
  /\ context' = CurrentContext
  /\ UNCHANGED <<ledger, answer, record, cases, signedIn>>

(* requireQuestionSourceSession and the sources that are cited.               *)
MayExecute(cites) ==
  /\ Active(Question) /\ signedIn
  /\ \A e \in cites : Active(e.source)

(* When the answer of the mutation is lost the model hears a refusal, and the *)
(* case that was raised is no case of the run.                                *)
AskClarification(c, cites, heard) ==
  /\ ask.step = "calls"
  /\ ask.raised < MaxRaised
  /\ cites # {} /\ cites \subseteq ledger
  /\ MayExecute(cites)
  /\ cases[c] = "none"
  /\ cases' = [cases EXCEPT ![c] = "open"]
  /\ ask' = IF heard THEN [ask EXCEPT !.raised = @ + 1] ELSE ask
  /\ UNCHANGED <<context, ledger, answer, record, signedIn>>

ResolveClarification(c, cites) ==
  /\ ask.step = "calls"
  /\ c \in context.open
  /\ cites # {} /\ cites \subseteq ledger
  /\ MayExecute(cites)
  /\ cases[c] = "open"
  /\ cases' = [cases EXCEPT ![c] = "resolved"]
  /\ UNCHANGED <<ask, context, ledger, answer, record, signedIn>>

SignOut ==
  /\ signedIn
  /\ signedIn' = FALSE
  /\ UNCHANGED <<ask, context, ledger, answer, record, cases>>

AgentStep ==
  \/ StartAnswerRun
  \/ TakeTurn
  \/ TakeTextTurn
  \/ \E rejected \in BOOLEAN : ProviderFails(rejected)
  \/ SpendTurns
  \/ EndTurn
  \/ AskDies
  \/ SearchEvidence
  \/ \E st \in [basis : {"direct", "corroboration", "inference"}, cites : SUBSET ledger,
                derivedFrom : SUBSET Loaded] : SubmitAnswer(st)
  \/ RefreshContext
  \/ \E c \in Cases, cites \in SUBSET ledger :
       \/ \E heard \in BOOLEAN : AskClarification(c, cites, heard)
       \/ ResolveClarification(c, cites)
  \/ SignOut

AgentNext ==
  \/ AgentStep /\ UNCHANGED memoryVars
  \/ MemoryNext /\ UNCHANGED agentVars

AgentSpec == MemoryInit /\ AgentInit /\ [][AgentNext]_<<memoryVars, agentVars>>

-----------------------------------------------------------------------------
AgentTypeOK ==
  /\ ask \in [step : {"none", "round", "calls", "over", "dead"}, turns : 0..MaxTurns,
              refreshes : 0..MaxRefreshes, raised : 0..MaxRaised, done : BOOLEAN,
              outcome : Outcomes]
  /\ \A f \in Findings : context.findings[f].revision \in Nat
  /\ context.open \subseteq Cases
  /\ ledger \subseteq Evidence
  /\ answer = NoAnswer \/ answer \in Statement
  /\ record \in [state : {"none", "started", "final"}, outcome : Outcomes,
                 turns : SUBSET (1..MaxTurns)]
  /\ cases \in [Cases -> {"none", "open", "resolved"}]
  /\ signedIn \in BOOLEAN

(* An inference is accepted only if every finding it derives from is known in *)
(* the memory at that moment, however the memory moved while the model was    *)
(* thinking and whatever it loaded (toolExecution.ts, gateSubmitFreshness:    *)
(* the answer never lands over a superseded world).                           *)
InferencesRestOnKnownFindings ==
  [][answer' # answer /\ answer'.basis = "inference" =>
       \A f \in answer'.derivedFrom : findings[f].tag = "known"]_<<memoryVars, agentVars>>
=============================================================================
