--------------------------- MODULE ExternalDelivery ---------------------------
(***************************************************************************)
(* What the durable-execution engine promises the caller of an operation   *)
(* with an external effect: the effect takes place at most once, a         *)
(* confirmation is never wrong and never taken back, a definite failure    *)
(* means that nothing happened and nothing still can, and an outcome that  *)
(* nobody knows is reported as such and not retried blindly.               *)
(***************************************************************************)

CONSTANTS
  Ops,       \* operations, by dedup identity
  AttemptIds \* the identities an external call can have

VARIABLES
  report,  \* what the engine says about each operation
  effects  \* the external calls that took effect

Reports == {"none", "open", "confirmed", "failed", "uncertain"}

Init ==
  /\ report = [d \in Ops |-> "none"]
  /\ effects = [d \in Ops |-> {}]

(* Operations are accepted, or taken up again after a failure: only when   *)
(* no effect took place.  A batch may do so for several operations.        *)
Open(D) ==
  /\ \A d \in D :
       \/ report[d] = "none"
       \/ report[d] \in {"failed", "uncertain"} /\ effects[d] = {}
  /\ report' = [d \in Ops |-> IF d \in D THEN "open" ELSE report[d]]
  /\ UNCHANGED effects

(* The effect takes place: while the operation is open, or after the       *)
(* engine stopped waiting for it, never after a definite failure.          *)
TakeEffect(d, n) ==
  /\ report[d] \in {"open", "uncertain"}
  /\ effects[d] = {}
  /\ effects' = [effects EXCEPT ![d] = {n}]
  /\ UNCHANGED report

Confirm(d) ==
  /\ report[d] \in {"open", "uncertain"}
  /\ effects[d] # {}
  /\ report' = [report EXCEPT ![d] = "confirmed"]
  /\ UNCHANGED effects

Fail(d) ==
  /\ report[d] = "open"
  /\ effects[d] = {}
  /\ report' = [report EXCEPT ![d] = "failed"]
  /\ UNCHANGED effects

GiveUp(d) ==
  /\ report[d] = "open"
  /\ report' = [report EXCEPT ![d] = "uncertain"]
  /\ UNCHANGED effects

Next ==
  \/ \E D \in SUBSET Ops : Open(D)
  \/ \E d \in Ops :
       \/ \E n \in AttemptIds : TakeEffect(d, n)
       \/ Confirm(d)
       \/ Fail(d)
       \/ GiveUp(d)

Spec == Init /\ [][Next]_<<report, effects>>
=============================================================================
