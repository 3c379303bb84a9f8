------------------------- MODULE MCDurableExecution -------------------------
(* Small instances of DurableExecution for TLC.  A record is a function on *)
(* the strings that name its fields, so it assigns a kind to each key.     *)
EXTENDS DurableExecution

MCDeliveryKeys == {"echo1", "flow1", "silent1"}
MCDeliveryKind == [echo1 |-> "echo", flow1 |-> "flow", silent1 |-> "silent"]
MCDeliverySelf == {"echo1"}

MCMixedKeys == {"echo1", "clean1", "inline1"}
MCMixedKind == [echo1 |-> "echo", clean1 |-> "cleanup", inline1 |-> "inline"]
MCMixedSelf == {"clean1"}
=============================================================================
