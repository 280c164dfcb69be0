----------------------------- MODULE EventLedger -----------------------------
(***************************************************************************)
(* What the inbox of payment events promises, whoever works on an event and*)
(* whatever fails: an event is put on record before anything else happens  *)
(* to it and stays there; it is called applied only after its effect; and  *)
(* an outcome is never taken back, but for a failure that is found later.  *)
(* WebhookInbox implements this with rows, handlers, a job and crashes.    *)
(***************************************************************************)
EXTENDS Naturals

CONSTANTS
    Events,
    MaxEffects   \* effects[e] saturates here

VARIABLES
    known,    \* the events on record
    effects,  \* effects[e]: how many times e took effect
    outcome   \* outcome[e]: none yet, applied or failed

ledgervars == <<known, effects, outcome>>

Init ==
    /\ known = {}
    /\ effects = [e \in Events |-> 0]
    /\ outcome = [e \in Events |-> "none"]

Record(e) ==
    /\ known' = known \cup {e}
    /\ UNCHANGED <<effects, outcome>>

Apply(e) ==
    /\ e \in known
    /\ effects' = [effects EXCEPT ![e] = IF @ < MaxEffects THEN @ + 1 ELSE @]
    /\ UNCHANGED <<known, outcome>>

Settle(e) ==
    /\ e \in known
    /\ effects[e] > 0 /\ outcome[e] = "none"
    /\ outcome' = [outcome EXCEPT ![e] = "applied"]
    /\ UNCHANGED <<known, effects>>

Fail(e) ==
    /\ e \in known
    /\ outcome' = [outcome EXCEPT ![e] = "failed"]
    /\ UNCHANGED <<known, effects>>

Next == \E e \in Events : Record(e) \/ Apply(e) \/ Settle(e) \/ Fail(e)

Spec == Init /\ [][Next]_ledgervars
=============================================================================
