---------------------------- MODULE WebhookInbox ----------------------------
(***************************************************************************)
(* The inbox of payment events: BillingUseCase.HandleWebhook, the rows of  *)
(* payment_webhook_events it keeps, and the webhook_retry job.             *)
(*                                                                         *)
(* Every HTTP request that carries an event runs HandleWebhook on its own  *)
(* goroutine, one database statement at a time, so two deliveries of the   *)
(* same event, the retry job and a crash of the process interleave between *)
(* any two statements.  What an event does to its tenant is abstracted to  *)
(* a number, applied[e]: how many times its processing ended well.         *)
(***************************************************************************)
EXTENDS Naturals, FiniteSets

CONSTANTS
    Events,      \* event ids sent by the gateway
    Handlers,    \* goroutines that may serve a delivery at the same time
    NoEvent,     \* what an idle handler holds
    MaxCrashes,  \* bound on process restarts
    MaxApplied   \* applied[e] saturates here

ASSUME InboxAssumption ==
    /\ NoEvent \notin Events
    /\ MaxCrashes \in Nat
    /\ MaxApplied \in Nat \ {0}

VARIABLES
    row,      \* row[e]: the row of e in payment_webhook_events
    age,      \* age[e]: how created_at of e compares with the retry window
    applied,  \* applied[e]: times the processing of e succeeded
    gateway,  \* gateway[e]: what the gateway knows of its delivery of e
    pc, ev,   \* pc[h], ev[h]: next statement of handler h and its event
    job, batch,  \* the retry job: running or not, and the events it selected
    crashes,
    dbSound,  \* no statement on the inbox table fails; it never changes
    raced,    \* history: events two handlers have held at the same time
    cut       \* history: events a crash has taken from a handler

vars == <<row, age, applied, gateway, pc, ev, job, batch, crashes>>
watched == <<dbSound, raced, cut>>

-----------------------------------------------------------------------------
(* stored: the row exists; processed: processed_at IS NOT NULL; failed:    *)
(* processing_error IS NOT NULL.                                           *)
Row == [stored : BOOLEAN, processed : BOOLEAN, failed : BOOLEAN]
Absent == [stored |-> FALSE, processed |-> FALSE, failed |-> FALSE]

(* created_at is younger than 5 minutes, inside the window of the retry    *)
(* query, or older than 3 days.                                            *)
Ages == {"fresh", "retriable", "expired"}

Steps == {"idle", "exists", "create", "process", "markProcessed",
          "markFailed", "answer"}

Once(n) == IF n < MaxApplied THEN n + 1 ELSE n

TypeOK ==
    /\ row \in [Events -> Row]
    /\ age \in [Events -> Ages]
    /\ applied \in [Events -> 0 .. MaxApplied]
    /\ gateway \in [Events -> {"unsent", "unanswered", "answered"}]
    /\ pc \in [Handlers -> Steps]
    /\ ev \in [Handlers -> Events \cup {NoEvent}]
    /\ \A h \in Handlers : ev[h] = NoEvent <=> pc[h] = "idle"
    /\ job \in {"idle", "running"}
    /\ batch \in SUBSET Events
    /\ crashes \in 0 .. MaxCrashes
    /\ dbSound \in BOOLEAN /\ raced \in SUBSET Events /\ cut \in SUBSET Events

Init ==
    /\ row = [e \in Events |-> Absent]
    /\ age = [e \in Events |-> "fresh"]
    /\ applied = [e \in Events |-> 0]
    /\ gateway = [e \in Events |-> "unsent"]
    /\ pc = [h \in Handlers |-> "idle"]
    /\ ev = [h \in Handlers |-> NoEvent]
    /\ job = "idle"
    /\ batch = {}
    /\ crashes = 0
    /\ dbSound \in BOOLEAN /\ raced = {} /\ cut = {}

-----------------------------------------------------------------------------
(* The gateway delivers e until it is answered; it may send e again while  *)
(* an earlier delivery is still being served (external).                   *)
Deliver(h, e) ==
    /\ pc[h] = "idle"
    /\ gateway[e] # "answered"
    /\ gateway' = [gateway EXCEPT ![e] = "unanswered"]
    /\ pc' = [pc EXCEPT ![h] = "exists"]
    /\ ev' = [ev EXCEPT ![h] = e]
    /\ UNCHANGED <<row, age, applied, job, batch, crashes>>

Goto(h, step) ==
    /\ pc' = [pc EXCEPT ![h] = step]
    /\ UNCHANGED <<age, gateway, ev, job, batch, crashes>>

(* Mutants of CheckExists: never finds the row; takes any row as handled.  *)
CheckExistsBlind(h) ==
    pc[h] = "exists" /\ Goto(h, "create") /\ UNCHANGED <<row, applied>>
CheckExistsAnyRow(h) ==
    /\ pc[h] = "exists"
    /\ Goto(h, IF row[ev[h]].stored THEN "answer" ELSE "create")
    /\ UNCHANGED <<row, applied>>

(* Exists: only a row with processed_at counts as already handled.         *)
CheckExists(h) ==
    /\ pc[h] = "exists"
    /\ Goto(h, IF row[ev[h]].processed THEN "answer" ELSE "create")
    /\ UNCHANGED <<row, applied>>

(* Mutant of CreatePending: processes without recording first.             *)
SkipPending(h) ==
    pc[h] = "create" /\ Goto(h, "process") /\ UNCHANGED <<row, applied>>

(* CreatePending: INSERT ... ON CONFLICT DO NOTHING.                       *)
CreatePending(h) ==
    /\ pc[h] = "create"
    /\ row' = [row EXCEPT ![ev[h]].stored = TRUE]
    /\ Goto(h, "process")
    /\ UNCHANGED applied

(* An error of Exists or CreatePending ends HandleWebhook before any row.  *)
RecordFails(h) ==
    /\ ~dbSound
    /\ pc[h] \in {"exists", "create"}
    /\ Goto(h, "answer")
    /\ UNCHANGED <<row, applied>>

(* processWebhookEvent, seen from the inbox: it succeeds or it errors.     *)
Process(h) ==
    /\ pc[h] = "process"
    /\ \/ /\ applied' = [applied EXCEPT ![ev[h]] = Once(@)]
          /\ Goto(h, "markProcessed")
       \/ /\ UNCHANGED applied
          /\ Goto(h, "markFailed")
    /\ UNCHANGED row

SetProcessed(r) == [r EXCEPT !.processed = TRUE]

(* Mutant of SetFailed: the error is not recorded.                         *)
SetFailedSilently(r) == [r EXCEPT !.processed = TRUE]

(* MarkFailed writes processed_at as well as processing_error.             *)
SetFailed(r) == [r EXCEPT !.processed = TRUE, !.failed = TRUE]

(* The error of MarkProcessed and MarkFailed is not looked at.             *)
MarkProcessed(h) ==
    /\ pc[h] = "markProcessed"
    /\ \/ row' = [row EXCEPT ![ev[h]] = SetProcessed(@)]
       \/ ~dbSound /\ UNCHANGED row
    /\ Goto(h, "answer")
    /\ UNCHANGED applied

MarkFailed(h) ==
    /\ pc[h] = "markFailed"
    /\ \/ row' = [row EXCEPT ![ev[h]] = SetFailed(@)]
       \/ ~dbSound /\ UNCHANGED row
    /\ Goto(h, "answer")
    /\ UNCHANGED applied

(* Mutant of Answer: the handler keeps its event.                          *)
AnswerKeepsEvent(h) ==
    /\ pc[h] = "answer"
    /\ Goto(h, "idle")
    /\ UNCHANGED <<row, applied>>

(* HandleAsaasWebhook answers 200 whatever HandleWebhook returned; the     *)
(* answer may be lost on its way.                                          *)
Answer(h) ==
    /\ pc[h] = "answer"
    /\ \/ gateway' = [gateway EXCEPT ![ev[h]] = "answered"]
       \/ UNCHANGED gateway
    /\ pc' = [pc EXCEPT ![h] = "idle"]
    /\ ev' = [ev EXCEPT ![h] = NoEvent]
    /\ UNCHANGED <<row, age, applied, job, batch, crashes>>

-----------------------------------------------------------------------------
(* GetPendingRetries: processed_at IS NULL, processing_error IS NOT NULL   *)
(* and created_at inside the window.                                       *)
PendingRetries ==
    {e \in Events : /\ row[e].stored
                    /\ ~row[e].processed
                    /\ row[e].failed
                    /\ age[e] = "retriable"}

RetrySelect ==
    /\ job = "idle"
    /\ job' = "running"
    /\ batch' = PendingRetries
    /\ UNCHANGED <<row, age, applied, gateway, pc, ev, crashes>>

(* RetryFailedWebhooks processes what it selected; good is what succeeds.  *)
RetryRun ==
    /\ job = "running"
    /\ \E good \in SUBSET batch :
          /\ applied' = [e \in Events |->
                            IF e \in good THEN Once(applied[e]) ELSE applied[e]]
          /\ row' = [e \in Events |->
                        IF e \in good THEN SetProcessed(row[e])
                        ELSE IF e \in batch THEN SetFailed(row[e])
                        ELSE row[e]]
    /\ job' = "idle"
    /\ batch' = {}
    /\ UNCHANGED <<age, gateway, pc, ev, crashes>>

(* created_at of e grows older.                                            *)
Age(e) ==
    /\ row[e].stored
    /\ \/ age[e] = "fresh" /\ age' = [age EXCEPT ![e] = "retriable"]
       \/ age[e] = "retriable" /\ age' = [age EXCEPT ![e] = "expired"]
    /\ UNCHANGED <<row, applied, gateway, pc, ev, job, batch, crashes>>

(* The process dies: requests and the job run are lost, rows stay.         *)
Crash ==
    /\ crashes < MaxCrashes
    /\ crashes' = crashes + 1
    /\ pc' = [h \in Handlers |-> "idle"]
    /\ ev' = [h \in Handlers |-> NoEvent]
    /\ job' = "idle"
    /\ batch' = {}
    /\ UNCHANGED <<row, age, applied, gateway>>

HandleWebhook(h) ==
    \/ CheckExists(h)
    \/ CreatePending(h)
    \/ RecordFails(h)
    \/ Process(h)
    \/ MarkProcessed(h)
    \/ MarkFailed(h)
    \/ Answer(h)

Step ==
    \/ \E h \in Handlers, e \in Events : Deliver(h, e)
    \/ \E h \in Handlers : HandleWebhook(h)
    \/ RetrySelect
    \/ RetryRun
    \/ \E e \in Events : Age(e)
    \/ Crash

(* What disturbed an event, for the properties; no action reads it.        *)
Shared(e) == \E g, h \in Handlers : g # h /\ ev[g] = e /\ ev[h] = e
Watch ==
    /\ raced' = raced \cup {e \in Events : Shared(e)'}
    /\ cut' = IF crashes' = crashes THEN cut
              ELSE cut \cup {e \in Events : \E h \in Handlers : ev[h] = e}
    /\ UNCHANGED dbSound

Next == Step /\ Watch

Spec == Init /\ [][Next]_<<vars, watched>>

(* A started request runs to its end, the scheduler keeps running the job, *)
(* and the gateway insists on an event until it is answered.               *)
Fairness ==
    /\ \A h \in Handlers : WF_vars(HandleWebhook(h))
    /\ WF_vars(RetrySelect) /\ WF_vars(RetryRun)
    /\ \A e \in Events : SF_vars(\E h \in Handlers : Deliver(h, e))

FairSpec == Spec /\ Fairness

-----------------------------------------------------------------------------
(* An event recorded as handled without an error was really applied: no    *)
(* interleaving of deliveries, retries and crashes swallows an event by    *)
(* marking it before, or instead of, processing it.                        *)
DoneWasApplied ==
    \A e \in Events :
        row[e].processed /\ ~row[e].failed => applied[e] > 0

(* Write-ahead: the effect of an event never exists without the inbox row  *)
(* that makes a later delivery recognise it.                               *)
RecordedBeforeEffect ==
    \A e \in Events : applied[e] > 0 => row[e].stored

(* What the row of an event says became of it.                             *)
Outcome(r) ==
    IF r.failed THEN "failed" ELSE IF r.processed THEN "applied" ELSE "none"

Ledger == INSTANCE EventLedger WITH
              known <- {e \in Events : row[e].stored},
              effects <- applied,
              outcome <- [e \in Events |-> Outcome(row[e])],
              MaxEffects <- MaxApplied

(* The inbox is a ledger (EventLedger): however deliveries, the retry job, *)
(* failing statements and crashes interleave, no row of an event is lost,  *)
(* nothing is applied that is not on record, and no outcome is written that*)
(* did not happen or is forgotten again.                                   *)
KeepsLedger == Ledger!Spec

(* Idempotent processing: however often the gateway sends an event again,  *)
(* its effect happens once, unless two deliveries overlapped, a statement  *)
(* failed or a crash took one of them away.                                *)
ProcessedOnce ==
    dbSound => \A e \in Events \ (raced \cup cut) : applied[e] <= 1

HasOutcome(e) == row[e].processed \/ row[e].failed

(* A failed event that was not applied stays visible to the retry job for  *)
(* as long as it is inside the three-day window.                           *)
FailedAwaitsRetry ==
    \A e \in Events :
        row[e].failed /\ applied[e] = 0 /\ age[e] = "retriable"
            => e \in PendingRetries

=============================================================================
