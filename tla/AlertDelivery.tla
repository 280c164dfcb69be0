---------------------------- MODULE AlertDelivery ----------------------------
(***************************************************************************)
(* Loss alerts: BalanceCalculated records an alert and hands it to the     *)
(* queue of AlertUseCase, the delivery workers send it, and the            *)
(* alert_retry job sends again what failed or got stuck.                   *)
(*                                                                         *)
(* An alert key stands for a balance, a recipient, a channel and a type.   *)
(* Producers are the calculations (a request, an import, the nightly       *)
(* recalculation) that may report the same balance at the same time.  The  *)
(* advisory lock of the scheduler admits one run of the retry job at once. *)
(***************************************************************************)
EXTENDS Integers, Sequences, FiniteSets

CONSTANTS
    Keys,          \* alerts a balance may give rise to
    Ids,           \* ids of rows of alerts
    Producers, DeliveryWorkers, RetryJob,
    NoId, NoKey,
    QueueSize,     \* capacity of the channel
    MaxRetries,    \* maxAttempts of FailedForRetry
    MaxCount,      \* attempts and sent saturate here
    MaxStops       \* bound: the process stops and starts again

Agents == Producers \cup DeliveryWorkers \cup {RetryJob}

ASSUME AlertAssumption ==
    /\ NoId \notin Ids /\ NoKey \notin Keys
    /\ QueueSize \in Nat /\ MaxRetries \in Nat \ {0} /\ MaxStops \in Nat
    /\ MaxCount \in Nat /\ MaxCount > MaxRetries
    /\ RetryJob \notin Producers \cup DeliveryWorkers

VARIABLES
    alert,     \* alert[i]: the row i of alerts
    sent,      \* sent[i]: messages of i that reached the recipient
    jobs,      \* the channel of AlertUseCase
    task,      \* task[a]: what agent a is doing
    selected,  \* alerts the running retry job has selected and not yet sent
    stops,
    around     \* what the surroundings of the component do; it never changes

alertvars == <<alert, sent, jobs, task, selected, stops, around>>

-----------------------------------------------------------------------------
Alert == [key : Keys \cup {NoKey},
          status : {"none", "PENDING", "SENT", "ERROR"},
          attempts : 0 .. MaxCount,
          old : BOOLEAN]            \* created more than 5 minutes ago
Free == [key |-> NoKey, status |-> "none", attempts |-> 0, old |-> FALSE]

Around ==
    [serial : BOOLEAN,    \* does one calculation run at a time?
     reliable : BOOLEAN,  \* does MarkDelivery never fail (the database, 20 s)?
     prompt : BOOLEAN]    \* is an alert first handled within the 5 minutes
                          \* that make it eligible for the retry job?

Task == [at : {"idle", "insert", "enqueue", "send", "mark"},
         key : Keys \cup {NoKey}, id : Ids \cup {NoId}, ok : BOOLEAN]
Idle == [at |-> "idle", key |-> NoKey, id |-> NoId, ok |-> FALSE]
Sending(i) == [at |-> "send", key |-> NoKey, id |-> i, ok |-> FALSE]

AlertTypeOK ==
    /\ alert \in [Ids -> Alert]
    /\ sent \in [Ids -> 0 .. MaxCount]
    /\ jobs \in Seq(Ids) /\ Len(jobs) <= QueueSize
    /\ task \in [Agents -> Task]
    /\ selected \in SUBSET Ids
    /\ stops \in 0 .. MaxStops
    /\ around \in Around
    /\ \A a \in Agents :
          task[a].at \in {"enqueue", "send", "mark"} => task[a].id \in Ids

AlertInit ==
    /\ alert = [i \in Ids |-> Free]
    /\ sent = [i \in Ids |-> 0]
    /\ jobs = << >>
    /\ task = [a \in Agents |-> Idle]
    /\ selected = {}
    /\ stops = 0
    /\ around \in Around

Capped(n) == IF n < MaxCount THEN n + 1 ELSE n

-----------------------------------------------------------------------------
Recorded(k) == \E i \in Ids : alert[i].key = k

(* Mutant of Check: no look at what was alerted before.                    *)
CheckNothing(p, k) ==
    /\ task[p].at = "idle"
    /\ task' = [task EXCEPT ![p] = [Idle EXCEPT !.at = "insert", !.key = k]]
    /\ UNCHANGED <<alert, sent, jobs, selected, stops, around>>

(* CreateDelivery: SELECT EXISTS; a balance already alerted is left alone. *)
Check(p, k) ==
    /\ task[p].at = "idle"
    /\ ~Recorded(k)
    /\ task' = [task EXCEPT ![p] = [Idle EXCEPT !.at = "insert", !.key = k]]
    /\ UNCHANGED <<alert, sent, jobs, selected, stops, around>>

(* CreateDelivery: INSERT.                                                 *)
Insert(p) ==
    /\ task[p].at = "insert"
    /\ \E i \in Ids :
          /\ alert[i] = Free
          /\ alert' = [alert EXCEPT ![i] = [Free EXCEPT !.key = task[p].key,
                                                        !.status = "PENDING"]]
          /\ task' = [task EXCEPT ![p].at = "enqueue", ![p].id = i]
    /\ UNCHANGED <<sent, jobs, selected, stops, around>>

(* A full queue makes the producer deliver the alert itself.               *)
Enqueue(p) ==
    /\ task[p].at = "enqueue"
    /\ IF Len(jobs) < QueueSize
       THEN /\ jobs' = Append(jobs, task[p].id)
            /\ task' = [task EXCEPT ![p] = Idle]
       ELSE /\ task' = [task EXCEPT ![p] = Sending(task[p].id)]
            /\ UNCHANGED jobs
    /\ UNCHANGED <<alert, sent, selected, stops, around>>

TakeJob(w) ==
    /\ task[w].at = "idle"
    /\ jobs # << >>
    /\ task' = [task EXCEPT ![w] = Sending(Head(jobs))]
    /\ jobs' = Tail(jobs)
    /\ UNCHANGED <<alert, sent, selected, stops, around>>

(* send: accepted, refused, or accepted with the answer lost.              *)
Send(a) ==
    /\ task[a].at = "send"
    /\ \E accepted, ok \in BOOLEAN :
          /\ ok => accepted
          /\ sent' = IF accepted THEN [sent EXCEPT ![task[a].id] = Capped(@)]
                     ELSE sent
          /\ task' = [task EXCEPT ![a].at = "mark", ![a].ok = ok]
    /\ UNCHANGED <<alert, jobs, selected, stops, around>>

(* Mutant of Marked: the outcome is not looked at.                         *)
MarkedSent(r, ok) == [r EXCEPT !.status = "SENT", !.attempts = Capped(@)]

Marked(r, ok) == [r EXCEPT !.status = IF ok THEN "SENT" ELSE "ERROR",
                           !.attempts = Capped(@)]

(* MarkDelivery; its error is logged and the alert stays as it was.        *)
Mark(a) ==
    /\ task[a].at = "mark"
    /\ \/ alert' = [alert EXCEPT ![task[a].id] = Marked(@, task[a].ok)]
       \/ ~around.reliable /\ UNCHANGED alert
    /\ task' = [task EXCEPT ![a] = Idle]
    /\ UNCHANGED <<sent, jobs, selected, stops, around>>

-----------------------------------------------------------------------------
(* Mutants of RetryDue: alerts that got stuck are forgotten; one attempt  *)
(* too many.                                                               *)
ErrorDue(r) == r.old /\ r.attempts < MaxRetries /\ r.status = "ERROR"
OneMoreDue(r) ==
    r.old /\ r.attempts <= MaxRetries /\ r.status \in {"ERROR", "PENDING"}

(* FailedForRetry: in error, or pending since before the last 5 minutes.   *)
RetryDue(r) ==
    r.old /\ r.attempts < MaxRetries /\ r.status \in {"ERROR", "PENDING"}

SelectFailed ==
    /\ task[RetryJob].at = "idle"
    /\ selected = {}
    /\ selected' = {i \in Ids : RetryDue(alert[i])}
    /\ UNCHANGED <<alert, sent, jobs, task, stops, around>>

(* The rows selected are delivered one after the other, as they were read. *)
RetryNext ==
    /\ task[RetryJob].at = "idle"
    /\ \E i \in selected :
          /\ task' = [task EXCEPT ![RetryJob] = Sending(i)]
          /\ selected' = selected \ {i}
    /\ UNCHANGED <<alert, sent, jobs, stops, around>>

InHand(i) ==
    \/ \E n \in 1 .. Len(jobs) : jobs[n] = i
    \/ \E a \in Agents : task[a].id = i

(* Five minutes pass since i was created.                                  *)
Grow(i) ==
    /\ alert[i].status # "none" /\ ~alert[i].old
    /\ around.prompt => ~InHand(i)
    /\ alert' = [alert EXCEPT ![i].old = TRUE]
    /\ UNCHANGED <<sent, jobs, task, selected, stops, around>>

(* The process stops: the queue and everything in hand are lost.           *)
Stop ==
    /\ stops < MaxStops
    /\ stops' = stops + 1
    /\ jobs' = << >>
    /\ task' = [a \in Agents |-> Idle]
    /\ selected' = {}
    /\ UNCHANGED <<alert, sent, around>>

DeliverAlert(a) == Send(a) \/ Mark(a)

(* At most one calculation has an alert in hand.                           *)
OneProducer ==
    \A p, q \in Producers : task[p] # Idle /\ task[q] # Idle => p = q

AlertStep ==
    \/ \E p \in Producers : \/ \E k \in Keys : Check(p, k)
                            \/ Insert(p) \/ Enqueue(p)
    \/ \E w \in DeliveryWorkers : TakeJob(w)
    \/ \E a \in Agents : DeliverAlert(a)
    \/ SelectFailed \/ RetryNext
    \/ \E i \in Ids : Grow(i)
    \/ Stop

AlertNext == AlertStep /\ (around.serial => OneProducer')

AlertSpec == AlertInit /\ [][AlertNext]_alertvars

(* Goroutines are scheduled, time passes and the scheduler runs the job.   *)
AlertFairness ==
    /\ \A p \in Producers : WF_alertvars(Insert(p) \/ Enqueue(p))
    /\ \A w \in DeliveryWorkers : WF_alertvars(TakeJob(w))
    /\ \A a \in Agents : WF_alertvars(DeliverAlert(a))
    /\ WF_alertvars(SelectFailed) /\ WF_alertvars(RetryNext)
    /\ \A i \in Ids : WF_alertvars(Grow(i))

FairAlertSpec == AlertSpec /\ AlertFairness

-----------------------------------------------------------------------------
(* The history never claims a message that no recipient got, whatever      *)
(* fails between the sending and its record.                               *)
SentIsTrue == \A i \in Ids : alert[i].status = "SENT" => sent[i] > 0

(* A balance is alerted once per recipient, channel and type.              *)
AlertedOnce ==
    \A i, j \in Ids : alert[i].key # NoKey /\ alert[i].key = alert[j].key => i = j

(* One calculation at a time alerts a balance once per recipient, channel  *)
(* and type.                                                               *)
SerialAlerts == around.serial => AlertedOnce

(* An alert is attempted at most as often as the retry job's limit says.   *)
AttemptsAreBounded == \A i \in Ids : alert[i].attempts <= MaxRetries

(* No alert known to be sent is sent again.                                *)
SentStays == \A i \in Ids : alert[i].status = "SENT" => sent'[i] = sent[i]

(* An alert handled in time is not sent again once it is known to be sent, *)
(* and is attempted at most as often as maxAttempts.                       *)
PromptSending ==
    [][around.prompt /\ around.reliable
          => SentStays /\ AttemptsAreBounded']_alertvars

=============================================================================
