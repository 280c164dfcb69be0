------------------------- MODULE AlertDeliveryProofs -------------------------
(***************************************************************************)
(* Proofs about AlertDelivery, for any number of balances, rows, producers *)
(* and delivery workers, any queue size and any limit of attempts.         *)
(*                                                                         *)
(* Three inductive invariants.  HistoryInv: an outcome in hand is as true  *)
(* as a recorded one.  SerialInv: what a calculation is about to insert is *)
(* in no row.  PromptInv: an alert has one holder, and the 5 minutes keep  *)
(* the retry job's holdings apart from everybody else's; that, and not the *)
(* status it reads, is what keeps it from sending an alert twice.          *)
(***************************************************************************)
EXTENDS AlertDelivery, TLAPS

HistoryInv ==
    /\ AlertTypeOK
    /\ SentIsTrue
    /\ \A a \in Agents : task[a].at = "mark" /\ task[a].ok => sent[task[a].id] > 0

SerialInv ==
    around.serial =>
        /\ OneProducer
        /\ AlertedOnce
        /\ \A p \in Producers :
              task[p].at = "insert" => /\ task[p].key # NoKey
                                       /\ ~Recorded(task[p].key)

Fresh(r) == ~r.old /\ r.attempts = 0 /\ r.status = "PENDING"

(* Who has alert i in hand, and in what state they left its row.           *)
QueueInv ==
    /\ \A n \in 1 .. Len(jobs) : Fresh(alert[jobs[n]])
    /\ \A m, n \in 1 .. Len(jobs) : jobs[m] = jobs[n] => m = n
    /\ \A n \in 1 .. Len(jobs), a \in Agents : jobs[n] # task[a].id

AgentsInv ==
    /\ \A a \in Agents : task[a].at \in {"idle", "insert"} => task[a].id = NoId
    /\ \A a, b \in Agents : task[a].id = task[b].id /\ task[a].id # NoId => a = b
    /\ \A a \in Agents \ {RetryJob} :
          task[a].id # NoId => Fresh(alert[task[a].id])

RetryInv ==
    /\ \A i \in selected \cup {task[RetryJob].id} : i # NoId => RetryDue(alert[i])
    /\ task[RetryJob].id \notin selected

PromptInv == AttemptsAreBounded /\ QueueInv /\ AgentsInv /\ RetryInv

PromptHolds == around.prompt /\ around.reliable => PromptInv

-----------------------------------------------------------------------------
(* A saturated counter stays a counter, and one more is more than none.    *)
LEMMA CappedOK ==
    ASSUME NEW n \in 0 .. MaxCount
    PROVE  /\ Capped(n) \in 0 .. MaxCount /\ Capped(n) > 0
           /\ Capped(n) <= n + 1
BY AlertAssumption, SMT DEF Capped

(* What MarkDelivery leaves of a row.                                      *)
LEMMA MarkedOK ==
    ASSUME NEW r \in Alert, NEW ok \in BOOLEAN
    PROVE  /\ Marked(r, ok) \in Alert
           /\ Marked(r, ok).key = r.key /\ Marked(r, ok).old = r.old
           /\ Marked(r, ok).attempts = Capped(r.attempts)
           /\ Marked(r, ok).status = IF ok THEN "SENT" ELSE "ERROR"
  <1>1. r.attempts \in 0 .. MaxCount
    BY DEF Alert
  <1>2. Capped(r.attempts) \in 0 .. MaxCount
    BY <1>1, CappedOK
  <1>. QED  BY <1>2 DEF Marked, Alert

(* The tasks the actions hand out are tasks.                               *)
LEMMA TasksOK ==
    /\ Idle \in Task /\ Idle.id = NoId /\ Idle.at = "idle"
    /\ \A i \in Ids : /\ Sending(i) \in Task
                       /\ Sending(i).id = i /\ Sending(i).at = "send"
    /\ \A k \in Keys :
          LET t == [Idle EXCEPT !.at = "insert", !.key = k]
          IN  /\ t \in Task /\ t.at = "insert" /\ t.key = k /\ t.id = NoId
BY DEF Idle, Sending, Task

LEMMA IdleOK == Idle.id = NoId /\ Idle.at = "idle"
BY DEF Idle

(* Taking the first alert of the queue leaves the others in their order.   *)
LEMMA TailOK ==
    ASSUME NEW q \in Seq(Ids), q # << >>
    PROVE  /\ Head(q) \in Ids /\ Head(q) = q[1] /\ 1 \in 1 .. Len(q)
           /\ Tail(q) \in Seq(Ids) /\ Len(Tail(q)) = Len(q) - 1
           /\ \A n \in 1 .. Len(Tail(q)) :
                 n + 1 \in 1 .. Len(q) /\ Tail(q)[n] = q[n + 1]
BY SMT

(* Adding an alert leaves the others where they are.                       *)
LEMMA AppendOK ==
    ASSUME NEW q \in Seq(Ids), NEW i \in Ids
    PROVE  /\ Append(q, i) \in Seq(Ids) /\ Len(Append(q, i)) = Len(q) + 1
           /\ \A n \in 1 .. Len(q) : Append(q, i)[n] = q[n]
           /\ Append(q, i)[Len(q) + 1] = i
BY SMT

-----------------------------------------------------------------------------
(* The database and the queue are empty and nobody works.                  *)
LEMMA HistoryInit == AlertInit => HistoryInv
  <1> SUFFICES ASSUME AlertInit PROVE HistoryInv
    OBVIOUS
  <1>1. Free \in Alert
    BY AlertAssumption, SMT DEF Free, Alert
  <1>2. << >> \in Seq(Ids) /\ Len(<< >>) = 0
    BY SMT
  <1>3. 0 \in 0 .. MaxCount /\ 0 \in 0 .. MaxStops /\ 0 <= QueueSize
    BY AlertAssumption, SMT
  <1>4. AlertTypeOK
    BY <1>1, <1>2, <1>3, TasksOK DEF AlertInit, AlertTypeOK
  <1>5. SentIsTrue
    BY DEF AlertInit, SentIsTrue, Free
  <1>6. \A a \in Agents : task[a].at # "mark"
    BY TasksOK DEF AlertInit
  <1>. QED  BY <1>4, <1>5, <1>6 DEF HistoryInv

(* A step of agent a that leaves it with a true task, and takes back no    *)
(* message, leaves every agent with a true task.                           *)
LEMMA HandStep ==
    ASSUME HistoryInv, NEW a \in Agents, NEW t \in Task,
           task' = [task EXCEPT ![a] = t],
           t.at \in {"enqueue", "send", "mark"} => t.id \in Ids,
           \A j \in Ids : sent[j] > 0 => sent'[j] > 0,
           t.at = "mark" /\ t.ok => sent'[t.id] > 0
    PROVE  /\ task' \in [Agents -> Task]
           /\ \A b \in Agents :
                 task'[b].at \in {"enqueue", "send", "mark"} => task'[b].id \in Ids
           /\ \A b \in Agents :
                 task'[b].at = "mark" /\ task'[b].ok => sent'[task'[b].id] > 0
  <1>1. task \in [Agents -> Task]
    BY DEF HistoryInv, AlertTypeOK
  <1>2. \A b \in Agents : task'[b] = IF b = a THEN t ELSE task[b]
    BY <1>1
  <1>3. ASSUME NEW b \in Agents, b # a
        PROVE  /\ task[b].at \in {"enqueue", "send", "mark"} => task[b].id \in Ids
               /\ task[b].at = "mark" /\ task[b].ok => sent[task[b].id] > 0
    BY DEF HistoryInv, AlertTypeOK
  <1>. QED  BY <1>1, <1>2, <1>3

(* Every step keeps the types and the truth of what is recorded: only Mark *)
(* writes an outcome, and it writes the one its agent had.                 *)
LEMMA HistoryStep == HistoryInv /\ [AlertNext]_alertvars => HistoryInv'
  <1> SUFFICES ASSUME HistoryInv, [AlertNext]_alertvars PROVE HistoryInv'
    OBVIOUS
  <1>1. /\ alert \in [Ids -> Alert] /\ sent \in [Ids -> 0 .. MaxCount]
        /\ jobs \in Seq(Ids) /\ Len(jobs) <= QueueSize
        /\ task \in [Agents -> Task] /\ selected \in SUBSET Ids
        /\ stops \in 0 .. MaxStops /\ around \in Around
        /\ \A a \in Agents :
              task[a].at \in {"enqueue", "send", "mark"} => task[a].id \in Ids
        /\ SentIsTrue
        /\ \A a \in Agents :
              task[a].at = "mark" /\ task[a].ok => sent[task[a].id] > 0
    BY DEF HistoryInv, AlertTypeOK
  <1> DEFINE True ==
        /\ task' \in [Agents -> Task]
        /\ \A b \in Agents :
              task'[b].at \in {"enqueue", "send", "mark"} => task'[b].id \in Ids
        /\ \A b \in Agents :
              task'[b].at = "mark" /\ task'[b].ok => sent'[task'[b].id] > 0
  <1>2. ASSUME NEW p \in Producers, NEW k \in Keys, Check(p, k)
        PROVE  HistoryInv'
    <2> DEFINE t == [Idle EXCEPT !.at = "insert", !.key = k]
    <2>1. p \in Agents /\ t \in Task /\ t.at = "insert"
      BY TasksOK DEF Agents
    <2>2. task' = [task EXCEPT ![p] = t]
          /\ UNCHANGED <<alert, sent, jobs, selected, stops, around>>
      BY <1>2 DEF Check
    <2> HIDE DEF t
    <2>3. True
      BY <2>1, <2>2, HandStep
    <2>. QED  BY <1>1, <2>2, <2>3 DEF HistoryInv, AlertTypeOK, SentIsTrue
  <1>3. ASSUME NEW p \in Producers, Insert(p)
        PROVE  HistoryInv'
    <2>1. p \in Agents /\ task[p] \in Task /\ task[p].key \in Keys \cup {NoKey}
      BY <1>1 DEF Agents, Task
    <2>2. PICK i \in Ids :
             /\ alert' = [alert EXCEPT ![i] = [Free EXCEPT !.key = task[p].key,
                                                          !.status = "PENDING"]]
             /\ task' = [task EXCEPT ![p].at = "enqueue", ![p].id = i]
             /\ UNCHANGED <<sent, jobs, selected, stops, around>>
      BY <1>3 DEF Insert
    <2> DEFINE r == [Free EXCEPT !.key = task[p].key, !.status = "PENDING"]
               t == [task[p] EXCEPT !.at = "enqueue", !.id = i]
    <2>3. r \in Alert /\ r.status = "PENDING"
      <3>1. 0 \in 0 .. MaxCount
        BY AlertAssumption, SMT
      <3>. QED  BY <2>1, <3>1 DEF Free, Alert
    <2>4. t \in Task /\ t.at = "enqueue" /\ t.id = i
      BY <2>1 DEF Task
    <2>5. task' = [task EXCEPT ![p] = t] /\ alert' = [alert EXCEPT ![i] = r]
      BY <1>1, <2>1, <2>2
    <2> HIDE DEF r, t
    <2>6. alert' \in [Ids -> Alert] /\ SentIsTrue'
      BY <1>1, <2>2, <2>3, <2>5 DEF SentIsTrue
    <2>7. True
      BY <2>1, <2>2, <2>4, <2>5, HandStep
    <2>. QED  BY <1>1, <2>2, <2>6, <2>7 DEF HistoryInv, AlertTypeOK
  <1>4. ASSUME NEW p \in Producers, Enqueue(p)
        PROVE  HistoryInv'
    <2>1. p \in Agents /\ task[p].id \in Ids
          /\ UNCHANGED <<alert, sent, selected, stops, around>>
      BY <1>1, <1>4 DEF Agents, Enqueue
    <2>2. CASE Len(jobs) < QueueSize
      <3>1. jobs' = Append(jobs, task[p].id) /\ task' = [task EXCEPT ![p] = Idle]
        BY <1>4, <2>2 DEF Enqueue
      <3>2. jobs' \in Seq(Ids) /\ Len(jobs') <= QueueSize
        BY <1>1, <2>1, <2>2, <3>1, AlertAssumption, AppendOK, SMT
      <3>3. True
        BY <2>1, <3>1, TasksOK, HandStep
      <3>. QED  BY <1>1, <2>1, <3>2, <3>3 DEF HistoryInv, AlertTypeOK, SentIsTrue
    <2>3. CASE ~(Len(jobs) < QueueSize)
      <3>1. jobs' = jobs /\ task' = [task EXCEPT ![p] = Sending(task[p].id)]
        BY <1>4, <2>3 DEF Enqueue
      <3>2. True
        BY <2>1, <3>1, TasksOK, HandStep
      <3>. QED  BY <1>1, <2>1, <3>1, <3>2 DEF HistoryInv, AlertTypeOK, SentIsTrue
    <2>. QED  BY <2>2, <2>3
  <1>5. ASSUME NEW w \in DeliveryWorkers, TakeJob(w)
        PROVE  HistoryInv'
    <2>1. w \in Agents /\ UNCHANGED <<alert, sent, selected, stops, around>>
          /\ task' = [task EXCEPT ![w] = Sending(Head(jobs))]
          /\ jobs' = Tail(jobs) /\ jobs # << >>
      BY <1>5 DEF Agents, TakeJob
    <2>2. Head(jobs) \in Ids /\ jobs' \in Seq(Ids) /\ Len(jobs') <= QueueSize
      BY <1>1, <2>1, AlertAssumption, TailOK, SMT
    <2>3. True
      BY <2>1, <2>2, TasksOK, HandStep
    <2>. QED  BY <1>1, <2>1, <2>2, <2>3 DEF HistoryInv, AlertTypeOK, SentIsTrue
  <1>6. ASSUME NEW a \in Agents, Send(a)
        PROVE  HistoryInv'
    <2>1. PICK accepted, ok \in BOOLEAN :
             /\ ok => accepted
             /\ sent' = IF accepted THEN [sent EXCEPT ![task[a].id] = Capped(@)]
                        ELSE sent
             /\ task' = [task EXCEPT ![a].at = "mark", ![a].ok = ok]
             /\ UNCHANGED <<alert, jobs, selected, stops, around>>
             /\ task[a].at = "send"
      BY <1>6 DEF Send
    <2> DEFINE t == [task[a] EXCEPT !.at = "mark", !.ok = ok]
               i == task[a].id
    <2>2. i \in Ids /\ t \in Task /\ t.at = "mark" /\ t.ok = ok /\ t.id = i
      BY <1>1, <2>1 DEF Task
    <2>3. task' = [task EXCEPT ![a] = t]
      BY <1>1, <2>1
    <2>4. /\ sent' \in [Ids -> 0 .. MaxCount]
          /\ ok => sent'[i] > 0
          /\ \A j \in Ids : sent[j] > 0 => sent'[j] > 0
      <3>1. sent[i] \in 0 .. MaxCount
        BY <1>1, <2>2
      <3>2. Capped(sent[i]) \in 0 .. MaxCount /\ Capped(sent[i]) > 0
        BY <3>1, CappedOK
      <3>. QED  BY <1>1, <2>1, <2>2, <3>2
    <2> HIDE DEF t, i
    <2>5. True
      BY <2>2, <2>3, <2>4, HandStep
    <2>6. SentIsTrue'
      BY <1>1, <2>1, <2>4 DEF SentIsTrue
    <2>. QED  BY <1>1, <2>1, <2>4, <2>5, <2>6 DEF HistoryInv, AlertTypeOK
  <1>7. ASSUME NEW a \in Agents, Mark(a)
        PROVE  HistoryInv'
    <2> DEFINE i == task[a].id
               r == Marked(alert[i], task[a].ok)
    <2>1. /\ task[a].at = "mark" /\ task' = [task EXCEPT ![a] = Idle]
          /\ alert' = [alert EXCEPT ![i] = r] \/ alert' = alert
          /\ UNCHANGED <<sent, jobs, selected, stops, around>>
      BY <1>7 DEF Mark
    <2>2. /\ i \in Ids /\ alert[i] \in Alert /\ task[a].ok \in BOOLEAN
          /\ task[a].ok => sent[i] > 0
      BY <1>1, <2>1 DEF Task
    <2>3. /\ r \in Alert
          /\ r.status = "SENT" => sent[i] > 0
      BY <2>2, MarkedOK
    <2>4. True
      BY <2>1, TasksOK, HandStep
    <2> HIDE DEF i, r
    <2>5. alert' \in [Ids -> Alert] /\ SentIsTrue'
      BY <1>1, <2>1, <2>2, <2>3 DEF SentIsTrue
    <2>. QED  BY <1>1, <2>1, <2>4, <2>5 DEF HistoryInv, AlertTypeOK
  <1>8. CASE SelectFailed
    <2>1. selected' \in SUBSET Ids /\ UNCHANGED <<alert, sent, jobs, task, stops, around>>
      BY <1>8 DEF SelectFailed
    <2>. QED  BY <1>1, <2>1 DEF HistoryInv, AlertTypeOK, SentIsTrue
  <1>9. CASE RetryNext
    <2>1. PICK i \in selected : /\ task' = [task EXCEPT ![RetryJob] = Sending(i)]
                                /\ selected' = selected \ {i}
      BY <1>9 DEF RetryNext
    <2>2. RetryJob \in Agents /\ i \in Ids
          /\ UNCHANGED <<alert, sent, jobs, stops, around>>
      BY <1>1, <1>9 DEF RetryNext, Agents
    <2>3. True
      BY <2>1, <2>2, TasksOK, HandStep
    <2>. QED  BY <1>1, <2>1, <2>2, <2>3 DEF HistoryInv, AlertTypeOK, SentIsTrue
  <1>10. ASSUME NEW i \in Ids, Grow(i)
         PROVE  HistoryInv'
    <2> DEFINE r == [alert[i] EXCEPT !.old = TRUE]
    <2>1. /\ alert' = [alert EXCEPT ![i].old = TRUE]
          /\ UNCHANGED <<sent, jobs, task, selected, stops, around>>
      BY <1>10 DEF Grow
    <2>2. alert[i] \in Alert /\ r \in Alert /\ r.status = alert[i].status
      BY <1>1 DEF Alert
    <2>3. alert' = [alert EXCEPT ![i] = r]
      BY <1>1, <2>1
    <2> HIDE DEF r
    <2>4. alert' \in [Ids -> Alert] /\ SentIsTrue'
      BY <1>1, <2>1, <2>2, <2>3 DEF SentIsTrue
    <2>. QED  BY <1>1, <2>1, <2>4 DEF HistoryInv, AlertTypeOK
  <1>11. CASE Stop
    <2>1. /\ stops < MaxStops /\ stops' = stops + 1
          /\ jobs' = << >> /\ task' = [a \in Agents |-> Idle] /\ selected' = {}
          /\ UNCHANGED <<alert, sent, around>>
      BY <1>11 DEF Stop
    <2>2. << >> \in Seq(Ids) /\ Len(<< >>) = 0 /\ 0 <= QueueSize
      BY AlertAssumption, SMT
    <2>3. stops' \in 0 .. MaxStops
      BY <1>1, <2>1, AlertAssumption, SMT
    <2>4. AlertTypeOK'
      BY <1>1, <2>1, <2>2, <2>3, TasksOK DEF AlertTypeOK
    <2>5. SentIsTrue'
      BY <1>1, <2>1 DEF SentIsTrue
    <2>. QED  BY <2>1, <2>4, <2>5, TasksOK DEF HistoryInv
  <1>12. CASE UNCHANGED alertvars
    BY <1>1, <1>12 DEF alertvars, HistoryInv, AlertTypeOK, SentIsTrue
  <1>. QED  BY <1>2, <1>3, <1>4, <1>5, <1>6, <1>7, <1>8, <1>9, <1>10, <1>11, <1>12
            DEF AlertNext, AlertStep, DeliverAlert

(* Every state of the component is well formed.                            *)
THEOREM AlertTypeCorrect == AlertSpec => []AlertTypeOK
<1>1. HistoryInv => AlertTypeOK
  BY DEF HistoryInv
<1>2. QED  BY <1>1, HistoryInit, HistoryStep, PTL DEF AlertSpec

(* MarkDelivery after send: the history never says SENT of an alert that   *)
(* no recipient got, whatever fails, crashes or is lost in between, and    *)
(* however many agents work on the same alert.                             *)
THEOREM HistoryIsTrue == AlertSpec => []SentIsTrue
<1>1. HistoryInv => SentIsTrue
  BY DEF HistoryInv
<1>2. QED  BY <1>1, HistoryInit, HistoryStep, PTL DEF AlertSpec

-----------------------------------------------------------------------------
(* A step that changes the key of no row and hands out no new insertion    *)
(* keeps what serial calculations rely on.                                 *)
LEMMA KeysKept ==
    ASSUME SerialInv, around.serial, OneProducer',
           \A i \in Ids : alert'[i].key = alert[i].key,
           \A p \in Producers : task'[p].at = "insert" => task'[p] = task[p]
    PROVE  SerialInv'
BY DEF SerialInv, AlertedOnce, Recorded

LEMMA SerialInit == AlertInit => SerialInv
  <1> SUFFICES ASSUME AlertInit PROVE SerialInv
    OBVIOUS
  <1>1. \A p \in Producers : task[p] = Idle
    BY DEF AlertInit, Agents
  <1>2. \A i \in Ids : alert[i].key = NoKey
    BY DEF AlertInit, Free
  <1>. QED  BY <1>1, <1>2, TasksOK DEF SerialInv, OneProducer, AlertedOnce

(* The calculation that looked at the table is the only one until its row  *)
(* is in it, so nobody can have inserted the key in between.               *)
LEMMA SerialStep == HistoryInv /\ SerialInv /\ [AlertNext]_alertvars => SerialInv'
  <1> SUFFICES ASSUME HistoryInv, SerialInv, [AlertNext]_alertvars, around'.serial
               PROVE  SerialInv'
    BY DEF SerialInv
  <1>1. /\ alert \in [Ids -> Alert] /\ task \in [Agents -> Task] /\ around' = around
        /\ Producers \subseteq Agents /\ NoKey \notin Keys
    BY AlertAssumption
       DEF HistoryInv, AlertTypeOK, Agents, AlertNext, AlertStep, DeliverAlert, alertvars, Check, Insert,
           Enqueue, TakeJob, Send, Mark, SelectFailed, RetryNext, Grow, Stop
  <1>2. OneProducer /\ AlertedOnce /\ OneProducer'
    <2>1. OneProducer /\ AlertedOnce
      BY <1>1 DEF SerialInv
    <2>2. CASE AlertNext
      <3>1. around.serial = TRUE
        BY <1>1 DEF HistoryInv, AlertTypeOK, Around
      <3>. QED  BY <2>1, <2>2, <3>1 DEF AlertNext
    <2>3. CASE UNCHANGED alertvars
      BY <2>1, <2>3 DEF alertvars, OneProducer
    <2>. QED  BY <2>1, <2>2, <2>3
  <1>3. ASSUME NEW p \in Producers, NEW k \in Keys, Check(p, k)
        PROVE  SerialInv'
    <2> DEFINE t == [Idle EXCEPT !.at = "insert", !.key = k]
    <2>1. /\ task' = [task EXCEPT ![p] = t] /\ alert' = alert /\ ~Recorded(k)
          /\ t.at = "insert" /\ t.key = k /\ t # Idle
      BY <1>3, TasksOK DEF Check
    <2> HIDE DEF t
    <2>2. ASSUME NEW q \in Producers, task'[q].at = "insert"
          PROVE  q = p
      <3>1. task'[p] # Idle /\ task'[q] # Idle
        BY <1>1, <2>1, <2>2, TasksOK
      <3>. QED  BY <1>2, <3>1 DEF OneProducer
    <2>3. task'[p].key = k /\ k # NoKey
      BY <1>1, <2>1
    <2>. QED  BY <1>2, <2>1, <2>2, <2>3 DEF SerialInv, AlertedOnce, Recorded
  <1>4. ASSUME NEW p \in Producers, Insert(p)
        PROVE  SerialInv'
    <2> DEFINE k == task[p].key
    <2>1. PICK i \in Ids :
             /\ alert' = [alert EXCEPT ![i] = [Free EXCEPT !.key = k,
                                                          !.status = "PENDING"]]
             /\ task' = [task EXCEPT ![p].at = "enqueue", ![p].id = i]
      BY <1>4 DEF Insert
    <2>2. /\ task[p].at = "insert" /\ k # NoKey
          /\ \A j \in Ids : alert[j].key # k
      BY <1>1, <1>4 DEF Insert, SerialInv, Recorded
    <2>3. \A j \in Ids : alert'[j].key = IF j = i THEN k ELSE alert[j].key
      BY <1>1, <2>1 DEF Free
    <2>4. AlertedOnce'
      BY <1>2, <2>2, <2>3 DEF AlertedOnce
    <2>5. ASSUME NEW q \in Producers PROVE task'[q].at # "insert"
      <3>1. CASE q = p
        BY <1>1, <2>1, <3>1 DEF Task
      <3>2. CASE q # p
        <4>1. task[p] # Idle
          BY <2>2, TasksOK
        <4>2. task[q] = Idle
          BY <1>2, <3>2, <4>1 DEF OneProducer
        <4>. QED  BY <1>1, <2>1, <3>2, <4>2, TasksOK
      <3>. QED  BY <3>1, <3>2
    <2>. QED  BY <1>2, <2>4, <2>5 DEF SerialInv
  <1>5. ASSUME NEW p \in Producers, Enqueue(p)
        PROVE  SerialInv'
    <2>1. \E t : task' = [task EXCEPT ![p] = t] /\ t.at # "insert"
      <3>1. task[p].id \in Ids
        BY <1>1, <1>5 DEF Enqueue, HistoryInv, AlertTypeOK
      <3>. QED  BY <1>5, <3>1, TasksOK DEF Enqueue
    <2>. QED  BY <1>1, <1>2, <1>5, <2>1, KeysKept DEF Enqueue
  <1>6. ASSUME NEW w \in DeliveryWorkers, TakeJob(w)
        PROVE  SerialInv'
    <2>1. Sending(Head(jobs)).at # "insert"
      BY DEF Sending
    <2>. QED  BY <1>1, <1>2, <1>6, <2>1, KeysKept DEF TakeJob
  <1>7. ASSUME NEW a \in Agents, Send(a)
        PROVE  SerialInv'
    <2>1. PICK ok \in BOOLEAN : task' = [task EXCEPT ![a].at = "mark", ![a].ok = ok]
      BY <1>7 DEF Send
    <2>2. task'[a].at = "mark" /\ alert' = alert
      BY <1>1, <1>7, <2>1 DEF Task, Send
    <2>. QED  BY <1>1, <1>2, <2>1, <2>2, KeysKept
  <1>8. ASSUME NEW a \in Agents, Mark(a)
        PROVE  SerialInv'
    <2>1. /\ task' = [task EXCEPT ![a] = Idle]
          /\ \/ alert' = [alert EXCEPT ![task[a].id] = Marked(@, task[a].ok)]
             \/ alert' = alert
          /\ task[a].id \in Ids
      BY <1>8 DEF Mark, HistoryInv, AlertTypeOK
    <2>2. \A i \in Ids : alert'[i].key = alert[i].key
      <3>1. task[a].ok \in BOOLEAN /\ alert[task[a].id] \in Alert
        BY <1>1, <2>1 DEF Task
      <3>2. Marked(alert[task[a].id], task[a].ok).key = alert[task[a].id].key
        BY <3>1, MarkedOK
      <3>. QED  BY <1>1, <2>1, <3>2
    <2>. QED  BY <1>1, <1>2, <2>1, <2>2, TasksOK, KeysKept
  <1>9. CASE SelectFailed
    BY <1>1, <1>2, <1>9, KeysKept DEF SelectFailed
  <1>10. CASE RetryNext
    <2>1. PICK i \in selected : task' = [task EXCEPT ![RetryJob] = Sending(i)]
      BY <1>10 DEF RetryNext
    <2>2. Sending(i).at # "insert" /\ alert' = alert
      BY <1>10 DEF Sending, RetryNext
    <2>. QED  BY <1>1, <1>2, <2>1, <2>2, KeysKept
  <1>11. ASSUME NEW i \in Ids, Grow(i)
         PROVE  SerialInv'
    <2>1. alert' = [alert EXCEPT ![i].old = TRUE] /\ task' = task
      BY <1>11 DEF Grow
    <2>2. \A j \in Ids : alert'[j].key = alert[j].key
      BY <1>1, <2>1 DEF Alert
    <2>. QED  BY <1>1, <1>2, <2>1, <2>2, KeysKept
  <1>12. CASE Stop
    BY <1>1, <1>2, <1>12, TasksOK, KeysKept DEF Stop
  <1>13. CASE UNCHANGED alertvars
    BY <1>1, <1>2, <1>13, KeysKept DEF alertvars
  <1>. QED  BY <1>3, <1>4, <1>5, <1>6, <1>7, <1>8, <1>9, <1>10, <1>11, <1>12, <1>13
            DEF AlertNext, AlertStep, DeliverAlert

(* CreateDelivery's SELECT EXISTS and INSERT: while calculations do not    *)
(* overlap, a balance is alerted once per recipient, channel and type.     *)
THEOREM SerialCalculationsAlertOnce == AlertSpec => []SerialAlerts
<1>1. SerialInv => SerialAlerts
  BY DEF SerialInv, SerialAlerts
<1>2. QED
  BY <1>1, HistoryInit, HistoryStep, SerialInit, SerialStep, PTL DEF AlertSpec

-----------------------------------------------------------------------------
LEMMA PromptInit == AlertInit => PromptHolds
  <1> SUFFICES ASSUME AlertInit PROVE PromptInv
    BY DEF PromptHolds
  <1>1. /\ \A a \in Agents : task[a] = Idle
        /\ jobs = << >> /\ selected = {} /\ RetryJob \in Agents
        /\ \A i \in Ids : alert[i].attempts = 0
    BY DEF AlertInit, Agents, Free
  <1>2. 0 <= MaxRetries /\ \A n \in 1 .. Len(<< >>) : FALSE
    BY AlertAssumption, SMT
  <1>. QED  BY <1>1, <1>2, TasksOK
            DEF PromptInv, AttemptsAreBounded, QueueInv, AgentsInv, RetryInv

(* An alert in hand is not known to be sent, and has an attempt left.      *)
LEMMA InHandIsUnsent ==
    ASSUME HistoryInv, PromptInv, NEW a \in Agents, task[a].id \in Ids
    PROVE  alert[task[a].id].status # "SENT" /\ alert[task[a].id].attempts < MaxRetries
  <1>1. task[a].id # NoId
    BY AlertAssumption
  <1>2. CASE a = RetryJob
    BY <1>1, <1>2 DEF PromptInv, RetryInv, RetryDue
  <1>3. CASE a # RetryJob
    <2>1. Fresh(alert[task[a].id])
      BY <1>1, <1>3 DEF PromptInv, AgentsInv
    <2>. QED  BY <2>1, AlertAssumption, SMT DEF Fresh
  <1>. QED  BY <1>2, <1>3

(* Each step leaves an alert with one holder.  Grow cannot move an alert   *)
(* in hand into the reach of the retry job: that is where the five minutes *)
(* are needed.                                                             *)
LEMMA PromptStep ==
    ASSUME HistoryInv, PromptInv, [AlertNext]_alertvars, around.prompt, around.reliable
    PROVE  PromptInv'
  <1>1. /\ alert \in [Ids -> Alert] /\ task \in [Agents -> Task]
        /\ jobs \in Seq(Ids) /\ selected \in SUBSET Ids
        /\ NoId \notin Ids /\ RetryJob \in Agents
        /\ \A p \in Producers \cup DeliveryWorkers : p \in Agents \ {RetryJob}
        /\ \A a \in Agents : /\ task[a].id \in Ids \cup {NoId}
                            /\ task[a].at \in {"enqueue", "send", "mark"}
                                  => task[a].id \in Ids
        /\ \A n \in 1 .. Len(jobs) : jobs[n] \in Ids
    BY AlertAssumption DEF HistoryInv, AlertTypeOK, Agents, Task
  <1>2. AttemptsAreBounded /\ QueueInv /\ AgentsInv /\ RetryInv
    BY DEF PromptInv
  <1>3. ASSUME NEW p \in Producers, NEW k \in Keys, Check(p, k)
        PROVE  PromptInv'
    <2> DEFINE t == [Idle EXCEPT !.at = "insert", !.key = k]
    <2>1. /\ task' = [task EXCEPT ![p] = t] /\ UNCHANGED <<alert, jobs, selected>>
          /\ t.at = "insert" /\ t.id = NoId /\ p \in Agents \ {RetryJob}
      BY <1>1, <1>3, TasksOK DEF Check
    <2> HIDE DEF t
    <2>2. \A a \in Agents : task'[a] = IF a = p THEN t ELSE task[a]
      BY <1>1, <2>1
    <2>3. AttemptsAreBounded'
      BY <1>2, <2>1 DEF AttemptsAreBounded
    <2>4. QueueInv'
      BY <1>1, <1>2, <2>1, <2>2 DEF QueueInv
    <2>5. AgentsInv'
      BY <1>1, <1>2, <2>1, <2>2 DEF AgentsInv
    <2>6. RetryInv'
      BY <1>1, <1>2, <2>1, <2>2 DEF RetryInv
    <2>. QED  BY <2>3, <2>4, <2>5, <2>6 DEF PromptInv
  <1>4. ASSUME NEW p \in Producers, Insert(p)
        PROVE  PromptInv'
    <2>1. PICK i \in Ids :
             /\ alert[i] = Free
             /\ alert' = [alert EXCEPT ![i] = [Free EXCEPT !.key = task[p].key,
                                                          !.status = "PENDING"]]
             /\ task' = [task EXCEPT ![p].at = "enqueue", ![p].id = i]
             /\ UNCHANGED <<jobs, selected>>
      BY <1>4 DEF Insert
    <2>2. /\ Fresh(alert'[i]) /\ alert'[i].attempts = 0
          /\ \A j \in Ids : j # i => alert'[j] = alert[j]
      BY <1>1, <2>1 DEF Free, Fresh
    <2>3. /\ p \in Agents \ {RetryJob} /\ task'[p].id = i /\ task'[p].at = "enqueue"
          /\ \A a \in Agents : a # p => task'[a] = task[a]
      BY <1>1, <2>1 DEF Task
    <2>4. /\ \A n \in 1 .. Len(jobs) : jobs[n] # i
          /\ \A a \in Agents : task[a].id # i
          /\ i \notin selected
      <3>1. ~Fresh(alert[i]) /\ ~RetryDue(alert[i])
        BY <2>1 DEF Fresh, RetryDue, Free
      <3>. QED  BY <1>1, <1>2, <3>1 DEF QueueInv, AgentsInv, RetryInv
    <2>5. AttemptsAreBounded'
      BY <1>2, <2>2, AlertAssumption, SMT DEF AttemptsAreBounded
    <2>6. QueueInv'
      BY <1>1, <1>2, <2>1, <2>2, <2>3, <2>4 DEF QueueInv
    <2>7. AgentsInv'
      BY <1>1, <1>2, <2>1, <2>2, <2>3, <2>4 DEF AgentsInv
    <2>8. RetryInv'
      BY <1>1, <1>2, <2>1, <2>2, <2>3, <2>4 DEF RetryInv
    <2>. QED  BY <2>5, <2>6, <2>7, <2>8 DEF PromptInv
  <1>5. ASSUME NEW p \in Producers, Enqueue(p)
        PROVE  PromptInv'
    <2> DEFINE i == task[p].id
    <2>1. /\ p \in Agents \ {RetryJob} /\ UNCHANGED <<alert, selected>>
          /\ i \in Ids /\ i # NoId /\ Fresh(alert[i])
      <3>1. p \in Agents \ {RetryJob} /\ i \in Ids /\ i # NoId
        <4>1. p \in Agents \ {RetryJob} /\ task[p].at = "enqueue"
          BY <1>1, <1>5 DEF Enqueue
        <4>2. task[p].id \in Ids
          BY <4>1 DEF HistoryInv, AlertTypeOK
        <4>. QED  BY <1>1, <4>1, <4>2
      <3>2. Fresh(alert[i])
        BY <1>2, <3>1 DEF AgentsInv
      <3>. QED  BY <1>5, <3>1, <3>2 DEF Enqueue
    <2>2. CASE Len(jobs) < QueueSize
      <3>1. /\ jobs' = Append(jobs, i)
            /\ \A a \in Agents : task'[a] = IF a = p THEN Idle ELSE task[a]
        BY <1>1, <1>5, <2>2 DEF Enqueue
      <3>2. /\ Len(jobs') = Len(jobs) + 1 /\ jobs'[Len(jobs) + 1] = i
            /\ \A n \in 1 .. Len(jobs) : jobs'[n] = jobs[n]
        BY <1>1, <2>1, <3>1, AppendOK
      <3>3. Len(jobs) \in Nat
        BY <1>1, SMT
      <3>4. \A n \in 1 .. Len(jobs') : n \in 1 .. Len(jobs) \/ n = Len(jobs) + 1
        BY <3>2, <3>3, SMT
      <3>5. AttemptsAreBounded'
        BY <1>2, <2>1 DEF AttemptsAreBounded
      <3>6. QueueInv'
        <4>1. \A n \in 1 .. Len(jobs) : jobs[n] # i /\ Fresh(alert[jobs[n]])
          BY <1>1, <1>2, <2>1 DEF QueueInv
        <4>2. \A a \in Agents : task'[a].id # i
          BY <1>2, <2>1, <3>1, IdleOK DEF AgentsInv
        <4>3. \A n \in 1 .. Len(jobs'), a \in Agents : jobs'[n] # task'[a].id
          BY <1>1, <1>2, <3>1, <3>2, <3>4, <4>2, IdleOK DEF QueueInv
        <4>4. \A n \in 1 .. Len(jobs') : Fresh(alert[jobs'[n]])
          BY <2>1, <3>2, <3>4, <4>1
        <4>5. \A m, n \in 1 .. Len(jobs') : jobs'[m] = jobs'[n] => m = n
          BY <1>2, <3>2, <3>4, <4>1 DEF QueueInv
        <4>. QED  BY <2>1, <4>3, <4>4, <4>5 DEF QueueInv
      <3>7. AgentsInv'
        <4>1. task'[p].id = NoId /\ task'[p].at = "idle"
          BY <2>1, <3>1, IdleOK
        <4>2. \A a \in Agents : a # p => task'[a] = task[a]
          BY <3>1
        <4>3. alert' = alert
          BY <2>1
        <4> HIDE DEF i
        <4>4. \A a \in Agents : task'[a].at \in {"idle", "insert"} => task'[a].id = NoId
          BY <1>2, <4>1, <4>2 DEF AgentsInv
        <4>5. \A a, b \in Agents : task'[a].id = task'[b].id /\ task'[a].id # NoId => a = b
          BY <1>2, <4>1, <4>2 DEF AgentsInv
        <4>6. \A a \in Agents \ {RetryJob} :
                 task'[a].id # NoId => Fresh(alert[task'[a].id])
          <5>1. \A a \in Agents \ {RetryJob} : task[a].id # NoId => Fresh(alert[task[a].id])
            BY <1>2 DEF AgentsInv
          <5>2. SUFFICES ASSUME NEW a \in Agents \ {RetryJob}, task'[a].id # NoId
                         PROVE  Fresh(alert[task'[a].id])
            OBVIOUS
          <5>3. task'[a] = task[a]
            BY <4>1, <4>2, <5>2
          <5>. QED  BY <5>1, <5>2, <5>3
        <4>. QED  BY <4>3, <4>4, <4>5, <4>6 DEF AgentsInv
      <3>8. RetryInv'
        BY <1>1, <1>2, <2>1, <3>1, TasksOK DEF RetryInv
      <3>. QED  BY <3>5, <3>6, <3>7, <3>8 DEF PromptInv
    <2>3. CASE ~(Len(jobs) < QueueSize)
      <3>1. /\ jobs' = jobs /\ Sending(i).id = i /\ Sending(i).at = "send"
            /\ \A a \in Agents : task'[a] = IF a = p THEN Sending(i) ELSE task[a]
        <4>1. Sending(i).id = i /\ Sending(i).at = "send"
          BY DEF Sending, Idle
        <4>2. jobs' = jobs /\ task' = [task EXCEPT ![p] = Sending(i)]
          BY <1>5, <2>3 DEF Enqueue
        <4>3. task \in [Agents -> Task]
          BY <1>1 DEF HistoryInv, AlertTypeOK
        <4>. QED  BY <4>1, <4>2, <4>3
      <3> HIDE DEF i
      <3>2. \A a \in Agents : task'[a].id = task[a].id
        BY <3>1 DEF i
      <3>3. AttemptsAreBounded'
        BY <1>2, <2>1 DEF AttemptsAreBounded
      <3>4. QueueInv'
        BY <1>1, <1>2, <2>1, <3>1, <3>2 DEF QueueInv
      <3>5. AgentsInv'
        BY <1>1, <1>2, <2>1, <3>1, <3>2 DEF AgentsInv
      <3>6. RetryInv'
        BY <1>1, <1>2, <2>1, <3>2 DEF RetryInv
      <3>. QED  BY <3>3, <3>4, <3>5, <3>6 DEF PromptInv
    <2>. QED  BY <2>2, <2>3
  <1>6. ASSUME NEW w \in DeliveryWorkers, TakeJob(w)
        PROVE  PromptInv'
    <2> DEFINE i == Head(jobs)
    <2>1. /\ w \in Agents \ {RetryJob} /\ UNCHANGED <<alert, selected>>
          /\ task[w].id = NoId /\ jobs # << >> /\ jobs' = Tail(jobs)
          /\ task' = [task EXCEPT ![w] = Sending(i)]
      BY <1>1, <1>2, <1>6 DEF TakeJob, AgentsInv
    <2>2. /\ i \in Ids /\ i = jobs[1] /\ 1 \in 1 .. Len(jobs)
          /\ \A n \in 1 .. Len(jobs') :
                n + 1 \in 1 .. Len(jobs) /\ jobs'[n] = jobs[n + 1]
          /\ Len(jobs') \in Nat
      BY <1>1, <2>1, TailOK
    <2>3. /\ Sending(i).id = i /\ Sending(i).at = "send"
          /\ \A a \in Agents : task'[a] = IF a = w THEN Sending(i) ELSE task[a]
      BY <1>1, <2>1, <2>2, TasksOK
    <2> HIDE DEF i
    <2>4. Fresh(alert[i]) /\ \A a \in Agents : task[a].id # i
      BY <1>2, <2>2 DEF QueueInv
    <2>5. \A m, n \in 1 .. Len(jobs') : m + 1 = n + 1 => m = n
      BY SMT
    <2>6. \A n \in 1 .. Len(jobs') : n + 1 # 1
      BY SMT
    <2>7. AttemptsAreBounded'
      BY <1>2, <2>1 DEF AttemptsAreBounded
    <2>8. QueueInv'
      <3>1. \A n \in 1 .. Len(jobs') : Fresh(alert[jobs'[n]]) /\ jobs'[n] # i
        BY <1>2, <2>2, <2>6 DEF QueueInv
      <3>2. \A m, n \in 1 .. Len(jobs') : jobs'[m] = jobs'[n] => m = n
        BY <1>2, <2>2, <2>5 DEF QueueInv
      <3>3. \A n \in 1 .. Len(jobs'), a \in Agents : jobs'[n] # task'[a].id
        BY <1>2, <2>2, <2>3, <3>1 DEF QueueInv
      <3>. QED  BY <2>1, <3>1, <3>2, <3>3 DEF QueueInv
    <2>9. AgentsInv'
      BY <1>1, <1>2, <2>1, <2>2, <2>3, <2>4 DEF AgentsInv
    <2>10. RetryInv'
      BY <1>1, <1>2, <2>1, <2>3 DEF RetryInv
    <2>. QED  BY <2>7, <2>8, <2>9, <2>10 DEF PromptInv
  <1>7. ASSUME NEW a \in Agents, Send(a)
        PROVE  PromptInv'
    <2>1. PICK ok \in BOOLEAN : task' = [task EXCEPT ![a].at = "mark", ![a].ok = ok]
      BY <1>7 DEF Send
    <2>2. /\ UNCHANGED <<alert, jobs, selected>>
          /\ \A b \in Agents : task'[b].id = task[b].id
          /\ \A b \in Agents : task'[b].at \in {"idle", "insert"}
                                => task[b].at \in {"idle", "insert"}
      BY <1>1, <1>7, <2>1 DEF Send, Task
    <2>3. AttemptsAreBounded'
      BY <1>2, <2>2 DEF AttemptsAreBounded
    <2>4. QueueInv'
      BY <1>1, <1>2, <2>2 DEF QueueInv
    <2>5. AgentsInv'
      BY <1>1, <1>2, <2>2 DEF AgentsInv
    <2>6. RetryInv'
      BY <1>1, <1>2, <2>2 DEF RetryInv
    <2>. QED  BY <2>3, <2>4, <2>5, <2>6 DEF PromptInv
  <1>8. ASSUME NEW a \in Agents, Mark(a)
        PROVE  PromptInv'
    <2> DEFINE i == task[a].id
    <2>1. /\ alert' = [alert EXCEPT ![i] = Marked(alert[i], task[a].ok)]
          /\ task' = [task EXCEPT ![a] = Idle] /\ UNCHANGED <<jobs, selected>>
          /\ i \in Ids /\ alert[i] \in Alert /\ task[a].ok \in BOOLEAN
      BY <1>1, <1>8 DEF Mark, Task
    <2>2. /\ \A j \in Ids : j # i => alert'[j] = alert[j]
          /\ alert'[i].attempts = Capped(alert[i].attempts)
          /\ \A b \in Agents : task'[b] = IF b = a THEN Idle ELSE task[b]
      BY <1>1, <2>1, MarkedOK
    <2> HIDE DEF i
    <2>3. AttemptsAreBounded'
      <3>1. alert[i].attempts < MaxRetries
        BY <2>1, InHandIsUnsent DEF i
      <3>2. alert[i].attempts \in 0 .. MaxCount
        BY <2>1 DEF Alert
      <3>3. alert'[i].attempts <= MaxRetries
        BY <2>2, <3>1, <3>2, CappedOK, AlertAssumption, SMT
      <3>. QED  BY <1>2, <2>2, <3>3 DEF AttemptsAreBounded
    <2>4. /\ \A n \in 1 .. Len(jobs) : jobs[n] # i
          /\ \A b \in Agents : task'[b].id # i
          /\ i \notin selected
      <3>1. \A n \in 1 .. Len(jobs) : jobs[n] # i
        BY <1>2 DEF QueueInv, i
      <3>2. \A b \in Agents : task'[b].id # i
        BY <1>1, <1>2, <2>1, <2>2, IdleOK DEF AgentsInv, i
      <3>3. CASE a = RetryJob
        BY <1>2, <3>1, <3>2, <3>3 DEF RetryInv, i
      <3>4. CASE a # RetryJob
        <4>1. Fresh(alert[i])
          BY <1>1, <1>2, <2>1, <3>4 DEF AgentsInv, i
        <4>2. i \notin selected
          BY <1>1, <1>2, <2>1, <4>1 DEF RetryInv, RetryDue, Fresh
        <4>. QED  BY <3>1, <3>2, <4>2
      <3>. QED  BY <3>3, <3>4
    <2>5. QueueInv'
      BY <1>1, <1>2, <2>1, <2>2, <2>4, IdleOK DEF QueueInv
    <2>6. AgentsInv'
      <3>1. ASSUME NEW b \in Agents \ {RetryJob}, task'[b].id # NoId
            PROVE  Fresh(alert'[task'[b].id])
        <4>1. task'[b] = task[b]
          BY <2>2, <3>1, IdleOK
        <4>2. task[b].id \in Ids /\ task[b].id # i
          <5>1. task[b].id \in Ids \cup {NoId}
            BY DEF HistoryInv, AlertTypeOK, Task
          <5>2. task'[b].id # i
            BY <2>4
          <5>. QED  BY <3>1, <4>1, <5>1, <5>2
        <4>3. Fresh(alert[task[b].id])
          BY <1>2, <3>1, <4>1 DEF AgentsInv
        <4>. QED  BY <2>2, <4>1, <4>2, <4>3
      <3>. QED  BY <1>2, <2>2, <3>1, IdleOK DEF AgentsInv
    <2>7. RetryInv'
      BY <1>1, <1>2, <2>1, <2>2, <2>4, IdleOK DEF RetryInv
    <2>. QED  BY <2>3, <2>5, <2>6, <2>7 DEF PromptInv
  <1>9. CASE SelectFailed
    <2>1. /\ selected' = {i \in Ids : RetryDue(alert[i])} /\ UNCHANGED <<alert, jobs, task>>
          /\ task[RetryJob].id = NoId
      BY <1>1, <1>2, <1>9 DEF SelectFailed, AgentsInv
    <2>2. RetryInv'
      BY <1>1, <2>1 DEF RetryInv
    <2>. QED  BY <1>2, <2>1, <2>2 DEF PromptInv, AttemptsAreBounded, QueueInv, AgentsInv
  <1>10. CASE RetryNext
    <2>1. PICK i \in selected : /\ task' = [task EXCEPT ![RetryJob] = Sending(i)]
                                /\ selected' = selected \ {i}
      BY <1>10 DEF RetryNext
    <2>2. /\ UNCHANGED <<alert, jobs>> /\ i \in Ids /\ RetryDue(alert[i])
          /\ Sending(i).id = i /\ Sending(i).at = "send"
          /\ \A a \in Agents : task'[a] = IF a = RetryJob THEN Sending(i) ELSE task[a]
      <3>1. i \in Ids /\ i # NoId /\ UNCHANGED <<alert, jobs>>
        BY <1>1, <1>10, <2>1 DEF RetryNext
      <3>2. RetryDue(alert[i])
        BY <1>2, <2>1, <3>1 DEF RetryInv
      <3>3. Sending(i).id = i /\ Sending(i).at = "send"
        BY <3>1, TasksOK
      <3>. QED  BY <1>1, <2>1, <3>1, <3>2, <3>3
    <2>3. ~Fresh(alert[i])
      BY <2>2 DEF RetryDue, Fresh
    <2>4. AttemptsAreBounded'
      BY <1>2, <2>2 DEF AttemptsAreBounded
    <2>5. QueueInv'
      BY <1>1, <1>2, <2>2, <2>3 DEF QueueInv
    <2>6. AgentsInv'
      BY <1>1, <1>2, <2>2, <2>3 DEF AgentsInv
    <2>7. RetryInv'
      BY <1>1, <1>2, <2>1, <2>2 DEF RetryInv
    <2>. QED  BY <2>4, <2>5, <2>6, <2>7 DEF PromptInv
  <1>11. ASSUME NEW i \in Ids, Grow(i)
         PROVE  PromptInv'
    <2>1. /\ ~alert[i].old /\ ~InHand(i) /\ alert' = [alert EXCEPT ![i].old = TRUE]
          /\ UNCHANGED <<jobs, task, selected>>
      BY <1>11 DEF Grow
    <2>2. \A j \in Ids : /\ alert'[j].attempts = alert[j].attempts
                         /\ j # i => alert'[j] = alert[j]
      BY <1>1, <2>1 DEF Alert
    <2>3. /\ \A n \in 1 .. Len(jobs) : jobs[n] # i
          /\ \A a \in Agents : task[a].id # i
      BY <2>1 DEF InHand
    <2>4. i \notin selected
      BY <1>1, <1>2, <2>1 DEF RetryInv, RetryDue
    <2>5. AttemptsAreBounded'
      BY <1>2, <2>2 DEF AttemptsAreBounded
    <2>6. QueueInv'
      BY <1>1, <1>2, <2>1, <2>2, <2>3 DEF QueueInv
    <2>7. AgentsInv'
      BY <1>1, <1>2, <2>1, <2>2, <2>3 DEF AgentsInv
    <2>8. RetryInv'
      BY <1>1, <1>2, <2>1, <2>2, <2>3, <2>4 DEF RetryInv
    <2>. QED  BY <2>5, <2>6, <2>7, <2>8 DEF PromptInv
  <1>12. CASE Stop
    <2>1. /\ jobs' = << >> /\ selected' = {} /\ alert' = alert
          /\ \A a \in Agents : task'[a] = Idle
      BY <1>12 DEF Stop
    <2>2. \A n \in 1 .. Len(<< >>) : FALSE
      BY SMT
    <2>. QED  BY <1>1, <1>2, <2>1, <2>2, TasksOK
              DEF PromptInv, AttemptsAreBounded, QueueInv, AgentsInv, RetryInv
  <1>13. CASE UNCHANGED alertvars
    BY <1>2, <1>13
       DEF alertvars, PromptInv, AttemptsAreBounded, QueueInv, AgentsInv, RetryInv
  <1>. QED  BY <1>3, <1>4, <1>5, <1>6, <1>7, <1>8, <1>9, <1>10, <1>11, <1>12, <1>13
            DEF AlertNext, AlertStep, DeliverAlert

(* Only Send reaches a recipient, and what it sends is not known as sent.  *)
LEMMA SendsUnsent ==
    ASSUME HistoryInv, PromptInv, [AlertNext]_alertvars
    PROVE  SentStays
  <1>1. ASSUME NEW a \in Agents, Send(a)
        PROVE  SentStays
    <2>1. /\ task[a].id \in Ids /\ sent \in [Ids -> 0 .. MaxCount]
      BY <1>1 DEF HistoryInv, AlertTypeOK, Send
    <2>2. alert[task[a].id].status # "SENT"
      BY <2>1, InHandIsUnsent
    <2>3. \A j \in Ids : j # task[a].id => sent'[j] = sent[j]
      BY <1>1, <2>1 DEF Send
    <2>. QED  BY <2>2, <2>3 DEF SentStays
  <1>2. CASE UNCHANGED sent
    BY <1>2 DEF SentStays
  <1>. QED  BY <1>1, <1>2
            DEF AlertNext, AlertStep, DeliverAlert, alertvars, Check, Insert, Enqueue, TakeJob, Mark,
                SelectFailed, RetryNext, Grow, Stop

(* deliver and RetryFailed: an alert handled within its 5 minutes is not   *)
(* sent again once it is known to be sent, nor attempted more often than   *)
(* maxAttempts, across crashes and with any number of workers.             *)
THEOREM PromptAlertsAreSentOnce == AlertSpec => PromptSending
<1> DEFINE P == around.prompt /\ around.reliable
           Inv == HistoryInv /\ PromptHolds
           Sends == P => SentStays /\ AttemptsAreBounded'
<1>1. AlertInit => Inv
  BY HistoryInit, PromptInit
<1>2. HistoryInv /\ [AlertNext]_alertvars => around' = around
  BY DEF HistoryInv, AlertNext, AlertStep, DeliverAlert, alertvars, Check, Insert,
         Enqueue, TakeJob, Send, Mark, SelectFailed, RetryNext, Grow, Stop
<1>3. Inv /\ [AlertNext]_alertvars => Inv'
  BY <1>2, HistoryStep, PromptStep DEF PromptHolds
<1>4. Inv /\ [AlertNext]_alertvars => [Sends]_alertvars
  BY <1>2, PromptStep, SendsUnsent DEF PromptHolds, PromptInv
<1> HIDE DEF Inv
<1>5. AlertSpec => [][Sends]_alertvars
  BY <1>1, <1>3, <1>4, PTL DEF AlertSpec
<1>6. QED
  BY <1>5 DEF PromptSending

=============================================================================
