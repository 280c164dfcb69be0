------------------------- MODULE WebhookInboxProofs -------------------------
(***************************************************************************)
(* Proofs about WebhookInbox, for any events, handlers and crashes, and    *)
(* about what jobs rest on (Jobs, ConnectionPool), as MCWebhookInbox runs  *)
(* them beside it.                                                         *)
(*                                                                         *)
(* What makes the inbox right is what a handler knows of its event when it *)
(* is past a statement (HandlerKnows); what makes an event applied once is *)
(* that the one handler past Process will mark it (AppliedOnce).  With both*)
(* each statement is a step of EventLedger, or none.  Whoever holds the    *)
(* lock is the one that runs (LockInv), and a connection that is in use has*)
(* the tenant it was asked for (Clean).                                    *)
(***************************************************************************)
EXTENDS MCWebhookInbox, AlertDeliveryProofs, TLAPS, FiniteSetTheorems,
        SequenceTheorems, WellFoundedInduction

(* The conjunct that makes the safety invariants inductive: what a handler *)
(* that is past a statement already knows of its event.                    *)
HandlerKnows ==
    \A h \in Handlers :
        /\ pc[h] \in {"process", "markProcessed", "markFailed"}
              => row[ev[h]].stored
        /\ pc[h] = "markProcessed" => applied[ev[h]] > 0

IInv ==
    /\ TypeOK
    /\ HandlerKnows
    /\ DoneWasApplied
    /\ RecordedBeforeEffect
    /\ batch \subseteq {e \in Events : row[e].stored}

LEMMA OnceProperties ==
    ASSUME NEW n \in 0 .. MaxApplied
    PROVE  Once(n) \in 0 .. MaxApplied /\ Once(n) > 0
BY InboxAssumption DEF Once

LEMMA RowProperties ==
    ASSUME NEW r \in Row
    PROVE  /\ SetProcessed(r) \in Row
           /\ SetProcessed(r).stored = r.stored
           /\ SetProcessed(r).failed = r.failed
           /\ SetFailed(r) \in Row
           /\ SetFailed(r).stored = r.stored
           /\ SetFailed(r).failed
BY DEF Row, SetProcessed, SetFailed

(* The types of WebhookInbox, and that an idle handler holds no event.     *)
THEOREM TypeCorrect == Spec => []TypeOK
<1>1. Init => TypeOK
  BY InboxAssumption DEF Init, TypeOK, Row, Absent, Ages, Steps
<1>2. TypeOK /\ [Next]_<<vars, watched>> => TypeOK'
  <2> SUFFICES ASSUME TypeOK, [Next]_<<vars, watched>> PROVE TypeOK'
    OBVIOUS
  <2> dbSound' \in BOOLEAN /\ raced' \in SUBSET Events /\ cut' \in SUBSET Events
    BY DEF Next, Watch, watched, TypeOK
  <2> USE DEF TypeOK, Steps, Goto
  <2>1. ASSUME NEW h \in Handlers, NEW e \in Events, Deliver(h, e)
        PROVE  TypeOK'
    BY <2>1, InboxAssumption DEF Deliver
  <2>2. ASSUME NEW h \in Handlers, CheckExists(h) PROVE TypeOK'
    BY <2>2 DEF CheckExists
  <2>3. ASSUME NEW h \in Handlers, CreatePending(h) PROVE TypeOK'
    BY <2>3 DEF CreatePending, Row
  <2>4. ASSUME NEW h \in Handlers, RecordFails(h) PROVE TypeOK'
    BY <2>4 DEF RecordFails
  <2>5. ASSUME NEW h \in Handlers, Process(h) PROVE TypeOK'
    <3>1. ev[h] \in Events
      BY <2>5 DEF Process
    <3>2. Once(applied[ev[h]]) \in 0 .. MaxApplied
      BY <3>1, OnceProperties
    <3> QED BY <2>5, <3>1, <3>2 DEF Process
  <2>6. ASSUME NEW h \in Handlers, MarkProcessed(h) PROVE TypeOK'
    <3>1. SetProcessed(row[ev[h]]) \in Row
      BY <2>6, RowProperties DEF MarkProcessed
    <3> QED BY <2>6, <3>1 DEF MarkProcessed
  <2>7. ASSUME NEW h \in Handlers, MarkFailed(h) PROVE TypeOK'
    <3>1. SetFailed(row[ev[h]]) \in Row
      BY <2>7, RowProperties DEF MarkFailed
    <3> QED BY <2>7, <3>1 DEF MarkFailed
  <2>8. ASSUME NEW h \in Handlers, Answer(h) PROVE TypeOK'
    BY <2>8, InboxAssumption DEF Answer
  <2>9. CASE RetrySelect
    BY <2>9 DEF RetrySelect, PendingRetries
  <2>10. CASE RetryRun
    <3> PICK good \in SUBSET batch :
          /\ applied' = [e \in Events |->
                            IF e \in good THEN Once(applied[e]) ELSE applied[e]]
          /\ row' = [e \in Events |->
                        IF e \in good THEN SetProcessed(row[e])
                        ELSE IF e \in batch THEN SetFailed(row[e])
                        ELSE row[e]]
      BY <2>10 DEF RetryRun
    <3>1. applied' \in [Events -> 0 .. MaxApplied]
      BY OnceProperties
    <3>2. row' \in [Events -> Row]
      BY RowProperties
    <3> QED BY <2>10, <3>1, <3>2 DEF RetryRun
  <2>11. ASSUME NEW e \in Events, Age(e) PROVE TypeOK'
    BY <2>11 DEF Age, Ages
  <2>12. CASE Crash
    BY <2>12, InboxAssumption DEF Crash
  <2>13. CASE UNCHANGED <<vars, watched>>
    BY <2>13 DEF vars
  <2> QED
    BY <2>1, <2>2, <2>3, <2>4, <2>5, <2>6, <2>7, <2>8, <2>9, <2>10, <2>11,
       <2>12, <2>13 DEF Next, Step, HandleWebhook
<1> QED BY <1>1, <1>2, PTL DEF Spec

(* Only processed, applied, stored and failed matter to the invariants: a  *)
(* step that leaves the table and the counters alone keeps them, provided  *)
(* every handler it moves knows what its new step requires.                *)
LEMMA TableUnchanged ==
    ASSUME IInv, UNCHANGED <<row, applied>>, HandlerKnows',
           TypeOK', batch' \subseteq {e \in Events : row[e].stored}
    PROVE  IInv'
BY DEF IInv, DoneWasApplied, RecordedBeforeEffect

LEMMA IInvInductive == IInv /\ [Next]_<<vars, watched>> /\ TypeOK' => IInv'
<1> SUFFICES ASSUME IInv, [Next]_<<vars, watched>>, TypeOK' PROVE IInv'
  OBVIOUS
<1> TypeOK
  BY DEF IInv
<1>1. ASSUME NEW h \in Handlers, NEW e \in Events, Deliver(h, e)
      PROVE  IInv'
  <2>1. HandlerKnows'
    BY <1>1 DEF Deliver, IInv, HandlerKnows, TypeOK
  <2> QED BY <1>1, <2>1, TableUnchanged DEF Deliver, IInv
<1>2. ASSUME NEW h \in Handlers, CheckExists(h) PROVE IInv'
  <2>1. HandlerKnows'
    BY <1>2 DEF CheckExists, Goto, IInv, HandlerKnows, TypeOK
  <2> QED BY <1>2, <2>1, TableUnchanged DEF CheckExists, Goto, IInv
<1>3. ASSUME NEW h \in Handlers, CreatePending(h) PROVE IInv'
  <2>1. /\ ev[h] \in Events
        /\ \A e \in Events : /\ row[e].stored => row'[e].stored
                             /\ row'[e].processed = row[e].processed
                             /\ row'[e].failed = row[e].failed
        /\ row'[ev[h]].stored
    BY <1>3 DEF CreatePending, TypeOK, Row
  <2>2. HandlerKnows'
    BY <1>3, <2>1 DEF CreatePending, Goto, IInv, HandlerKnows, TypeOK
  <2> QED
    BY <1>3, <2>1, <2>2 DEF CreatePending, Goto, IInv, DoneWasApplied,
       RecordedBeforeEffect, TypeOK
<1>4. ASSUME NEW h \in Handlers, RecordFails(h) PROVE IInv'
  <2>1. HandlerKnows'
    BY <1>4 DEF RecordFails, Goto, IInv, HandlerKnows, TypeOK
  <2> QED BY <1>4, <2>1, TableUnchanged DEF RecordFails, Goto, IInv
<1>5. ASSUME NEW h \in Handlers, Process(h) PROVE IInv'
  <2>1. ev[h] \in Events /\ row[ev[h]].stored
    BY <1>5 DEF Process, TypeOK, IInv, HandlerKnows
  <2>2. CASE /\ applied' = [applied EXCEPT ![ev[h]] = Once(@)]
             /\ Goto(h, "markProcessed") /\ UNCHANGED row
    <3>1. applied'[ev[h]] > 0
      BY <2>1, <2>2, OnceProperties DEF TypeOK
    <3>2. \A e \in Events : applied[e] > 0 => applied'[e] > 0
      BY <2>1, <2>2, <3>1 DEF TypeOK
    <3>3. HandlerKnows'
      BY <2>1, <2>2, <3>1, <3>2 DEF Goto, IInv, HandlerKnows, TypeOK
    <3>4. DoneWasApplied'
      BY <2>2, <3>2 DEF IInv, DoneWasApplied
    <3>5. RecordedBeforeEffect'
      BY <2>1, <2>2 DEF IInv, RecordedBeforeEffect, TypeOK
    <3> QED BY <2>2, <3>3, <3>4, <3>5 DEF IInv, Goto
  <2>3. CASE UNCHANGED <<applied, row>> /\ Goto(h, "markFailed")
    <3>1. HandlerKnows'
      BY <2>1, <2>3 DEF Goto, IInv, HandlerKnows, TypeOK
    <3> QED BY <2>3, <3>1, TableUnchanged DEF Goto, IInv
  <2> QED BY <1>5, <2>2, <2>3 DEF Process
<1>6. ASSUME NEW h \in Handlers, MarkProcessed(h) PROVE IInv'
  <2>1. /\ ev[h] \in Events
        /\ applied[ev[h]] > 0
    BY <1>6 DEF MarkProcessed, TypeOK, IInv, HandlerKnows
  <2>2. \A e \in Events : /\ row'[e].stored = row[e].stored
                          /\ row'[e].failed = row[e].failed
                          /\ e # ev[h] => row'[e] = row[e]
    BY <1>6, <2>1, RowProperties DEF MarkProcessed, TypeOK
  <2>3. HandlerKnows'
    BY <1>6, <2>2 DEF MarkProcessed, Goto, IInv, HandlerKnows, TypeOK
  <2> QED
    BY <1>6, <2>1, <2>2, <2>3 DEF MarkProcessed, Goto, IInv, DoneWasApplied,
       RecordedBeforeEffect
<1>7. ASSUME NEW h \in Handlers, MarkFailed(h) PROVE IInv'
  <2>1. ev[h] \in Events
    BY <1>7 DEF MarkFailed, TypeOK
  <2>2. \A e \in Events : /\ row'[e].stored = row[e].stored
                          /\ row'[e] = row[e] \/ row'[e].failed
    BY <1>7, <2>1, RowProperties DEF MarkFailed, TypeOK
  <2>3. HandlerKnows'
    BY <1>7, <2>2 DEF MarkFailed, Goto, IInv, HandlerKnows, TypeOK
  <2> QED
    BY <1>7, <2>2, <2>3 DEF MarkFailed, Goto, IInv, DoneWasApplied,
       RecordedBeforeEffect
<1>8. ASSUME NEW h \in Handlers, Answer(h) PROVE IInv'
  <2>1. HandlerKnows'
    BY <1>8 DEF Answer, IInv, HandlerKnows, TypeOK
  <2> QED BY <1>8, <2>1, TableUnchanged DEF Answer, IInv
<1>9. CASE RetrySelect
  <2>1. batch' \subseteq {e \in Events : row[e].stored} /\ HandlerKnows'
    BY <1>9 DEF RetrySelect, PendingRetries, IInv, HandlerKnows
  <2> QED BY <1>9, <2>1, TableUnchanged DEF RetrySelect
<1>10. CASE RetryRun
  <2> PICK good \in SUBSET batch :
        /\ applied' = [e \in Events |->
                          IF e \in good THEN Once(applied[e]) ELSE applied[e]]
        /\ row' = [e \in Events |->
                      IF e \in good THEN SetProcessed(row[e])
                      ELSE IF e \in batch THEN SetFailed(row[e])
                      ELSE row[e]]
    BY <1>10 DEF RetryRun
  <2>1. \A e \in Events : /\ row'[e].stored = row[e].stored
                          /\ applied[e] > 0 => applied'[e] > 0
                          /\ e \in good => applied'[e] > 0 /\ row[e].stored
                          /\ e \notin good => applied'[e] = applied[e]
                          /\ e \in batch \ good => row'[e].failed
                          /\ e \notin batch => row'[e] = row[e]
    BY OnceProperties, RowProperties DEF TypeOK, IInv
  <2>2. HandlerKnows'
    BY <1>10, <2>1 DEF RetryRun, IInv, HandlerKnows, TypeOK
  <2>3. DoneWasApplied'
    BY <2>1 DEF IInv, DoneWasApplied
  <2>4. RecordedBeforeEffect'
    BY <2>1 DEF IInv, RecordedBeforeEffect
  <2> QED BY <1>10, <2>2, <2>3, <2>4 DEF RetryRun, IInv
<1>11. ASSUME NEW e \in Events, Age(e) PROVE IInv'
  BY <1>11, TableUnchanged DEF Age, IInv, HandlerKnows
<1>12. CASE Crash
  BY <1>12, TableUnchanged DEF Crash, IInv, HandlerKnows
<1>13. CASE UNCHANGED <<vars, watched>>
  BY <1>13, TableUnchanged DEF vars, IInv, HandlerKnows
<1> QED
  BY <1>1, <1>2, <1>3, <1>4, <1>5, <1>6, <1>7, <1>8, <1>9, <1>10, <1>11,
     <1>12, <1>13 DEF Next, Step, HandleWebhook

LEMMA SpecIInv == Spec => []IInv
<1>1. Init /\ TypeOK => IInv
  BY DEF Init, IInv, HandlerKnows, DoneWasApplied, RecordedBeforeEffect, Absent
<1> QED BY <1>1, TypeCorrect, IInvInductive, PTL DEF Spec

(* Once no statement fails, what is known of an event that was never held  *)
(* by two handlers nor lost in a crash: until it is on record, only the    *)
(* one handler past Process may have applied it.                           *)
Applying(e) == \E h \in Handlers : ev[h] = e /\ pc[h] = "markProcessed"

AppliedOnce(e) ==
    /\ applied[e] <= 1
    /\ applied[e] = 0 \/ row[e].processed \/ Applying(e)
    /\ \A h \in Handlers :
          ev[h] = e =>
             (pc[h] \in {"create", "process", "markFailed"} => applied[e] = 0)

(* The retry job finds nothing: whatever failed is processed as well.      *)
OnceInv ==
    /\ \A e \in Events : row[e].failed => row[e].processed
    /\ batch = {}
    /\ \A e \in Events \ raced : ~Shared(e)
    /\ dbSound => \A e \in Events \ (raced \cup cut) : AppliedOnce(e)

LEMMA OnceInit == Init => OnceInv
BY InboxAssumption DEF Init, OnceInv, AppliedOnce, Shared, Absent

(* A step that leaves an event's record alone, and moves nobody who holds  *)
(* it to where it must not be applied.                                     *)
LEMMA EventAlone ==
    ASSUME NEW e \in Events, AppliedOnce(e), applied'[e] = applied[e],
           row'[e].processed = row[e].processed,
           \A h \in Handlers :
              \/ ev'[h] = ev[h] /\ pc'[h] = pc[h]
              \/ ev[h] # e /\ ev'[h] # e
              \/ /\ pc[h] # "markProcessed"
                 /\ pc'[h] \notin {"create", "process", "markFailed"}
              \/ /\ pc[h] = "create" /\ pc'[h] = "process" /\ ev'[h] = ev[h]
    PROVE  AppliedOnce(e)'
  <1>1. Applying(e) => Applying(e)'
    BY DEF Applying
  <1>2. ASSUME NEW h \in Handlers, ev'[h] = e,
               pc'[h] \in {"create", "process", "markFailed"}
        PROVE  applied'[e] = 0
    BY <1>2 DEF AppliedOnce
  <1>. QED  BY <1>1, <1>2 DEF AppliedOnce

LEMMA OnceStep ==
    ASSUME TypeOK, TypeOK', OnceInv, Step, Watch
    PROVE  OnceInv'
  <1>1. /\ dbSound' = dbSound /\ raced \subseteq raced' /\ cut \subseteq cut'
        /\ \A e \in Events \ raced' : ~Shared(e)'
    BY DEF Watch
  <1>2. ASSUME batch' = {}, \A e \in Events : row'[e].failed => row'[e].processed,
               dbSound => \A e \in Events :
                   AppliedOnce(e) /\ ~Shared(e) /\ e \notin cut' => AppliedOnce(e)'
        PROVE  OnceInv'
    BY <1>1, <1>2 DEF OnceInv
  <1>3. ASSUME UNCHANGED <<row, applied, batch>>,
               \A e \in Events :
                  AppliedOnce(e) /\ ~Shared(e) /\ e \notin cut' => AppliedOnce(e)'
        PROVE  OnceInv'
    BY <1>2, <1>3 DEF OnceInv
  <1>4. ASSUME NEW h \in Handlers, NEW e \in Events, Deliver(h, e)
        PROVE  OnceInv'
    <2>1. /\ pc[h] = "idle" /\ UNCHANGED <<row, applied, batch>>
          /\ pc'[h] = "exists"
          /\ \A g \in Handlers \ {h} : pc'[g] = pc[g] /\ ev'[g] = ev[g]
      BY <1>4 DEF Deliver, TypeOK
    <2>. QED  BY <1>3, <2>1, EventAlone
  <1>5. ASSUME NEW h \in Handlers, CheckExists(h) PROVE OnceInv'
    <2>1. /\ pc[h] = "exists" /\ UNCHANGED <<row, applied, batch, ev>>
          /\ pc'[h] = IF row[ev[h]].processed THEN "answer" ELSE "create"
          /\ \A g \in Handlers \ {h} : pc'[g] = pc[g]
      BY <1>5 DEF CheckExists, Goto, TypeOK
    <2>2. ASSUME NEW e \in Events, AppliedOnce(e), ~Shared(e)
          PROVE  AppliedOnce(e)'
      <3>1. CASE ev[h] # e \/ pc'[h] = "answer"
        BY <2>1, <2>2, <3>1, EventAlone
      <3>2. CASE ev[h] = e /\ pc'[h] = "create"
        <4>1. ~row[e].processed
          BY <2>1, <3>2
        <4>2. ~Applying(e)
          BY <2>1, <2>2, <3>2 DEF Applying, Shared
        <4>3. applied[e] = 0
          BY <2>2, <4>1, <4>2 DEF AppliedOnce
        <4>. QED  BY <2>1, <4>3 DEF AppliedOnce
      <3>. QED  BY <2>1, <3>1, <3>2
    <2>. QED  BY <1>3, <2>1, <2>2
  <1>6. ASSUME NEW h \in Handlers, CreatePending(h) PROVE OnceInv'
    <2>1. /\ pc[h] = "create" /\ UNCHANGED <<applied, batch, ev>>
          /\ pc'[h] = "process"
          /\ \A g \in Handlers \ {h} : pc'[g] = pc[g]
          /\ \A e \in Events : /\ row'[e].processed = row[e].processed
                               /\ row'[e].failed = row[e].failed
      BY <1>6 DEF CreatePending, Goto, TypeOK, Row
    <2>. QED  BY <1>2, <2>1, EventAlone DEF OnceInv
  <1>7. ASSUME NEW h \in Handlers, RecordFails(h) PROVE OnceInv'
    BY <1>2, <1>7 DEF RecordFails, Goto, OnceInv
  <1>8. ASSUME NEW h \in Handlers, Process(h) PROVE OnceInv'
    <2>1. /\ pc[h] = "process" /\ UNCHANGED <<row, batch, ev>>
          /\ \A g \in Handlers \ {h} : pc'[g] = pc[g]
          /\ \A e \in Events : e # ev[h] => applied'[e] = applied[e]
          /\ \/ /\ pc'[h] = "markProcessed"
                /\ applied'[ev[h]] = Once(applied[ev[h]])
             \/ pc'[h] = "markFailed" /\ applied' = applied
      BY <1>8 DEF Process, Goto, TypeOK
    <2>2. ASSUME NEW e \in Events, AppliedOnce(e), ~Shared(e)
          PROVE  AppliedOnce(e)'
      <3>1. CASE ev[h] # e
        BY <2>1, <2>2, <3>1, EventAlone
      <3>2. CASE ev[h] = e
        <4>1. applied[e] = 0
          BY <2>1, <2>2, <3>2 DEF AppliedOnce
        <4>2. Once(0) = 1
          BY InboxAssumption DEF Once
        <4>3. \A g \in Handlers : ev[g] = e => g = h
          BY <2>2, <3>2 DEF Shared
        <4>4. CASE pc'[h] = "markFailed" /\ applied' = applied
          BY <2>1, <4>1, <4>4 DEF AppliedOnce
        <4>5. CASE pc'[h] = "markProcessed" /\ applied'[e] = 1
          <5>1. Applying(e)'
            BY <2>1, <3>2, <4>5 DEF Applying
          <5>. QED  BY <2>1, <4>3, <4>5, <5>1 DEF AppliedOnce
        <4>. QED  BY <2>1, <3>2, <4>1, <4>2, <4>4, <4>5
      <3>. QED  BY <3>1, <3>2
    <2>. QED  BY <1>2, <2>1, <2>2 DEF OnceInv
  <1>9. ASSUME NEW h \in Handlers, MarkProcessed(h) \/ MarkFailed(h)
        PROVE  OnceInv'
    <2>1. /\ pc[h] \in {"markProcessed", "markFailed"} /\ ev[h] \in Events
          /\ UNCHANGED <<applied, batch, ev>> /\ pc'[h] = "answer"
          /\ \A g \in Handlers \ {h} : pc'[g] = pc[g]
      BY <1>9 DEF MarkProcessed, MarkFailed, Goto, TypeOK
    <2>2. \A e \in Events : \/ row'[e] = row[e]
                            \/ e = ev[h] /\ row'[e] = SetProcessed(row[e])
                            \/ e = ev[h] /\ row'[e] = SetFailed(row[e])
      BY <1>9, <2>1 DEF MarkProcessed, MarkFailed, TypeOK
    <2>3. dbSound => row'[ev[h]] \in {SetProcessed(row[ev[h]]), SetFailed(row[ev[h]])}
      BY <1>9, <2>1 DEF MarkProcessed, MarkFailed, TypeOK
    <2>4. \A r \in Row : /\ SetProcessed(r).processed /\ SetFailed(r).processed
      BY DEF Row, SetProcessed, SetFailed
    <2>5. \A e \in Events : /\ row'[e].failed => row'[e].processed
                            /\ row[e].processed => row'[e].processed
      BY <2>2, <2>4 DEF OnceInv, TypeOK
    <2>6. ASSUME dbSound, NEW e \in Events, AppliedOnce(e)
          PROVE  AppliedOnce(e)'
      <3>1. CASE e # ev[h]
        BY <2>1, <2>2, <2>6, <3>1, EventAlone
      <3>2. CASE e = ev[h]
        <4>1. row'[e].processed
          BY <2>3, <2>4, <2>6, <3>2 DEF TypeOK
        <4>. QED  BY <2>1, <2>6, <4>1 DEF AppliedOnce
      <3>. QED  BY <3>1, <3>2
    <2>. QED  BY <1>2, <2>1, <2>5, <2>6 DEF OnceInv
  <1>10. ASSUME NEW h \in Handlers, Answer(h) PROVE OnceInv'
    <2>1. /\ pc[h] = "answer" /\ UNCHANGED <<row, applied, batch>>
          /\ pc'[h] = "idle"
          /\ \A g \in Handlers \ {h} : pc'[g] = pc[g] /\ ev'[g] = ev[g]
      BY <1>10 DEF Answer, TypeOK
    <2>. QED  BY <1>3, <2>1, EventAlone
  <1>11. CASE RetrySelect
    <2>1. batch' = {}
      BY <1>11 DEF RetrySelect, PendingRetries, OnceInv
    <2>. QED  BY <1>2, <1>11, <2>1, EventAlone DEF RetrySelect, OnceInv
  <1>12. CASE RetryRun
    <2>1. batch = {} /\ batch' = {} /\ UNCHANGED <<pc, ev>>
      BY <1>12 DEF RetryRun, OnceInv
    <2>2. \A e \in Events : row'[e] = row[e] /\ applied'[e] = applied[e]
      BY <1>12, <2>1 DEF RetryRun
    <2>. QED  BY <1>2, <2>1, <2>2, EventAlone DEF OnceInv
  <1>13. ASSUME NEW e \in Events, Age(e) PROVE OnceInv'
    BY <1>3, <1>13, EventAlone DEF Age
  <1>14. CASE Crash
    <2>1. /\ batch' = {} /\ UNCHANGED <<row, applied>>
          /\ \A h \in Handlers : pc'[h] = "idle" /\ ev'[h] = NoEvent
          /\ cut' = cut \cup {e \in Events : \E h \in Handlers : ev[h] = e}
      <3>1. crashes' # crashes
        BY <1>14 DEF Crash, TypeOK
      <3>. QED  BY <1>14, <3>1 DEF Crash, Watch
    <2>2. ASSUME NEW e \in Events, AppliedOnce(e), e \notin cut'
          PROVE  AppliedOnce(e)'
      BY <2>1, <2>2, EventAlone, InboxAssumption
    <2>. QED  BY <1>2, <2>1, <2>2 DEF OnceInv
  <1>. QED  BY <1>4, <1>5, <1>6, <1>7, <1>8, <1>9, <1>10, <1>11, <1>12, <1>13,
               <1>14 DEF Step, HandleWebhook

LEMMA SpecOnceInv == Spec => []OnceInv
<1>1. TypeOK /\ TypeOK' /\ OnceInv /\ [Next]_<<vars, watched>> => OnceInv'
  <2> SUFFICES ASSUME TypeOK, TypeOK', OnceInv, [Next]_<<vars, watched>>
               PROVE  OnceInv'
    OBVIOUS
  <2>1. CASE Next
    BY <2>1, OnceStep DEF Next
  <2>2. CASE UNCHANGED <<vars, watched>>
    BY <2>2 DEF OnceInv, AppliedOnce, Applying, Shared, vars, watched
  <2>. QED  BY <2>1, <2>2
<1>. QED  BY TypeCorrect, OnceInit, <1>1, PTL DEF Spec

(* An event is applied once, however often it is delivered, unless two     *)
(* handlers held it at once, a statement failed or a crash took it away.   *)
THEOREM AppliedAtMostOnce == Spec => []ProcessedOnce
<1>1. OnceInv => ProcessedOnce
  BY DEF OnceInv, AppliedOnce, ProcessedOnce
<1>. QED  BY SpecOnceInv, <1>1, PTL

(* No interleaving of deliveries, retries and crashes marks an event as    *)
(* done (HandleWebhook, RetryFailedWebhooks) without having applied it.    *)
THEOREM DoneMeansApplied == Spec => []DoneWasApplied
BY SpecIInv, PTL DEF IInv

(* The effect of an event never precedes its row in the inbox.             *)
THEOREM EffectIsRecorded == Spec => []RecordedBeforeEffect
BY SpecIInv, PTL DEF IInv

-----------------------------------------------------------------------------
(* The inbox implements EventLedger.  What each statement does to a row is *)
(* a step of the ledger, or none, given what handlers know of their event. *)
Known == {e \in Events : row[e].stored}
Outcomes == [e \in Events |-> Outcome(row[e])]

LEMMA LedgerInit == Init => Ledger!Init
BY DEF Init, Ledger!Init, Outcome, Absent

(* Nothing that the ledger looks at has changed.                           *)
LEMMA LedgerStutters ==
    ASSUME UNCHANGED <<row, applied>>
    PROVE  UNCHANGED Ledger!ledgervars
BY DEF Ledger!ledgervars

(* What a row says became of its event, once a statement has written it.   *)
LEMMA OutcomeProperties ==
    ASSUME NEW r \in Row
    PROVE  /\ Outcome([r EXCEPT !.stored = TRUE]) = Outcome(r)
           /\ Outcome(SetFailed(r)) = "failed"
           /\ r.processed \/ r.failed => Outcome(SetProcessed(r)) = Outcome(r)
           /\ ~r.processed /\ ~r.failed =>
                 Outcome(r) = "none" /\ Outcome(SetProcessed(r)) = "applied"
BY DEF Row, Outcome, SetFailed, SetProcessed

LEMMA PendingIsRecorded ==
    ASSUME TypeOK, NEW h \in Handlers, CreatePending(h)
    PROVE  Ledger!Record(ev[h])
<1>1. /\ ev[h] \in Events /\ UNCHANGED applied
      /\ row' = [row EXCEPT ![ev[h]] = [row[ev[h]] EXCEPT !.stored = TRUE]]
  BY DEF CreatePending, TypeOK
<1>2. /\ row'[ev[h]].stored
      /\ \A e \in Events : e # ev[h] => row'[e] = row[e]
      /\ \A e \in Events : Outcome(row'[e]) = Outcome(row[e])
  BY <1>1, OutcomeProperties DEF TypeOK, Row
<1>3. Known' = Known \cup {ev[h]}
  BY <1>1, <1>2 DEF Known
<1>4. Outcomes' = Outcomes
  BY <1>2 DEF Outcomes
<1>. QED  BY <1>1, <1>3, <1>4 DEF Ledger!Record, Known, Outcomes

LEMMA ProcessIsApplied ==
    ASSUME IInv, NEW h \in Handlers, Process(h)
    PROVE  Ledger!Apply(ev[h]) \/ UNCHANGED Ledger!ledgervars
<1>1. ev[h] \in Events /\ row[ev[h]].stored /\ UNCHANGED row
  BY DEF Process, IInv, TypeOK, HandlerKnows
<1>2. CASE UNCHANGED applied
  BY <1>1, <1>2, LedgerStutters
<1>3. CASE applied' = [applied EXCEPT ![ev[h]] = Once(@)]
  BY <1>1, <1>3 DEF Ledger!Apply, Once
<1>. QED  BY <1>2, <1>3 DEF Process

LEMMA ProcessedIsSettled ==
    ASSUME IInv, NEW h \in Handlers, MarkProcessed(h)
    PROVE  Ledger!Settle(ev[h]) \/ UNCHANGED Ledger!ledgervars
<1>1. /\ ev[h] \in Events /\ applied[ev[h]] > 0 /\ row[ev[h]].stored
      /\ row[ev[h]] \in Row /\ UNCHANGED applied
  BY DEF MarkProcessed, IInv, TypeOK, HandlerKnows, RecordedBeforeEffect
<1>2. CASE UNCHANGED row
  BY <1>1, <1>2, LedgerStutters
<1>3. CASE row' = [row EXCEPT ![ev[h]] = SetProcessed(@)]
  <2>1. /\ row'[ev[h]] = SetProcessed(row[ev[h]])
        /\ \A e \in Events : e # ev[h] => row'[e] = row[e]
    BY <1>1, <1>3 DEF IInv, TypeOK
  <2>2. Known' = Known
    BY <1>1, <2>1, RowProperties DEF Known
  <2>3. CASE row[ev[h]].processed \/ row[ev[h]].failed
    <3>1. Outcomes' = Outcomes
      BY <1>1, <2>1, <2>3, OutcomeProperties DEF Outcomes
    <3>. QED  BY <1>1, <2>2, <3>1 DEF Ledger!ledgervars, Known, Outcomes
  <2>4. CASE ~row[ev[h]].processed /\ ~row[ev[h]].failed
    <3>1. /\ Outcomes[ev[h]] = "none"
          /\ Outcomes' = [Outcomes EXCEPT ![ev[h]] = "applied"]
      <4>1. /\ Outcome(row[ev[h]]) = "none"
            /\ Outcome(row'[ev[h]]) = "applied"
        BY <1>1, <2>1, <2>4, OutcomeProperties
      <4>. QED  BY <1>1, <2>1, <4>1 DEF Outcomes
    <3>. QED  BY <1>1, <2>2, <3>1 DEF Ledger!Settle, Known, Outcomes
  <2>. QED  BY <2>3, <2>4
<1>. QED  BY <1>2, <1>3 DEF MarkProcessed

LEMMA FailedIsKnown ==
    ASSUME IInv, NEW h \in Handlers, MarkFailed(h)
    PROVE  Ledger!Fail(ev[h]) \/ UNCHANGED Ledger!ledgervars
<1>1. /\ ev[h] \in Events /\ row[ev[h]].stored
      /\ row[ev[h]] \in Row /\ UNCHANGED applied
  BY DEF MarkFailed, IInv, TypeOK, HandlerKnows
<1>2. CASE UNCHANGED row
  BY <1>1, <1>2, LedgerStutters
<1>3. CASE row' = [row EXCEPT ![ev[h]] = SetFailed(@)]
  <2>1. /\ row'[ev[h]] = SetFailed(row[ev[h]])
        /\ \A e \in Events : e # ev[h] => row'[e] = row[e]
    BY <1>1, <1>3 DEF IInv, TypeOK
  <2>2. Known' = Known
    BY <1>1, <2>1, RowProperties DEF Known
  <2>3. Outcomes' = [Outcomes EXCEPT ![ev[h]] = "failed"]
    BY <1>1, <2>1, OutcomeProperties DEF Outcomes
  <2>. QED  BY <1>1, <2>2, <2>3 DEF Ledger!Fail, Known, Outcomes
<1>. QED  BY <1>2, <1>3 DEF MarkFailed

(* The retry job selects nothing (OnceInv), so its run changes no row.     *)
LEMMA RetryStutters ==
    ASSUME TypeOK, OnceInv, RetryRun
    PROVE  UNCHANGED Ledger!ledgervars
<1>1. row' = [e \in Events |-> row[e]] /\ applied' = [e \in Events |-> applied[e]]
  BY DEF RetryRun, OnceInv
<1>2. row' = row /\ applied' = applied
  BY <1>1 DEF TypeOK
<1>. QED  BY <1>2, LedgerStutters

LEMMA LedgerStep ==
    ASSUME IInv, OnceInv, Step
    PROVE  [Ledger!Next]_Ledger!ledgervars
<1>1. TypeOK
  BY DEF IInv
<1>2. ASSUME NEW h \in Handlers, HandleWebhook(h)
      PROVE  [Ledger!Next]_Ledger!ledgervars
  <2>1. ev[h] \in Events
    BY <1>1, <1>2 DEF HandleWebhook, CheckExists, CreatePending, RecordFails,
       Process, MarkProcessed, MarkFailed, Answer, TypeOK
  <2>2. CASE CheckExists(h) \/ RecordFails(h) \/ Answer(h)
    BY <2>2, LedgerStutters DEF CheckExists, RecordFails, Answer
  <2>3. CASE CreatePending(h)
    <3>1. Ledger!Record(ev[h])
      BY <1>1, <2>3, PendingIsRecorded
    <3>2. Ledger!Next
      BY <2>1, <3>1 DEF Ledger!Next, Ledger!Record
    <3>. QED  BY <3>2
  <2>4. CASE Process(h)
    BY <2>1, <2>4, ProcessIsApplied DEF Ledger!Next
  <2>5. CASE MarkProcessed(h)
    BY <2>1, <2>5, ProcessedIsSettled DEF Ledger!Next
  <2>6. CASE MarkFailed(h)
    BY <2>1, <2>6, FailedIsKnown DEF Ledger!Next
  <2>. QED  BY <1>2, <2>2, <2>3, <2>4, <2>5, <2>6 DEF HandleWebhook
<1>3. ASSUME NEW h \in Handlers, NEW e \in Events, Deliver(h, e)
      PROVE  UNCHANGED Ledger!ledgervars
  BY <1>3, LedgerStutters DEF Deliver
<1>4. ASSUME NEW e \in Events, Age(e) PROVE UNCHANGED Ledger!ledgervars
  BY <1>4, LedgerStutters DEF Age
<1>5. CASE RetrySelect \/ Crash
  BY <1>5, LedgerStutters DEF RetrySelect, Crash
<1>6. CASE RetryRun
  BY <1>1, <1>6, RetryStutters
<1>. QED  BY <1>2, <1>3, <1>4, <1>5, <1>6 DEF Step

(* HandleWebhook, RetryFailedWebhooks and the rows they keep are a ledger  *)
(* of events: whatever interleaves, fails or crashes, a record is never    *)
(* lost, no effect precedes it, and no outcome is written that did not     *)
(* happen, nor forgotten once it is.                                       *)
THEOREM InboxIsALedger == Spec => KeepsLedger
<1>1. IInv /\ OnceInv /\ [Next]_<<vars, watched>> => [Ledger!Next]_Ledger!ledgervars
  <2> SUFFICES ASSUME IInv, OnceInv, [Next]_<<vars, watched>>
               PROVE  [Ledger!Next]_Ledger!ledgervars
    OBVIOUS
  <2>1. CASE Next
    BY <2>1, LedgerStep DEF Next
  <2>2. CASE UNCHANGED <<vars, watched>>
    BY <2>2, LedgerStutters DEF vars
  <2>. QED  BY <2>1, <2>2
<1>. QED  BY SpecIInv, SpecOnceInv, LedgerInit, <1>1, PTL
          DEF Spec, KeepsLedger, Ledger!Spec
-----------------------------------------------------------------------------
(* The dunning job, on any machines, with any rows and any faults.         *)

(* The rows of the table.                                                  *)
JR == 1 .. MaxRows
(* Who holds the lock is running; while nothing failed, nobody else is.    *)
LockInv ==
    /\ holder \in Machines => at[holder] # "waiting"
    /\ faults = 0 => \A m \in Machines : at[m] # "waiting" => holder = m
    /\ \A m \in Machines : due[m] => at[m] = "waiting"

(* The rows of a run exist, and those of a run that lost its lock are shaky.*)
TodoInv ==
    /\ \A m \in Machines :
          /\ at[m] \in {"waiting", "select"} => todo[m] = {}
          /\ at[m] = "mark" => todo[m] # {}
          /\ \A r \in todo[m] : Dunning!Exists(r)
          /\ holder # m => todo[m] \subseteq shaky
          /\ holder # m /\ at[m] = "select" => JR \subseteq shaky
    /\ \A r \in JR : events[r].sent => Dunning!Exists(r)

(* The row whose reminder has gone out and is not marked yet.              *)
BeingMarked(m, r) == at[m] = "mark" /\ r = Dunning!First(todo[m])

MailInv ==
    \A r \in JR \ shaky :
        /\ mails[r] <= 1
        /\ ~events[r].sent /\ (\A m \in Machines : ~BeingMarked(m, r)) => mails[r] = 0
        /\ \A m \in Machines : r \in todo[m] /\ ~BeingMarked(m, r) => mails[r] = 0


Labels == {"waiting", "select", "send", "mark"}
JobRow == [pay : {0} \cup Payments, age : 0 .. 2, sent : BOOLEAN]
JobTables ==
    /\ minute \in BOOLEAN /\ due \in [Machines -> BOOLEAN]
    /\ at \in [Machines -> Labels] /\ todo \in [Machines -> SUBSET JR]
    /\ holder \in Machines \cup {NoMachine}
    /\ events \in [JR -> JobRow] /\ faults \in 0 .. MaxJobFaults
    /\ mails \in [JR -> 0 .. 2] /\ shaky \in SUBSET JR

JobInv == JobTables /\ LockInv /\ TodoInv /\ MailInv

(* The row that a run deals with is one of those that it has left.         *)
LEMMA FirstRow ==
    ASSUME JobInv, NEW m \in Machines, todo[m] # {}
    PROVE  Dunning!First(todo[m]) \in todo[m]
<1> DEFINE owners == {Dunning!Tenant(r) : r \in todo[m]}
<1>1. owners \subseteq Nat /\ owners # {}
  <2>1. \A r \in todo[m] : events[r].pay \in Payments
    BY DEF JobInv, TodoInv, Dunning!Exists
  <2>2. \A p \in Payments : tenantOf[p] \in Nat
    BY JobAssumption
  <2>. QED  BY <2>1, <2>2 DEF Dunning!Tenant
<1>2. PICK least \in owners : \A t \in owners : ~(<<t, least>> \in OpToRel(<, Nat))
  <2> HIDE DEF owners
  <2>. QED  BY <1>1, NatLessThanWellFounded, WFMin
<1>3. \A t \in owners : least <= t
  <2>1. \A t \in owners : ~(t < least)
    BY <1>1, <1>2 DEF OpToRel
  <2> HIDE DEF owners
  <2>. QED  BY <1>1, <2>1
<1>4. PICK r \in todo[m] : Dunning!Tenant(r) = least
  OBVIOUS
<1>5. \A s \in todo[m] : Dunning!Tenant(r) <= Dunning!Tenant(s)
  BY <1>3, <1>4
<1>. QED  BY <1>4, <1>5 DEF Dunning!First

LEMMA JobInit == Dunning!Init => JobInv
<1> SUFFICES ASSUME Dunning!Init PROVE JobInv
  OBVIOUS
<1> USE DEF Dunning!Init, Dunning!Rows
<1>1. Dunning!NoRow \in JobRow /\ Dunning!NoRow.sent = FALSE
  BY DEF Dunning!NoRow, JobRow
<1>2. JobTables
  <2>1. /\ minute \in BOOLEAN /\ due \in [Machines -> BOOLEAN]
        /\ at \in [Machines -> Labels] /\ todo \in [Machines -> SUBSET JR]
        /\ holder \in Machines \cup {NoMachine}
        /\ faults \in 0 .. MaxJobFaults /\ shaky \in SUBSET JR
    <3>1. holder = NoMachine /\ faults = 0 /\ shaky = {} /\ minute = FALSE
      OBVIOUS
    <3>2. 0 \in 0 .. MaxJobFaults
      BY JobAssumption
    <3>. QED  BY <3>1, <3>2 DEF Labels
  <2>2. events \in [JR -> JobRow] /\ mails \in [JR -> 0 .. 2]
    BY <1>1 DEF JR
  <2>. QED  BY <2>1, <2>2 DEF JobTables
<1>3. LockInv
  BY JobAssumption DEF LockInv
<1>4. TodoInv
  BY <1>1, JobAssumption DEF TodoInv, JR
<1>5. MailInv
  BY DEF MailInv, JR
<1>. QED  BY <1>2, <1>3, <1>4, <1>5 DEF JobInv

(* A step that leaves the runs and what is known of the mails alone, and   *)
(* forgets no row.                                                         *)
LEMMA RunsStay ==
    ASSUME JobInv, JobTables',
           UNCHANGED <<at, todo, holder, mails, shaky, faults>>,
           \A m \in Machines : due'[m] => at[m] = "waiting",
           \A r \in JR : /\ Dunning!Exists(r) => events'[r].pay = events[r].pay
                         /\ events'[r].sent = events[r].sent
    PROVE  JobInv'
<1>1. LockInv'
  BY DEF JobInv, LockInv
<1>2. TodoInv'
  <2>1. \A m \in Machines : todo[m] \subseteq JR
    BY DEF JobInv, JobTables
  <2>. QED  BY <2>1 DEF JobInv, TodoInv, Dunning!Exists
<1>3. \A m \in Machines, r \in JR : BeingMarked(m, r)' <=> BeingMarked(m, r)
  <2> SUFFICES ASSUME NEW m \in Machines, at[m] = "mark"
               PROVE  Dunning!First(todo[m])' = Dunning!First(todo[m])
    BY DEF BeingMarked
  <2>1. \A r \in todo[m] : Dunning!Tenant(r)' = Dunning!Tenant(r)
    BY DEF JobInv, JobTables, TodoInv, Dunning!Tenant
  <2>. QED  BY <2>1 DEF Dunning!First
<1>4. MailInv'
  BY <1>3 DEF JobInv, MailInv
<1>. QED  BY <1>1, <1>2, <1>4 DEF JobInv

LEMMA TickStep == ASSUME JobInv, Dunning!Tick PROVE JobInv'
<1>1. \A r \in JR : /\ events'[r] \in JobRow /\ events'[r].pay = events[r].pay
                    /\ events'[r].sent = events[r].sent
  <2> SUFFICES ASSUME NEW r \in JR
               PROVE  /\ events'[r] \in JobRow /\ events'[r].pay = events[r].pay
                      /\ events'[r].sent = events[r].sent
    OBVIOUS
  <2>1. events[r] \in JobRow
    BY DEF JobInv, JobTables
  <2>2. \/ events'[r] = events[r]
        \/ events[r].age < 2 /\ events'[r] = [events[r] EXCEPT !.age = @ + 1]
    BY DEF Dunning!Tick, Dunning!Rows, Dunning!DaysToCutoff, JR
  <2>. QED  BY <2>1, <2>2 DEF JobRow
<1>2. events' \in [JR -> JobRow]
  <2>1. DOMAIN events' = JR /\ events' = [r \in JR |-> events'[r]]
    BY DEF Dunning!Tick, Dunning!Rows, JR
  <2>. QED  BY <1>1, <2>1
<1>3. minute' \in BOOLEAN /\ due' \in [Machines -> BOOLEAN]
  BY DEF JobInv, JobTables, Dunning!Tick
<1>4. UNCHANGED <<at, todo, holder, overdue, mails, shaky, faults>>
  BY DEF Dunning!Tick, Dunning!runvars
<1>5. JobTables'
  <2>1. /\ at' \in [Machines -> Labels] /\ todo' \in [Machines -> SUBSET JR]
        /\ holder' \in Machines \cup {NoMachine} /\ faults' \in 0 .. MaxJobFaults
        /\ mails' \in [JR -> 0 .. 2] /\ shaky' \in SUBSET JR
    BY <1>4 DEF JobInv, JobTables
  <2>. QED  BY <1>2, <1>3, <2>1 DEF JobTables
<1>6. \A m \in Machines : due'[m] => at[m] = "waiting"
  BY DEF Dunning!Tick
<1>. QED  BY <1>1, <1>4, <1>5, <1>6, RunsStay

LEMMA CreateStep ==
    ASSUME JobInv, NEW r \in JR, NEW p \in Payments, Dunning!Create(r, p)
    PROVE  JobInv'
<1> DEFINE none == Dunning!NoRow
           new == [none EXCEPT !.pay = p]
<1>1. new \in JobRow /\ new.sent = FALSE
  <2>1. none \in JobRow /\ none.sent = FALSE
    BY DEF Dunning!NoRow, JobRow
  <2> HIDE DEF none
  <2>. QED  BY <2>1 DEF JobRow
<1>2. /\ events' = [events EXCEPT ![r] = new] /\ ~Dunning!Exists(r)
      /\ UNCHANGED <<minute, due, at, todo, holder, mails, shaky, faults>>
  BY DEF Dunning!Create, Dunning!runvars
<1>3. ~events[r].sent /\ events \in [JR -> JobRow]
  BY <1>2 DEF JobInv, JobTables, TodoInv
<1> HIDE DEF new
<1>4. events' \in [JR -> JobRow] /\ events'[r] = new /\ \A s \in JR \ {r} : events'[s] = events[s]
  BY <1>1, <1>2, <1>3
<1>5. JobTables'
  <2>1. /\ minute' \in BOOLEAN /\ due' \in [Machines -> BOOLEAN]
        /\ at' \in [Machines -> Labels] /\ todo' \in [Machines -> SUBSET JR]
        /\ holder' \in Machines \cup {NoMachine} /\ faults' \in 0 .. MaxJobFaults
        /\ mails' \in [JR -> 0 .. 2] /\ shaky' \in SUBSET JR
    BY <1>2 DEF JobInv, JobTables
  <2>. QED  BY <1>4, <2>1 DEF JobTables
<1>6. \A s \in JR : /\ Dunning!Exists(s) => events'[s].pay = events[s].pay
                    /\ events'[s].sent = events[s].sent
  <2>1. events[r].sent \in BOOLEAN
    BY <1>3 DEF JobRow
  <2>. QED  BY <1>1, <1>2, <1>3, <1>4, <2>1
<1>7. \A m \in Machines : due'[m] => at[m] = "waiting"
  BY <1>2 DEF JobInv, LockInv
<1>. QED  BY <1>2, <1>5, <1>6, <1>7, RunsStay

LEMMA PaidStep == ASSUME JobInv, NEW t, Dunning!Paid(t) PROVE JobInv'
<1>1. UNCHANGED <<minute, due, at, todo, holder, events, mails, shaky, faults>>
  BY DEF Dunning!Paid, Dunning!runvars
<1>2. JobTables'
  <2>1. /\ minute' \in BOOLEAN /\ due' \in [Machines -> BOOLEAN]
        /\ at' \in [Machines -> Labels] /\ todo' \in [Machines -> SUBSET JR]
        /\ holder' \in Machines \cup {NoMachine} /\ events' \in [JR -> JobRow]
        /\ faults' \in 0 .. MaxJobFaults
        /\ mails' \in [JR -> 0 .. 2] /\ shaky' \in SUBSET JR
    BY <1>1 DEF JobInv, JobTables
  <2>. QED  BY <2>1 DEF JobTables
<1>3. \A m \in Machines : due'[m] => at[m] = "waiting"
  BY <1>1 DEF JobInv, LockInv
<1>. QED  BY <1>1, <1>2, <1>3, RunsStay

(* The other runs go on with the row that they were at.                    *)
LEMMA OthersStay ==
    ASSUME JobInv, NEW m \in Machines,
           \A n \in Machines \ {m} : at'[n] = at[n] /\ todo'[n] = todo[n],
           \A r \in JR : Dunning!Exists(r) => events'[r].pay = events[r].pay
    PROVE  \A n \in Machines \ {m}, r \in JR : BeingMarked(n, r)' <=> BeingMarked(n, r)
<1> SUFFICES ASSUME NEW n \in Machines \ {m}, at[n] = "mark"
             PROVE  Dunning!First(todo[n])' = Dunning!First(todo[n])
  BY DEF BeingMarked
<1>1. todo'[n] = todo[n]
  OBVIOUS
<1>2. \A r \in todo[n] : Dunning!Tenant(r)' = Dunning!Tenant(r)
  BY DEF JobInv, JobTables, TodoInv, Dunning!Tenant
<1>. QED  BY <1>1, <1>2 DEF Dunning!First

(* A step of machine m: what has to be seen of m and of the rows.          *)
MovesOnly(m) ==
    /\ \A n \in Machines \ {m} :
          at'[n] = at[n] /\ todo'[n] = todo[n] /\ due'[n] = due[n]
    /\ due'[m] => at'[m] = "waiting"
    /\ \A n \in Machines \ {m} : holder' = n <=> holder = n
    /\ faults' = 0 => faults = 0 /\ (at'[m] # "waiting" => holder' = m)
    /\ holder' = m => at'[m] # "waiting"
    /\ shaky \subseteq shaky'
    /\ \A r \in JR : /\ Dunning!Exists(r) => events'[r].pay = events[r].pay
                     /\ events'[r].sent => Dunning!Exists(r)
TodoOf(m) ==
    /\ at[m] \in {"waiting", "select"} => todo[m] = {}
    /\ at[m] = "mark" => todo[m] # {}
    /\ \A r \in todo[m] : Dunning!Exists(r)
    /\ holder # m => todo[m] \subseteq shaky
    /\ holder # m /\ at[m] = "select" => JR \subseteq shaky
MailOf(m) ==
    \A r \in JR \ shaky' :
        /\ mails'[r] <= 1
        /\ ~events'[r].sent /\ ~BeingMarked(m, r)'
              /\ (\A n \in Machines \ {m} : ~BeingMarked(n, r)) => mails'[r] = 0
        /\ r \in todo'[m] /\ ~BeingMarked(m, r)' => mails'[r] = 0
        /\ \A n \in Machines \ {m} : r \in todo[n] /\ ~BeingMarked(n, r) => mails'[r] = 0

LEMMA MachineStep ==
    ASSUME JobInv, NEW m \in Machines, JobTables',
           MovesOnly(m), TodoOf(m)', MailOf(m)
    PROVE  JobInv'
<1> DEFINE others == Machines \ {m}
<1>1. \A n \in others, r \in JR : BeingMarked(n, r)' <=> BeingMarked(n, r)
  BY OthersStay DEF MovesOnly
<1>2. LockInv'
  <2>1. \A n \in others : faults' = 0 /\ at'[n] # "waiting" => holder' = n
    BY DEF MovesOnly, JobInv, LockInv
  <2>2. holder' \in others => at'[holder'] # "waiting"
    BY DEF MovesOnly, JobInv, LockInv
  <2>3. \A n \in Machines : due'[n] => at'[n] = "waiting"
    BY DEF MovesOnly, JobInv, LockInv
  <2>. QED  BY <2>1, <2>2, <2>3 DEF MovesOnly, LockInv
<1>3. TodoInv'
  <2>1. \A n \in others : TodoOf(n)'
    <3> SUFFICES ASSUME NEW n \in others PROVE TodoOf(n)'
      OBVIOUS
    <3>1. TodoOf(n) /\ todo[n] \subseteq JR
      BY DEF JobInv, JobTables, TodoInv, TodoOf
    <3>2. at'[n] = at[n] /\ todo'[n] = todo[n] /\ (holder' = n <=> holder = n)
          /\ shaky \subseteq shaky'
      BY DEF MovesOnly
    <3>3. \A r \in todo[n] : Dunning!Exists(r)'
      BY <3>1 DEF MovesOnly, Dunning!Exists, TodoOf
    <3>. QED  BY <3>1, <3>2, <3>3 DEF TodoOf
  <2>2. \A r \in JR : events'[r].sent => Dunning!Exists(r)'
    BY DEF MovesOnly, Dunning!Exists
  <2>3. \A n \in Machines : TodoOf(n)'
    BY <2>1
  <2>. QED  BY <2>2, <2>3 DEF TodoInv, TodoOf
<1>4. MailInv'
  <2> SUFFICES ASSUME NEW r \in JR, r \notin shaky'
               PROVE  /\ mails'[r] <= 1
                      /\ ~events'[r].sent /\ (\A n \in Machines : ~BeingMarked(n, r)')
                            => mails'[r] = 0
                      /\ \A n \in Machines : r \in todo'[n] /\ ~BeingMarked(n, r)'
                            => mails'[r] = 0
    BY DEF MailInv
  <2>1. \A n \in others : todo'[n] = todo[n] /\ (BeingMarked(n, r)' <=> BeingMarked(n, r))
    BY <1>1 DEF MovesOnly
  <2>2. mails'[r] <= 1
    BY DEF MailOf
  <2>3. ASSUME ~events'[r].sent, \A n \in Machines : ~BeingMarked(n, r)'
        PROVE  mails'[r] = 0
    BY <2>1, <2>3 DEF MailOf
  <2>4. ASSUME NEW n \in Machines, r \in todo'[n], ~BeingMarked(n, r)'
        PROVE  mails'[r] = 0
    <3>1. CASE n = m
      BY <2>4, <3>1 DEF MailOf
    <3>2. CASE n # m
      BY <2>1, <2>4, <3>2 DEF MailOf
    <3>. QED  BY <3>1, <3>2
  <2>. QED  BY <2>2, <2>3, <2>4
<1>. QED  BY <1>2, <1>3, <1>4 DEF JobInv

LEMMA RunOnceStep == ASSUME JobInv, NEW m \in Machines, Dunning!RunOnce(m) PROVE JobInv'
<1>1. /\ due[m] /\ due' = [due EXCEPT ![m] = FALSE] /\ due' \in [Machines -> BOOLEAN]
      /\ UNCHANGED <<minute, todo, events, overdue, mails, shaky, faults>>
  BY DEF Dunning!RunOnce, JobInv, JobTables
<1>2. at[m] = "waiting" /\ todo[m] = {}
  BY <1>1 DEF JobInv, LockInv, TodoInv
<1>3. due \in [Machines -> BOOLEAN] /\ at \in [Machines -> Labels]
  BY DEF JobInv, JobTables
<1>4. CASE UNCHANGED <<holder, at>>
  <2>1. JobTables'
    BY <1>1, <1>4 DEF JobInv, JobTables
  <2>2. \A n \in Machines : due'[n] => at[n] = "waiting"
    BY <1>1, <1>3 DEF JobInv, LockInv
  <2>. QED  BY <1>1, <1>4, <2>1, <2>2, RunsStay
<1>5. CASE /\ holder = NoMachine /\ holder' = m
           /\ at' = [at EXCEPT ![m] = "select"]
  <2>1. at'[m] = "select" /\ \A n \in Machines \ {m} : at'[n] = at[n]
    BY <1>3, <1>5
  <2>2. JobTables'
    BY <1>1, <1>5 DEF JobInv, JobTables, Labels
  <2>3. MovesOnly(m)
    BY <1>1, <1>3, <1>5, <2>1, JobAssumption DEF MovesOnly, JobInv, TodoInv
  <2>4. TodoOf(m)'
    BY <1>1, <1>2, <1>5, <2>1 DEF TodoOf
  <2>5. MailOf(m)
    <3>1. \A r \in JR : ~BeingMarked(m, r)
      BY <1>2 DEF BeingMarked
    <3>. QED  BY <1>1, <1>2, <3>1 DEF MailOf, JobInv, MailInv
  <2>. QED  BY <2>2, <2>3, <2>4, <2>5, MachineStep
<1>. QED  BY <1>4, <1>5 DEF Dunning!RunOnce

LEMMA UnlockStep == ASSUME JobInv, NEW m \in Machines, Dunning!Unlock(m) PROVE JobInv'
<1>1. /\ at[m] = "send" /\ todo[m] = {} /\ at' = [at EXCEPT ![m] = "waiting"]
      /\ holder' = IF holder = m THEN NoMachine ELSE holder
      /\ UNCHANGED <<minute, due, todo, events, mails, shaky, faults>>
  BY DEF Dunning!Unlock
<1>2. /\ at'[m] = "waiting" /\ \A n \in Machines \ {m} : at'[n] = at[n]
      /\ \A n \in Machines \ {m} : holder' = n <=> holder = n
      /\ holder' # m
  BY <1>1, JobAssumption DEF JobInv, JobTables
<1>3. JobTables'
  BY <1>1 DEF JobInv, JobTables, Labels
<1>4. MovesOnly(m)
  BY <1>1, <1>2 DEF MovesOnly, JobInv, TodoInv
<1>5. TodoOf(m)'
  BY <1>1, <1>2 DEF TodoOf
<1>6. MailOf(m)
  <2>1. \A r \in JR : ~BeingMarked(m, r)
    BY <1>1 DEF BeingMarked
  <2>. QED  BY <1>1, <2>1 DEF MailOf, JobInv, MailInv
<1>. QED  BY <1>3, <1>4, <1>5, <1>6, MachineStep

LEMMA SelectStep ==
    ASSUME JobInv, NEW m \in Machines, Dunning!GetPendingDunning(m)
    PROVE  JobInv'
<1>1. PICK chosen \in SUBSET {r \in JR : Dunning!Pending(r)} :
        todo' = [todo EXCEPT ![m] = chosen]
  <2>1. CASE hasEmail
    BY <2>1 DEF Dunning!GetPendingDunning, Dunning!Rows, JR
  <2>2. CASE ~hasEmail
    <3>1. todo[m] = {} /\ todo \in [Machines -> SUBSET JR] /\ UNCHANGED todo
      BY <2>2 DEF Dunning!GetPendingDunning, JobInv, TodoInv, JobTables
    <3>2. todo' = [todo EXCEPT ![m] = {}]
      BY <3>1
    <3>. QED  BY <3>2
  <2>. QED  BY <2>1, <2>2
<1>2. /\ at[m] = "select" /\ at' = [at EXCEPT ![m] = "send"]
      /\ UNCHANGED <<minute, due, holder, events, mails, shaky, faults>>
  BY DEF Dunning!GetPendingDunning
<1>3. /\ at'[m] = "send" /\ todo'[m] = chosen
      /\ \A n \in Machines \ {m} : at'[n] = at[n] /\ todo'[n] = todo[n]
  BY <1>1, <1>2 DEF JobInv, JobTables
<1>4. JobTables'
  BY <1>1, <1>2 DEF JobInv, JobTables, Labels
<1>5. MovesOnly(m)
  BY <1>2, <1>3 DEF MovesOnly, JobInv, TodoInv, LockInv
<1>6. \A r \in chosen : r \in JR /\ Dunning!Exists(r) /\ ~events[r].sent
  BY <1>1 DEF Dunning!Pending
<1>7. TodoOf(m)'
  <2>1. \A r \in chosen : Dunning!Exists(r)'
    BY <1>2, <1>6 DEF Dunning!Exists
  <2>. QED  BY <1>2, <1>3, <1>6, <2>1 DEF TodoOf, JobInv, TodoInv
<1>8. MailOf(m)
  <2>1. \A r \in JR : ~BeingMarked(m, r) /\ ~BeingMarked(m, r)'
    BY <1>2, <1>3 DEF BeingMarked
  <2>2. ASSUME NEW r \in chosen \ shaky PROVE mails[r] = 0
    <3>1. holder = m
      BY <1>2, <1>6, <2>2 DEF JobInv, TodoInv
    <3>2. ASSUME NEW n \in Machines, n # m PROVE ~BeingMarked(n, r)
      <4>1. todo[n] \subseteq shaky
        BY <3>1, <3>2 DEF JobInv, TodoInv
      <4>. QED  BY <2>2, <4>1, FirstRow DEF BeingMarked, JobInv, TodoInv
    <3>3. \A n \in Machines : ~BeingMarked(n, r)
      BY <1>6, <2>1, <3>2
    <3>. QED  BY <1>6, <2>2, <3>3 DEF JobInv, MailInv
  <2>. QED  BY <1>2, <1>3, <2>1, <2>2 DEF MailOf, JobInv, MailInv
<1>. QED  BY <1>4, <1>5, <1>7, <1>8, MachineStep

(* A row that a run has before it is with no other run, unless it is shaky.*)
LEMMA OneRunOfRow ==
    ASSUME JobInv, NEW m \in Machines, NEW r \in todo[m] \ shaky
    PROVE  /\ holder = m
           /\ \A n \in Machines \ {m} : r \notin todo[n] /\ ~BeingMarked(n, r)
<1>1. holder = m
  BY DEF JobInv, TodoInv
<1>2. ASSUME NEW n \in Machines \ {m} PROVE r \notin todo[n] /\ ~BeingMarked(n, r)
  <2>1. todo[n] \subseteq shaky
    BY <1>1 DEF JobInv, TodoInv
  <2>. QED  BY <2>1, FirstRow DEF BeingMarked, JobInv, TodoInv
<1>. QED  BY <1>1, <1>2

LEMMA AtFirst ==
    ASSUME JobInv, NEW m \in Machines, NEW label, NEW r, Dunning!At(m, label, r)
    PROVE  /\ at[m] = label /\ todo[m] # {} /\ r = Dunning!First(todo[m])
           /\ r \in todo[m] /\ r \in JR
BY FirstRow DEF Dunning!At, JobInv, JobTables

LEMMA SendStep ==
    ASSUME JobInv, NEW m \in Machines, NEW r, Dunning!SendDunningEmail(m, r)
    PROVE  JobInv'
<1>1. /\ at[m] = "send" /\ r \in todo[m] /\ r \in JR /\ r = Dunning!First(todo[m])
      /\ at' = [at EXCEPT ![m] = "mark"]
      /\ mails' = [mails EXCEPT ![r] = IF @ < 2 THEN @ + 1 ELSE @]
      /\ UNCHANGED <<minute, due, todo, holder, events, shaky, faults>>
  BY AtFirst DEF Dunning!SendDunningEmail
<1>2. /\ at'[m] = "mark" /\ \A n \in Machines \ {m} : at'[n] = at[n]
      /\ mails'[r] = (IF mails[r] < 2 THEN mails[r] + 1 ELSE mails[r])
      /\ \A q \in JR \ {r} : mails'[q] = mails[q]
  BY <1>1 DEF JobInv, JobTables
<1>3. JobTables'
  <2>1. mails[r] \in 0 .. 2
    BY <1>1 DEF JobInv, JobTables
  <2>2. mails' \in [JR -> 0 .. 2]
    BY <1>1, <2>1 DEF JobInv, JobTables
  <2>. QED  BY <1>1, <2>2 DEF JobInv, JobTables, Labels
<1>4. MovesOnly(m)
  BY <1>1, <1>2 DEF MovesOnly, JobInv, TodoInv, LockInv
<1>5. TodoOf(m)'
  <2>1. \A q \in todo[m] : Dunning!Exists(q)'
    BY <1>1 DEF JobInv, TodoInv, Dunning!Exists
  <2>. QED  BY <1>1, <1>2, <2>1 DEF TodoOf, JobInv, TodoInv
<1>6. MailOf(m)
  <2>1. Dunning!First(todo[m])' = r
    <3>1. \A q \in todo[m] : Dunning!Tenant(q)' = Dunning!Tenant(q)
      BY <1>1 DEF Dunning!Tenant
    <3>. QED  BY <1>1, <3>1 DEF Dunning!First
  <2>2. \A q \in JR : ~BeingMarked(m, q) /\ (BeingMarked(m, q)' <=> q = r)
    BY <1>1, <1>2, <2>1 DEF BeingMarked
  <2>3. ASSUME NEW q \in JR \ shaky, q = r PROVE mails'[q] = 1
    BY <1>1, <1>2, <2>2, <2>3 DEF JobInv, MailInv
  <2>4. ASSUME r \notin shaky
        PROVE  \A n \in Machines \ {m} : r \notin todo[n] /\ ~BeingMarked(n, r)
    BY <1>1, <2>4, OneRunOfRow
  <2> SUFFICES ASSUME NEW q \in JR, q \notin shaky'
               PROVE  /\ mails'[q] <= 1
                      /\ ~events'[q].sent /\ ~BeingMarked(m, q)'
                            /\ (\A n \in Machines \ {m} : ~BeingMarked(n, q)) => mails'[q] = 0
                      /\ q \in todo'[m] /\ ~BeingMarked(m, q)' => mails'[q] = 0
                      /\ \A n \in Machines \ {m} :
                            q \in todo[n] /\ ~BeingMarked(n, q) => mails'[q] = 0
    BY DEF MailOf
  <2>5. CASE q = r
    BY <1>1, <2>2, <2>3, <2>4, <2>5
  <2>6. CASE q # r
    BY <1>1, <1>2, <2>2, <2>6 DEF JobInv, MailInv
  <2>. QED  BY <2>5, <2>6
<1>. QED  BY <1>3, <1>4, <1>5, <1>6, MachineStep

(* A step of m that sends nothing and drops rows or the lock, by a fault.  *)
LEMMA FaultStep ==
    ASSUME JobInv, NEW m \in Machines, JobTables', faults' # 0,
           UNCHANGED <<events, mails>>, shaky \subseteq shaky',
           \A n \in Machines \ {m} : /\ at'[n] = at[n] /\ todo'[n] = todo[n]
                                     /\ due'[n] = due[n] /\ (holder' = n <=> holder = n),
           due'[m] => due[m] /\ at'[m] = at[m],
           holder' = m => holder = m,
           \/ at'[m] = "waiting" /\ todo'[m] = {} /\ holder' # m
           \/ at'[m] = at[m] /\ todo'[m] = todo[m]
           \/ at[m] \in {"send", "mark"} /\ at'[m] = "send" /\ todo'[m] \subseteq todo[m],
           at[m] = "mark" => Dunning!First(todo[m]) \in shaky',
           holder' # m => \/ holder # m
                          \/ /\ todo[m] \subseteq shaky'
                             /\ at[m] = "select" => JR \subseteq shaky'
    PROVE  JobInv'
<1>1. MovesOnly(m)
  <2>1. holder' = m => at'[m] # "waiting"
    BY DEF JobInv, LockInv
  <2>2. due'[m] => at'[m] = "waiting"
    BY DEF JobInv, LockInv
  <2>. QED  BY <2>1, <2>2 DEF MovesOnly, JobInv, TodoInv
<1>2. TodoOf(m)'
  <2>1. \A q \in todo'[m] : Dunning!Exists(q)'
    BY DEF JobInv, TodoInv, Dunning!Exists
  <2>2. /\ at'[m] \in {"waiting", "select"} => todo'[m] = {}
        /\ at'[m] = "mark" => todo'[m] # {}
    BY DEF JobInv, TodoInv
  <2>3. holder' # m => todo'[m] \subseteq shaky'
    BY DEF JobInv, TodoInv
  <2>4. holder' # m /\ at'[m] = "select" => JR \subseteq shaky'
    BY DEF JobInv, TodoInv
  <2>. QED  BY <2>1, <2>2, <2>3, <2>4 DEF TodoOf
<1>3. MailOf(m)
  <2>1. \A q \in JR \ shaky' : ~BeingMarked(m, q)
    BY DEF BeingMarked
  <2>2. todo'[m] \subseteq todo[m]
    OBVIOUS
  <2>. QED  BY <2>1, <2>2 DEF MailOf, JobInv, MailInv
<1>. QED  BY <1>1, <1>2, <1>3, MachineStep

LEMMA MoreFaults ==
    ASSUME JobInv, faults < MaxJobFaults, faults' = faults + 1
    PROVE  faults' \in 0 .. MaxJobFaults /\ faults' # 0
BY JobAssumption DEF JobInv, JobTables

LEMMA SendFailsStep ==
    ASSUME JobInv, NEW m \in Machines, NEW r, Dunning!SendFails(m, r)
    PROVE  JobInv'
<1>1. /\ at[m] = "send" /\ todo' = [todo EXCEPT ![m] = @ \ {r}]
      /\ faults < MaxJobFaults /\ faults' = faults + 1
      /\ UNCHANGED <<minute, due, at, holder, events, mails, shaky>>
  BY AtFirst DEF Dunning!SendFails
<1>2. /\ todo' \in [Machines -> SUBSET JR] /\ todo'[m] \subseteq todo[m]
      /\ \A n \in Machines \ {m} : todo'[n] = todo[n]
  BY <1>1 DEF JobInv, JobTables
<1>3. JobTables' /\ faults' # 0
  BY <1>1, <1>2, MoreFaults DEF JobInv, JobTables
<1>. QED  BY <1>1, <1>2, <1>3, FaultStep

LEMMA MarkFailsStep ==
    ASSUME JobInv, NEW m \in Machines, NEW r, Dunning!MarkFails(m, r)
    PROVE  JobInv'
<1>1. /\ at[m] = "mark" /\ r = Dunning!First(todo[m]) /\ r \in JR
      /\ at' = [at EXCEPT ![m] = "send"] /\ todo' = [todo EXCEPT ![m] = {}]
      /\ faults < MaxJobFaults /\ faults' = faults + 1 /\ shaky' = shaky \cup {r}
      /\ UNCHANGED <<minute, due, holder, events, mails>>
  BY AtFirst DEF Dunning!MarkFails
<1>2. /\ todo' \in [Machines -> SUBSET JR] /\ todo'[m] = {} /\ at'[m] = "send"
      /\ at' \in [Machines -> Labels]
      /\ \A n \in Machines \ {m} : todo'[n] = todo[n] /\ at'[n] = at[n]
  BY <1>1 DEF JobInv, JobTables, Labels
<1>3. JobTables' /\ faults' # 0
  BY <1>1, <1>2, MoreFaults DEF JobInv, JobTables
<1>4. due'[m] => FALSE
  BY <1>1 DEF JobInv, LockInv
<1>. QED  BY <1>1, <1>2, <1>3, <1>4, FaultStep

(* A session that ends, or a machine that starts again.                    *)
LEMMA FaultFacts ==
    ASSUME JobInv, NEW m \in Machines, Dunning!Fault(m)
    PROVE  /\ faults' \in 0 .. MaxJobFaults /\ faults' # 0
           /\ UNCHANGED <<minute, events, mails>>
           /\ shaky' \in SUBSET JR /\ shaky \subseteq shaky' /\ todo[m] \subseteq shaky'
           /\ at[m] = "select" => JR \subseteq shaky'
           /\ holder' \in Machines \cup {NoMachine} /\ holder' # m
           /\ \A n \in Machines \ {m} : holder' = n <=> holder = n
           /\ at[m] = "mark" => Dunning!First(todo[m]) \in shaky'
<1>1. /\ faults < MaxJobFaults /\ faults' = faults + 1
      /\ shaky' = shaky \cup (IF at[m] = "select" THEN JR ELSE todo[m])
      /\ holder' = (IF holder = m THEN NoMachine ELSE holder)
      /\ UNCHANGED <<minute, events, mails>>
  BY DEF Dunning!Fault, Dunning!Rows, JR
<1>2. todo[m] \subseteq JR /\ shaky \subseteq JR
  BY DEF JobInv, JobTables
<1>3. at[m] = "mark" => Dunning!First(todo[m]) \in todo[m]
  BY FirstRow DEF JobInv, TodoInv
<1>4. /\ holder' \in Machines \cup {NoMachine} /\ holder' # m
      /\ \A n \in Machines \ {m} : holder' = n <=> holder = n
  BY <1>1, JobAssumption DEF JobInv, JobTables
<1>. QED  BY <1>1, <1>2, <1>3, <1>4, MoreFaults

LEMMA LoseStep ==
    ASSUME JobInv, NEW m \in Machines, Dunning!LoseConnection(m)
    PROVE  JobInv'
<1>1. Dunning!Fault(m) /\ UNCHANGED <<due, at, todo>>
  BY DEF Dunning!LoseConnection
<1>2. JobTables'
  BY <1>1, FaultFacts DEF JobInv, JobTables
<1>. QED  BY <1>1, <1>2, FaultFacts, FaultStep

LEMMA RestartStep ==
    ASSUME JobInv, NEW m \in Machines, Dunning!Restart(m)
    PROVE  JobInv'
<1>1. /\ Dunning!Fault(m) /\ due' = [due EXCEPT ![m] = FALSE]
      /\ at' = [at EXCEPT ![m] = "waiting"] /\ todo' = [todo EXCEPT ![m] = {}]
  BY DEF Dunning!Restart
<1>2. /\ due' \in [Machines -> BOOLEAN] /\ at' \in [Machines -> Labels]
      /\ todo' \in [Machines -> SUBSET JR]
      /\ due'[m] = FALSE /\ at'[m] = "waiting" /\ todo'[m] = {}
      /\ \A n \in Machines \ {m} :
            due'[n] = due[n] /\ at'[n] = at[n] /\ todo'[n] = todo[n]
  BY <1>1 DEF JobInv, JobTables, Labels
<1>3. JobTables'
  BY <1>1, <1>2, FaultFacts DEF JobInv, JobTables
<1>. QED  BY <1>1, <1>2, <1>3, FaultFacts, FaultStep

(* Every row of the payment becomes sent; the run goes on with the others. *)
LEMMA MarkStep ==
    ASSUME JobInv, NEW m \in Machines, NEW r, Dunning!MarkEmailSent(m, r)
    PROVE  JobInv'
<1>1. /\ at[m] = "mark" /\ r = Dunning!First(todo[m]) /\ r \in JR /\ r \in todo[m]
      /\ at' = [at EXCEPT ![m] = "send"] /\ todo' = [todo EXCEPT ![m] = @ \ {r}]
      /\ events' = Dunning!Marked(r)
      /\ UNCHANGED <<minute, due, holder, mails, shaky, faults>>
  BY AtFirst DEF Dunning!MarkEmailSent
<1>2. /\ todo' \in [Machines -> SUBSET JR] /\ todo'[m] = todo[m] \ {r} /\ at'[m] = "send"
      /\ at' \in [Machines -> Labels]
      /\ \A n \in Machines \ {m} : todo'[n] = todo[n] /\ at'[n] = at[n]
  BY <1>1 DEF JobInv, JobTables, Labels
<1>3. Dunning!Exists(r)
  BY <1>1 DEF JobInv, TodoInv
<1>4. \A q \in JR : /\ events'[q] \in JobRow /\ events'[q].pay = events[q].pay
                    /\ events[q].sent => events'[q].sent
                    /\ events'[q].sent => Dunning!Exists(q)
                    /\ q = r => events'[q].sent
  <2> SUFFICES ASSUME NEW q \in JR
               PROVE  /\ events'[q] \in JobRow /\ events'[q].pay = events[q].pay
                      /\ events[q].sent => events'[q].sent
                      /\ events'[q].sent => Dunning!Exists(q)
                      /\ q = r => events'[q].sent
    OBVIOUS
  <2> DEFINE old == events[q]
  <2>1. old \in JobRow
    BY DEF JobInv, JobTables
  <2>2. events'[q] = IF old.pay = events[r].pay THEN [old EXCEPT !.sent = TRUE] ELSE old
    BY <1>1 DEF Dunning!Marked, Dunning!Rows, JR
  <2>3. old.sent => Dunning!Exists(q)
    BY DEF JobInv, TodoInv
  <2>4. old.pay = events[r].pay => Dunning!Exists(q)
    BY <1>3 DEF Dunning!Exists
  <2>5. [old EXCEPT !.sent = TRUE] \in JobRow /\ [old EXCEPT !.sent = TRUE].pay = old.pay
        /\ [old EXCEPT !.sent = TRUE].sent = TRUE
    BY <2>1 DEF JobRow
  <2>6. q = r => old.pay = events[r].pay
    OBVIOUS
  <2> HIDE DEF old
  <2>7. CASE old.pay = events[r].pay
    BY <2>2, <2>4, <2>5, <2>7 DEF old
  <2>8. CASE old.pay # events[r].pay
    BY <2>1, <2>2, <2>3, <2>6, <2>8 DEF old
  <2>. QED  BY <2>7, <2>8
<1>5. JobTables'
  <2>1. DOMAIN events' = JR /\ events' = [q \in JR |-> events'[q]]
    BY <1>1 DEF Dunning!Marked, Dunning!Rows, JR
  <2>2. events' \in [JR -> JobRow]
    BY <1>4, <2>1
  <2>. QED  BY <1>1, <1>2, <2>2 DEF JobInv, JobTables
<1>6. MovesOnly(m)
  BY <1>1, <1>2, <1>4 DEF MovesOnly, JobInv, LockInv
<1>7. TodoOf(m)'
  <2>1. \A q \in todo'[m] : Dunning!Exists(q)'
    <3>1. \A q \in todo'[m] : q \in JR /\ Dunning!Exists(q)
      BY <1>2 DEF JobInv, TodoInv, JobTables
    <3>. QED  BY <1>4, <3>1 DEF Dunning!Exists
  <2>. QED  BY <1>1, <1>2, <2>1 DEF TodoOf, JobInv, TodoInv
<1>8. MailOf(m)
  <2>1. \A q \in JR : BeingMarked(m, q) <=> q = r
    BY <1>1 DEF BeingMarked
  <2> SUFFICES ASSUME NEW q \in JR, q \notin shaky
               PROVE  /\ mails[q] <= 1
                      /\ ~events'[q].sent /\ (\A n \in Machines \ {m} : ~BeingMarked(n, q))
                            => mails[q] = 0
                      /\ q \in todo'[m] => mails[q] = 0
                      /\ \A n \in Machines \ {m} :
                            q \in todo[n] /\ ~BeingMarked(n, q) => mails[q] = 0
    BY <1>1 DEF MailOf
  <2>2. CASE q = r
    BY <1>1, <1>2, <1>4, <2>2, OneRunOfRow DEF JobInv, MailInv
  <2>3. CASE q # r
    BY <1>1, <1>2, <1>4, <2>1, <2>3 DEF JobInv, MailInv
  <2>. QED  BY <2>2, <2>3
<1>. QED  BY <1>5, <1>6, <1>7, <1>8, MachineStep

LEMMA JobStep == JobInv /\ Dunning!Next => JobInv'
<1> SUFFICES ASSUME JobInv, Dunning!Next PROVE JobInv'
  OBVIOUS
<1>1. ASSUME NEW r \in Dunning!Rows, NEW p \in Payments, Dunning!Create(r, p)
      PROVE  JobInv'
  BY <1>1, CreateStep DEF Dunning!Rows, JR
<1>2. ASSUME NEW m \in Machines, Dunning!Run(m)
      PROVE  JobInv'
  BY <1>2, RunOnceStep, SelectStep, UnlockStep, SendStep, SendFailsStep, MarkStep,
     MarkFailsStep DEF Dunning!Run
<1>. QED  BY <1>1, <1>2, TickStep, PaidStep, LoseStep, RestartStep DEF Dunning!Next

LEMMA JobInvMeans ==
    ASSUME JobInv
    PROVE  Dunning!JobsTypeOK /\ Dunning!OneRunAtATime /\ Dunning!RemindedOnce
<1>1. Dunning!JobsTypeOK
  BY DEF JobInv, JobTables, Dunning!JobsTypeOK, Dunning!Rows, Dunning!DaysToCutoff,
         JR, JobRow, Labels
<1>2. Dunning!OneRunAtATime
  <2> SUFFICES ASSUME faults = 0
               PROVE  Cardinality({m \in Machines : at[m] # "waiting"}) <= 1
    <3>1. \A S : Dunning!Cardinality(S) = Cardinality(S)
      BY DEF Dunning!Cardinality, Cardinality
    <3>. QED  BY <3>1 DEF Dunning!OneRunAtATime
  <2> DEFINE running == {m \in Machines : at[m] # "waiting"}
  <2>1. running = {} \/ running = {holder}
    BY DEF JobInv, LockInv
  <2> HIDE DEF running
  <2>2. Cardinality(running) \in {0, 1}
    BY <2>1, FS_EmptySet, FS_Singleton
  <2>. QED  BY <2>2 DEF running
<1>3. Dunning!RemindedOnce
  BY DEF JobInv, MailInv, Dunning!RemindedOnce, Dunning!Rows, JR
<1>. QED  BY <1>1, <1>2, <1>3

-----------------------------------------------------------------------------
(* A session whose variables are set is known as such until it is reset or *)
(* closed, and nobody gets one before.                                     *)
States == {"closed", "idle", "used", "resetting"}
Scope == Tenants \cup {NoTenant}
Conn == [state : States, scope : Scope, user : Workers \cup {NoOne},
         asked : Scope, second : BOOLEAN]
PoolTables ==
    /\ conn \in [Conns -> Conn]
    /\ scoped \in SUBSET Conns /\ broken \in 0 .. MaxPoolFaults
    /\ queue \in Seq(Workers)
    /\ doing \in [Workers -> {"away", "waiting", "holds", "nested", "both"}]
Clean(c) ==
    /\ conn[c].state = "used" => conn[c].scope = conn[c].asked
    /\ conn[c].state \in {"idle", "closed"} => conn[c].scope = NoTenant
    /\ conn[c].scope # NoTenant => c \in scoped
PoolInv == PoolTables /\ \A c \in Conns : Clean(c)

LEMMA ClosedIsClean ==
    /\ Pool!Closed \in Conn /\ Pool!Closed.state = "closed" /\ Pool!Closed.scope = NoTenant
BY DEF Pool!Closed, Conn, States, Scope

LEMMA PoolInit == Pool!Init => PoolInv
<1> SUFFICES ASSUME Pool!Init PROVE PoolInv
  OBVIOUS
<1>1. \A c \in Conns : conn[c] = Pool!Closed
  BY DEF Pool!Init
<1>2. PoolTables
  BY ClosedIsClean, PoolAssumption
  DEF Pool!Init, PoolTables, Workers, Pool!Workers
<1>. QED  BY <1>1, <1>2, ClosedIsClean DEF PoolInv, Clean

(* A step that writes one connection.                                      *)
LEMMA ConnStep ==
    ASSUME PoolInv, NEW c \in Conns, NEW new \in Conn, conn' = [conn EXCEPT ![c] = new],
           scoped' \in SUBSET Conns, scoped \subseteq scoped' \cup {c},
           broken' \in 0 .. MaxPoolFaults, queue' \in Seq(Workers),
           doing' \in [Workers -> {"away", "waiting", "holds", "nested", "both"}],
           new.state = "used" => new.scope = new.asked,
           new.state \in {"idle", "closed"} => new.scope = NoTenant,
           new.scope # NoTenant => c \in scoped'
    PROVE  PoolInv'
<1>1. /\ conn' \in [Conns -> Conn] /\ conn'[c] = new
      /\ \A d \in Conns \ {c} : conn'[d] = conn[d]
  BY DEF PoolInv, PoolTables
<1>2. PoolTables'
  BY <1>1 DEF PoolTables
<1>3. Clean(c)'
  BY <1>1 DEF Clean
<1>4. \A d \in Conns \ {c} : Clean(d)'
  BY <1>1 DEF PoolInv, Clean
<1>. QED  BY <1>2, <1>3, <1>4 DEF PoolInv

LEMMA AskStep == ASSUME PoolInv, NEW w \in Workers, Pool!Ask(w) PROVE PoolInv'
<1>1. UNCHANGED <<conn, scoped, broken>> /\ queue' = Append(queue, w)
  BY DEF Pool!Ask
<1>2. doing' \in [Workers -> {"away", "waiting", "holds", "nested", "both"}]
  BY DEF Pool!Ask, PoolInv, PoolTables
<1>3. PoolTables'
  BY <1>1, <1>2, AppendProperties DEF PoolInv, PoolTables
<1>. QED  BY <1>1, <1>3 DEF PoolInv, Clean

LEMMA AskedIsScope ==
    ASSUME NEW w \in Workers, NEW t \in Pool!Asks(w)
    PROVE  t \in Scope
BY PoolAssumption DEF Pool!Asks, Scope

LEMMA AcquireStep ==
    ASSUME PoolInv, NEW w \in Workers, NEW c \in Conns, NEW t \in Pool!Asks(w),
           Pool!BeforeAcquire(w, c, t)
    PROVE  PoolInv'
<1> DEFINE new == [state |-> "used", user |-> w, asked |-> t,
                   second |-> doing[w] = "nested",
                   scope |-> IF t = NoTenant THEN conn[c].scope ELSE t]
<1>1. /\ queue # <<>> /\ conn[c].state \in {"closed", "idle"}
      /\ scoped' = IF t = NoTenant THEN scoped ELSE scoped \cup {c}
      /\ queue' = Tail(queue) /\ broken' = broken
  BY DEF Pool!BeforeAcquire, Pool!First, Pool!Free
<1>2. conn' = [conn EXCEPT ![c] = new]
  BY DEF Pool!BeforeAcquire
<1>3. t \in Scope /\ conn[c] \in Conn /\ conn[c].scope = NoTenant
  BY <1>1, AskedIsScope DEF PoolInv, PoolTables, Clean
<1>4. /\ new \in Conn /\ new.scope = t /\ new.asked = t /\ new.state = "used"
  BY <1>3 DEF Conn, States, Scope
<1>5. queue' \in Seq(Workers)
  BY <1>1, HeadTailProperties DEF PoolInv, PoolTables
<1>6. doing' \in [Workers -> {"away", "waiting", "holds", "nested", "both"}]
  BY DEF Pool!BeforeAcquire, PoolInv, PoolTables
<1> HIDE DEF new
<1>7. scoped' \in SUBSET Conns /\ scoped \subseteq scoped' /\ (t # NoTenant => c \in scoped')
      /\ broken' \in 0 .. MaxPoolFaults
  BY <1>1 DEF PoolInv, PoolTables
<1>. QED  BY <1>2, <1>4, <1>5, <1>6, <1>7, ConnStep

LEMMA PoolFault ==
    ASSUME PoolInv, Pool!Fault
    PROVE  broken' \in 0 .. MaxPoolFaults
BY PoolAssumption DEF Pool!Fault, PoolInv, PoolTables

(* A connection is closed, and its mark, if it had one, may be left.       *)
LEMMA CloseStep ==
    ASSUME PoolInv, NEW c \in Conns, conn' = [conn EXCEPT ![c] = Pool!Closed],
           scoped' \in {scoped, scoped \ {c}},
           broken' = broken \/ Pool!Fault, queue' \in Seq(Workers),
           doing' \in [Workers -> {"away", "waiting", "holds", "nested", "both"}]
    PROVE  PoolInv'
<1>1. broken' \in 0 .. MaxPoolFaults
  BY PoolFault DEF PoolInv, PoolTables
<1>2. scoped' \in SUBSET Conns /\ scoped \subseteq scoped' \cup {c}
  BY DEF PoolInv, PoolTables
<1>. QED  BY <1>1, <1>2, ClosedIsClean, ConnStep

LEMMA SetFailsStep ==
    ASSUME PoolInv, NEW w \in Workers, NEW c \in Conns, NEW t, Pool!SetFails(w, c, t)
    PROVE  PoolInv'
<1>1. /\ Pool!Fault /\ conn' = [conn EXCEPT ![c] = Pool!Closed]
      /\ queue # <<>> /\ queue' = Append(Tail(queue), w)
      /\ UNCHANGED <<scoped, doing>>
  BY DEF Pool!SetFails, Pool!First
<1>2. queue' \in Seq(Workers)
  BY <1>1, HeadTailProperties, AppendProperties DEF PoolInv, PoolTables
<1>3. doing' \in [Workers -> {"away", "waiting", "holds", "nested", "both"}]
  BY <1>1 DEF PoolInv, PoolTables
<1>. QED  BY <1>1, <1>2, <1>3, CloseStep

LEMMA ReturnsType ==
    ASSUME PoolInv, NEW w \in Workers, NEW c \in Conns, Pool!Returns(w, c)
    PROVE  doing' \in [Workers -> {"away", "waiting", "holds", "nested", "both"}]
BY DEF Pool!Returns, PoolInv, PoolTables

LEMMA ReleaseStep ==
    ASSUME PoolInv, NEW w \in Workers, NEW c \in Conns, Pool!Release(w, c)
    PROVE  PoolInv'
<1> DEFINE new == [conn[c] EXCEPT !.user = NoOne, !.asked = NoTenant, !.second = FALSE,
                       !.state = IF c \in scoped THEN "resetting" ELSE "idle"]
<1>1. Pool!Returns(w, c) /\ UNCHANGED <<scoped, queue, broken>>
      /\ conn' = [conn EXCEPT ![c] = new]
  BY DEF Pool!Release
<1>2. conn[c] \in Conn /\ (conn[c].scope # NoTenant => c \in scoped)
  BY DEF PoolInv, PoolTables, Clean
<1>3. /\ new \in Conn /\ new.scope = conn[c].scope
      /\ new.state = (IF c \in scoped THEN "resetting" ELSE "idle")
  BY <1>2 DEF Conn, States, Scope
<1> HIDE DEF new
<1>4. /\ scoped' \in SUBSET Conns /\ scoped \subseteq scoped' \cup {c}
      /\ broken' \in 0 .. MaxPoolFaults /\ queue' \in Seq(Workers)
  BY <1>1 DEF PoolInv, PoolTables
<1>. QED  BY <1>1, <1>2, <1>3, <1>4, ReturnsType, ConnStep

LEMMA ReleaseBrokenStep ==
    ASSUME PoolInv, NEW w \in Workers, NEW c \in Conns, Pool!ReleaseBroken(w, c)
    PROVE  PoolInv'
<1>1. /\ Pool!Returns(w, c) /\ Pool!Fault /\ conn' = [conn EXCEPT ![c] = Pool!Closed]
      /\ scoped' = scoped \ {c} /\ UNCHANGED queue
  BY DEF Pool!ReleaseBroken
<1>2. queue' \in Seq(Workers)
  BY <1>1 DEF PoolInv, PoolTables
<1>. QED  BY <1>1, <1>2, ReturnsType, CloseStep

LEMMA AfterReleaseStep ==
    ASSUME PoolInv, NEW c \in Conns, Pool!AfterRelease(c)
    PROVE  PoolInv'
<1> DEFINE new == [conn[c] EXCEPT !.state = "idle", !.scope = NoTenant]
<1>1. /\ scoped' = scoped \ {c} /\ UNCHANGED <<doing, queue>>
      /\ \/ conn' = [conn EXCEPT ![c] = new] /\ UNCHANGED broken
         \/ conn' = [conn EXCEPT ![c] = Pool!Closed] /\ Pool!Fault
  BY DEF Pool!AfterRelease
<1>2. conn[c] \in Conn
  BY DEF PoolInv, PoolTables
<1>3. new \in Conn /\ new.state = "idle" /\ new.scope = NoTenant
  BY <1>2 DEF Conn, States, Scope
<1> HIDE DEF new
<1>4. /\ queue' \in Seq(Workers) /\ scoped' \in SUBSET Conns
      /\ scoped \subseteq scoped' \cup {c}
      /\ doing' \in [Workers -> {"away", "waiting", "holds", "nested", "both"}]
  BY <1>1 DEF PoolInv, PoolTables
<1>5. CASE conn' = [conn EXCEPT ![c] = new] /\ UNCHANGED broken
  <2>1. broken' \in 0 .. MaxPoolFaults
    BY <1>5 DEF PoolInv, PoolTables
  <2>. QED  BY <1>3, <1>4, <1>5, <2>1, ConnStep
<1>6. CASE conn' = [conn EXCEPT ![c] = Pool!Closed] /\ Pool!Fault
  BY <1>1, <1>4, <1>6, CloseStep
<1>. QED  BY <1>1, <1>5, <1>6

LEMMA ExpireStep == ASSUME PoolInv, NEW c \in Conns, Pool!Expire(c) PROVE PoolInv'
<1>1. conn' = [conn EXCEPT ![c] = Pool!Closed] /\ UNCHANGED <<scoped, doing, queue, broken>>
  BY DEF Pool!Expire
<1>2. /\ queue' \in Seq(Workers)
      /\ doing' \in [Workers -> {"away", "waiting", "holds", "nested", "both"}]
  BY <1>1 DEF PoolInv, PoolTables
<1>. QED  BY <1>1, <1>2, CloseStep

LEMMA PoolStep == PoolInv /\ Pool!Next => PoolInv'
<1> SUFFICES ASSUME PoolInv, Pool!Next PROVE PoolInv'
  OBVIOUS
<1>1. ASSUME NEW w \in Workers, Pool!Acquire(w) PROVE PoolInv'
  BY <1>1, AcquireStep DEF Pool!Acquire
<1>2. ASSUME NEW w \in Workers, Pool!GiveBack(w) PROVE PoolInv'
  BY <1>2, ReleaseStep, ReleaseBrokenStep DEF Pool!GiveBack
<1>. QED  BY <1>1, <1>2, AskStep, SetFailsStep, AfterReleaseStep, ExpireStep
          DEF Pool!Next, Pool!Workers, Workers

LEMMA PoolInvMeans == PoolInv => Pool!PoolTypeOK /\ Pool!NeverInherited
<1>1. PoolInv => Pool!PoolTypeOK
  BY DEF PoolInv, PoolTables, Pool!PoolTypeOK, Conn, States, Scope, Workers, Pool!Workers
<1>2. PoolInv => Pool!NeverInherited
  BY DEF PoolInv, Clean, Pool!NeverInherited
<1>. QED  BY <1>1, <1>2

-----------------------------------------------------------------------------
LEMMA JobsInit == MCInit => JobInv /\ PoolInv
BY JobInit, PoolInit DEF MCInit

LEMMA JobsStep == JobInv /\ PoolInv /\ [MCNext]_mcvars => (JobInv /\ PoolInv)'
<1> SUFFICES ASSUME JobInv, PoolInv, [MCNext]_mcvars PROVE (JobInv /\ PoolInv)'
  OBVIOUS
<1>1. \/ Dunning!Next /\ UNCHANGED poolvars
      \/ Pool!Next /\ UNCHANGED jobvars
      \/ UNCHANGED <<jobvars, poolvars>>
  BY DEF MCNext, mcvars
<1>2. ASSUME UNCHANGED jobvars PROVE JobInv'
  <2>1. /\ JobTables' /\ \A m \in Machines : due'[m] => at[m] = "waiting"
        /\ UNCHANGED <<at, todo, holder, events, mails, shaky, faults>>
    BY <1>2 DEF jobvars, JobInv, JobTables, LockInv
  <2>. QED  BY <2>1, RunsStay
<1>3. ASSUME UNCHANGED poolvars PROVE PoolInv'
  BY <1>3 DEF poolvars, PoolInv, PoolTables, Clean
<1>. QED  BY <1>1, <1>2, <1>3, JobStep, PoolStep

(* The alerts that run beside them stay what they are in AlertDelivery.    *)
LEMMA AlertsBeside ==
    /\ MCInit => HistoryInv
    /\ HistoryInv /\ [MCNext]_mcvars => HistoryInv'
<1>1. MCInit => HistoryInv
  BY HistoryInit DEF MCInit
<1>2. [MCNext]_mcvars => [AlertNext]_alertvars
  BY DEF MCNext, mcvars
<1>. QED  BY <1>1, <1>2, HistoryStep

(* WithAdvisoryLock, RunDunningJob and the acquisition and release of a    *)
(* connection: on any number of machines one run of the job is under way   *)
(* until a session ends, a reminder goes out once unless its run was       *)
(* disturbed, and no request or job inherits the tenant of another,        *)
(* whatever statement or connection fails.                                 *)
THEOREM JobsAreSafe == MCSpec => []JobsHold
<1>1. HistoryInv => AlertTypeOK
  BY DEF HistoryInv
<1>2. HistoryInv /\ JobInv /\ PoolInv => JobsHold
  BY <1>1, JobInvMeans, PoolInvMeans DEF JobsHold
<1>. QED  BY <1>2, AlertsBeside, JobsInit, JobsStep, PTL DEF MCSpec

=============================================================================
