--------------------------- MODULE ConnectionPool ---------------------------
(***************************************************************************)
(* The connections that requests and jobs share (database.go).  The        *)
(* row-level policies filter by the session variables that a connection    *)
(* gets when it is acquired, so whose rows a statement sees is decided by  *)
(* what the acquisition and the release before it did.                     *)
(*                                                                         *)
(* One step is one round trip of a connection.                             *)
(***************************************************************************)
EXTENDS Naturals, FiniteSets, Sequences

CONSTANTS
    Conns,      \* places of the pool (config.MaxConns)
    Requests, Jobs,
    Tenants,
    NoTenant,   \* no tenant: a system context, or variables that are empty
    NoOne,
    identity,   \* identity[w]: tenants in whose name w may ask
    MaxFaults   \* bound: statements that fail, connections that break

Workers == Requests \cup Jobs
Closed == [state |-> "closed", scope |-> NoTenant, user |-> NoOne,
           asked |-> NoTenant, second |-> FALSE]

VARIABLES
    conn,    \* conn[c]: its state, the variables of its session, who has it
    scoped,  \* the connections whose variables were set
    pc,      \* pc[w]: what w holds and waits for
    queue,   \* who waits, in the order of asking (external)
    faults

poolvars == <<conn, scoped, pc, queue, faults>>

Init ==
    /\ conn = [c \in Conns |-> Closed] /\ scoped = {}
    /\ pc = [w \in Workers |-> "away"] /\ queue = <<>> /\ faults = 0

Waiting(w) == pc[w] \in {"waiting", "nested"}
Fault == faults < MaxFaults /\ faults' = faults + 1

(* A request asks for one connection at a time, a job for a second one     *)
(* while it keeps the one of its lock.                                     *)
Ask(w) ==
    /\ \/ pc[w] = "away" /\ pc' = [pc EXCEPT ![w] = "waiting"]
       \/ w \in Jobs /\ pc[w] = "holds" /\ pc' = [pc EXCEPT ![w] = "nested"]
    /\ queue' = Append(queue, w)
    /\ UNCHANGED <<conn, scoped, faults>>

(* In whose name: a job takes its lock in nobody's.                        *)
Asks(w) == IF w \in Jobs /\ pc[w] = "waiting" THEN {NoTenant} ELSE identity[w]

First(w) == queue # <<>> /\ Head(queue) = w
Free(c) == conn[c].state \in {"closed", "idle"}

(* An idle connection, or a new one, gets the variables of the caller.     *)
BeforeAcquire(w, c, t) ==
    /\ First(w) /\ Free(c) /\ t \in Asks(w)
    /\ conn' = [conn EXCEPT ![c] =
           [state |-> "used", user |-> w, asked |-> t, second |-> pc[w] = "nested",
            scope |-> IF t = NoTenant THEN @.scope ELSE t]]
    /\ scoped' = IF t = NoTenant THEN scoped ELSE scoped \cup {c}
    /\ pc' = [pc EXCEPT ![w] = IF @ = "waiting" THEN "holds" ELSE "both"]
    /\ queue' = Tail(queue)
    /\ UNCHANGED faults

(* The variables are not set: dropped, and the caller asks for another.    *)
SetFails(w, c, t) ==
    /\ First(w) /\ Free(c) /\ t \in Asks(w) \ {NoTenant}
    /\ Fault
    /\ conn' = [conn EXCEPT ![c] = Closed]
    /\ queue' = Append(Tail(queue), w)
    /\ UNCHANGED <<scoped, pc>>

(* A job gives back the connection of its lock last.                       *)
Returns(w, c) ==
    /\ conn[c].user = w
    /\ pc[w] = "both" => conn[c].second
    /\ pc[w] \in {"holds", "both"}
    /\ pc' = [pc EXCEPT ![w] = IF @ = "both" THEN "holds" ELSE "away"]

Release(w, c) ==
    /\ Returns(w, c)
    /\ conn' = [conn EXCEPT ![c].user = NoOne, ![c].asked = NoTenant,
                    ![c].second = FALSE,
                    ![c].state = IF c \in scoped THEN "resetting" ELSE "idle"]
    /\ UNCHANGED <<scoped, queue, faults>>

(* Closed, busy or in a transaction: the pool does not keep it, and does   *)
(* not call AfterRelease; its mark is of no session any more.              *)
ReleaseBroken(w, c) ==
    /\ Returns(w, c)
    /\ Fault
    /\ conn' = [conn EXCEPT ![c] = Closed]
    /\ scoped' = scoped \ {c}
    /\ UNCHANGED queue

(* Reset, or else destroyed.                                               *)
AfterRelease(c) ==
    /\ conn[c].state = "resetting"
    /\ scoped' = scoped \ {c}
    /\ \/ conn' = [conn EXCEPT ![c].state = "idle", ![c].scope = NoTenant]
          /\ UNCHANGED <<pc, queue, faults>>
       \/ conn' = [conn EXCEPT ![c] = Closed] /\ Fault /\ UNCHANGED <<pc, queue>>

(* MaxConnIdleTime, MaxConnLifetime.                                       *)
Expire(c) ==
    /\ conn[c].state = "idle"
    /\ conn' = [conn EXCEPT ![c] = Closed]
    /\ UNCHANGED <<scoped, pc, queue, faults>>

Acquire(w) == \E c \in Conns, t \in Asks(w) : BeforeAcquire(w, c, t)
GiveBack(w) == \E c \in Conns : Release(w, c) \/ ReleaseBroken(w, c)

Next ==
    \/ \E w \in Workers : Ask(w) \/ Acquire(w) \/ GiveBack(w)
    \/ \E w \in Workers, c \in Conns, t \in Tenants : SetFails(w, c, t)
    \/ \E c \in Conns : AfterRelease(c) \/ Expire(c)

(* Statements return, a free connection is handed out at once, and who     *)
(* has a connection gives it back (a job, once it has had its second one). *)
Fairness ==
    /\ \A w \in Workers : WF_poolvars(Acquire(w)) /\ WF_poolvars(GiveBack(w))
    /\ \A c \in Conns : WF_poolvars(AfterRelease(c))

-----------------------------------------------------------------------------
PoolTypeOK ==
    /\ conn \in [Conns -> [state : {"closed", "idle", "used", "resetting"},
                           scope : Tenants \cup {NoTenant},
                           user : Workers \cup {NoOne},
                           asked : Tenants \cup {NoTenant},
                           second : BOOLEAN]]
    /\ scoped \in SUBSET Conns /\ faults \in 0 .. MaxFaults
    /\ queue \in Seq(Workers)
    /\ pc \in [Workers -> {"away", "waiting", "holds", "nested", "both"}]

(* No request inherits the tenant of another: a connection in use is in    *)
(* the scope its user asked for, whatever failed before.                   *)
NeverInherited == \A c \in Conns : conn[c].state = "used" => conn[c].scope = conn[c].asked

(* Jobs that keep one connection and wait for another do not starve the    *)
(* pool, as long as it has more places than there are jobs.                *)
EveryoneIsServed ==
    Cardinality(Jobs) < Cardinality(Conns) => \A w \in Workers : []<>~Waiting(w)

=============================================================================
