---------------------------- MODULE SummaryCache ----------------------------
(***************************************************************************)
(* The in-memory cache of a tenant's network summaries and of the          *)
(* dashboards built from them (repository/summary_cache.go).               *)
(*                                                                         *)
(* Requests look a key up under the mutex, share the load in progress or   *)
(* start one of their own; writers change the network and bump the         *)
(* tenant's generation.  The load of a dashboard asks the same cache for   *)
(* the summaries.  A value is the version of the network it was computed   *)
(* from and the time of that reading.                                      *)
(***************************************************************************)
EXTENDS Integers, Sequences, FiniteSets

CONSTANTS
    Tenants,
    Requests,      \* goroutines serving requests
    Writers,       \* goroutines changing a network
    Asked,         \* the keys requests ask for: a subset of Keys
    WriteKinds,    \* "plain", "global", "tx": see Commit
    TTL,           \* summaryTTL, in ticks of the clock
    MaxAsks,       \* bound on the requests made
    MaxWrites,     \* bound on the versions of a network
    MaxTime,       \* bound on the clock
    LoadMayFail    \* may a load return an error?

Keys == {"summaries", "dashboard"}

ASSUME CacheAssumption ==
    /\ Tenants # {} /\ Asked \subseteq Keys
    /\ WriteKinds \subseteq {"plain", "global", "tx"}
    /\ TTL \in Nat \ {0}
    /\ MaxAsks \in Nat /\ MaxWrites \in Nat /\ MaxTime \in Nat
    /\ LoadMayFail \in BOOLEAN

VARIABLES
    data,     \* data[t]: version of the network of t in the database
    acked,    \* acked[t]: version whose writers are done, invalidation included
    gen,      \* gen[t]: generation of t in the cache
    entries,  \* entries[t][k]: the entry stored under the key, 0 if none
    heap,     \* every summaryEntry ever made
    req,      \* req[p]: the request p serves
    writer,   \* writer[w]: what writer w has yet to do
    now, asks,
    short     \* does no request take as long as a tick?  It never changes.

vars == <<data, acked, gen, entries, heap, req, writer, now, asks, short>>

-----------------------------------------------------------------------------
Value == [data : Nat, asOf : Nat, err : BOOLEAN]
NoValue == [data |-> 0, asOf |-> 0, err |-> TRUE]

(* An entry and the cacheKey it was made for.                              *)
Entry == [tenant : Tenants, key : Keys, gen : Nat, ready : BOOLEAN,
          value : Value, expires : Nat]

(* outer: the dashboard entry whose load is looking for the summaries.     *)
Request == [at : {"idle", "lookup", "load", "publish", "forget", "wait", "done"},
            tenant : Tenants, key : Keys, outer : Nat, entry : Nat,
            need : Nat, value : Value]

TypeOK ==
    /\ data \in [Tenants -> Nat]
    /\ acked \in [Tenants -> Nat]
    /\ gen \in [Tenants -> Nat]
    /\ entries \in [Tenants -> [Keys -> 0 .. Len(heap)]]
    /\ heap \in Seq(Entry)
    /\ req \in [Requests -> Request]
    /\ \A p \in Requests : req[p].outer <= Len(heap) /\ req[p].entry <= Len(heap)
    /\ writer \in [Writers -> [at : {"idle", "invalidate", "commit"},
                               tenant : Tenants, global : BOOLEAN]]
    /\ now \in Nat /\ asks \in Nat /\ short \in BOOLEAN

Idle == [at |-> "idle", tenant |-> CHOOSE t \in Tenants : TRUE,
         key |-> "summaries", outer |-> 0, entry |-> 0, need |-> 0,
         value |-> NoValue]
Rested == [at |-> "idle", tenant |-> CHOOSE t \in Tenants : TRUE,
           global |-> FALSE]

Init ==
    /\ data = [t \in Tenants |-> 0]
    /\ acked = [t \in Tenants |-> 0]
    /\ gen = [t \in Tenants |-> 0]
    /\ entries = [t \in Tenants |-> [k \in Keys |-> 0]]
    /\ heap = << >>
    /\ req = [p \in Requests |-> Idle]
    /\ writer = [w \in Writers |-> Rested]
    /\ now = 0 /\ asks = 0 /\ short \in BOOLEAN

-----------------------------------------------------------------------------
(* A request arrives; it may count on every write completed before.        *)
Ask(p, t, k) ==
    /\ req[p].at = "idle"
    /\ asks < MaxAsks
    /\ asks' = asks + 1
    /\ req' = [req EXCEPT ![p] = [Idle EXCEPT !.at = "lookup", !.tenant = t,
                                              !.key = k, !.need = acked[t]]]
    /\ UNCHANGED <<data, acked, gen, entries, heap, writer, now, short>>

Stored(p) == entries[req[p].tenant][req[p].key]

(* Mutant of Current: the generation is not looked at.                     *)
AnyGeneration(p) == Stored(p) # 0

(* The entry stored under the key is of the tenant's generation.           *)
Current(p) ==
    /\ Stored(p) # 0
    /\ heap[Stored(p)].gen = gen[req[p].tenant]

(* Mutant of Usable: an entry in its last tick is still served.            *)
UsableTooLong(e) == e.ready /\ ~e.value.err /\ now <= e.expires

Usable(e) == e.ready /\ ~e.value.err /\ now < e.expires

(* What p does with a value: answer with it, or, inside the load of a      *)
(* dashboard, publish the dashboard computed from it.                      *)
With(p, v) ==
    req' = [req EXCEPT ![p] =
        IF req[p].outer = 0 THEN [req[p] EXCEPT !.at = "done", !.value = v]
        ELSE [req[p] EXCEPT !.at = "publish", !.key = "dashboard",
                            !.entry = req[p].outer, !.outer = 0, !.value = v]]

Hit(p) ==
    /\ req[p].at = "lookup"
    /\ Current(p)
    /\ Usable(heap[Stored(p)])
    /\ With(p, heap[Stored(p)].value)
    /\ UNCHANGED <<data, acked, gen, entries, heap, writer, now, asks, short>>

Join(p) ==
    /\ req[p].at = "lookup"
    /\ Current(p)
    /\ ~heap[Stored(p)].ready
    /\ req' = [req EXCEPT ![p].at = "wait", ![p].entry = Stored(p)]
    /\ UNCHANGED <<data, acked, gen, entries, heap, writer, now, asks, short>>

(* purgeLocked.                                                            *)
Purged(m) ==
    [t \in Tenants |-> [k \in Keys |->
        IF m[t][k] \in DOMAIN heap
           /\ heap[m[t][k]].ready /\ now > heap[m[t][k]].expires
        THEN 0 ELSE m[t][k]]]

(* A new entry is stored before its load begins; the load of a dashboard   *)
(* goes back to the cache for the summaries.                               *)
Miss(p) ==
    LET t == req[p].tenant
        k == req[p].key
        id == Len(heap) + 1
    IN
    /\ req[p].at = "lookup"
    /\ ~(Current(p) /\ (Usable(heap[Stored(p)]) \/ ~heap[Stored(p)].ready))
    /\ heap' = Append(heap, [tenant |-> t, key |-> k, gen |-> gen[t],
                             ready |-> FALSE, value |-> NoValue, expires |-> 0])
    /\ entries' = Purged([entries EXCEPT ![t][k] = id])
    /\ req' = [req EXCEPT ![p] =
           IF k = "dashboard"
           THEN [req[p] EXCEPT !.key = "summaries", !.outer = id]
           ELSE [req[p] EXCEPT !.at = "load", !.entry = id]]
    /\ UNCHANGED <<data, acked, gen, writer, now, asks, short>>

(* The query behind the summaries runs.                                    *)
Load(p) ==
    /\ req[p].at = "load"
    /\ \E err \in IF LoadMayFail THEN BOOLEAN ELSE {FALSE} :
          req' = [req EXCEPT ![p].at = "publish",
                             ![p].value = [data |-> data[req[p].tenant],
                                           asOf |-> now, err |-> err]]
    /\ UNCHANGED <<data, acked, gen, entries, heap, writer, now, asks, short>>

(* Mutant of Filled: an error does not close ready.                        *)
FilledIfGood(e, v) ==
    [e EXCEPT !.ready = ~v.err, !.value = v, !.expires = now + TTL]

(* Mutant of Filled: the expiry is on the wrong side.                      *)
FilledBack(e, v) == [e EXCEPT !.ready = TRUE, !.value = v, !.expires = now - TTL]

Filled(e, v) == [e EXCEPT !.ready = TRUE, !.value = v, !.expires = now + TTL]

(* The value and the expiry are set and ready is closed.                   *)
Publish(p) ==
    /\ req[p].at = "publish"
    /\ heap' = [heap EXCEPT ![req[p].entry] = Filled(@, req[p].value)]
    /\ IF req[p].value.err
       THEN req' = [req EXCEPT ![p].at = "forget"]
       ELSE With(p, req[p].value)
    /\ UNCHANGED <<data, acked, gen, entries, writer, now, asks, short>>

(* A failed entry is dropped, unless another one took its place.           *)
Forget(p) ==
    /\ req[p].at = "forget"
    /\ entries' = IF Stored(p) = req[p].entry
                  THEN [entries EXCEPT ![req[p].tenant][req[p].key] = 0]
                  ELSE entries
    /\ With(p, req[p].value)
    /\ UNCHANGED <<data, acked, gen, heap, writer, now, asks, short>>

(* A waiter gets the result of the entry it joined, or its client leaves;  *)
(* a wait inside a load has no client.                                     *)
Wait(p) ==
    /\ req[p].at = "wait"
    /\ heap[req[p].entry].ready
    /\ With(p, heap[req[p].entry].value)
    /\ UNCHANGED <<data, acked, gen, entries, heap, writer, now, asks, short>>
GiveUp(p) ==
    /\ req[p].at = "wait"
    /\ req[p].outer = 0
    /\ With(p, NoValue)
    /\ UNCHANGED <<data, acked, gen, entries, heap, writer, now, asks, short>>

Answer(p) ==
    /\ req[p].at = "done"
    /\ req' = [req EXCEPT ![p] = Idle]
    /\ UNCHANGED <<data, acked, gen, entries, heap, writer, now, asks, short>>

-----------------------------------------------------------------------------
(* A repository method writes and, when it returns, invalidates the tenant *)
(* of its context; a context without one (a job) invalidates globally.     *)
(* Inside InTx the method returns before the transaction commits.          *)
StartWrite(w, t, kind) ==
    /\ writer[w].at = "idle"
    /\ kind \in WriteKinds
    /\ data[t] < MaxWrites
    /\ \/ /\ kind # "tx"
          /\ data' = [data EXCEPT ![t] = @ + 1]
          /\ writer' = [writer EXCEPT ![w] = [at |-> "invalidate", tenant |-> t,
                                              global |-> kind = "global"]]
          /\ UNCHANGED gen
       \/ /\ kind = "tx"
          /\ gen' = [gen EXCEPT ![t] = @ + 1]
          /\ writer' = [writer EXCEPT ![w] = [at |-> "commit", tenant |-> t,
                                              global |-> FALSE]]
          /\ UNCHANGED data
    /\ UNCHANGED <<acked, entries, heap, req, now, asks, short>>

(* How much an invalidation adds to the generation of t: a global one adds *)
(* one for each entry of t.                                                *)
Bump(w, t) ==
    IF writer[w].global THEN Cardinality({k \in Keys : entries[t][k] # 0})
    ELSE IF writer[w].tenant = t THEN 1 ELSE 0

Invalidate(w) ==
    /\ writer[w].at = "invalidate"
    /\ gen' = [t \in Tenants |-> gen[t] + Bump(w, t)]
    /\ acked' = [acked EXCEPT ![writer[w].tenant] = data[writer[w].tenant]]
    /\ writer' = [writer EXCEPT ![w] = Rested]
    /\ UNCHANGED <<data, entries, heap, req, now, asks, short>>

Commit(w) ==
    /\ writer[w].at = "commit"
    /\ data' = [data EXCEPT ![writer[w].tenant] = @ + 1]
    /\ writer' = [writer EXCEPT ![w] = Rested]
    /\ UNCHANGED <<acked, gen, entries, heap, req, now, asks, short>>

Tick ==
    /\ now < MaxTime
    /\ short => \A p \in Requests : req[p].at = "idle"
    /\ now' = now + 1
    /\ UNCHANGED <<data, acked, gen, entries, heap, req, writer, asks, short>>

Serve(p) == Hit(p) \/ Join(p) \/ Miss(p) \/ Load(p) \/ Publish(p)
            \/ Forget(p) \/ Wait(p) \/ Answer(p)

Next ==
    \/ \E p \in Requests, t \in Tenants, k \in Asked : Ask(p, t, k)
    \/ \E p \in Requests : Serve(p) \/ GiveUp(p)
    \/ \E w \in Writers :
          \/ \E t \in Tenants, kind \in WriteKinds : StartWrite(w, t, kind)
          \/ Invalidate(w) \/ Commit(w)
    \/ Tick

Spec == Init /\ [][Next]_vars

-----------------------------------------------------------------------------
Answered(p) == req[p].at = "done" /\ ~req[p].value.err

(* Read your writes: an answer reflects every write that had returned      *)
(* before the request was made, even when it comes from a load that was    *)
(* already running, or from an entry another request made.                 *)
AnswersAreFresh == \A p \in Requests : Answered(p) => req[p].value.data >= req[p].need

(* summaryTTL bounds the age of the summaries served, also after the       *)
(* writes that never invalidate or that invalidate before they commit; a   *)
(* dashboard is filled from summaries that may be that old already, so     *)
(* nesting the two caches doubles the bound.                               *)
AgeIsBounded ==
    \A p \in Requests : Answered(p) =>
        now - req[p].value.asOf
            <= IF req[p].key = "summaries" THEN TTL - 1 ELSE 2 * (TTL - 1)

(* While no load takes as long as a tick, the age of an answer is bounded. *)
AgingAnswers == short => AgeIsBounded

(* At most one load per tenant and key is in progress in a generation.     *)
LoadsAreShared ==
    \A p, q \in Requests :
        /\ p # q
        /\ req[p].at \in {"load", "publish"} /\ req[q].at \in {"load", "publish"}
        /\ req[p].tenant = req[q].tenant /\ req[p].key = req[q].key
        => heap[req[p].entry].gen # heap[req[q].entry].gen

(* p is to fill entry e, itself or once the load inside is done.           *)
Fills(p, e) ==
    \/ req[p].at \in {"load", "publish"} /\ req[p].entry = e
    \/ req[p].at # "idle" /\ req[p].outer = e

(* Nobody waits in vain: an entry joined is ready or somebody fills it,    *)
(* and who fills the summaries waits for nobody, so that nested loads      *)
(* never wait for each other in a circle.                                  *)
NobodyWaitsInVain ==
    \A p \in Requests :
        req[p].at = "wait" /\ ~heap[req[p].entry].ready =>
            \E q \in Requests \ {p} :
                /\ Fills(q, req[p].entry)
                /\ req[p].key = "summaries" => req[q].at # "wait"

(* A load that is running is shared, and whoever waits for it is not left  *)
(* waiting for an entry that nobody fills any more.                        *)
WaitingIsRight == LoadsAreShared /\ NobodyWaitsInVain

=============================================================================
