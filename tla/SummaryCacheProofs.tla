------------------------- MODULE SummaryCacheProofs -------------------------
(***************************************************************************)
(* Proofs about SummaryCache, for any number of tenants, requests and      *)
(* writers, any expiry and any bounds on time, requests and writes.        *)
(*                                                                         *)
(* An answer is as fresh as the request needs because every value on its   *)
(* way into an entry already meets whatever that entry has promised        *)
(* (Meets): to the requests waiting for it, and, while its generation is   *)
(* the tenant's, to every request that may still join.  The hard case is a *)
(* global invalidation, which moves no generation when the tenant has no   *)
(* entry stored: an entry still being filled is always stored (Kept), so   *)
(* that one has none in progress either.                                   *)
(*                                                                         *)
(* The last part is about the other cache, of reference tariffs (Tariffs,  *)
(* as MCSummaryCache runs it beside this one).                             *)
(***************************************************************************)
EXTENDS MCSummaryCache, FiniteSetTheorems, WellFoundedInduction, TLAPS

(* Where a request refers to an entry.                                     *)
AtEntry == {"load", "publish", "forget", "wait"}

(* Entry e is of the generation its tenant is in.                          *)
OfNow(e) == heap[e].gen = gen[heap[e].tenant]

EntryOK(r) ==
    r.at \in AtEntry => /\ r.entry \in 1 .. Len(heap)
                        /\ heap[r.entry].tenant = r.tenant
                        /\ heap[r.entry].key = r.key

OuterOK(r) ==
    r.outer # 0 => /\ r.outer \in 1 .. Len(heap)
                   /\ r.at \notin {"idle", "done"} /\ r.key = "summaries"
                   /\ heap[r.outer].tenant = r.tenant
                   /\ heap[r.outer].key = "dashboard"

(* An entry is stored for its tenant and key, and of no later generation.  *)
MapInv ==
    /\ \A t \in Tenants, k \in Keys :
          entries[t][k] # 0 => /\ heap[entries[t][k]].tenant = t
                               /\ heap[entries[t][k]].key = k
    /\ \A e \in 1 .. Len(heap) : heap[e].gen <= gen[heap[e].tenant]

RefsInv == \A p \in Requests : EntryOK(req[p]) /\ OuterOK(req[p])

(* An entry is open as long as one request, and only one, is to fill it.   *)
FillInv ==
    /\ \A p \in Requests, e \in 1 .. Len(heap) : Fills(p, e) => ~heap[e].ready
    /\ \A p \in Requests : req[p].at = "forget" => heap[req[p].entry].ready
    /\ \A p, q \in Requests, e \in 1 .. Len(heap) :
          Fills(p, e) /\ Fills(q, e) => p = q
    /\ \A e \in 1 .. Len(heap) :
          ~heap[e].ready => \E p \in Requests : Fills(p, e)

(* One load per tenant, key and generation.                                *)
OneOpen ==
    \A e, f \in 1 .. Len(heap) :
        /\ ~heap[e].ready /\ ~heap[f].ready
        /\ heap[e].tenant = heap[f].tenant /\ heap[e].key = heap[f].key
        /\ heap[e].gen = heap[f].gen
        => e = f

(* An open entry of the current generation is in the map.                  *)
Kept ==
    \A e \in 1 .. Len(heap) :
        ~heap[e].ready /\ OfNow(e) => entries[heap[e].tenant][heap[e].key] = e

Open(e) == e \in 1 .. Len(heap) /\ ~heap[e].ready

StructInv == TypeOK /\ MapInv /\ RefsInv /\ FillInv /\ OneOpen /\ Kept

-----------------------------------------------------------------------------
LEMMA HeapType ==
    ASSUME TypeOK, NEW e \in 1 .. Len(heap)
    PROVE  /\ heap[e] \in Entry /\ heap[e].tenant \in Tenants
           /\ heap[e].key \in Keys /\ heap[e].gen \in Nat
           /\ heap[e].ready \in BOOLEAN /\ heap[e].value \in Value
           /\ heap[e].expires \in Nat
  <1>1. heap[e] \in Entry
    BY DEF TypeOK
  <1>. QED  BY <1>1 DEF Entry

LEMMA ReqType ==
    ASSUME TypeOK, NEW p \in Requests
    PROVE  /\ req[p] \in Request /\ req[p].tenant \in Tenants
           /\ req[p].key \in Keys /\ req[p].outer \in 0 .. Len(heap)
           /\ req[p].entry \in 0 .. Len(heap) /\ req[p].need \in Nat
           /\ req[p].value \in Value /\ Len(heap) \in Nat
           /\ entries[req[p].tenant][req[p].key] \in 0 .. Len(heap)
  <1>1. req[p] \in Request /\ req[p].outer <= Len(heap) /\ req[p].entry <= Len(heap)
    BY DEF TypeOK
  <1>2. req[p].tenant \in Tenants /\ req[p].key \in Keys /\ req[p].outer \in Nat
        /\ req[p].entry \in Nat /\ req[p].need \in Nat /\ req[p].value \in Value
    BY <1>1 DEF Request
  <1>3. Len(heap) \in Nat
    BY SMT DEF TypeOK
  <1>4. req[p].outer \in 0 .. Len(heap) /\ req[p].entry \in 0 .. Len(heap)
    BY <1>1, <1>2, <1>3, SMT
  <1>5. entries[req[p].tenant][req[p].key] \in 0 .. Len(heap)
    BY <1>2 DEF TypeOK
  <1>. QED  BY <1>1, <1>2, <1>3, <1>4, <1>5

LEMMA IdleType ==
    /\ Idle \in Request /\ Idle.at = "idle" /\ Idle.outer = 0 /\ Idle.need = 0
    /\ Idle.entry = 0 /\ Idle.tenant \in Tenants /\ NoValue \in Value /\ NoValue.err
  <1>1. (CHOOSE t \in Tenants : TRUE) \in Tenants
    BY CacheAssumption
  <1>. QED  BY <1>1 DEF Idle, Request, Keys, NoValue, Value

(* What With does to the request.                                          *)
LEMMA WithFacts ==
    ASSUME TypeOK, NEW p \in Requests, NEW v \in Value, With(p, v)
    PROVE  /\ req' \in [Requests -> Request]
           /\ \A q \in Requests \ {p} : req'[q] = req[q]
           /\ req'[p].tenant = req[p].tenant /\ req'[p].need = req[p].need
           /\ req'[p].value = v /\ req'[p].outer = 0
           /\ req[p].outer = 0 => /\ req'[p].at = "done" /\ req'[p].key = req[p].key
                                  /\ req'[p].entry = req[p].entry
           /\ req[p].outer # 0 => /\ req'[p].at = "publish"
                                  /\ req'[p].key = "dashboard"
                                  /\ req'[p].entry = req[p].outer
  <1>1. req \in [Requests -> Request] /\ req[p] \in Request
    BY DEF TypeOK
  <1>2. CASE req[p].outer = 0
    <2> DEFINE r == [req[p] EXCEPT !.at = "done", !.value = v]
    <2>1. r \in Request /\ r.at = "done" /\ r.key = req[p].key /\ r.value = v
          /\ r.entry = req[p].entry /\ r.outer = req[p].outer
          /\ r.tenant = req[p].tenant /\ r.need = req[p].need
      BY <1>1 DEF Request
    <2>2. req' = [req EXCEPT ![p] = r]
      BY <1>2 DEF With
    <2> HIDE DEF r
    <2>. QED  BY <1>1, <1>2, <2>1, <2>2
  <1>3. CASE req[p].outer # 0
    <2> DEFINE r == [req[p] EXCEPT !.at = "publish", !.key = "dashboard",
                                   !.entry = req[p].outer, !.outer = 0, !.value = v]
    <2>1. r \in Request /\ r.at = "publish" /\ r.key = "dashboard" /\ r.value = v
          /\ r.entry = req[p].outer /\ r.outer = 0
          /\ r.tenant = req[p].tenant /\ r.need = req[p].need
      <3>1. req[p].outer \in Nat /\ 0 \in Nat /\ "dashboard" \in Keys
        BY <1>1 DEF Request, Keys
      <3>. QED  BY <1>1, <3>1 DEF Request
    <2>2. req' = [req EXCEPT ![p] = r]
      BY <1>3 DEF With
    <2> HIDE DEF r
    <2>. QED  BY <1>1, <1>3, <2>1, <2>2
  <1>. QED  BY <1>2, <1>3

(* A step of p that leaves the entries and the generations alone, and p    *)
(* with as much to fill as before; it may drop a closed entry from the map.*)
LEMMA QuietStep ==
    ASSUME StructInv, NEW p \in Requests,
           UNCHANGED <<data, acked, gen, heap, writer, now, short>>, asks' \in Nat,
           entries' \in [Tenants -> [Keys -> 0 .. Len(heap)]],
           \A t \in Tenants, k \in Keys : entries'[t][k] \in {entries[t][k], 0},
           \A e \in 1 .. Len(heap) : ~heap[e].ready /\ OfNow(e) =>
               entries'[heap[e].tenant][heap[e].key]
                   = entries[heap[e].tenant][heap[e].key],
           req' \in [Requests -> Request],
           \A q \in Requests \ {p} : req'[q] = req[q],
           req'[p].outer <= Len(heap), req'[p].entry <= Len(heap),
           EntryOK(req'[p]), OuterOK(req'[p]),
           \A e \in 1 .. Len(heap) : Fills(p, e)' <=> Fills(p, e),
           req'[p].at = "forget" => heap[req'[p].entry].ready
    PROVE  StructInv'
  <1>1. TypeOK /\ MapInv /\ RefsInv /\ FillInv /\ OneOpen /\ Kept
    BY DEF StructInv
  <1>2. TypeOK'
    <2>1. \A q \in Requests : req'[q].outer <= Len(heap) /\ req'[q].entry <= Len(heap)
      BY <1>1 DEF TypeOK
    <2>. QED  BY <1>1, <2>1 DEF TypeOK
  <1>3. MapInv'
    BY <1>1 DEF MapInv
  <1>4. RefsInv'
    <2>1. ASSUME NEW q \in Requests \ {p} PROVE EntryOK(req'[q]) /\ OuterOK(req'[q])
      BY <1>1 DEF RefsInv
    <2>2. \A q \in Requests : EntryOK(req'[q]) /\ OuterOK(req'[q])
      BY <2>1
    <2>. QED  BY <2>2 DEF RefsInv, EntryOK, OuterOK
  <1>5. FillInv'
    <2>1. \A q \in Requests, e \in 1 .. Len(heap) : Fills(q, e)' <=> Fills(q, e)
      <3>1. ASSUME NEW q \in Requests \ {p}, NEW e \in 1 .. Len(heap)
            PROVE  Fills(q, e)' <=> Fills(q, e)
        BY DEF Fills
      <3>. QED  BY <3>1
    <2>2. \A q \in Requests : req'[q].at = "forget" => heap[req'[q].entry].ready
      BY <1>1 DEF FillInv
    <2>. QED  BY <1>1, <2>1, <2>2 DEF FillInv
  <1>6. OneOpen'
    BY <1>1 DEF OneOpen
  <1>7. Kept'
    BY <1>1 DEF Kept, OfNow
  <1>. QED  BY <1>2, <1>3, <1>4, <1>5, <1>6, <1>7 DEF StructInv

(* The same when the map is left alone too.                                *)
LEMMA CalmStep ==
    ASSUME StructInv, NEW p \in Requests,
           UNCHANGED <<data, acked, gen, heap, writer, now, short, entries>>,
           asks' \in Nat, req' \in [Requests -> Request],
           \A q \in Requests \ {p} : req'[q] = req[q],
           req'[p].outer <= Len(heap), req'[p].entry <= Len(heap),
           EntryOK(req'[p]), OuterOK(req'[p]),
           \A e \in 1 .. Len(heap) : Fills(p, e)' <=> Fills(p, e),
           req'[p].at = "forget" => heap[req'[p].entry].ready
    PROVE  StructInv'
  <1>1. entries' = entries /\ entries' \in [Tenants -> [Keys -> 0 .. Len(heap)]]
    BY DEF StructInv, TypeOK
  <1>. QED  BY <1>1, QuietStep

LEMMA AskStep ==
    ASSUME StructInv, NEW p \in Requests, NEW t \in Tenants, NEW k \in Keys, Ask(p, t, k)
    PROVE  StructInv' /\ req'[p].need = acked[t] /\ req'[p].at = "lookup"
           /\ req'[p].tenant = t /\ req'[p].outer = 0
  <1> DEFINE r == [Idle EXCEPT !.at = "lookup", !.tenant = t, !.key = k,
                               !.need = acked[t]]
  <1>1. /\ req \in [Requests -> Request] /\ acked[t] \in Nat /\ asks \in Nat
        /\ TypeOK /\ RefsInv
    BY DEF StructInv, TypeOK
  <1>2. r \in Request /\ r.at = "lookup" /\ r.outer = 0 /\ r.entry = 0
        /\ r.tenant = t /\ r.need = acked[t]
    BY <1>1, IdleType DEF Request
  <1>3. req' = [req EXCEPT ![p] = r] /\ asks' = asks + 1 /\ req[p].at = "idle"
        /\ UNCHANGED <<data, acked, gen, heap, writer, now, short, entries>>
    BY DEF Ask
  <1> HIDE DEF r
  <1>4. req' \in [Requests -> Request] /\ req'[p] = r /\ asks' \in Nat
        /\ \A q \in Requests \ {p} : req'[q] = req[q]
    BY <1>1, <1>2, <1>3, SMT
  <1>5. 0 <= Len(heap) /\ \A e \in 1 .. Len(heap) : e # 0
    BY <1>1, ReqType, SMT
  <1>6. EntryOK(r) /\ OuterOK(r)
    BY <1>2 DEF EntryOK, OuterOK, AtEntry
  <1>7. req[p].outer = 0
    BY <1>1, <1>3 DEF RefsInv, OuterOK
  <1>8. \A e \in 1 .. Len(heap) : Fills(p, e)' <=> Fills(p, e)
    BY <1>2, <1>3, <1>4, <1>5, <1>7 DEF Fills
  <1>. QED  BY <1>2, <1>3, <1>4, <1>5, <1>6, <1>8, CalmStep

(* With keeps what p has to fill: a dashboard's load goes on to publish.   *)
LEMMA WithFills ==
    ASSUME StructInv, NEW p \in Requests, NEW v \in Value, With(p, v),
           heap' = heap, req[p].at \notin {"load", "publish", "idle"}
    PROVE  /\ EntryOK(req'[p]) /\ OuterOK(req'[p])
           /\ \A e \in 1 .. Len(heap) : Fills(p, e)' <=> Fills(p, e)
           /\ req'[p].outer <= Len(heap) /\ req'[p].entry <= Len(heap)
           /\ req'[p].at # "forget"
  <1>1. TypeOK /\ EntryOK(req[p]) /\ OuterOK(req[p])
    BY DEF StructInv, RefsInv
  <1>2. req[p].entry \in 0 .. Len(heap) /\ req[p].outer \in 0 .. Len(heap)
        /\ Len(heap) \in Nat
    BY <1>1, ReqType
  <1>3. \A e \in 1 .. Len(heap) : e # 0
    BY SMT
  <1>4. req'[p].outer = 0 /\ req'[p].tenant = req[p].tenant
    BY <1>1, WithFacts
  <1>5. CASE req[p].outer = 0
    <2>1. req'[p].at = "done" /\ req'[p].entry = req[p].entry
      BY <1>1, <1>5, WithFacts
    <2>2. \A e \in 1 .. Len(heap) : ~Fills(p, e)' /\ ~Fills(p, e)
      BY <1>3, <1>4, <1>5, <2>1 DEF Fills
    <2>. QED  BY <1>2, <1>4, <2>1, <2>2, SMT DEF EntryOK, OuterOK, AtEntry
  <1>6. CASE req[p].outer # 0
    <2>1. req'[p].at = "publish" /\ req'[p].entry = req[p].outer
          /\ req'[p].key = "dashboard"
      BY <1>1, <1>6, WithFacts
    <2>2. req[p].outer \in 1 .. Len(heap)
          /\ heap[req[p].outer].tenant = req[p].tenant
          /\ heap[req[p].outer].key = "dashboard"
      BY <1>1, <1>6 DEF OuterOK
    <2>3. \A e \in 1 .. Len(heap) : Fills(p, e)' <=> Fills(p, e)
      BY <1>3, <1>4, <2>1 DEF Fills
    <2>4. EntryOK(req'[p])
      BY <1>4, <2>1, <2>2 DEF EntryOK
    <2>5. OuterOK(req'[p])
      BY <1>4 DEF OuterOK
    <2>. QED  BY <1>2, <1>4, <2>1, <2>2, <2>3, <2>4, <2>5, SMT
  <1>. QED  BY <1>5, <1>6

(* A request that gets a value, from the map or after a wait.              *)
LEMMA HitStep ==
    ASSUME StructInv, NEW p \in Requests, Hit(p)
    PROVE  StructInv' /\ Stored(p) \in 1 .. Len(heap)
           /\ heap[Stored(p)].value \in Value
  <1>1. /\ TypeOK /\ req[p].at = "lookup" /\ With(p, heap[Stored(p)].value)
        /\ Stored(p) # 0 /\ asks' = asks /\ asks \in Nat
        /\ UNCHANGED <<data, acked, gen, heap, writer, now, short, entries>>
    <2>1. TypeOK /\ asks \in Nat
      BY DEF StructInv, TypeOK
    <2>2. req[p].at = "lookup" /\ With(p, heap[Stored(p)].value)
      BY DEF Hit
    <2>4. Stored(p) # 0
      <3>1. Current(p)
        BY DEF Hit
      <3>. QED  BY <3>1 DEF Current
    <2>3. UNCHANGED <<data, acked, gen, entries, heap, writer, now, asks, short>>
      BY DEF Hit
    <2>. QED  BY <2>1, <2>2, <2>3, <2>4
  <1>2. Stored(p) \in 1 .. Len(heap)
    <2>1. entries[req[p].tenant][req[p].key] \in 0 .. Len(heap) /\ Len(heap) \in Nat
      BY <1>1, ReqType
    <2>2. Stored(p) = entries[req[p].tenant][req[p].key]
      BY DEF Stored
    <2>3. \A n \in Nat : \A k \in 0 .. n : k # 0 => k \in 1 .. n
      BY SMT
    <2>. QED  BY <1>1, <2>1, <2>2, <2>3
  <1>3. heap[Stored(p)].value \in Value
    BY <1>1, <1>2, HeapType
  <1>4. req' \in [Requests -> Request] /\ \A q \in Requests \ {p} : req'[q] = req[q]
    BY <1>1, <1>3, WithFacts
  <1>5. /\ EntryOK(req'[p]) /\ OuterOK(req'[p])
        /\ \A e \in 1 .. Len(heap) : Fills(p, e)' <=> Fills(p, e)
        /\ req'[p].outer <= Len(heap) /\ req'[p].entry <= Len(heap)
        /\ req'[p].at # "forget"
    BY <1>1, <1>3, WithFills
  <1>. QED  BY <1>1, <1>2, <1>3, <1>4, <1>5, CalmStep

LEMMA WaitStep ==
    ASSUME StructInv, NEW p \in Requests, Wait(p) \/ GiveUp(p)
    PROVE  StructInv'
  <1>1. PICK v : /\ With(p, v)
                 /\ v = NoValue \/ v = heap[req[p].entry].value
    BY DEF Wait, GiveUp
  <1>2. /\ TypeOK /\ req[p].at = "wait" /\ asks' = asks /\ asks \in Nat
        /\ UNCHANGED <<data, acked, gen, heap, writer, now, short, entries>>
    BY DEF Wait, GiveUp, StructInv, TypeOK
  <1>3. v \in Value
    <2>1. req[p].entry \in 1 .. Len(heap)
      BY <1>2 DEF StructInv, RefsInv, EntryOK, AtEntry
    <2>. QED  BY <1>1, <1>2, <2>1, HeapType, IdleType
  <1>4. req' \in [Requests -> Request] /\ \A q \in Requests \ {p} : req'[q] = req[q]
    BY <1>1, <1>2, <1>3, WithFacts
  <1>5. /\ EntryOK(req'[p]) /\ OuterOK(req'[p])
        /\ \A e \in 1 .. Len(heap) : Fills(p, e)' <=> Fills(p, e)
        /\ req'[p].outer <= Len(heap) /\ req'[p].entry <= Len(heap)
        /\ req'[p].at # "forget"
    BY <1>1, <1>2, <1>3, WithFills
  <1>. QED  BY <1>2, <1>4, <1>5, CalmStep

(* A request joins an entry that is still open.                            *)
LEMMA JoinStep ==
    ASSUME StructInv, NEW p \in Requests, Join(p)
    PROVE  /\ StructInv' /\ Open(Stored(p)) /\ OfNow(Stored(p))
           /\ req' = [req EXCEPT ![p] = req'[p]]
           /\ req'[p].at = "wait" /\ req'[p].entry = Stored(p)
           /\ req'[p].outer = req[p].outer /\ req'[p].need = req[p].need
           /\ req'[p].tenant = req[p].tenant /\ req'[p].value = req[p].value
           /\ heap[Stored(p)].tenant = req[p].tenant
           /\ req'[p].key = req[p].key
  <1> DEFINE e == Stored(p)
             r == [req[p] EXCEPT !.at = "wait", !.entry = e]
  <1>1. /\ TypeOK /\ EntryOK(req[p]) /\ OuterOK(req[p]) /\ MapInv
        /\ req[p].at = "lookup" /\ e # 0 /\ ~heap[e].ready
        /\ heap[e].gen = gen[req[p].tenant] /\ asks' = asks /\ asks \in Nat
        /\ UNCHANGED <<data, acked, gen, heap, writer, now, short, entries>>
        /\ req' = [req EXCEPT ![p].at = "wait", ![p].entry = e]
    BY DEF Join, Current, StructInv, TypeOK, RefsInv
  <1>2. /\ req[p] \in Request /\ e \in 0 .. Len(heap) /\ Len(heap) \in Nat
        /\ req[p].tenant \in Tenants /\ req[p].key \in Keys
        /\ req[p].outer \in 0 .. Len(heap)
    BY <1>1, ReqType DEF Stored
  <1>3. e \in 1 .. Len(heap) /\ e \in Nat /\ e <= Len(heap)
    BY <1>1, <1>2, SMT
  <1>4. heap[e].tenant = req[p].tenant /\ heap[e].key = req[p].key
    BY <1>1, <1>2 DEF MapInv, Stored
  <1>5. /\ r \in Request /\ r.at = "wait" /\ r.entry = e /\ r.outer = req[p].outer
        /\ r.need = req[p].need /\ r.tenant = req[p].tenant /\ r.key = req[p].key
        /\ r.value = req[p].value
    BY <1>2, <1>3 DEF Request
  <1>6. req' = [req EXCEPT ![p] = r]
    BY <1>1 DEF StructInv, TypeOK
  <1>7. Open(e) /\ OfNow(e)
    BY <1>1, <1>3, <1>4 DEF Open, OfNow
  <1> HIDE DEF r, e
  <1>8. /\ req' \in [Requests -> Request] /\ req'[p] = r
        /\ \A q \in Requests \ {p} : req'[q] = req[q]
    BY <1>1, <1>5, <1>6 DEF TypeOK
  <1>9. EntryOK(r) /\ OuterOK(r)
    BY <1>1, <1>3, <1>4, <1>5 DEF EntryOK, OuterOK
  <1>10. \A f \in 1 .. Len(heap) : Fills(p, f)' <=> Fills(p, f)
    BY <1>1, <1>5, <1>8 DEF Fills
  <1>11. r.outer <= Len(heap) /\ r.entry <= Len(heap)
    BY <1>2, <1>3, <1>5, SMT
  <1>12. StructInv'
    BY <1>1, <1>5, <1>8, <1>9, <1>10, <1>11, CalmStep
  <1>. QED  BY <1>1, <1>4, <1>5, <1>6, <1>7, <1>8, <1>12 DEF e

LEMMA LoadStep ==
    ASSUME StructInv, NEW p \in Requests, Load(p)
    PROVE  /\ StructInv'
           /\ req' = [req EXCEPT ![p] = req'[p]] /\ req[p].at = "load"
           /\ req'[p].at = "publish" /\ req'[p].entry = req[p].entry
           /\ req'[p].outer = req[p].outer /\ req'[p].need = req[p].need
           /\ req'[p].tenant = req[p].tenant /\ req'[p].key = req[p].key
           /\ req'[p].value.data = data[req[p].tenant]
           /\ req'[p].value.asOf = now
  <1>1. /\ TypeOK /\ EntryOK(req[p]) /\ OuterOK(req[p])
        /\ req[p].at = "load" /\ asks' = asks /\ asks \in Nat
        /\ UNCHANGED <<data, acked, gen, heap, writer, now, short, entries>>
    BY DEF Load, StructInv, TypeOK, RefsInv
  <1>2. PICK err \in BOOLEAN :
           req' = [req EXCEPT ![p].at = "publish",
                              ![p].value = [data |-> data[req[p].tenant],
                                            asOf |-> now, err |-> err]]
    BY DEF Load
  <1> DEFINE v == [data |-> data[req[p].tenant], asOf |-> now, err |-> err]
             r == [req[p] EXCEPT !.at = "publish", !.value = v]
  <1>3. /\ req[p] \in Request /\ Len(heap) \in Nat /\ req[p].tenant \in Tenants
        /\ req[p].outer \in 0 .. Len(heap) /\ req[p].entry \in 0 .. Len(heap)
    BY <1>1, ReqType
  <1>4. v \in Value /\ v.data = data[req[p].tenant] /\ v.asOf = now
    BY <1>1, <1>3 DEF TypeOK, Value
  <1> HIDE DEF v
  <1>5. /\ r \in Request /\ r.at = "publish" /\ r.entry = req[p].entry
        /\ r.outer = req[p].outer /\ r.need = req[p].need
        /\ r.tenant = req[p].tenant /\ r.key = req[p].key /\ r.value = v
    BY <1>3, <1>4 DEF Request
  <1>6. req' = [req EXCEPT ![p] = r]
    BY <1>1, <1>2 DEF v, TypeOK
  <1> HIDE DEF r
  <1>7. /\ req' \in [Requests -> Request] /\ req'[p] = r
        /\ \A q \in Requests \ {p} : req'[q] = req[q]
    BY <1>1, <1>5, <1>6 DEF TypeOK
  <1>8. EntryOK(r) /\ OuterOK(r)
    BY <1>1, <1>5 DEF EntryOK, OuterOK, AtEntry
  <1>9. \A f \in 1 .. Len(heap) : Fills(p, f)' <=> Fills(p, f)
    BY <1>1, <1>5, <1>7 DEF Fills
  <1>10. r.outer <= Len(heap) /\ r.entry <= Len(heap)
    BY <1>3, <1>5, SMT
  <1>11. StructInv'
    BY <1>1, <1>5, <1>7, <1>8, <1>9, <1>10, CalmStep
  <1>. QED  BY <1>1, <1>4, <1>5, <1>6, <1>7, <1>11

LEMMA AnswerStep ==
    ASSUME StructInv, NEW p \in Requests, Answer(p)
    PROVE  StructInv'
  <1>1. /\ TypeOK /\ OuterOK(req[p]) /\ req[p].at = "done"
        /\ req' = [req EXCEPT ![p] = Idle] /\ asks' = asks /\ asks \in Nat
        /\ UNCHANGED <<data, acked, gen, heap, writer, now, short, entries>>
    BY DEF Answer, StructInv, TypeOK, RefsInv
  <1>2. /\ req' \in [Requests -> Request] /\ req'[p] = Idle
        /\ \A q \in Requests \ {p} : req'[q] = req[q]
    BY <1>1, IdleType DEF TypeOK
  <1>3. 0 <= Len(heap) /\ \A e \in 1 .. Len(heap) : e # 0
    BY <1>1, ReqType, SMT
  <1>4. EntryOK(Idle) /\ OuterOK(Idle)
    BY IdleType DEF EntryOK, OuterOK, AtEntry
  <1>5. \A f \in 1 .. Len(heap) : Fills(p, f)' <=> Fills(p, f)
    BY <1>1, <1>2, <1>3, IdleType DEF Fills, OuterOK
  <1>. QED  BY <1>1, <1>2, <1>3, <1>4, <1>5, IdleType, CalmStep

(* The owner of a failed entry takes it out of the map, if it is still     *)
(* there; it is closed, so that no open one is lost.                       *)
LEMMA ForgetStep ==
    ASSUME StructInv, NEW p \in Requests, Forget(p)
    PROVE  StructInv'
  <1>1. /\ TypeOK /\ req[p].at = "forget" /\ With(p, req[p].value)
        /\ heap[req[p].entry].ready /\ asks' = asks /\ asks \in Nat
        /\ UNCHANGED <<data, acked, gen, heap, writer, now, short>>
    BY DEF Forget, StructInv, TypeOK, FillInv
  <1>2. req[p].value \in Value /\ req[p].tenant \in Tenants /\ req[p].key \in Keys
        /\ Len(heap) \in Nat
    BY <1>1, ReqType
  <1>3. req' \in [Requests -> Request] /\ \A q \in Requests \ {p} : req'[q] = req[q]
    BY <1>1, <1>2, WithFacts
  <1>4. /\ EntryOK(req'[p]) /\ OuterOK(req'[p])
        /\ \A e \in 1 .. Len(heap) : Fills(p, e)' <=> Fills(p, e)
        /\ req'[p].outer <= Len(heap) /\ req'[p].entry <= Len(heap)
        /\ req'[p].at # "forget"
    BY <1>1, <1>2, WithFills
  <1>5. /\ entries' \in [Tenants -> [Keys -> 0 .. Len(heap)]]
        /\ \A t \in Tenants, k \in Keys : entries'[t][k] \in {entries[t][k], 0}
        /\ \A t \in Tenants, k \in Keys :
              entries[t][k] # req[p].entry => entries'[t][k] = entries[t][k]
    <2>1. entries \in [Tenants -> [Keys -> 0 .. Len(heap)]] /\ 0 \in 0 .. Len(heap)
      BY <1>1, <1>2, SMT DEF TypeOK
    <2>2. CASE Stored(p) = req[p].entry
      <3>1. entries' = [entries EXCEPT ![req[p].tenant][req[p].key] = 0]
            /\ entries[req[p].tenant][req[p].key] = req[p].entry
        BY <2>2 DEF Forget, Stored
      <3>. QED  BY <1>2, <2>1, <3>1
    <2>3. CASE Stored(p) # req[p].entry
      BY <2>1, <2>3 DEF Forget
    <2>. QED  BY <2>2, <2>3
  <1>6. ASSUME NEW e \in 1 .. Len(heap), ~heap[e].ready, OfNow(e)
        PROVE  entries'[heap[e].tenant][heap[e].key]
                   = entries[heap[e].tenant][heap[e].key]
    <2>1. entries[heap[e].tenant][heap[e].key] = e /\ e # req[p].entry
      BY <1>1, <1>6 DEF StructInv, Kept
    <2>2. heap[e].tenant \in Tenants /\ heap[e].key \in Keys
      BY <1>1, HeapType
    <2>. QED  BY <1>5, <2>1, <2>2
  <1>. QED  BY <1>1, <1>3, <1>4, <1>5, <1>6, QuietStep

(* What Publish does: the entry is closed with the value, and nothing else *)
(* about it or another entry changes.                                      *)
LEMMA PublishFacts ==
    ASSUME StructInv, NEW p \in Requests, Publish(p)
    PROVE  LET e == req[p].entry
               v == req[p].value
           IN  /\ req[p].at = "publish" /\ Open(e) /\ Len(heap') = Len(heap)
               /\ heap[e].tenant = req[p].tenant /\ heap[e].key = req[p].key
               /\ heap' \in Seq(Entry) /\ v \in Value /\ e # req[p].outer
               /\ heap'[e].ready /\ heap'[e].value = v /\ heap'[e].expires = now + TTL
               /\ \A f \in 1 .. Len(heap) : /\ f # e => heap'[f] = heap[f]
                                            /\ heap'[f].tenant = heap[f].tenant
                                            /\ heap'[f].key = heap[f].key
                                            /\ heap'[f].gen = heap[f].gen
                                            /\ heap[f].ready => heap'[f].ready
               /\ req' \in [Requests -> Request]
               /\ \A q \in Requests \ {p} : req'[q] = req[q]
               /\ UNCHANGED <<data, acked, gen, entries, writer, now, asks, short>>
               /\ req'[p].tenant = req[p].tenant /\ req'[p].need = req[p].need
               /\ req'[p].value = v
               /\ v.err => /\ req'[p].at = "forget" /\ req'[p].entry = e
                           /\ req'[p].outer = req[p].outer /\ req'[p].key = req[p].key
               /\ ~v.err => With(p, v)
  <1> DEFINE e == req[p].entry
             v == req[p].value
             x == Filled(heap[e], v)
  <1>1. /\ TypeOK /\ EntryOK(req[p]) /\ OuterOK(req[p]) /\ req[p].at = "publish"
        /\ heap' = [heap EXCEPT ![e] = x] /\ v \in Value
        /\ req[p] \in Request /\ req \in [Requests -> Request]
        /\ heap \in Seq(Entry) /\ now \in Nat /\ TTL \in Nat
        /\ UNCHANGED <<data, acked, gen, entries, writer, now, asks, short>>
        /\ IF v.err THEN req' = [req EXCEPT ![p].at = "forget"] ELSE With(p, v)
    BY ReqType, CacheAssumption DEF Publish, StructInv, TypeOK, RefsInv
  <1>2. /\ e \in 1 .. Len(heap) /\ heap[e].tenant = req[p].tenant
        /\ heap[e].key = req[p].key
    BY <1>1 DEF EntryOK, AtEntry
  <1>3. heap[e] \in Entry /\ now + TTL \in Nat
    BY <1>1, <1>2, HeapType, SMT
  <1>4. /\ x \in Entry /\ x.ready /\ x.value = v /\ x.expires = now + TTL
        /\ x.tenant = heap[e].tenant /\ x.key = heap[e].key /\ x.gen = heap[e].gen
    BY <1>1, <1>3 DEF Filled, Entry
  <1>5. ~heap[e].ready
    <2>1. Fills(p, e)
      BY <1>1 DEF Fills
    <2>. QED  BY <1>2, <2>1 DEF StructInv, FillInv
  <1>6. e # req[p].outer
    BY <1>1, <1>2, SMT DEF OuterOK
  <1> HIDE DEF x, e, v
  <1>7. /\ heap' \in Seq(Entry) /\ Len(heap') = Len(heap) /\ heap'[e] = x
        /\ \A f \in 1 .. Len(heap) : f # e => heap'[f] = heap[f]
    BY <1>1, <1>2, <1>4, SMT
  <1>8. \A f \in 1 .. Len(heap) : /\ heap'[f].tenant = heap[f].tenant
                                  /\ heap'[f].key = heap[f].key
                                  /\ heap'[f].gen = heap[f].gen
                                  /\ heap[f].ready => heap'[f].ready
    <2> TAKE f \in 1 .. Len(heap)
    <2>1. CASE f = e
      BY <1>4, <1>7, <2>1
    <2>2. CASE f # e
      BY <1>7, <2>2
    <2>. QED  BY <2>1, <2>2
  <1>9. /\ req' \in [Requests -> Request]
        /\ \A q \in Requests \ {p} : req'[q] = req[q]
        /\ req'[p].tenant = req[p].tenant /\ req'[p].need = req[p].need
        /\ req'[p].value = v
        /\ v.err => /\ req'[p].at = "forget" /\ req'[p].entry = e
                    /\ req'[p].outer = req[p].outer /\ req'[p].key = req[p].key
    <2>1. CASE v.err
      <3> DEFINE r == [req[p] EXCEPT !.at = "forget"]
      <3>1. /\ r \in Request /\ r.at = "forget" /\ r.entry = e /\ r.value = v
            /\ r.outer = req[p].outer /\ r.key = req[p].key
            /\ r.tenant = req[p].tenant /\ r.need = req[p].need
        BY <1>1 DEF Request, e, v
      <3>2. req' = [req EXCEPT ![p] = r]
        BY <1>1, <2>1
      <3> HIDE DEF r
      <3>. QED  BY <1>1, <3>1, <3>2
    <2>2. CASE ~v.err
      <3>1. With(p, v)
        BY <1>1, <2>2
      <3>. QED  BY <1>1, <2>2, <3>1, WithFacts
    <2>. QED  BY <2>1, <2>2
  <1>10. ~v.err => With(p, v)
    BY <1>1
  <1>. QED  BY <1>1, <1>2, <1>4, <1>5, <1>6, <1>7, <1>8, <1>9, <1>10
            DEF e, v, Open

LEMMA PublishStep ==
    ASSUME StructInv, NEW p \in Requests, Publish(p)
    PROVE  /\ StructInv'
           /\ \A q \in Requests, f \in 1 .. Len(heap) :
                 Fills(q, f)' <=> Fills(q, f) /\ f # req[p].entry
           /\ req'[p].outer = 0 \/ req'[p].at = "forget"
           /\ req'[p].at \in {"forget", "done", "publish"}
  <1> DEFINE e == req[p].entry
             v == req[p].value
             o == req[p].outer
  <1>1. /\ TypeOK /\ MapInv /\ RefsInv /\ FillInv /\ OneOpen /\ Kept
        /\ EntryOK(req[p]) /\ OuterOK(req[p])
    BY DEF StructInv, RefsInv
  <1>2. /\ req[p].at = "publish" /\ e \in 1 .. Len(heap) /\ ~heap[e].ready
        /\ e # o /\ heap'[e].ready
    BY PublishFacts DEF Open
  <1>3. /\ Len(heap') = Len(heap)
        /\ \A f \in 1 .. Len(heap) : /\ f # e => heap'[f] = heap[f]
                                     /\ heap'[f].tenant = heap[f].tenant
                                     /\ heap'[f].key = heap[f].key
                                     /\ heap'[f].gen = heap[f].gen
                                     /\ heap[f].ready => heap'[f].ready
    BY PublishFacts
  <1>4. /\ \A q \in Requests \ {p} : req'[q] = req[q]
        /\ req' \in [Requests -> Request] /\ heap' \in Seq(Entry)
        /\ UNCHANGED <<data, acked, gen, entries, writer, now, asks, short>>
    BY PublishFacts
  <1>5. Len(heap) \in Nat /\ o \in 0 .. Len(heap) /\ e \in 0 .. Len(heap)
        /\ \A f \in 1 .. Len(heap) : f # 0
    BY <1>1, ReqType, SMT
  <1>6. /\ EntryOK(req'[p]) /\ OuterOK(req'[p])
        /\ \A f \in 1 .. Len(heap) : Fills(p, f)' <=> Fills(p, f) /\ f # e
        /\ req'[p].outer \in 0 .. Len(heap) /\ req'[p].entry \in 0 .. Len(heap)
        /\ req'[p].outer = 0 \/ req'[p].at = "forget"
        /\ req'[p].at \in {"forget", "done", "publish"}
        /\ req'[p].at = "forget" => req'[p].entry = e
    <2>1. CASE v.err
      <3>1. /\ req'[p].at = "forget" /\ req'[p].entry = e /\ req'[p].outer = o
            /\ req'[p].key = req[p].key /\ req'[p].tenant = req[p].tenant
        BY <2>1, PublishFacts
      <3>2. EntryOK(req'[p]) /\ OuterOK(req'[p])
        BY <1>1, <1>2, <3>1 DEF EntryOK, OuterOK, AtEntry
      <3>3. \A f \in 1 .. Len(heap) : Fills(p, f)' <=> Fills(p, f) /\ f # e
        BY <1>2, <1>5, <3>1 DEF Fills
      <3>. QED  BY <1>5, <3>1, <3>2, <3>3
    <2>2. CASE ~v.err
      <3>1. With(p, v) /\ v \in Value
        BY <2>2, PublishFacts
      <3>2. req'[p].outer = 0 /\ req'[p].tenant = req[p].tenant
        BY <1>1, <3>1, WithFacts
      <3>3. 0 \in 0 .. Len(heap)
        BY <1>5, SMT
      <3>4. CASE o = 0
        <4>1. req'[p].at = "done" /\ req'[p].entry = e
          BY <1>1, <3>1, <3>4, WithFacts
        <4>2. \A f \in 1 .. Len(heap) : ~Fills(p, f)' /\ (Fills(p, f) => f = e)
          BY <1>2, <1>5, <3>2, <3>4, <4>1 DEF Fills
        <4>. QED  BY <1>5, <3>2, <3>3, <4>1, <4>2 DEF EntryOK, OuterOK, AtEntry
      <3>5. CASE o # 0
        <4>1. req'[p].at = "publish" /\ req'[p].entry = o /\ req'[p].key = "dashboard"
          BY <1>1, <3>1, <3>5, WithFacts
        <4>2. o \in 1 .. Len(heap) /\ heap[o].tenant = req[p].tenant
              /\ heap[o].key = "dashboard"
          BY <1>1, <3>5 DEF OuterOK
        <4>3. \A f \in 1 .. Len(heap) : Fills(p, f)' <=> Fills(p, f) /\ f # e
          BY <1>2, <1>5, <3>2, <4>1 DEF Fills
        <4>4. EntryOK(req'[p]) /\ OuterOK(req'[p])
          BY <3>2, <4>1, <4>2 DEF EntryOK, OuterOK
        <4>. QED  BY <1>5, <3>2, <3>3, <4>1, <4>3, <4>4
      <3>. QED  BY <3>4, <3>5
    <2>. QED  BY <2>1, <2>2
  <1> HIDE DEF e, v, o
  <1>7. \A q \in Requests, f \in 1 .. Len(heap) :
           Fills(q, f)' <=> Fills(q, f) /\ f # e
    <2>1. Fills(p, e)
      BY <1>2 DEF Fills, e
    <2>2. ASSUME NEW q \in Requests \ {p}, NEW f \in 1 .. Len(heap)
          PROVE  Fills(q, f)' <=> Fills(q, f) /\ f # e
      <3>1. Fills(q, f)' <=> Fills(q, f)
        BY <1>4 DEF Fills
      <3>2. Fills(q, e) => q = p
        BY <1>1, <1>2, <2>1 DEF FillInv
      <3>. QED  BY <3>1, <3>2
    <2>. QED  BY <1>6, <2>2
  <1>8. TypeOK'
    <2>1. \A q \in Requests : req'[q].outer <= Len(heap) /\ req'[q].entry <= Len(heap)
      <3>1. req'[p].outer <= Len(heap) /\ req'[p].entry <= Len(heap)
        BY <1>5, <1>6, SMT
      <3>2. \A q \in Requests : req[q].outer <= Len(heap) /\ req[q].entry <= Len(heap)
        BY <1>1 DEF TypeOK
      <3>. QED  BY <1>4, <3>1, <3>2
    <2>. QED  BY <1>1, <1>3, <1>4, <2>1 DEF TypeOK
  <1>9. MapInv'
    <2>1. ASSUME NEW t \in Tenants, NEW k \in Keys, entries[t][k] # 0
          PROVE  heap'[entries[t][k]].tenant = t /\ heap'[entries[t][k]].key = k
      <3>1. entries[t][k] \in 1 .. Len(heap)
        BY <1>1, <1>5, <2>1, SMT DEF TypeOK
      <3>. QED  BY <1>1, <1>3, <2>1, <3>1 DEF MapInv
    <2>2. \A f \in 1 .. Len(heap) : heap'[f].gen <= gen[heap'[f].tenant]
      BY <1>1, <1>3 DEF MapInv
    <2>. QED  BY <1>3, <1>4, <2>1, <2>2 DEF MapInv
  <1>10. RefsInv'
    <2>1. ASSUME NEW q \in Requests PROVE EntryOK(req'[q]) /\ OuterOK(req'[q])
      <3>1. CASE q = p
        BY <1>6, <3>1
      <3>2. CASE q # p
        BY <1>1, <1>4, <3>2 DEF RefsInv
      <3>. QED  BY <3>1, <3>2
    <2>2. ASSUME NEW q \in Requests PROVE EntryOK(req[q])' /\ OuterOK(req[q])'
      BY <1>3, <2>1 DEF EntryOK, OuterOK
    <2>. QED  BY <2>2 DEF RefsInv
  <1>11. FillInv'
    <2>1. \A q \in Requests : req'[q].at = "forget" => heap'[req'[q].entry].ready
      <3> SUFFICES ASSUME NEW q \in Requests, req'[q].at = "forget"
                   PROVE  heap'[req'[q].entry].ready
        OBVIOUS
      <3>1. CASE q = p
        BY <1>2, <1>6, <3>1
      <3>2. CASE q # p
        <4>1. req'[q] = req[q] /\ heap[req[q].entry].ready
          BY <1>1, <1>4, <3>2 DEF FillInv
        <4>2. req[q].entry \in 1 .. Len(heap)
          BY <1>1, <4>1 DEF RefsInv, EntryOK, AtEntry
        <4>. QED  BY <1>3, <4>1, <4>2
      <3>. QED  BY <3>1, <3>2
    <2>2. \A q \in Requests, f \in 1 .. Len(heap) : Fills(q, f)' => ~heap'[f].ready
      BY <1>1, <1>3, <1>7 DEF FillInv
    <2>3. \A q, r \in Requests, f \in 1 .. Len(heap) :
             Fills(q, f)' /\ Fills(r, f)' => q = r
      BY <1>1, <1>7 DEF FillInv
    <2>4. \A f \in 1 .. Len(heap) : ~heap'[f].ready => \E q \in Requests : Fills(q, f)'
      BY <1>1, <1>2, <1>3, <1>7 DEF FillInv
    <2>. QED  BY <1>3, <2>1, <2>2, <2>3, <2>4 DEF FillInv
  <1>12. OneOpen'
    BY <1>1, <1>3 DEF OneOpen
  <1>13. Kept'
    BY <1>1, <1>3, <1>4 DEF Kept, OfNow
  <1>. QED  BY <1>6, <1>7, <1>8, <1>9, <1>10, <1>11, <1>12, <1>13 DEF StructInv, e

(* What Miss does: a new open entry is stored under the key, and only      *)
(* closed ones are purged.                                                 *)
LEMMA MissFacts ==
    ASSUME StructInv, NEW p \in Requests, Miss(p)
    PROVE  LET t == req[p].tenant
               k == req[p].key
               id == Len(heap) + 1
           IN  /\ req[p].at = "lookup" /\ t \in Tenants /\ k \in Keys
               /\ id \in Nat /\ id \in 1 .. Len(heap') /\ id \notin 1 .. Len(heap)
               /\ Len(heap') = id /\ heap' \in Seq(Entry)
               /\ 1 .. Len(heap) \subseteq 1 .. Len(heap')
               /\ \A f \in 1 .. Len(heap') : f \in 1 .. Len(heap) \/ f = id
               /\ \A f \in 1 .. Len(heap) : heap'[f] = heap[f]
               /\ heap'[id].tenant = t /\ heap'[id].key = k /\ ~heap'[id].ready
               /\ heap'[id].gen = gen[t]
               /\ entries' \in [Tenants -> [Keys -> 0 .. id]]
               /\ entries'[t][k] = id
               /\ \A u \in Tenants, l \in Keys : u # t \/ l # k =>
                     \/ entries'[u][l] = entries[u][l]
                     \/ entries'[u][l] = 0 /\ heap[entries[u][l]].ready
               /\ Open(Stored(p)) => ~OfNow(Stored(p))
               /\ req' \in [Requests -> Request]
               /\ \A q \in Requests \ {p} : req'[q] = req[q]
               /\ UNCHANGED <<data, acked, gen, writer, now, asks, short>>
               /\ req'[p].tenant = t /\ req'[p].need = req[p].need
               /\ req'[p].key = "summaries" /\ req'[p].value = req[p].value
               /\ \/ /\ k = "dashboard" /\ req'[p].at = "lookup"
                     /\ req'[p].outer = id /\ req'[p].entry = req[p].entry
                  \/ /\ k = "summaries" /\ req'[p].at = "load"
                     /\ req'[p].outer = req[p].outer /\ req'[p].entry = id
  <1> DEFINE t == req[p].tenant
             k == req[p].key
             id == Len(heap) + 1
             x == [tenant |-> t, key |-> k, gen |-> gen[t], ready |-> FALSE,
                   value |-> NoValue, expires |-> 0]
             m == [entries EXCEPT ![t][k] = id]
  <1>1. /\ TypeOK /\ MapInv /\ req[p].at = "lookup"
        /\ ~(Current(p) /\ (Usable(heap[Stored(p)]) \/ ~heap[Stored(p)].ready))
        /\ heap' = Append(heap, x) /\ entries' = Purged(m)
        /\ UNCHANGED <<data, acked, gen, writer, now, asks, short>>
    BY DEF Miss, StructInv
  <1>2. /\ t \in Tenants /\ k \in Keys /\ Len(heap) \in Nat /\ req[p] \in Request
        /\ heap \in Seq(Entry) /\ gen[t] \in Nat
        /\ entries \in [Tenants -> [Keys -> 0 .. Len(heap)]]
        /\ req \in [Requests -> Request]
    BY <1>1, ReqType DEF TypeOK
  <1>3. /\ id \in Nat /\ id \notin 1 .. Len(heap) /\ DOMAIN heap = 1 .. Len(heap)
        /\ 1 .. Len(heap) \subseteq 1 .. id /\ id \in 1 .. id
        /\ \A f \in 1 .. id : f \in 1 .. Len(heap) \/ f = id
        /\ 0 \in 0 .. id /\ id \in 0 .. id /\ 0 .. Len(heap) \subseteq 0 .. id
    BY <1>2, SMT
  <1>4. /\ x \in Entry /\ x.tenant = t /\ x.key = k /\ ~x.ready /\ x.gen = gen[t]
    BY <1>2, IdleType DEF Entry
  <1> HIDE DEF x
  <1>5. /\ heap' \in Seq(Entry) /\ Len(heap') = id /\ heap'[id] = x
        /\ \A f \in 1 .. Len(heap) : heap'[f] = heap[f]
    BY <1>1, <1>2, <1>4, SMT
  <1> HIDE DEF id
  <1>6. /\ m \in [Tenants -> [Keys -> 0 .. id]] /\ m[t][k] = id
        /\ \A u \in Tenants, l \in Keys : u # t \/ l # k => m[u][l] = entries[u][l]
    BY <1>2, <1>3
  <1> HIDE DEF m
  <1>7. \A u \in Tenants, l \in Keys :
           \/ entries'[u][l] = m[u][l]
           \/ /\ m[u][l] \in DOMAIN heap /\ heap[m[u][l]].ready
              /\ entries'[u][l] = 0
    BY <1>1 DEF Purged
  <1>8. entries' \in [Tenants -> [Keys -> 0 .. id]]
    BY <1>1, <1>3, <1>6 DEF Purged
  <1>9. entries'[t][k] = id
    BY <1>2, <1>3, <1>6, <1>7
  <1>10. ASSUME Open(Stored(p)) PROVE ~OfNow(Stored(p))
    <2>1. Stored(p) # 0 /\ ~heap[Stored(p)].ready
      BY <1>10, SMT DEF Open
    <2>2. heap[Stored(p)].tenant = req[p].tenant
      BY <1>1, <1>2, <2>1 DEF MapInv, Stored
    <2>. QED  BY <1>1, <2>1, <2>2 DEF Current, OfNow
  <1>11. /\ req' \in [Requests -> Request]
         /\ \A q \in Requests \ {p} : req'[q] = req[q]
         /\ req'[p].tenant = t /\ req'[p].need = req[p].need
         /\ req'[p].key = "summaries" /\ req'[p].value = req[p].value
         /\ \/ /\ k = "dashboard" /\ req'[p].at = "lookup"
               /\ req'[p].outer = id /\ req'[p].entry = req[p].entry
            \/ /\ k = "summaries" /\ req'[p].at = "load"
               /\ req'[p].outer = req[p].outer /\ req'[p].entry = id
    <2>1. CASE k = "dashboard"
      <3> DEFINE r == [req[p] EXCEPT !.key = "summaries", !.outer = id]
      <3>1. /\ r \in Request /\ r.at = "lookup" /\ r.outer = id
            /\ r.entry = req[p].entry /\ r.tenant = t /\ r.need = req[p].need
            /\ r.key = "summaries" /\ r.value = req[p].value
        BY <1>1, <1>2, <1>3 DEF Request, Keys
      <3>2. req' = [req EXCEPT ![p] = r]
        BY <2>1 DEF Miss, id
      <3> HIDE DEF r
      <3>. QED  BY <1>2, <2>1, <3>1, <3>2
    <2>2. CASE k # "dashboard"
      <3> DEFINE r == [req[p] EXCEPT !.at = "load", !.entry = id]
      <3>1. /\ r \in Request /\ r.at = "load" /\ r.outer = req[p].outer
            /\ r.entry = id /\ r.tenant = t /\ r.need = req[p].need
            /\ r.key = k /\ r.value = req[p].value
        BY <1>1, <1>2, <1>3 DEF Request
      <3>2. req' = [req EXCEPT ![p] = r]
        BY <2>2 DEF Miss, id
      <3>3. k = "summaries"
        BY <1>2, <2>2 DEF Keys
      <3> HIDE DEF r
      <3>. QED  BY <1>2, <3>1, <3>2, <3>3
    <2>. QED  BY <2>1, <2>2
  <1>12. \A u \in Tenants, l \in Keys : u # t \/ l # k =>
            \/ entries'[u][l] = entries[u][l]
            \/ entries'[u][l] = 0 /\ heap[entries[u][l]].ready
    BY <1>6, <1>7
  <1>. QED
    BY <1>1, <1>2, <1>3, <1>4, <1>5, <1>8, <1>9, <1>10, <1>11, <1>12 DEF id

LEMMA MissStep ==
    ASSUME StructInv, NEW p \in Requests, Miss(p)
    PROVE  /\ StructInv'
           /\ \A f \in 1 .. Len(heap) : ~heap[f].ready /\ OfNow(f) =>
                 entries'[heap[f].tenant][heap[f].key] = f
  <1> DEFINE t == req[p].tenant
             k == req[p].key
             id == Len(heap) + 1
  <1>1. /\ TypeOK /\ MapInv /\ RefsInv /\ FillInv /\ OneOpen /\ Kept
        /\ EntryOK(req[p]) /\ OuterOK(req[p])
    BY DEF StructInv, RefsInv
  <1>2. /\ req[p].at = "lookup" /\ t \in Tenants /\ k \in Keys
        /\ id \in Nat /\ id \in 1 .. Len(heap') /\ id \notin 1 .. Len(heap)
        /\ Len(heap') = id /\ heap' \in Seq(Entry)
        /\ 1 .. Len(heap) \subseteq 1 .. Len(heap')
        /\ \A f \in 1 .. Len(heap') : f \in 1 .. Len(heap) \/ f = id
    BY MissFacts
  <1>3. /\ \A f \in 1 .. Len(heap) : heap'[f] = heap[f]
        /\ heap'[id].tenant = t /\ heap'[id].key = k /\ ~heap'[id].ready
        /\ heap'[id].gen = gen[t]
    BY MissFacts
  <1>4. /\ entries' \in [Tenants -> [Keys -> 0 .. id]] /\ entries'[t][k] = id
        /\ \A u \in Tenants, l \in Keys : u # t \/ l # k =>
              \/ entries'[u][l] = entries[u][l]
              \/ entries'[u][l] = 0 /\ heap[entries[u][l]].ready
        /\ Open(Stored(p)) => ~OfNow(Stored(p))
    BY MissFacts
  <1>5. /\ req' \in [Requests -> Request]
        /\ \A q \in Requests \ {p} : req'[q] = req[q]
        /\ UNCHANGED <<data, acked, gen, writer, now, asks, short>>
    BY MissFacts
  <1>6. /\ req'[p].tenant = t /\ req'[p].key = "summaries"
        /\ \/ /\ k = "dashboard" /\ req'[p].at = "lookup"
              /\ req'[p].outer = id /\ req'[p].entry = req[p].entry
           \/ /\ k = "summaries" /\ req'[p].at = "load"
              /\ req'[p].outer = req[p].outer /\ req'[p].entry = id
    BY MissFacts
  <1>7. Len(heap) \in Nat /\ req[p].outer \in 0 .. Len(heap)
        /\ req[p].entry \in 0 .. Len(heap)
    BY <1>1, ReqType
  <1>8. Len(heap) <= id /\ 0 \notin 1 .. Len(heap') /\ id # 0
    BY <1>2, <1>7, SMT
  <1> HIDE DEF t, k, id
  <1>9. \A f \in 1 .. Len(heap') : Fills(p, f)' <=> f = id \/ req[p].outer = f
    <2>1. CASE k = "dashboard"
      <3>1. req[p].outer = 0
        BY <1>1, <2>1 DEF OuterOK, k
      <3>. QED  BY <1>6, <1>8, <2>1, <3>1 DEF Fills
    <2>2. CASE k = "summaries"
      BY <1>6, <1>8, <2>2 DEF Fills
    <2>. QED  BY <1>2, <2>1, <2>2 DEF Keys
  <1>10. \A q \in Requests, f \in 1 .. Len(heap) : Fills(q, f)' <=> Fills(q, f)
    <2>1. ASSUME NEW f \in 1 .. Len(heap) PROVE Fills(p, f)' <=> Fills(p, f)
      BY <1>2, <1>9 DEF Fills
    <2>2. ASSUME NEW q \in Requests \ {p}, NEW f \in 1 .. Len(heap)
          PROVE  Fills(q, f)' <=> Fills(q, f)
      BY <1>5 DEF Fills
    <2>. QED  BY <2>1, <2>2
  <1>11. \A q \in Requests, f \in 1 .. Len(heap') :
            f = id => (Fills(q, f)' <=> q = p)
    <2>1. ASSUME NEW q \in Requests \ {p}, NEW f \in 1 .. Len(heap'), f = id
          PROVE  ~Fills(q, f)'
      <3>1. EntryOK(req[q]) /\ OuterOK(req[q]) /\ req'[q] = req[q]
        BY <1>1, <1>5 DEF RefsInv
      <3>2. req[q].outer # id
        BY <1>2, <1>8, <3>1 DEF OuterOK
      <3>3. req[q].at \in {"load", "publish"} => req[q].entry # id
        BY <1>2, <3>1 DEF EntryOK, AtEntry
      <3>. QED  BY <2>1, <3>1, <3>2, <3>3 DEF Fills
    <2>. QED  BY <1>9, <2>1
  <1>12. TypeOK'
    <2>1. \A q \in Requests : req'[q].outer <= id /\ req'[q].entry <= id
      <3> SUFFICES ASSUME NEW q \in Requests
                   PROVE  req'[q].outer <= id /\ req'[q].entry <= id
        OBVIOUS
      <3>1. CASE q = p
        BY <1>2, <1>6, <1>7, <1>8, <3>1, SMT
      <3>2. CASE q # p
        <4>1. req[q].outer \in 0 .. Len(heap) /\ req[q].entry \in 0 .. Len(heap)
          BY <1>1, ReqType
        <4>. QED  BY <1>2, <1>5, <1>7, <1>8, <3>2, <4>1, SMT
      <3>. QED  BY <3>1, <3>2
    <2>. QED  BY <1>1, <1>2, <1>4, <1>5, <2>1 DEF TypeOK
  <1>13. MapInv'
    <2>1. ASSUME NEW u \in Tenants, NEW l \in Keys, entries'[u][l] # 0
          PROVE  heap'[entries'[u][l]].tenant = u /\ heap'[entries'[u][l]].key = l
      <3>1. CASE u = t /\ l = k
        BY <1>3, <1>4, <3>1
      <3>2. CASE u # t \/ l # k
        <4>1. entries'[u][l] = entries[u][l] /\ entries[u][l] # 0
          BY <1>4, <2>1, <3>2
        <4>2. entries[u][l] \in 0 .. Len(heap)
          BY <1>1 DEF TypeOK
        <4>3. entries[u][l] \in 1 .. Len(heap)
          BY <1>7, <4>1, <4>2, SMT
        <4>. QED  BY <1>1, <1>3, <4>1, <4>3 DEF MapInv
      <3>. QED  BY <3>1, <3>2
    <2>2. gen[t] \in Nat
      BY <1>1, <1>2 DEF TypeOK
    <2>3. gen[t] <= gen[t]
      BY <2>2, SMT
    <2>4. \A f \in 1 .. Len(heap') : heap'[f].gen <= gen[heap'[f].tenant]
      BY <1>1, <1>2, <1>3, <2>3 DEF MapInv
    <2>. QED  BY <1>5, <2>1, <2>4 DEF MapInv
  <1>14. RefsInv'
    <2>1. ASSUME NEW q \in Requests \ {p} PROVE EntryOK(req[q])' /\ OuterOK(req[q])'
      <3>1. EntryOK(req[q]) /\ OuterOK(req[q]) /\ req'[q] = req[q]
        BY <1>1, <1>5 DEF RefsInv
      <3>. QED  BY <1>2, <1>3, <3>1 DEF EntryOK, OuterOK
    <2>2. EntryOK(req[p])'
      BY <1>2, <1>3, <1>6 DEF EntryOK, AtEntry
    <2>3. OuterOK(req[p])'
      <3>1. CASE k = "dashboard"
        BY <1>2, <1>3, <1>6, <3>1 DEF OuterOK
      <3>2. CASE k = "summaries"
        BY <1>1, <1>2, <1>3, <1>6, <3>2 DEF OuterOK, t
      <3>. QED  BY <1>2, <3>1, <3>2 DEF Keys
    <2>. QED  BY <2>1, <2>2, <2>3 DEF RefsInv
  <1>15. FillInv'
    <2>1. \A q \in Requests : req'[q].at = "forget" => heap'[req'[q].entry].ready
      <3> SUFFICES ASSUME NEW q \in Requests, req'[q].at = "forget"
                   PROVE  heap'[req'[q].entry].ready
        OBVIOUS
      <3>1. req'[q] = req[q] /\ heap[req[q].entry].ready
        BY <1>1, <1>5, <1>6 DEF FillInv
      <3>2. req[q].entry \in 1 .. Len(heap)
        BY <1>1, <3>1 DEF RefsInv, EntryOK, AtEntry
      <3>. QED  BY <1>3, <3>1, <3>2
    <2>2. \A q \in Requests, f \in 1 .. Len(heap') : Fills(q, f)' => ~heap'[f].ready
      BY <1>1, <1>2, <1>3, <1>10 DEF FillInv
    <2>3. \A q, r \in Requests, f \in 1 .. Len(heap') :
             Fills(q, f)' /\ Fills(r, f)' => q = r
      BY <1>1, <1>2, <1>10, <1>11 DEF FillInv
    <2>4. \A f \in 1 .. Len(heap') : ~heap'[f].ready => \E q \in Requests : Fills(q, f)'
      BY <1>1, <1>2, <1>3, <1>10, <1>11 DEF FillInv
    <2>. QED  BY <2>1, <2>2, <2>3, <2>4 DEF FillInv
  <1>16. ASSUME NEW f \in 1 .. Len(heap), ~heap[f].ready, OfNow(f)
         PROVE  /\ heap[f].tenant # t \/ heap[f].key # k
                /\ entries'[heap[f].tenant][heap[f].key] = f
    <2>1. entries[heap[f].tenant][heap[f].key] = f
      BY <1>1, <1>16 DEF Kept
    <2>2. heap[f].tenant # t \/ heap[f].key # k
      <3>1. SUFFICES ASSUME heap[f].tenant = t, heap[f].key = k PROVE FALSE
        OBVIOUS
      <3>2. Stored(p) = f
        BY <2>1, <3>1 DEF Stored, t, k
      <3>. QED  BY <1>4, <1>16, <3>2 DEF Open
    <2>3. heap[f].tenant \in Tenants /\ heap[f].key \in Keys
      BY <1>1, HeapType
    <2>. QED  BY <1>4, <1>16, <2>1, <2>2, <2>3
  <1>17. OneOpen'
    <2>1. ASSUME NEW f \in 1 .. Len(heap), ~heap[f].ready,
                 heap[f].tenant = t, heap[f].key = k
          PROVE  heap[f].gen # gen[t]
      BY <1>16, <2>1 DEF OfNow
    <2>2. ASSUME NEW e \in 1 .. Len(heap'), NEW f \in 1 .. Len(heap'),
                 ~heap'[e].ready, ~heap'[f].ready,
                 heap'[e].tenant = heap'[f].tenant, heap'[e].key = heap'[f].key,
                 heap'[e].gen = heap'[f].gen
          PROVE  e = f
      <3>1. CASE e \in 1 .. Len(heap) /\ f \in 1 .. Len(heap)
        BY <1>1, <1>3, <2>2, <3>1 DEF OneOpen
      <3>2. CASE e = id /\ f \in 1 .. Len(heap)
        BY <1>3, <2>1, <2>2, <3>2
      <3>3. CASE f = id /\ e \in 1 .. Len(heap)
        BY <1>3, <2>1, <2>2, <3>3
      <3>. QED  BY <1>2, <3>1, <3>2, <3>3
    <2>. QED  BY <2>2 DEF OneOpen
  <1>18. Kept'
    <2>1. ASSUME NEW f \in 1 .. Len(heap'), ~heap'[f].ready,
                 heap'[f].gen = gen[heap'[f].tenant]
          PROVE  entries'[heap'[f].tenant][heap'[f].key] = f
      <3>1. CASE f = id
        BY <1>3, <1>4, <3>1
      <3>2. CASE f \in 1 .. Len(heap)
        <4>1. ~heap[f].ready /\ OfNow(f) /\ heap'[f] = heap[f]
          BY <1>3, <2>1, <3>2 DEF OfNow
        <4>. QED  BY <1>16, <3>2, <4>1
      <3>. QED  BY <1>2, <3>1, <3>2
    <2>. QED  BY <1>5, <2>1 DEF Kept, OfNow
  <1>19. StructInv'
    BY <1>12, <1>13, <1>14, <1>15, <1>17, <1>18 DEF StructInv
  <1>. QED  BY <1>16, <1>19

(* Writers and time leave the requests and the entries alone; generations  *)
(* only grow, so that an entry of the current one was so before.           *)
LEMMA GenStep ==
    ASSUME StructInv, TypeOK', UNCHANGED <<entries, heap, req>>,
           \A t \in Tenants : gen[t] <= gen'[t]
    PROVE  /\ StructInv'
           /\ \A e \in 1 .. Len(heap) : OfNow(e)' =>
                 OfNow(e) /\ gen'[heap[e].tenant] = gen[heap[e].tenant]
  <1>1. TypeOK /\ MapInv /\ RefsInv /\ FillInv /\ OneOpen /\ Kept
    BY DEF StructInv
  <1>2. ASSUME NEW e \in 1 .. Len(heap)
        PROVE  /\ heap[e].gen <= gen'[heap[e].tenant]
               /\ heap[e].gen = gen'[heap[e].tenant] =>
                     heap[e].gen = gen[heap[e].tenant]
    <2> DEFINE g == heap[e].gen
               t == heap[e].tenant
    <2>1. t \in Tenants /\ g \in Nat
      BY <1>1, HeapType
    <2>2. g <= gen[t] /\ gen[t] <= gen'[t] /\ gen[t] \in Nat /\ gen'[t] \in Nat
      BY <1>1, <2>1 DEF MapInv, TypeOK
    <2> HIDE DEF g, t
    <2>3. g <= gen'[t] /\ (g = gen'[t] => g = gen[t])
      BY <2>1, <2>2, SMT
    <2>. QED  BY <2>3 DEF g, t
  <1>3. MapInv'
    BY <1>1, <1>2 DEF MapInv
  <1>4. RefsInv' /\ FillInv' /\ OneOpen'
    BY <1>1 DEF RefsInv, EntryOK, OuterOK, FillInv, Fills, OneOpen
  <1>5. Kept'
    BY <1>1, <1>2 DEF Kept, OfNow
  <1>6. StructInv'
    BY <1>3, <1>4, <1>5 DEF StructInv
  <1>7. ASSUME NEW e \in 1 .. Len(heap), OfNow(e)'
        PROVE  OfNow(e) /\ gen'[heap[e].tenant] = gen[heap[e].tenant]
    BY <1>2, <1>7 DEF OfNow
  <1>. QED  BY <1>6, <1>7

(* A global invalidation that leaves a generation alone found nothing      *)
(* stored for the tenant.                                                  *)
LEMMA BumpFacts ==
    ASSUME TypeOK, NEW w \in Writers, NEW t \in Tenants
    PROVE  /\ Bump(w, t) \in Nat
           /\ Bump(w, t) = 0 /\ writer[w].tenant = t =>
                 \A k \in Keys : entries[t][k] = 0
  <1> DEFINE S == {k \in Keys : entries[t][k] # 0}
  <1>1. IsFiniteSet(S)
    <2>1. IsFiniteSet({"summaries"})
      BY FS_Singleton
    <2>2. IsFiniteSet({"summaries"} \cup {"dashboard"})
      BY <2>1, FS_AddElement
    <2>3. Keys = {"summaries"} \cup {"dashboard"}
      BY DEF Keys
    <2>4. IsFiniteSet(Keys)
      BY <2>2, <2>3
    <2>. QED  BY <2>4, FS_Subset
  <1>2. Cardinality(S) \in Nat /\ (Cardinality(S) = 0 <=> S = {})
    BY <1>1, FS_CardinalityType, FS_EmptySet
  <1>3. CASE writer[w].global
    <2>1. Bump(w, t) = Cardinality(S)
      BY <1>3 DEF Bump
    <2>2. S = {} => \A k \in Keys : entries[t][k] = 0
      OBVIOUS
    <2>. QED  BY <1>2, <2>1, <2>2
  <1>4. CASE ~writer[w].global
    <2>1. Bump(w, t) = IF writer[w].tenant = t THEN 1 ELSE 0
      BY <1>4 DEF Bump
    <2>. QED  BY <2>1, SMT
  <1>. QED  BY <1>3, <1>4

LEMMA RestedType ==
    Rested \in [at : {"idle", "invalidate", "commit"}, tenant : Tenants,
                global : BOOLEAN]
  <1>1. (CHOOSE t \in Tenants : TRUE) \in Tenants
    BY CacheAssumption
  <1>. QED  BY <1>1 DEF Rested

LEMMA WriteStep ==
    ASSUME StructInv, NEW w \in Writers, NEW t \in Tenants, NEW kind \in WriteKinds,
           StartWrite(w, t, kind)
    PROVE  /\ TypeOK' /\ UNCHANGED <<acked, entries, heap, req, now, asks, short>>
           /\ \A u \in Tenants : gen[u] <= gen'[u] /\ data[u] <= data'[u]
  <1>1. /\ TypeOK /\ gen \in [Tenants -> Nat] /\ data \in [Tenants -> Nat]
        /\ UNCHANGED <<acked, entries, heap, req, now, asks, short>>
    BY DEF StructInv, TypeOK, StartWrite
  <1>2. \A u \in Tenants : /\ gen[u] <= gen[u] /\ data[u] <= data[u]
                           /\ gen[u] <= gen[u] + 1 /\ data[u] <= data[u] + 1
                           /\ gen[u] + 1 \in Nat /\ data[u] + 1 \in Nat
    BY <1>1, SMT
  <1>3. writer' \in [Writers -> [at : {"idle", "invalidate", "commit"},
                                 tenant : Tenants, global : BOOLEAN]]
    <2>1. writer \in [Writers -> [at : {"idle", "invalidate", "commit"},
                                  tenant : Tenants, global : BOOLEAN]]
      BY <1>1 DEF TypeOK
    <2>2. CASE kind # "tx"
      <3>1. writer' = [writer EXCEPT ![w] = [at |-> "invalidate", tenant |-> t,
                                             global |-> kind = "global"]]
        BY <2>2 DEF StartWrite
      <3>2. (kind = "global") \in BOOLEAN
        OBVIOUS
      <3>3. [at |-> "invalidate", tenant |-> t, global |-> kind = "global"]
                \in [at : {"idle", "invalidate", "commit"},
                     tenant : Tenants, global : BOOLEAN]
        BY <3>2
      <3>. QED  BY <2>1, <3>1, <3>3
    <2>3. CASE kind = "tx"
      <3>1. writer' = [writer EXCEPT ![w] = [at |-> "commit", tenant |-> t,
                                             global |-> FALSE]]
        BY <2>3 DEF StartWrite
      <3>. QED  BY <2>1, <3>1
    <2>. QED  BY <2>2, <2>3
  <1>4. /\ gen' \in [Tenants -> Nat] /\ data' \in [Tenants -> Nat]
        /\ \A u \in Tenants : gen[u] <= gen'[u] /\ data[u] <= data'[u]
    <2>1. CASE kind # "tx"
      <3>1. gen' = gen /\ data' = [data EXCEPT ![t] = data[t] + 1]
        BY <2>1 DEF StartWrite
      <3>. QED  BY <1>1, <1>2, <3>1
    <2>2. CASE kind = "tx"
      <3>1. data' = data /\ gen' = [gen EXCEPT ![t] = gen[t] + 1]
        BY <2>2 DEF StartWrite
      <3>. QED  BY <1>1, <1>2, <3>1
    <2>. QED  BY <2>1, <2>2
  <1>. QED  BY <1>1, <1>3, <1>4 DEF TypeOK

LEMMA CommitStep ==
    ASSUME StructInv, NEW w \in Writers, Commit(w)
    PROVE  /\ TypeOK' /\ UNCHANGED <<acked, gen, entries, heap, req, now, asks, short>>
           /\ \A u \in Tenants : gen[u] <= gen'[u] /\ data[u] <= data'[u]
  <1> DEFINE t == writer[w].tenant
  <1>1. /\ TypeOK /\ gen \in [Tenants -> Nat] /\ data \in [Tenants -> Nat]
        /\ UNCHANGED <<acked, gen, entries, heap, req, now, asks, short>>
        /\ t \in Tenants /\ data' = [data EXCEPT ![t] = data[t] + 1]
        /\ writer' = [writer EXCEPT ![w] = Rested]
    BY DEF StructInv, TypeOK, Commit
  <1> HIDE DEF t
  <1>2. \A u \in Tenants : /\ gen[u] <= gen[u] /\ data[u] <= data[u]
                           /\ data[u] <= data[u] + 1 /\ data[u] + 1 \in Nat
    BY <1>1, SMT
  <1>3. data' \in [Tenants -> Nat] /\ \A u \in Tenants : data[u] <= data'[u]
    BY <1>1, <1>2
  <1>. QED  BY <1>1, <1>2, <1>3, RestedType DEF TypeOK

(* An invalidation: the writes up to now count as done, and the generation *)
(* of their tenant grows, or nothing is stored for it.                     *)
LEMMA InvalidateStep ==
    ASSUME StructInv, NEW w \in Writers, Invalidate(w)
    PROVE  LET t == writer[w].tenant
           IN  /\ TypeOK' /\ UNCHANGED <<data, entries, heap, req, now, asks, short>>
               /\ t \in Tenants
               /\ \A u \in Tenants : gen[u] <= gen'[u]
               /\ \A u \in Tenants : acked'[u] = IF u = t THEN data[t] ELSE acked[u]
               /\ gen'[t] = gen[t] => \A k \in Keys : entries[t][k] = 0
  <1> DEFINE t == writer[w].tenant
  <1>1. /\ TypeOK /\ gen \in [Tenants -> Nat] /\ data \in [Tenants -> Nat]
        /\ acked \in [Tenants -> Nat]
        /\ UNCHANGED <<data, entries, heap, req, now, asks, short>>
        /\ t \in Tenants /\ acked' = [acked EXCEPT ![t] = data[t]]
        /\ gen' = [u \in Tenants |-> gen[u] + Bump(w, u)]
        /\ writer' = [writer EXCEPT ![w] = Rested]
    BY DEF StructInv, TypeOK, Invalidate
  <1>2. ASSUME NEW u \in Tenants
        PROVE  /\ gen'[u] \in Nat /\ gen[u] <= gen'[u]
               /\ gen'[u] = gen[u] => Bump(w, u) = 0
    <2>1. gen[u] \in Nat /\ Bump(w, u) \in Nat /\ gen'[u] = gen[u] + Bump(w, u)
      BY <1>1, BumpFacts
    <2>. QED  BY <2>1, SMT
  <1>3. gen' \in [Tenants -> Nat]
    BY <1>1, <1>2
  <1>4. acked' \in [Tenants -> Nat]
        /\ \A u \in Tenants : acked'[u] = IF u = t THEN data[t] ELSE acked[u]
    BY <1>1
  <1>5. gen'[t] = gen[t] => \A k \in Keys : entries[t][k] = 0
    BY <1>1, <1>2, BumpFacts
  <1>6. TypeOK'
    BY <1>1, <1>3, <1>4, RestedType DEF TypeOK
  <1>. QED  BY <1>1, <1>2, <1>4, <1>5, <1>6

LEMMA TickStep ==
    ASSUME StructInv, Tick
    PROVE  /\ TypeOK' /\ now' = now + 1
           /\ UNCHANGED <<data, acked, gen, entries, heap, req, asks, short>>
           /\ \A u \in Tenants : gen[u] <= gen'[u]
  <1>1. /\ TypeOK /\ now' = now + 1 /\ now' \in Nat
        /\ UNCHANGED <<data, acked, gen, entries, heap, req, writer, asks, short>>
    BY SMT DEF StructInv, TypeOK, Tick
  <1>2. \A u \in Tenants : gen[u] <= gen[u]
    BY <1>1, SMT DEF TypeOK
  <1>. QED  BY <1>1, <1>2 DEF TypeOK

-----------------------------------------------------------------------------
LEMMA StructInit == Init => StructInv
  <1> SUFFICES ASSUME Init PROVE StructInv
    OBVIOUS
  <1>1. /\ heap = << >> /\ Len(heap) = 0 /\ heap \in Seq(Entry) /\ 0 \in 0 .. Len(heap)
        /\ \A e \in 1 .. Len(heap) : FALSE
    BY SMT DEF Init
  <1>2. \A p \in Requests : req[p] = Idle
    BY DEF Init
  <1>3. TypeOK
    <2>1. \A p \in Requests : req[p].outer <= Len(heap) /\ req[p].entry <= Len(heap)
      BY <1>1, <1>2, IdleType, SMT
    <2>. QED  BY <1>1, <2>1, IdleType, RestedType DEF Init, TypeOK
  <1>4. MapInv
    BY <1>1 DEF Init, MapInv
  <1>5. RefsInv
    BY <1>2, IdleType DEF RefsInv, EntryOK, OuterOK, AtEntry
  <1>6. FillInv /\ OneOpen /\ Kept
    BY <1>1, <1>2, IdleType DEF FillInv, OneOpen, Kept
  <1>. QED  BY <1>3, <1>4, <1>5, <1>6 DEF StructInv

(* Every step keeps the structure of the cache.                            *)
LEMMA StructStep == StructInv /\ [Next]_vars => StructInv'
  <1> SUFFICES ASSUME StructInv, [Next]_vars PROVE StructInv'
    OBVIOUS
  <1>1. ASSUME NEW p \in Requests, NEW t \in Tenants, NEW k \in Asked, Ask(p, t, k)
        PROVE  StructInv'
    BY <1>1, AskStep, CacheAssumption
  <1>2. ASSUME NEW p \in Requests, Serve(p) \/ GiveUp(p)
        PROVE  StructInv'
    BY <1>2, HitStep, JoinStep, MissStep, LoadStep, PublishStep, ForgetStep,
       WaitStep, AnswerStep DEF Serve
  <1>3. ASSUME NEW w \in Writers, NEW t \in Tenants, NEW kind \in WriteKinds,
               StartWrite(w, t, kind)
        PROVE  StructInv'
    <2>1. TypeOK' /\ UNCHANGED <<entries, heap, req>>
          /\ \A u \in Tenants : gen[u] <= gen'[u]
      BY <1>3, WriteStep
    <2>. QED  BY <2>1, GenStep
  <1>4. ASSUME NEW w \in Writers, Invalidate(w) \/ Commit(w)
        PROVE  StructInv'
    <2>1. TypeOK' /\ UNCHANGED <<entries, heap, req>>
          /\ \A u \in Tenants : gen[u] <= gen'[u]
      BY <1>4, InvalidateStep, CommitStep
    <2>. QED  BY <2>1, GenStep
  <1>5. CASE Tick
    BY <1>5, TickStep, GenStep
  <1>6. CASE UNCHANGED vars
    BY <1>6 DEF vars, StructInv, TypeOK, MapInv, RefsInv, EntryOK, OuterOK,
                FillInv, Fills, OneOpen, Kept, OfNow
  <1>. QED  BY <1>1, <1>2, <1>3, <1>4, <1>5, <1>6 DEF Next

(* The cache's map, entries and requests are well formed in every state.   *)
THEOREM CacheTypeCorrect == Spec => []TypeOK
<1>1. StructInv => TypeOK
  BY DEF StructInv
<1>2. QED  BY <1>1, StructInit, StructStep, PTL DEF Spec

(* memo: concurrent callers of a tenant, key and generation share one      *)
(* load, and who waits for an open entry waits for somebody who is filling *)
(* it; who fills the summaries waits for nobody, so nested loads cannot    *)
(* wait for each other in a circle.                                        *)
THEOREM WaitersAreServed == Spec => []WaitingIsRight
<1>1. StructInv => WaitingIsRight
  <2> SUFFICES ASSUME StructInv PROVE WaitingIsRight
    OBVIOUS
  <2>1. TypeOK /\ RefsInv /\ FillInv /\ OneOpen
    BY DEF StructInv
  <2>2. LoadsAreShared
    <3> SUFFICES ASSUME NEW p \in Requests, NEW q \in Requests, p # q,
                        req[p].at \in {"load", "publish"},
                        req[q].at \in {"load", "publish"},
                        req[p].tenant = req[q].tenant, req[p].key = req[q].key,
                        heap[req[p].entry].gen = heap[req[q].entry].gen
                 PROVE  FALSE
      BY DEF LoadsAreShared
    <3> DEFINE e == req[p].entry
               f == req[q].entry
    <3>1. /\ e \in 1 .. Len(heap) /\ f \in 1 .. Len(heap)
          /\ heap[e].tenant = heap[f].tenant /\ heap[e].key = heap[f].key
      BY <2>1 DEF RefsInv, EntryOK, AtEntry
    <3>2. Fills(p, e) /\ Fills(q, f)
      BY DEF Fills
    <3>3. ~heap[e].ready /\ ~heap[f].ready
      BY <2>1, <3>1, <3>2 DEF FillInv
    <3>4. e = f
      BY <2>1, <3>1, <3>3 DEF OneOpen
    <3>. QED  BY <2>1, <3>1, <3>2, <3>4 DEF FillInv
  <2>3. NobodyWaitsInVain
    <3> SUFFICES ASSUME NEW p \in Requests, req[p].at = "wait",
                        ~heap[req[p].entry].ready
                 PROVE  \E q \in Requests \ {p} :
                           /\ Fills(q, req[p].entry)
                           /\ req[p].key = "summaries" => req[q].at # "wait"
      BY DEF NobodyWaitsInVain
    <3> DEFINE e == req[p].entry
    <3>1. e \in 1 .. Len(heap) /\ heap[e].key = req[p].key /\ e # 0
      BY <2>1, SMT DEF RefsInv, EntryOK, AtEntry
    <3>2. PICK q \in Requests : Fills(q, e)
      BY <2>1, <3>1 DEF FillInv
    <3>3. req[q].outer = e => req[p].key = "dashboard"
      BY <2>1, <3>1 DEF RefsInv, OuterOK
    <3>4. req[p].key = "summaries" => req[q].at # "wait"
      BY <3>2, <3>3 DEF Fills
    <3>5. q # p
      <4> SUFFICES ASSUME q = p PROVE FALSE
        OBVIOUS
      <4>1. req[p].outer = e
        BY <3>2 DEF Fills
      <4>2. req[p].key = "summaries"
        BY <2>1, <3>1, <4>1 DEF RefsInv, OuterOK
      <4>. QED  BY <3>3, <4>1, <4>2
    <3>. QED  BY <3>2, <3>4, <3>5
  <2>. QED  BY <2>2, <2>3 DEF WaitingIsRight
<1>2. QED  BY <1>1, StructInit, StructStep, PTL DEF Spec

-----------------------------------------------------------------------------
(* The value v meets what entry e has promised: to its tenant, as long as  *)
(* requests may join it, and to the requests that wait for it.             *)
Meets(v, e) ==
    \/ v.err
    \/ /\ OfNow(e) => v.data >= acked[heap[e].tenant]
       /\ \A q \in Requests :
             req[q].at = "wait" /\ req[q].entry = e => v.data >= req[q].need

(* The value v will do for request r, and for the dashboard it is loading. *)
Serves(v, r) ==
    v.err \/ (v.data >= r.need /\ (r.outer # 0 => Meets(v, r.outer)))

(* What a request has in hand will do for everybody it is meant for.       *)
Fresh(r) ==
    /\ r.need <= acked[r.tenant]
    /\ r.at = "publish" =>
          /\ Serves(r.value, r) /\ Meets(r.value, r.entry)
          /\ \A q \in Requests :
                req[q].at = "wait" /\ req[q].entry = r.entry => Serves(r.value, req[q])
    /\ r.at = "forget" => r.value.err
    /\ r.at = "wait" /\ heap[r.entry].ready => Serves(heap[r.entry].value, r)
    /\ r.at = "done" /\ ~r.value.err => r.value.data >= r.need

(* An answer that is stored and current knows of every completed write.    *)
StoredIsFresh ==
    \A t \in Tenants, k \in Keys :
        LET e == entries[t][k]
        IN  e # 0 /\ OfNow(e) /\ heap[e].ready /\ ~heap[e].value.err
                => heap[e].value.data >= acked[t]

FreshInv ==
    /\ \A t \in Tenants : acked[t] <= data[t]
    /\ StoredIsFresh
    /\ \A p \in Requests : Fresh(req[p])

LEMMA ValueType ==
    ASSUME NEW v \in Value
    PROVE  v.data \in Nat /\ v.asOf \in Nat /\ v.err \in BOOLEAN
  BY DEF Value

(* A value that knows of every completed write of a tenant will do for all *)
(* of its requests and entries.                                            *)
LEMMA RecentValue ==
    ASSUME StructInv, FreshInv, NEW v \in Value, NEW t \in Tenants,
           v.data >= acked[t]
    PROVE  /\ \A e \in 1 .. Len(heap) : heap[e].tenant = t => Meets(v, e)
           /\ \A q \in Requests : req[q].tenant = t => Serves(v, req[q])
  <1>1. TypeOK /\ RefsInv /\ acked[t] \in Nat /\ v.data \in Nat
    BY ValueType DEF StructInv, TypeOK
  <1>2. ASSUME NEW q \in Requests, req[q].tenant = t
        PROVE  v.data >= req[q].need
    <2>1. req[q].need <= acked[t] /\ req[q].need \in Nat
      BY <1>1, <1>2, ReqType DEF FreshInv, Fresh
    <2>. QED  BY <1>1, <2>1, SMT
  <1>3. ASSUME NEW e \in 1 .. Len(heap), heap[e].tenant = t
        PROVE  Meets(v, e)
    <2>1. \A q \in Requests : req[q].at = "wait" /\ req[q].entry = e =>
              req[q].tenant = t
      BY <1>1, <1>3 DEF RefsInv, EntryOK, AtEntry
    <2>. QED  BY <1>2, <1>3, <2>1 DEF Meets
  <1>4. ASSUME NEW q \in Requests, req[q].tenant = t
        PROVE  Serves(v, req[q])
    <2>1. req[q].outer # 0 => Meets(v, req[q].outer)
      BY <1>1, <1>3, <1>4 DEF RefsInv, OuterOK
    <2>. QED  BY <1>2, <1>4, <2>1 DEF Serves
  <1>. QED  BY <1>3, <1>4

(* A request that gets a value that will do passes it on rightly.          *)
LEMMA WithIsFresh ==
    ASSUME StructInv, FreshInv, NEW p \in Requests, NEW v \in Value, With(p, v),
           Serves(v, req[p])
    PROVE  Fresh(req'[p])
  <1>1. TypeOK /\ RefsInv /\ Fresh(req[p])
    BY DEF StructInv, FreshInv
  <1>2. /\ req'[p].tenant = req[p].tenant /\ req'[p].need = req[p].need
        /\ req'[p].value = v /\ req'[p].outer = 0
    BY <1>1, WithFacts
  <1>3. req'[p].need <= acked[req'[p].tenant]
    BY <1>1, <1>2 DEF Fresh
  <1>4. CASE req[p].outer = 0
    <2>1. req'[p].at = "done"
      BY <1>1, <1>4, WithFacts
    <2>. QED  BY <1>2, <1>3, <2>1 DEF Fresh, Serves
  <1>5. CASE req[p].outer # 0
    <2>1. req'[p].at = "publish" /\ req'[p].entry = req[p].outer
      BY <1>1, <1>5, WithFacts
    <2>2. Meets(v, req[p].outer)
      BY <1>5 DEF Serves, Meets
    <2>3. Serves(v, req'[p])
      BY <1>2 DEF Serves
    <2>4. ASSUME NEW q \in Requests, req[q].at = "wait", req[q].entry = req[p].outer
          PROVE  Serves(v, req[q])
      <3>1. req[q].key = "dashboard"
        BY <1>1, <1>5, <2>4 DEF RefsInv, EntryOK, OuterOK, AtEntry
      <3>2. req[q].outer = 0
        BY <1>1, <3>1 DEF RefsInv, OuterOK
      <3>. QED  BY <2>2, <2>4, <3>2 DEF Meets, Serves
    <2>. QED  BY <1>2, <1>3, <2>1, <2>2, <2>3, <2>4 DEF Fresh
  <1>. QED  BY <1>4, <1>5

(* A step of one request, which may fill an entry, and joins no entry but  *)
(* one that is open and current.                                           *)
LEMMA FreshRequest ==
    ASSUME StructInv, StructInv', FreshInv, NEW p \in Requests,
           UNCHANGED <<data, acked, gen>>,
           \A q \in Requests \ {p} : req'[q] = req[q],
           Len(heap) <= Len(heap'),
           \A e \in 1 .. Len(heap) :
               /\ heap'[e].tenant = heap[e].tenant /\ heap'[e].gen = heap[e].gen
               /\ \/ heap'[e] = heap[e]
                  \/ \A q \in Requests \ {p} :
                        req[q].at = "wait" /\ req[q].entry = e =>
                            Serves(heap'[e].value, req[q]),
           StoredIsFresh', Fresh(req'[p]),
           req'[p].outer # 0 /\ req'[p].at = "publish"
               => req'[p].outer \in 1 .. Len(heap),
           req'[p].at = "publish" => req'[p].entry \in 1 .. Len(heap),
           req'[p].at = "wait" =>
               /\ req'[p].entry \in 1 .. Len(heap)
               /\ OfNow(req'[p].entry) /\ ~heap'[req'[p].entry].ready
               /\ heap[req'[p].entry].tenant = req[p].tenant
               /\ req'[p].tenant = req[p].tenant
               /\ req'[p].outer = req[p].outer /\ req'[p].need = req[p].need
    PROVE  FreshInv'
  <1>1. TypeOK /\ RefsInv /\ FillInv /\ TypeOK' /\ \A q \in Requests : Fresh(req[q])
    BY DEF StructInv, FreshInv
  <1>2. ASSUME NEW v \in Value, NEW e \in 1 .. Len(heap), Meets(v, e)
        PROVE  Meets(v, e)'
    <2>1. OfNow(e)' = OfNow(e) /\ acked'[heap'[e].tenant] = acked[heap[e].tenant]
      BY DEF OfNow
    <2>2. CASE v.err
      BY <2>2 DEF Meets
    <2>3. CASE ~v.err
      <3>1. ASSUME NEW q \in Requests, req'[q].at = "wait", req'[q].entry = e
            PROVE  v.data >= req'[q].need
        <4>1. CASE q # p
          BY <1>2, <2>3, <3>1, <4>1 DEF Meets
        <4>2. CASE q = p
          <5>1. v.data >= acked[req[p].tenant] /\ req[p].need <= acked[req[p].tenant]
            BY <1>1, <1>2, <2>3, <3>1, <4>2 DEF Meets, Fresh
          <5>2. v.data \in Nat /\ req[p].need \in Nat /\ acked[req[p].tenant] \in Nat
            BY <1>1, ValueType, ReqType DEF TypeOK
          <5>3. req'[p].need = req[p].need
            BY <3>1, <4>2
          <5>. QED  BY <4>2, <5>1, <5>2, <5>3, SMT
        <4>. QED  BY <4>1, <4>2
      <3>. QED  BY <1>2, <2>1, <2>3, <3>1 DEF Meets
    <2>. QED  BY <2>2, <2>3
  <1>3. ASSUME NEW v \in Value, NEW r \in Request,
               r.outer = 0 \/ r.outer \in 1 .. Len(heap), Serves(v, r)
        PROVE  Serves(v, r)'
    BY <1>2, <1>3 DEF Serves
  <1>4. ASSUME NEW q \in Requests \ {p}, NEW r \in Request, r = req[q]
        PROVE  Fresh(r)'
    <2>1. /\ req'[q] = r /\ r.value \in Value /\ r.value.err \in BOOLEAN
          /\ r.outer = 0 \/ r.outer \in 1 .. Len(heap)
          /\ EntryOK(r) /\ Fresh(r)
      BY <1>1, <1>4, ReqType, ValueType DEF RefsInv, OuterOK
    <2>2. ASSUME r.at = "publish"
          PROVE  /\ Serves(r.value, r)' /\ Meets(r.value, r.entry)'
                 /\ \A s \in Requests :
                       req'[s].at = "wait" /\ req'[s].entry = r.entry =>
                           Serves(r.value, req[s])'
      <3>1. r.entry \in 1 .. Len(heap) /\ heap[r.entry].tenant = r.tenant
        BY <2>1, <2>2 DEF EntryOK, AtEntry
      <3>2. /\ Serves(r.value, r) /\ Meets(r.value, r.entry)
            /\ \A s \in Requests :
                  req[s].at = "wait" /\ req[s].entry = r.entry => Serves(r.value, req[s])
        BY <2>1, <2>2 DEF Fresh
      <3>3. Serves(r.value, r)' /\ Meets(r.value, r.entry)'
        BY <1>2, <1>3, <2>1, <3>1, <3>2
      <3>4. ASSUME NEW s \in Requests, NEW x \in Request, x = req'[s],
                   x.at = "wait", x.entry = r.entry
            PROVE  Serves(r.value, x)'
        <4>1. CASE s # p
          <5>1. x = req[s] /\ (x.outer = 0 \/ x.outer \in 1 .. Len(heap))
            BY <1>1, <3>4, <4>1 DEF RefsInv, OuterOK
          <5>. QED  BY <1>3, <2>1, <3>2, <3>4, <5>1
        <4>2. CASE s = p
          <5>1. /\ OfNow(x.entry) /\ x.tenant = req[p].tenant
                /\ x.outer = req[p].outer /\ x.need = req[p].need
                /\ heap[x.entry].tenant = req[p].tenant
            BY <3>4, <4>2
          <5>2. r.value.err \/ r.value.data >= acked[req[p].tenant]
            BY <3>2, <3>4, <5>1 DEF Meets
          <5>3. Serves(r.value, req[p])
            BY <1>1, <2>1, <5>2, RecentValue, ReqType DEF Serves
          <5>4. Serves(r.value, x)
            BY <5>1, <5>3 DEF Serves
          <5>5. x.outer = 0 \/ x.outer \in 1 .. Len(heap)
            BY <1>1, <5>1 DEF RefsInv, OuterOK
          <5>. QED  BY <1>3, <2>1, <3>4, <5>4, <5>5
        <4>. QED  BY <4>1, <4>2
      <3>5. ASSUME NEW s \in Requests, req'[s].at = "wait", req'[s].entry = r.entry
            PROVE  Serves(r.value, req[s])'
        <4>1. req'[s] \in Request
          BY <1>1 DEF TypeOK
        <4>2. PICK x \in Request : x = req'[s]
          BY <4>1
        <4>. QED  BY <3>4, <3>5, <4>2
      <3>. QED  BY <3>3, <3>5
    <2>3. ASSUME r.at = "wait", heap'[r.entry].ready
          PROVE  Serves(heap[r.entry].value, r)'
      <3>1. r.entry \in 1 .. Len(heap)
        BY <2>1, <2>3 DEF EntryOK, AtEntry
      <3>2. PICK v \in Value : v = heap'[r.entry].value
        <4>1. r.entry \in 1 .. Len(heap')
          BY <1>1, <3>1, SMT DEF TypeOK
        <4>2. heap'[r.entry] \in Entry
          BY <1>1, <4>1 DEF TypeOK
        <4>. QED  BY <4>2 DEF Entry
      <3>3. Serves(v, r)
        <4>1. CASE heap'[r.entry] = heap[r.entry]
          BY <2>1, <2>3, <3>2, <4>1 DEF Fresh
        <4>2. CASE heap'[r.entry] # heap[r.entry]
          BY <1>4, <2>3, <3>1, <3>2, <4>2
        <4>. QED  BY <4>1, <4>2
      <3>4. Serves(v, r)'
        BY <1>3, <2>1, <3>3
      <3>. QED  BY <3>2, <3>4
    <2>4. r.need <= acked'[r.tenant]
      BY <2>1 DEF Fresh
    <2>. QED  BY <2>1, <2>2, <2>3, <2>4 DEF Fresh
  <1>5. ASSUME NEW r \in Request, r = req'[p]
        PROVE  Fresh(r)'
    <2>1. Fresh(r) /\ r.value \in Value /\ acked' = acked
      BY <1>5 DEF Request
    <2>2. ASSUME r.at = "publish"
          PROVE  /\ Serves(r.value, r)' /\ Meets(r.value, r.entry)'
                 /\ \A s \in Requests :
                       req'[s].at = "wait" /\ req'[s].entry = r.entry =>
                           Serves(r.value, req[s])'
      <3>1. /\ r.entry \in 1 .. Len(heap)
            /\ r.outer = 0 \/ r.outer \in 1 .. Len(heap)
        BY <1>5, <2>2
      <3>2. Serves(r.value, r)' /\ Meets(r.value, r.entry)'
        BY <1>2, <1>3, <2>1, <2>2, <3>1 DEF Fresh
      <3>3. ASSUME NEW s \in Requests, req'[s].at = "wait", req'[s].entry = r.entry
            PROVE  Serves(r.value, req[s])'
        <4>1. s # p /\ req'[s] = req[s] /\ req[s] \in Request
          BY <1>1, <1>5, <2>2, <3>3, ReqType
        <4>2. PICK x \in Request : x = req[s]
          BY <4>1
        <4>3. x.outer = 0 \/ x.outer \in 1 .. Len(heap)
          BY <1>1, <4>2 DEF RefsInv, OuterOK
        <4>4. Serves(r.value, x)
          BY <2>1, <2>2, <3>3, <4>1, <4>2 DEF Fresh
        <4>5. Serves(r.value, x)'
          BY <1>3, <2>1, <4>3, <4>4
        <4>. QED  BY <4>1, <4>2, <4>5
      <3>. QED  BY <3>2, <3>3
    <2>3. ~(r.at = "wait" /\ heap'[r.entry].ready)
      BY <1>5
    <2>. QED  BY <2>1, <2>2, <2>3 DEF Fresh
  <1>6. ASSUME NEW q \in Requests
        PROVE  Fresh(req[q])'
    <2>1. req'[q] \in Request
      BY <1>1 DEF TypeOK
    <2>2. PICK r \in Request : r = req'[q]
      BY <2>1
    <2>3. Fresh(r)'
      BY <1>4, <1>5, <2>2
    <2>. QED  BY <2>2, <2>3
  <1>. QED  BY <1>6 DEF FreshInv

(* A request that gets a value which will do, and changes no entry.        *)
LEMMA FreshWith ==
    ASSUME StructInv, StructInv', FreshInv, NEW p \in Requests, NEW v \in Value,
           With(p, v), Serves(v, req[p]), UNCHANGED <<data, acked, gen, heap>>,
           StoredIsFresh'
    PROVE  FreshInv'
  <1>1. TypeOK /\ OuterOK(req[p])
    BY DEF StructInv, RefsInv
  <1>2. Fresh(req'[p])
    BY WithIsFresh
  <1>3. /\ \A q \in Requests \ {p} : req'[q] = req[q]
        /\ req'[p].outer = 0 /\ req'[p].at \in {"done", "publish"}
        /\ req'[p].at = "publish" => req'[p].entry \in 1 .. Len(heap)
    BY <1>1, WithFacts DEF OuterOK
  <1>4. Len(heap) <= Len(heap') /\ \A e \in 1 .. Len(heap) : heap'[e] = heap[e]
    BY <1>1, ReqType, SMT
  <1>. QED  BY <1>2, <1>3, <1>4, FreshRequest

LEMMA FreshHit ==
    ASSUME StructInv, FreshInv, NEW p \in Requests, Hit(p)
    PROVE  FreshInv'
  <1> DEFINE e == Stored(p)
             v == heap[e].value
             t == req[p].tenant
  <1>1. /\ TypeOK /\ MapInv /\ With(p, v) /\ e # 0 /\ heap[e].gen = gen[t]
        /\ heap[e].ready /\ ~v.err
        /\ UNCHANGED <<data, acked, gen, heap, entries>>
    BY DEF StructInv, Hit, Current, Usable
  <1>2. StructInv' /\ e \in 1 .. Len(heap) /\ v \in Value
    BY HitStep
  <1>3. t \in Tenants /\ req[p].key \in Keys
    BY <1>1, ReqType
  <1>4. heap[e].tenant = t
    BY <1>1, <1>3 DEF MapInv, Stored
  <1>5. v.data >= acked[t]
    BY <1>1, <1>3, <1>4 DEF FreshInv, StoredIsFresh, Stored, OfNow
  <1>6. Serves(v, req[p])
    BY <1>2, <1>3, <1>5, RecentValue
  <1>7. StoredIsFresh'
    BY <1>1 DEF FreshInv, StoredIsFresh, OfNow
  <1>. QED  BY <1>1, <1>2, <1>6, <1>7, FreshWith

LEMMA FreshWait ==
    ASSUME StructInv, FreshInv, NEW p \in Requests, Wait(p) \/ GiveUp(p)
    PROVE  FreshInv'
  <1>1. StructInv' /\ TypeOK /\ RefsInv /\ Fresh(req[p])
        /\ UNCHANGED <<data, acked, gen, heap, entries>>
    BY WaitStep DEF StructInv, FreshInv, Wait, GiveUp
  <1>2. StoredIsFresh'
    BY <1>1 DEF FreshInv, StoredIsFresh, OfNow
  <1>3. CASE Wait(p)
    <2>1. req[p].entry \in 1 .. Len(heap) /\ req[p].at = "wait"
          /\ heap[req[p].entry].ready /\ With(p, heap[req[p].entry].value)
      BY <1>1, <1>3 DEF Wait, RefsInv, EntryOK, AtEntry
    <2>2. heap[req[p].entry].value \in Value
      BY <1>1, <2>1, HeapType
    <2>3. Serves(heap[req[p].entry].value, req[p])
      BY <1>1, <2>1 DEF Fresh
    <2>. QED  BY <1>1, <1>2, <2>1, <2>2, <2>3, FreshWith
  <1>4. CASE GiveUp(p)
    <2>1. With(p, NoValue) /\ NoValue \in Value /\ Serves(NoValue, req[p])
      BY <1>4, IdleType DEF GiveUp, Serves
    <2>. QED  BY <1>1, <1>2, <2>1, FreshWith
  <1>. QED  BY <1>3, <1>4

LEMMA FreshForget ==
    ASSUME StructInv, FreshInv, NEW p \in Requests, Forget(p)
    PROVE  FreshInv'
  <1>1. /\ StructInv' /\ TypeOK /\ Fresh(req[p]) /\ req[p].at = "forget"
        /\ With(p, req[p].value) /\ UNCHANGED <<data, acked, gen, heap>>
    BY ForgetStep DEF StructInv, FreshInv, Forget
  <1>2. req[p].value \in Value /\ Serves(req[p].value, req[p])
    BY <1>1, ReqType DEF Fresh, Serves
  <1>3. \A t \in Tenants, k \in Keys : entries'[t][k] \in {entries[t][k], 0}
    <2>1. entries \in [Tenants -> [Keys -> 0 .. Len(heap)]]
      BY <1>1 DEF TypeOK
    <2>2. CASE Stored(p) = req[p].entry
      <3>1. entries' = [entries EXCEPT ![req[p].tenant][req[p].key] = 0]
        BY <2>2 DEF Forget
      <3>. QED  BY <1>1, <2>1, <3>1, ReqType
    <2>3. CASE Stored(p) # req[p].entry
      BY <2>3 DEF Forget
    <2>. QED  BY <2>2, <2>3
  <1>4. StoredIsFresh'
    BY <1>1, <1>3 DEF FreshInv, StoredIsFresh, OfNow
  <1>. QED  BY <1>1, <1>2, <1>4, FreshWith

LEMMA FreshAsk ==
    ASSUME StructInv, FreshInv, NEW p \in Requests, NEW t \in Tenants, NEW k \in Keys,
           Ask(p, t, k) \/ Answer(p)
    PROVE  FreshInv'
  <1>1. /\ StructInv' /\ TypeOK /\ \A q \in Requests \ {p} : req'[q] = req[q]
        /\ UNCHANGED <<data, acked, gen, heap, entries>>
    <2>1. StructInv'
      BY AskStep, AnswerStep
    <2>2. TypeOK /\ req \in [Requests -> Request]
      BY DEF StructInv, TypeOK
    <2>3. CASE Ask(p, t, k)
      <3>1. \A q \in Requests \ {p} : req'[q] = req[q]
        BY <2>2, <2>3 DEF Ask
      <3>. QED  BY <2>1, <2>2, <2>3, <3>1 DEF Ask
    <2>4. CASE Answer(p)
      <3>1. \A q \in Requests \ {p} : req'[q] = req[q]
        BY <2>2, <2>4 DEF Answer
      <3>. QED  BY <2>1, <2>2, <2>4, <3>1 DEF Answer
    <2>. QED  BY <2>3, <2>4
  <1>2. /\ req'[p].at \in {"idle", "lookup"}
        /\ req'[p].need <= acked[req'[p].tenant]
    <2>1. acked[t] \in Nat /\ acked[Idle.tenant] \in Nat /\ acked[t] <= acked[t]
          /\ 0 <= acked[Idle.tenant]
      BY <1>1, IdleType, SMT DEF TypeOK
    <2>2. CASE Ask(p, t, k)
      BY <2>1, <2>2, AskStep
    <2>3. CASE Answer(p)
      <3>1. req'[p] = Idle
        BY <1>1, <2>3 DEF Answer, TypeOK
      <3>. QED  BY <2>1, <3>1, IdleType
    <2>. QED  BY <2>2, <2>3
  <1>3. Fresh(req'[p])
    BY <1>2 DEF Fresh
  <1>4. StoredIsFresh'
    BY <1>1 DEF FreshInv, StoredIsFresh, OfNow
  <1>5. Len(heap) <= Len(heap') /\ \A e \in 1 .. Len(heap) : heap'[e] = heap[e]
    BY <1>1, ReqType, SMT
  <1>. QED  BY <1>1, <1>2, <1>3, <1>4, <1>5, FreshRequest

LEMMA FreshJoin ==
    ASSUME StructInv, FreshInv, NEW p \in Requests, Join(p)
    PROVE  FreshInv'
  <1> DEFINE e == Stored(p)
  <1>1. /\ StructInv' /\ e \in 1 .. Len(heap) /\ ~heap[e].ready /\ OfNow(e)
        /\ req'[p].at = "wait" /\ req'[p].entry = e
        /\ req'[p].outer = req[p].outer /\ req'[p].need = req[p].need
        /\ req'[p].tenant = req[p].tenant /\ heap[e].tenant = req[p].tenant
    BY JoinStep DEF Open
  <1>2. /\ TypeOK /\ Fresh(req[p]) /\ \A q \in Requests \ {p} : req'[q] = req[q]
        /\ UNCHANGED <<data, acked, gen, heap, entries>>
    BY DEF Join, StructInv, FreshInv, TypeOK
  <1> HIDE DEF e
  <1>3. Fresh(req'[p])
    BY <1>1, <1>2 DEF Fresh
  <1>4. StoredIsFresh'
    BY <1>2 DEF FreshInv, StoredIsFresh, OfNow
  <1>5. Len(heap) <= Len(heap') /\ \A f \in 1 .. Len(heap) : heap'[f] = heap[f]
    BY <1>2, ReqType, SMT
  <1>. QED  BY <1>1, <1>2, <1>3, <1>4, <1>5, FreshRequest

LEMMA FreshLoad ==
    ASSUME StructInv, FreshInv, NEW p \in Requests, Load(p)
    PROVE  FreshInv'
  <1> DEFINE t == req[p].tenant
             v == req'[p].value
  <1>1. /\ StructInv' /\ req[p].at = "load"
        /\ req'[p].at = "publish" /\ req'[p].entry = req[p].entry
        /\ req'[p].outer = req[p].outer /\ req'[p].need = req[p].need
        /\ req'[p].tenant = t /\ v.data = data[t]
    BY LoadStep
  <1>2. /\ TypeOK /\ RefsInv /\ Fresh(req[p]) /\ \A q \in Requests \ {p} : req'[q] = req[q]
        /\ UNCHANGED <<data, acked, gen, heap, entries>> /\ t \in Tenants
    BY ReqType DEF Load, StructInv, FreshInv, TypeOK
  <1>3. PICK x \in Value : x = v
    <2>1. req'[p] \in Request
      BY <1>1 DEF StructInv, TypeOK
    <2>. QED  BY <2>1 DEF Request
  <1>4. x.data >= acked[t]
    <2>1. data[t] \in Nat /\ acked[t] \in Nat /\ acked[t] <= data[t]
      BY <1>2 DEF TypeOK, FreshInv
    <2>. QED  BY <1>1, <1>3, <2>1, SMT
  <1>5. /\ req[p].entry \in 1 .. Len(heap) /\ heap[req[p].entry].tenant = t
        /\ req[p].outer # 0 => req[p].outer \in 1 .. Len(heap)
    BY <1>1, <1>2 DEF RefsInv, EntryOK, OuterOK, AtEntry
  <1>6. /\ Meets(x, req[p].entry) /\ Serves(x, req[p])
        /\ \A q \in Requests : req[q].at = "wait" /\ req[q].entry = req[p].entry
               => Serves(x, req[q])
    <2>1. \A q \in Requests : req[q].at = "wait" /\ req[q].entry = req[p].entry
              => req[q].tenant = t
      BY <1>2, <1>5 DEF RefsInv, EntryOK, AtEntry
    <2>. QED  BY <1>2, <1>4, <1>5, <2>1, RecentValue
  <1>7. Serves(x, req'[p])
    BY <1>1, <1>6 DEF Serves
  <1>8. Fresh(req'[p])
    BY <1>1, <1>2, <1>3, <1>6, <1>7 DEF Fresh
  <1>9. StoredIsFresh'
    BY <1>2 DEF FreshInv, StoredIsFresh, OfNow
  <1>10. Len(heap) <= Len(heap') /\ \A f \in 1 .. Len(heap) : heap'[f] = heap[f]
    BY <1>2, ReqType, SMT
  <1>. QED  BY <1>1, <1>2, <1>5, <1>8, <1>9, <1>10, FreshRequest

LEMMA FreshPublish ==
    ASSUME StructInv, FreshInv, NEW p \in Requests, Publish(p)
    PROVE  FreshInv'
  <1> DEFINE e == req[p].entry
             v == req[p].value
  <1>1. /\ StructInv'
        /\ req'[p].outer = 0 \/ req'[p].at = "forget"
        /\ req'[p].at \in {"forget", "done", "publish"}
    BY PublishStep
  <1>2. /\ req[p].at = "publish" /\ e \in 1 .. Len(heap) /\ Len(heap') = Len(heap)
        /\ heap[e].tenant = req[p].tenant /\ heap[e].key = req[p].key
        /\ heap'[e].value = v /\ v \in Value
        /\ \A f \in 1 .. Len(heap) : /\ f # e => heap'[f] = heap[f]
                                     /\ heap'[f].tenant = heap[f].tenant
                                     /\ heap'[f].gen = heap[f].gen
        /\ \A q \in Requests \ {p} : req'[q] = req[q]
        /\ UNCHANGED <<data, acked, gen, entries>>
        /\ req'[p].tenant = req[p].tenant /\ req'[p].need = req[p].need
        /\ req'[p].value = v
        /\ v.err => req'[p].at = "forget"
        /\ ~v.err => With(p, v)
    BY PublishFacts DEF Open
  <1>3. /\ TypeOK /\ MapInv /\ OuterOK(req[p]) /\ Fresh(req[p])
        /\ entries \in [Tenants -> [Keys -> 0 .. Len(heap)]] /\ Len(heap) \in Nat
    BY ReqType DEF StructInv, RefsInv, FreshInv, TypeOK
  <1>4. /\ Serves(v, req[p]) /\ Meets(v, e)
        /\ \A q \in Requests :
              req[q].at = "wait" /\ req[q].entry = e => Serves(v, req[q])
    BY <1>2, <1>3 DEF Fresh
  <1>5. Fresh(req'[p])
    <2>1. CASE v.err
      BY <1>2, <1>3, <2>1 DEF Fresh
    <2>2. CASE ~v.err
      BY <1>2, <1>4, <2>2, WithIsFresh
    <2>. QED  BY <2>1, <2>2
  <1>6. StoredIsFresh'
    <2> SUFFICES ASSUME NEW t \in Tenants, NEW k \in Keys,
                        entries[t][k] # 0, OfNow(entries[t][k])',
                        heap'[entries[t][k]].ready, ~heap'[entries[t][k]].value.err
                 PROVE  heap'[entries[t][k]].value.data >= acked[t]
      BY <1>2 DEF StoredIsFresh
    <2> DEFINE f == entries[t][k]
    <2>1. f \in 1 .. Len(heap) /\ heap[f].tenant = t
      BY <1>3, SMT DEF MapInv
    <2>2. OfNow(f)
      BY <1>2, <2>1 DEF OfNow
    <2>3. CASE f = e
      BY <1>2, <1>4, <2>1, <2>2, <2>3 DEF Meets
    <2>4. CASE f # e
      BY <1>2, <2>1, <2>2, <2>4 DEF FreshInv, StoredIsFresh
    <2>. QED  BY <2>3, <2>4
  <1>7. req'[p].at = "publish" => req'[p].entry \in 1 .. Len(heap)
    <2> SUFFICES ASSUME req'[p].at = "publish" PROVE req'[p].entry \in 1 .. Len(heap)
      OBVIOUS
    <2>1. With(p, v)
      BY <1>2
    <2>. QED  BY <1>2, <1>3, <2>1, WithFacts DEF OuterOK
  <1>8. Len(heap) <= Len(heap')
    BY <1>2, <1>3, SMT
  <1>9. \A f \in 1 .. Len(heap) :
           \/ heap'[f] = heap[f]
           \/ \A q \in Requests \ {p} : req[q].at = "wait" /\ req[q].entry = f
                  => Serves(heap'[f].value, req[q])
    BY <1>2, <1>4
  <1>10. req'[p].at = "publish" => req'[p].outer = 0
    BY <1>1
  <1>11. req'[p].at # "wait"
    BY <1>1
  <1>12. \A f \in 1 .. Len(heap) :
            /\ heap'[f].tenant = heap[f].tenant /\ heap'[f].gen = heap[f].gen
            /\ \/ heap'[f] = heap[f]
               \/ \A q \in Requests \ {p} :
                     req[q].at = "wait" /\ req[q].entry = f =>
                         Serves(heap'[f].value, req[q])
    BY <1>2, <1>9
  <1>13. \A q \in Requests \ {p} : req'[q] = req[q]
    BY <1>2
  <1>14. UNCHANGED <<data, acked, gen>>
    BY <1>2
  <1>15. StructInv'
    BY <1>1
  <1> HIDE DEF e, v
  <1>. QED  BY <1>5, <1>6, <1>7, <1>8, <1>10, <1>11, <1>12, <1>13, <1>14, <1>15,
               FreshRequest

LEMMA FreshMiss ==
    ASSUME StructInv, FreshInv, NEW p \in Requests, Miss(p)
    PROVE  FreshInv'
  <1> DEFINE id == Len(heap) + 1
  <1>1. StructInv'
    BY MissStep
  <1>2. /\ id \in Nat /\ Len(heap') = id /\ id \notin 1 .. Len(heap)
        /\ \A f \in 1 .. Len(heap) : heap'[f] = heap[f]
        /\ ~heap'[id].ready /\ req[p].tenant \in Tenants /\ req[p].key \in Keys
        /\ entries'[req[p].tenant][req[p].key] = id
        /\ \A u \in Tenants, l \in Keys : u # req[p].tenant \/ l # req[p].key =>
              \/ entries'[u][l] = entries[u][l]
              \/ entries'[u][l] = 0
        /\ \A q \in Requests \ {p} : req'[q] = req[q]
        /\ UNCHANGED <<data, acked, gen>>
        /\ req'[p].tenant = req[p].tenant /\ req'[p].need = req[p].need
        /\ req'[p].at \in {"lookup", "load"}
    BY MissFacts
  <1>3. /\ TypeOK /\ Fresh(req[p]) /\ Len(heap) \in Nat
        /\ entries \in [Tenants -> [Keys -> 0 .. Len(heap)]]
    BY ReqType DEF StructInv, FreshInv, TypeOK
  <1>4. Len(heap) <= Len(heap')
    BY <1>2, <1>3, SMT
  <1> HIDE DEF id
  <1>5. Fresh(req'[p])
    BY <1>2, <1>3 DEF Fresh
  <1>6. StoredIsFresh'
    <2> SUFFICES ASSUME NEW t \in Tenants, NEW k \in Keys,
                        entries'[t][k] # 0, OfNow(entries[t][k])',
                        heap'[entries'[t][k]].ready, ~heap'[entries'[t][k]].value.err
                 PROVE  heap'[entries'[t][k]].value.data >= acked[t]
      BY <1>2 DEF StoredIsFresh
    <2>1. t # req[p].tenant \/ k # req[p].key
      BY <1>2
    <2>2. entries'[t][k] = entries[t][k] /\ entries[t][k] \in 1 .. Len(heap)
      BY <1>2, <1>3, <2>1, SMT
    <2>3. OfNow(entries[t][k]) /\ heap'[entries[t][k]] = heap[entries[t][k]]
      BY <1>2, <2>2 DEF OfNow
    <2>. QED  BY <2>2, <2>3 DEF FreshInv, StoredIsFresh
  <1>7. req'[p].at # "publish" /\ req'[p].at # "wait"
    BY <1>2
  <1>. QED  BY <1>1, <1>2, <1>4, <1>5, <1>6, <1>7, FreshRequest

(* A step of a writer or of time: a write counts as completed only when    *)
(* its invalidation has put the entries in progress out of date.           *)
LEMMA FreshWrite ==
    ASSUME StructInv, FreshInv, TypeOK', UNCHANGED <<entries, heap, req>>,
           \A t \in Tenants :
              /\ gen[t] <= gen'[t] /\ data[t] <= data'[t]
              /\ \/ acked'[t] = acked[t]
                 \/ /\ acked'[t] = data[t]
                    /\ gen'[t] = gen[t] => \A k \in Keys : entries[t][k] = 0
    PROVE  FreshInv'
  <1>1. /\ TypeOK /\ MapInv /\ RefsInv /\ FillInv /\ Kept
        /\ \A q \in Requests : Fresh(req[q])
    BY DEF StructInv, FreshInv
  <1>2. ASSUME NEW e \in 1 .. Len(heap), OfNow(e)'
        PROVE  OfNow(e) /\ gen'[heap[e].tenant] = gen[heap[e].tenant]
    BY <1>2, GenStep
  <1>3. ASSUME NEW t \in Tenants
        PROVE  acked[t] <= acked'[t] /\ acked'[t] <= data'[t]
    <2>1. /\ acked[t] \in Nat /\ acked'[t] \in Nat /\ data[t] \in Nat /\ data'[t] \in Nat
          /\ acked[t] <= data[t] /\ data[t] <= data'[t]
      BY <1>1 DEF TypeOK, FreshInv
    <2>. QED  BY <2>1, SMT
  <1>4. ASSUME NEW v \in Value, NEW e \in 1 .. Len(heap), ~heap[e].ready, Meets(v, e)
        PROVE  Meets(v, e)'
    <2>1. ASSUME OfNow(e)', ~v.err
          PROVE  v.data >= acked'[heap[e].tenant]
      <3>1. OfNow(e) /\ gen'[heap[e].tenant] = gen[heap[e].tenant]
            /\ heap[e].tenant \in Tenants /\ heap[e].key \in Keys
        BY <1>1, <1>2, <2>1, HeapType
      <3>2. entries[heap[e].tenant][heap[e].key] = e /\ e # 0
        BY <1>1, <1>4, <3>1, SMT DEF Kept
      <3>3. acked'[heap[e].tenant] = acked[heap[e].tenant]
        BY <3>1, <3>2
      <3>. QED  BY <1>4, <2>1, <3>1, <3>3 DEF Meets
    <2>. QED  BY <1>4, <2>1 DEF Meets
  <1>5. ASSUME NEW v \in Value, NEW r \in Request,
               r.outer # 0 => r.outer \in 1 .. Len(heap) /\ ~heap[r.outer].ready,
               Serves(v, r)
        PROVE  Serves(v, r)'
    BY <1>4, <1>5 DEF Serves
  <1>6. ASSUME NEW q \in Requests, NEW r \in Request, r = req[q]
        PROVE  Fresh(r)'
    <2>1. /\ r.value \in Value /\ r.tenant \in Tenants /\ r.need \in Nat
          /\ EntryOK(r) /\ OuterOK(r) /\ Fresh(r)
      BY <1>1, <1>6, ReqType DEF RefsInv
    <2>2. ASSUME NEW s \in Requests, req[s].outer # 0
          PROVE  req[s].outer \in 1 .. Len(heap) /\ ~heap[req[s].outer].ready
      <3>1. req[s].outer \in 1 .. Len(heap) /\ req[s].at # "idle"
        BY <1>1, <2>2 DEF RefsInv, OuterOK
      <3>2. Fills(s, req[s].outer)
        BY <3>1 DEF Fills
      <3>. QED  BY <1>1, <3>1, <3>2 DEF FillInv
    <2>3. r.need <= acked'[r.tenant]
      <3>1. r.need <= acked[r.tenant] /\ acked[r.tenant] <= acked'[r.tenant]
            /\ acked[r.tenant] \in Nat /\ acked'[r.tenant] \in Nat
        BY <1>1, <1>3, <2>1 DEF Fresh, TypeOK
      <3>. QED  BY <2>1, <3>1, SMT
    <2>4. ASSUME r.at = "publish"
          PROVE  /\ Serves(r.value, r)' /\ Meets(r.value, r.entry)'
                 /\ \A s \in Requests :
                       req[s].at = "wait" /\ req[s].entry = r.entry =>
                           Serves(r.value, req[s])'
      <3>1. r.entry \in 1 .. Len(heap) /\ ~heap[r.entry].ready
        <4>1. r.entry \in 1 .. Len(heap) /\ Fills(q, r.entry)
          BY <1>6, <2>1, <2>4 DEF EntryOK, AtEntry, Fills
        <4>. QED  BY <1>1, <4>1 DEF FillInv
      <3>2. /\ Serves(r.value, r) /\ Meets(r.value, r.entry)
            /\ \A s \in Requests :
                  req[s].at = "wait" /\ req[s].entry = r.entry => Serves(r.value, req[s])
        BY <2>1, <2>4 DEF Fresh
      <3>3. Serves(r.value, r)' /\ Meets(r.value, r.entry)'
        BY <1>4, <1>5, <1>6, <2>1, <2>2, <3>1, <3>2
      <3>4. ASSUME NEW s \in Requests, req[s].at = "wait", req[s].entry = r.entry
            PROVE  Serves(r.value, req[s])'
        <4>1. PICK x \in Request : x = req[s]
          BY <1>1, ReqType
        <4>2. Serves(r.value, x)'
          BY <1>5, <2>1, <2>2, <3>2, <3>4, <4>1
        <4>. QED  BY <4>1, <4>2
      <3>. QED  BY <3>3, <3>4
    <2>5. ASSUME r.at = "wait", heap[r.entry].ready
          PROVE  Serves(heap[r.entry].value, r)'
      <3>1. r.entry \in 1 .. Len(heap) /\ heap[r.entry].value \in Value
        BY <1>1, <2>1, <2>5, HeapType DEF EntryOK, AtEntry
      <3>2. PICK v \in Value : v = heap[r.entry].value
        BY <3>1
      <3>3. Serves(v, r)'
        BY <1>5, <1>6, <2>1, <2>2, <2>5, <3>2 DEF Fresh
      <3>. QED  BY <3>2, <3>3
    <2>. QED  BY <2>1, <2>3, <2>4, <2>5 DEF Fresh
  <1>7. ASSUME NEW q \in Requests
        PROVE  Fresh(req[q])'
    <2>1. PICK r \in Request : r = req[q]
      BY <1>1, ReqType
    <2>2. Fresh(r)'
      BY <1>6, <2>1
    <2>. QED  BY <2>1, <2>2
  <1>8. StoredIsFresh'
    <2> SUFFICES ASSUME NEW t \in Tenants, NEW k \in Keys,
                        entries[t][k] # 0, OfNow(entries[t][k])',
                        heap[entries[t][k]].ready, ~heap[entries[t][k]].value.err
                 PROVE  heap[entries[t][k]].value.data >= acked'[t]
      BY DEF StoredIsFresh
    <2> DEFINE f == entries[t][k]
    <2>1. entries \in [Tenants -> [Keys -> 0 .. Len(heap)]] /\ Len(heap) \in Nat
      BY <1>1, SMT DEF TypeOK
    <2>2. f \in 1 .. Len(heap) /\ heap[f].tenant = t
      BY <1>1, <2>1, SMT DEF MapInv
    <2>3. OfNow(f) /\ gen'[t] = gen[t]
      BY <1>2, <2>2
    <2>4. acked'[t] = acked[t]
      BY <2>3
    <2>. QED  BY <2>3, <2>4 DEF FreshInv, StoredIsFresh
  <1>. QED  BY <1>3, <1>7, <1>8 DEF FreshInv

LEMMA FreshInit == Init => FreshInv
  <1> SUFFICES ASSUME Init PROVE FreshInv
    OBVIOUS
  <1>1. \A p \in Requests : Fresh(req[p])
    <2>1. \A p \in Requests : req[p] = Idle
      BY DEF Init
    <2>2. acked[Idle.tenant] = 0
      BY IdleType DEF Init
    <2>. QED  BY <2>1, <2>2, IdleType, SMT DEF Fresh
  <1>2. StoredIsFresh
    BY DEF Init, StoredIsFresh
  <1>3. \A t \in Tenants : acked[t] <= data[t]
    BY SMT DEF Init
  <1>. QED  BY <1>1, <1>2, <1>3 DEF FreshInv

LEMMA FreshStep == StructInv /\ FreshInv /\ [Next]_vars => FreshInv'
  <1> SUFFICES ASSUME StructInv, FreshInv, [Next]_vars PROVE FreshInv'
    OBVIOUS
  <1>1. ASSUME NEW p \in Requests, NEW t \in Tenants, NEW k \in Asked, Ask(p, t, k)
        PROVE  FreshInv'
    BY <1>1, FreshAsk, CacheAssumption
  <1>2. ASSUME NEW p \in Requests, Serve(p) \/ GiveUp(p)
        PROVE  FreshInv'
    <2>1. CASE Answer(p)
      <3>1. PICK t \in Tenants : TRUE
        BY CacheAssumption
      <3>2. "summaries" \in Keys
        BY DEF Keys
      <3>. QED  BY <2>1, <3>1, <3>2, FreshAsk
    <2>. QED  BY <1>2, <2>1, FreshHit, FreshJoin, FreshMiss, FreshLoad,
              FreshPublish, FreshForget, FreshWait DEF Serve
  <1>3. ASSUME NEW w \in Writers, NEW t \in Tenants, NEW kind \in WriteKinds,
               StartWrite(w, t, kind)
        PROVE  FreshInv'
    <2>1. TypeOK' /\ UNCHANGED <<acked, entries, heap, req>>
          /\ \A u \in Tenants : gen[u] <= gen'[u] /\ data[u] <= data'[u]
      BY <1>3, WriteStep
    <2>. QED  BY <2>1, FreshWrite
  <1>4. ASSUME NEW w \in Writers, Invalidate(w)
        PROVE  FreshInv'
    <2>1. PICK t \in Tenants : t = writer[w].tenant
      BY <1>4, InvalidateStep
    <2>2. /\ TypeOK' /\ UNCHANGED <<data, entries, heap, req>>
          /\ \A u \in Tenants : gen[u] <= gen'[u]
          /\ \A u \in Tenants : acked'[u] = IF u = t THEN data[t] ELSE acked[u]
          /\ gen'[t] = gen[t] => \A k \in Keys : entries[t][k] = 0
      BY <1>4, <2>1, InvalidateStep
    <2>3. \A u \in Tenants : data[u] <= data'[u]
      BY <2>2, SMT DEF StructInv, TypeOK
    <2>4. \A u \in Tenants :
             /\ gen[u] <= gen'[u] /\ data[u] <= data'[u]
             /\ \/ acked'[u] = acked[u]
                \/ /\ acked'[u] = data[u]
                   /\ gen'[u] = gen[u] => \A k \in Keys : entries[u][k] = 0
      BY <2>2, <2>3
    <2>. QED  BY <2>2, <2>4, FreshWrite
  <1>5. ASSUME NEW w \in Writers, Commit(w)
        PROVE  FreshInv'
    <2>1. TypeOK' /\ UNCHANGED <<acked, gen, entries, heap, req>>
          /\ \A u \in Tenants : gen[u] <= gen'[u] /\ data[u] <= data'[u]
      BY <1>5, CommitStep
    <2>. QED  BY <2>1, FreshWrite
  <1>6. CASE Tick
    <2>1. /\ TypeOK' /\ UNCHANGED <<data, acked, gen, entries, heap, req>>
          /\ \A u \in Tenants : gen[u] <= gen'[u]
      BY <1>6, TickStep
    <2>2. \A u \in Tenants : data[u] <= data'[u]
      BY <2>1, SMT DEF StructInv, TypeOK
    <2>. QED  BY <2>1, <2>2, FreshWrite
  <1>7. CASE UNCHANGED vars
    <2>1. \A u \in Tenants : gen[u] <= gen'[u] /\ data[u] <= data'[u]
      BY <1>7, SMT DEF vars, StructInv, TypeOK
    <2>2. TypeOK' /\ UNCHANGED <<acked, entries, heap, req>>
      BY <1>7 DEF vars, StructInv, TypeOK
    <2>. QED  BY <2>1, <2>2, FreshWrite
  <1>. QED  BY <1>1, <1>2, <1>3, <1>4, <1>5, <1>6, <1>7 DEF Next

(* InvalidateTenant and InvalidateAll: an answer reflects every write that *)
(* had returned before the request was made, whoever computed the answer   *)
(* and whenever it was stored.                                             *)
THEOREM ReadYourWrites == Spec => []AnswersAreFresh
<1>1. FreshInv => AnswersAreFresh
  BY DEF FreshInv, Fresh, AnswersAreFresh, Answered
<1>2. QED  BY <1>1, StructInit, StructStep, FreshInit, FreshStep, PTL DEF Spec

-----------------------------------------------------------------------------
(* How old a value may be when its entry is filled: the summaries are read *)
(* for it, a dashboard is built from summaries about to expire.            *)
AgeWhenFilled(k) == IF k = "summaries" THEN 0 ELSE TTL - 1

(* While no request takes as long as a tick, a value in hand was read in   *)
(* this tick, and so was one that a waiter is about to get.                *)
Young(r) ==
    /\ r.at = "publish" /\ ~r.value.err => now - r.value.asOf <= AgeWhenFilled(r.key)
    /\ r.at = "wait" /\ heap[r.entry].ready => heap[r.entry].expires = now + TTL
    /\ r.at = "done" /\ ~r.value.err =>
          now - r.value.asOf <= IF r.key = "summaries" THEN TTL - 1 ELSE 2 * (TTL - 1)

StoredIsYoung ==
    \A e \in 1 .. Len(heap) :
        heap[e].ready /\ ~heap[e].value.err =>
            heap[e].expires - TTL - heap[e].value.asOf <= AgeWhenFilled(heap[e].key)

AgeInv == short => StoredIsYoung /\ \A p \in Requests : Young(req[p])

LEMMA AgeFacts ==
    ASSUME TypeOK
    PROVE  /\ TTL \in Nat /\ TTL >= 1 /\ now \in Nat
           /\ \A k \in Keys : AgeWhenFilled(k) \in Nat /\ AgeWhenFilled(k) <= TTL - 1
           /\ AgeWhenFilled("summaries") = 0 /\ AgeWhenFilled("dashboard") = TTL - 1
  <1>1. TTL \in Nat /\ TTL >= 1 /\ now \in Nat /\ TTL - 1 \in Nat
    BY CacheAssumption, SMT DEF TypeOK
  <1>2. AgeWhenFilled("summaries") = 0 /\ AgeWhenFilled("dashboard") = TTL - 1
    BY DEF AgeWhenFilled
  <1>3. \A k \in Keys : k = "summaries" \/ k = "dashboard"
    BY DEF Keys
  <1>. QED  BY <1>1, <1>2, <1>3, SMT

(* A step of one request leaves the age of what others have in hand alone. *)
LEMMA AgeRequest ==
    ASSUME StructInv, AgeInv, NEW p \in Requests, UNCHANGED <<now, short>>,
           \A q \in Requests \ {p} : req'[q] = req[q],
           \A e \in 1 .. Len(heap) : heap'[e] # heap[e] => heap'[e].expires = now + TTL,
           short => StoredIsYoung' /\ Young(req'[p]),
           req'[p].at = "wait" => ~heap'[req'[p].entry].ready
    PROVE  AgeInv'
  <1> SUFFICES ASSUME short PROVE StoredIsYoung' /\ \A q \in Requests : Young(req[q])'
    BY DEF AgeInv
  <1>1. RefsInv /\ \A q \in Requests : Young(req[q])
    BY DEF StructInv, AgeInv
  <1>2. ASSUME NEW q \in Requests \ {p}, NEW r, r = req[q]
        PROVE  Young(r)'
    <2>1. req'[q] = r /\ Young(r) /\ EntryOK(r)
      BY <1>1, <1>2 DEF RefsInv
    <2>2. ASSUME r.at = "wait", heap'[r.entry].ready
          PROVE  heap'[r.entry].expires = now + TTL
      <3>1. r.entry \in 1 .. Len(heap)
        BY <2>1, <2>2 DEF EntryOK, AtEntry
      <3>2. CASE heap'[r.entry] = heap[r.entry]
        BY <2>1, <2>2, <3>2 DEF Young
      <3>. QED  BY <3>1, <3>2
    <2>. QED  BY <2>1, <2>2 DEF Young
  <1>3. ASSUME NEW r, r = req'[p]
        PROVE  Young(r)'
    <2>1. Young(r) /\ ~(r.at = "wait" /\ heap'[r.entry].ready)
      BY <1>3
    <2>. QED  BY <2>1 DEF Young
  <1>4. ASSUME NEW q \in Requests
        PROVE  Young(req[q])'
    <2>1. PICK r : r = req'[q]
      OBVIOUS
    <2>2. Young(r)'
      BY <1>2, <1>3, <2>1
    <2>. QED  BY <2>1, <2>2
  <1>. QED  BY <1>4

(* A value that is young enough stays so on its way out of the cache.      *)
LEMMA WithIsYoung ==
    ASSUME StructInv, NEW p \in Requests, NEW v \in Value, With(p, v),
           \/ v.err
           \/ /\ req[p].key = "summaries" => now - v.asOf <= TTL - 1
              /\ req[p].key = "dashboard" => now - v.asOf <= 2 * (TTL - 1)
    PROVE  Young(req'[p]) /\ req'[p].at # "wait"
  <1>1. TypeOK /\ OuterOK(req[p]) /\ req'[p].value = v /\ req[p].key \in Keys
    BY WithFacts, ReqType DEF StructInv, RefsInv
  <1>2. CASE req[p].outer = 0
    <2>1. req'[p].at = "done" /\ req'[p].key = req[p].key
      BY <1>1, <1>2, WithFacts
    <2>2. req[p].key = "summaries" \/ req[p].key = "dashboard"
      BY <1>1 DEF Keys
    <2>. QED  BY <1>1, <2>1, <2>2 DEF Young
  <1>3. CASE req[p].outer # 0
    <2>1. req'[p].at = "publish" /\ req'[p].key = "dashboard" /\ req[p].key = "summaries"
      BY <1>1, <1>3, WithFacts DEF OuterOK
    <2>. QED  BY <1>1, <2>1, AgeFacts DEF Young
  <1>. QED  BY <1>2, <1>3

(* The same when nothing in the heap changes.                              *)
LEMMA AgeWith ==
    ASSUME StructInv, AgeInv, NEW p \in Requests, NEW v \in Value, With(p, v),
           UNCHANGED <<now, short, heap>>,
           short => \/ v.err
                    \/ /\ req[p].key = "summaries" => now - v.asOf <= TTL - 1
                       /\ req[p].key = "dashboard" => now - v.asOf <= 2 * (TTL - 1)
    PROVE  AgeInv'
  <1>1. \A q \in Requests \ {p} : req'[q] = req[q]
    BY WithFacts DEF StructInv
  <1>2. short => Young(req'[p]) /\ req'[p].at # "wait"
    BY WithIsYoung
  <1>3. short => StoredIsYoung'
    BY DEF AgeInv, StoredIsYoung
  <1>4. req'[p].at # "wait"
    BY WithFacts DEF StructInv
  <1>. QED  BY <1>1, <1>2, <1>3, <1>4, AgeRequest

(* What is served from an entry is no older than the entry's own bound.    *)
LEMMA AgeHit ==
    ASSUME StructInv, AgeInv, NEW p \in Requests, Hit(p)
    PROVE  AgeInv'
  <1> DEFINE e == Stored(p)
             v == heap[e].value
  <1>1. /\ TypeOK /\ MapInv /\ With(p, v) /\ e # 0 /\ heap[e].ready /\ ~v.err
        /\ now < heap[e].expires /\ UNCHANGED <<now, short, heap>>
    BY DEF StructInv, Hit, Current, Usable
  <1>2. e \in 1 .. Len(heap) /\ v \in Value
    BY HitStep
  <1>3. heap[e].key = req[p].key /\ req[p].key \in Keys
    <2>1. req[p].key \in Keys /\ req[p].tenant \in Tenants
      BY <1>1, ReqType
    <2>2. heap[e].key = req[p].key
      BY <1>1, <2>1 DEF MapInv, Stored
    <2>. QED  BY <2>1, <2>2
  <1>4. short => heap[e].expires - TTL - v.asOf <= AgeWhenFilled(req[p].key)
    BY <1>1, <1>2, <1>3 DEF AgeInv, StoredIsYoung
  <1>5. heap[e].expires \in Nat /\ v.asOf \in Nat /\ now \in Nat /\ TTL \in Nat
    BY <1>1, <1>2, HeapType, ValueType, AgeFacts
  <1>6. /\ AgeWhenFilled("summaries") = 0 /\ AgeWhenFilled("dashboard") = TTL - 1
    BY <1>1, AgeFacts
  <1> HIDE DEF v, e
  <1>7. short => /\ req[p].key = "summaries" => now - v.asOf <= TTL - 1
                 /\ req[p].key = "dashboard" => now - v.asOf <= 2 * (TTL - 1)
    <2>1. ASSUME short, req[p].key = "summaries" PROVE now - v.asOf <= TTL - 1
      <3>1. heap[e].expires - TTL - v.asOf <= 0
        BY <1>4, <1>6, <2>1
      <3>. QED  BY <1>1, <1>5, <3>1, SMT
    <2>2. ASSUME short, req[p].key = "dashboard" PROVE now - v.asOf <= 2 * (TTL - 1)
      <3>1. heap[e].expires - TTL - v.asOf <= TTL - 1
        BY <1>4, <1>6, <2>2
      <3>. QED  BY <1>1, <1>5, <3>1, SMT
    <2>. QED  BY <2>1, <2>2
  <1>. QED  BY <1>1, <1>2, <1>7, AgeWith DEF v, e

LEMMA AgeWait ==
    ASSUME StructInv, AgeInv, NEW p \in Requests, Wait(p) \/ GiveUp(p)
    PROVE  AgeInv'
  <1>1. TypeOK /\ RefsInv /\ UNCHANGED <<now, short, heap>>
    BY DEF StructInv, Wait, GiveUp
  <1>2. CASE Wait(p)
    <2> DEFINE e == req[p].entry
               v == heap[e].value
    <2>1. e \in 1 .. Len(heap) /\ heap[e].key = req[p].key /\ req[p].at = "wait"
          /\ heap[e].ready /\ With(p, v) /\ req[p].key \in Keys
      BY <1>1, <1>2, ReqType DEF Wait, RefsInv, EntryOK, AtEntry
    <2>2. v \in Value /\ v.asOf \in Nat /\ heap[e].expires \in Nat
      BY <1>1, <2>1, HeapType, ValueType
    <2>3. short => heap[e].expires = now + TTL
      BY <2>1 DEF AgeInv, Young
    <2>4. short /\ ~v.err =>
              heap[e].expires - TTL - v.asOf <= AgeWhenFilled(req[p].key)
      BY <2>1 DEF AgeInv, StoredIsYoung
    <2>5. /\ TTL \in Nat /\ TTL >= 1 /\ now \in Nat
          /\ AgeWhenFilled(req[p].key) \in Nat /\ AgeWhenFilled(req[p].key) <= TTL - 1
      BY <1>1, <2>1, AgeFacts
    <2> HIDE DEF v, e
    <2>6. short => \/ v.err
                   \/ /\ req[p].key = "summaries" => now - v.asOf <= TTL - 1
                      /\ req[p].key = "dashboard" => now - v.asOf <= 2 * (TTL - 1)
      BY <2>2, <2>3, <2>4, <2>5, SMT
    <2>. QED  BY <1>1, <2>1, <2>2, <2>6, AgeWith
  <1>3. CASE GiveUp(p)
    <2>1. With(p, NoValue) /\ NoValue \in Value /\ NoValue.err
      BY <1>3, IdleType DEF GiveUp
    <2>. QED  BY <1>1, <2>1, AgeWith
  <1>. QED  BY <1>2, <1>3

LEMMA AgeForget ==
    ASSUME StructInv, FreshInv, AgeInv, NEW p \in Requests, Forget(p)
    PROVE  AgeInv'
  <1>1. /\ req[p].value.err /\ req[p].value \in Value /\ With(p, req[p].value)
        /\ UNCHANGED <<now, short, heap>>
    BY ReqType DEF StructInv, FreshInv, Fresh, Forget
  <1>. QED  BY <1>1, AgeWith

LEMMA AgePublish ==
    ASSUME StructInv, AgeInv, NEW p \in Requests, Publish(p)
    PROVE  AgeInv'
  <1> DEFINE e == req[p].entry
             v == req[p].value
  <1>1. req'[p].at \in {"forget", "done", "publish"}
    BY PublishStep
  <1>2. /\ req[p].at = "publish" /\ e \in 1 .. Len(heap) /\ Len(heap') = Len(heap)
        /\ heap[e].key = req[p].key /\ heap'[e].value = v /\ v \in Value
        /\ heap'[e].expires = now + TTL
        /\ \A f \in 1 .. Len(heap) : /\ f # e => heap'[f] = heap[f]
                                     /\ heap'[f].key = heap[f].key
        /\ \A q \in Requests \ {p} : req'[q] = req[q]
        /\ UNCHANGED <<now, short>>
        /\ req'[p].value = v
        /\ v.err => req'[p].at = "forget"
        /\ ~v.err => With(p, v)
    BY PublishFacts DEF Open
  <1>3. TypeOK /\ v.asOf \in Nat /\ req[p].key \in Keys
    BY <1>2, ValueType, ReqType DEF StructInv
  <1>4. /\ TTL \in Nat /\ TTL >= 1 /\ now \in Nat
        /\ AgeWhenFilled(req[p].key) \in Nat /\ AgeWhenFilled(req[p].key) <= TTL - 1
    BY <1>3, AgeFacts
  <1>5. short => v.err \/ now - v.asOf <= AgeWhenFilled(req[p].key)
    BY <1>2 DEF AgeInv, Young
  <1>6. short => StoredIsYoung'
    <2> SUFFICES ASSUME short, NEW f \in 1 .. Len(heap), heap'[f].ready,
                        ~heap'[f].value.err
                 PROVE  heap'[f].expires - TTL - heap'[f].value.asOf
                            <= AgeWhenFilled(heap'[f].key)
      BY <1>2 DEF StoredIsYoung, AgeWhenFilled
    <2>1. CASE f = e
      <3>1. now - v.asOf <= AgeWhenFilled(req[p].key)
        BY <1>2, <1>5, <2>1
      <3>2. (now + TTL) - TTL - v.asOf <= AgeWhenFilled(req[p].key)
        BY <1>3, <1>4, <3>1, SMT
      <3>. QED  BY <1>2, <2>1, <3>2
    <2>2. CASE f # e
      BY <1>2, <2>2 DEF AgeInv, StoredIsYoung
    <2>. QED  BY <2>1, <2>2
  <1>7. short => Young(req'[p])
    <2> SUFFICES ASSUME short PROVE Young(req'[p])
      OBVIOUS
    <2>1. CASE v.err
      BY <1>2, <2>1 DEF Young
    <2>2. CASE ~v.err
      <3>1. /\ req[p].key = "summaries" => now - v.asOf <= TTL - 1
            /\ req[p].key = "dashboard" => now - v.asOf <= 2 * (TTL - 1)
        <4>1. now - v.asOf <= AgeWhenFilled(req[p].key)
          BY <1>5, <2>2
        <4> HIDE DEF v
        <4>. QED  BY <1>3, <1>4, <4>1, SMT
      <3>. QED  BY <1>2, <2>2, <3>1, WithIsYoung
    <2>. QED  BY <2>1, <2>2
  <1>8. \A f \in 1 .. Len(heap) : heap'[f] # heap[f] => heap'[f].expires = now + TTL
    BY <1>2
  <1>9. \A q \in Requests \ {p} : req'[q] = req[q]
    BY <1>2
  <1>10. UNCHANGED <<now, short>> /\ req'[p].at # "wait"
    BY <1>1, <1>2
  <1> HIDE DEF e, v
  <1>. QED  BY <1>6, <1>7, <1>8, <1>9, <1>10, AgeRequest

LEMMA AgeMiss ==
    ASSUME StructInv, AgeInv, NEW p \in Requests, Miss(p)
    PROVE  AgeInv'
  <1> DEFINE id == Len(heap) + 1
  <1>1. /\ Len(heap') = id /\ ~heap'[id].ready
        /\ \A f \in 1 .. Len(heap') : f \in 1 .. Len(heap) \/ f = id
        /\ \A f \in 1 .. Len(heap) : heap'[f] = heap[f]
        /\ \A q \in Requests \ {p} : req'[q] = req[q]
        /\ UNCHANGED <<now, short>> /\ req'[p].at \in {"lookup", "load"}
    BY MissFacts
  <1> HIDE DEF id
  <1>2. short => StoredIsYoung'
    <2> SUFFICES ASSUME short, NEW f \in 1 .. Len(heap'), heap'[f].ready,
                        ~heap'[f].value.err
                 PROVE  heap'[f].expires - TTL - heap'[f].value.asOf
                            <= AgeWhenFilled(heap'[f].key)
      BY DEF StoredIsYoung, AgeWhenFilled
    <2>1. f \in 1 .. Len(heap) /\ heap'[f] = heap[f]
      BY <1>1
    <2>. QED  BY <2>1 DEF AgeInv, StoredIsYoung
  <1>3. Young(req'[p]) /\ req'[p].at # "wait"
    BY <1>1 DEF Young
  <1>. QED  BY <1>1, <1>2, <1>3, AgeRequest

LEMMA AgeLoad ==
    ASSUME StructInv, AgeInv, NEW p \in Requests, Load(p)
    PROVE  AgeInv'
  <1>1. /\ req'[p].at = "publish" /\ req'[p].key = req[p].key
        /\ req'[p].value.asOf = now
    BY LoadStep
  <1>2. /\ TypeOK /\ \A q \in Requests \ {p} : req'[q] = req[q]
        /\ UNCHANGED <<now, short, heap>>
    BY DEF Load, StructInv, TypeOK
  <1>3. Young(req'[p])
    <2>1. AgeWhenFilled(req[p].key) \in Nat /\ now \in Nat
      BY <1>2, ReqType, AgeFacts
    <2>2. now - now <= AgeWhenFilled(req[p].key)
      BY <2>1, SMT
    <2>. QED  BY <1>1, <2>2 DEF Young
  <1>4. short => StoredIsYoung'
    BY <1>2 DEF AgeInv, StoredIsYoung
  <1>. QED  BY <1>1, <1>2, <1>3, <1>4, AgeRequest

LEMMA AgeCalm ==
    ASSUME StructInv, AgeInv, NEW p \in Requests, NEW t \in Tenants, NEW k \in Keys,
           Ask(p, t, k) \/ Join(p) \/ Answer(p)
    PROVE  AgeInv'
  <1>1. /\ TypeOK /\ \A q \in Requests \ {p} : req'[q] = req[q]
        /\ UNCHANGED <<now, short, heap>>
    BY DEF Ask, Join, Answer, StructInv, TypeOK
  <1>2. /\ req'[p].at \in {"idle", "lookup", "wait"}
        /\ req'[p].at = "wait" => ~heap[req'[p].entry].ready
    <2>1. CASE Ask(p, t, k)
      BY <2>1, AskStep
    <2>2. CASE Join(p)
      BY <2>2, JoinStep DEF Open
    <2>3. CASE Answer(p)
      BY <1>1, <2>3, IdleType DEF Answer, TypeOK
    <2>. QED  BY <2>1, <2>2, <2>3
  <1>3. Young(req'[p])
    BY <1>2 DEF Young
  <1>4. short => StoredIsYoung'
    BY <1>1 DEF AgeInv, StoredIsYoung
  <1>. QED  BY <1>1, <1>2, <1>3, <1>4, AgeRequest

LEMMA AgeInit == Init => AgeInv
  <1> SUFFICES ASSUME Init PROVE AgeInv
    OBVIOUS
  <1>1. StoredIsYoung
    BY SMT DEF Init, StoredIsYoung
  <1>2. \A p \in Requests : Young(req[p])
    BY IdleType DEF Init, Young
  <1>. QED  BY <1>1, <1>2 DEF AgeInv

LEMMA AgeStep == StructInv /\ FreshInv /\ AgeInv /\ [Next]_vars => AgeInv'
  <1> SUFFICES ASSUME StructInv, FreshInv, AgeInv, [Next]_vars PROVE AgeInv'
    OBVIOUS
  <1>1. ASSUME NEW p \in Requests, NEW t \in Tenants, NEW k \in Asked, Ask(p, t, k)
        PROVE  AgeInv'
    BY <1>1, AgeCalm, CacheAssumption
  <1>2. ASSUME NEW p \in Requests, Serve(p) \/ GiveUp(p)
        PROVE  AgeInv'
    <2>1. CASE Answer(p) \/ Join(p)
      <3>1. PICK t \in Tenants : TRUE
        BY CacheAssumption
      <3>2. "summaries" \in Keys
        BY DEF Keys
      <3>. QED  BY <2>1, <3>1, <3>2, AgeCalm
    <2>. QED  BY <1>2, <2>1, AgeHit, AgeMiss, AgeLoad, AgePublish, AgeForget, AgeWait
              DEF Serve
  <1>3. CASE UNCHANGED <<heap, req, now, short>>
    BY <1>3 DEF AgeInv, StoredIsYoung, Young
  <1>4. CASE Tick
    <2>1. UNCHANGED <<heap, req, short>>
      BY <1>4 DEF Tick
    <2>2. short => \A p \in Requests : req[p].at = "idle"
      BY <1>4 DEF Tick
    <2>3. short => StoredIsYoung'
      BY <2>1 DEF AgeInv, StoredIsYoung
    <2>4. short => \A p \in Requests : Young(req[p])'
      BY <2>1, <2>2 DEF Young
    <2>. QED  BY <2>1, <2>3, <2>4 DEF AgeInv
  <1>5. ASSUME NEW w \in Writers,
               \/ \E t \in Tenants, kind \in WriteKinds : StartWrite(w, t, kind)
               \/ Invalidate(w) \/ Commit(w)
        PROVE  UNCHANGED <<heap, req, now, short>>
    BY <1>5 DEF StartWrite, Invalidate, Commit
  <1>6. CASE UNCHANGED vars
    BY <1>3, <1>6 DEF vars
  <1>. QED  BY <1>1, <1>2, <1>3, <1>4, <1>5, <1>6 DEF Next

(* summaryTTL: while no load takes as long as a tick, summaries are less   *)
(* than one expiry old when they are served and a dashboard less than two, *)
(* whatever was written, invalidated or rolled into a transaction.         *)
THEOREM AnswersAgeLittle == Spec => []AgingAnswers
<1>1. StructInv /\ AgeInv => AgingAnswers
  <2> SUFFICES ASSUME AgeInv, short PROVE AgeIsBounded
    BY DEF AgingAnswers
  <2>. QED  BY DEF AgeInv, Young, AgeIsBounded, Answered
<1>2. QED  BY <1>1, StructInit, StructStep, FreshInit, FreshStep, AgeInit, AgeStep, PTL
           DEF Spec

-----------------------------------------------------------------------------
(* The cache of reference tariffs.                                         *)

(* The tariff is one that was in force on the day, by what was published a *)
(* tick before, and its price is that of a residential line if there is one.*)
InForce(portal, tariff, today) ==
    \E r \in portal :
        /\ r.start = tariff.start /\ r.lines = tariff.lines
        /\ T!Valid(r, today)
        /\ \A o \in portal :
               o.pub < today - 1 /\ T!Valid(o, today) => o.start <= r.start
Priced(tariff) ==
    (\E l \in tariff.lines : l.class # "rural") =>
        \E l \in tariff.lines : l.class # "rural" /\ l.price = tariff.price

(* Resolutions are published before they start, which tells them apart.    *)
PortalInv ==
    /\ clock \in 0 .. Horizon
    /\ published \subseteq T!Resolution
    /\ \A r \in published : r.pub <= clock
    /\ \A r, s \in published : r.start = s.start => r = s

(* A request has received what was published when it asked, or nothing,    *)
(* and that is at most a tick ago.                                         *)
CallOK(c) ==
    /\ c.at \in {"idle", "queried"} /\ c.recs \subseteq published
    /\ c.since \in 0 .. clock
    /\ c.at = "queried" => clock <= c.since + 1
    /\ c.recs # {} => \A r \in published : r.pub < c.since => r \in c.recs
CallInv ==
    /\ DOMAIN call = Callers
    /\ \A q \in Callers : CallOK(call[q])

(* An entry is of the day on which its life began.                         *)
EntryInv ==
    /\ entry.expires \in -1 .. clock + CacheTTL
    /\ entry.tariff # T!NoTariff =>
           /\ entry.expires - CacheTTL \in 0 .. clock
           /\ InForce(published, entry.tariff, entry.expires - CacheTTL)
           /\ Priced(entry.tariff)

ToldInv ==
    /\ told.at \in 0 .. clock
    /\ told.tariff # T!NoTariff =>
           /\ \E today \in told.at - CacheTTL .. told.at :
                  today \in 0 .. clock /\ InForce(published, told.tariff, today)
           /\ Priced(told.tariff)

TariffInv == PortalInv /\ CallInv /\ EntryInv /\ ToldInv

LEMMA TariffInitHolds == T!TariffInit => TariffInv
<1> SUFFICES ASSUME T!TariffInit PROVE TariffInv
  OBVIOUS
<1>1. PortalInv
  BY TariffAssumption DEF T!TariffInit, PortalInv
<1>2. CallInv
  <2>1. \A q \in Callers : call[q] = [at |-> "idle", recs |-> {}, since |-> 0]
    BY DEF T!TariffInit, T!NoCall
  <2>. QED  BY <2>1 DEF T!TariffInit, CallInv, CallOK
<1>3. EntryInv
  BY TariffAssumption DEF T!TariffInit, T!NoEntry, EntryInv
<1>4. ToldInv
  BY DEF T!TariffInit, ToldInv
<1>. QED  BY <1>1, <1>2, <1>3, <1>4 DEF TariffInv

(* Max of FiniteSetsExt, for a set of numbers that has a bound.            *)
LEMMA MaxIsLargest ==
    ASSUME NEW S \in SUBSET (0 .. Horizon), S # {}
    PROVE  T!Max(S) \in S /\ \A x \in S : T!Max(S) >= x
<1> DEFINE gaps == {Horizon - x : x \in S}
<1>1. gaps \subseteq Nat /\ gaps # {}
  <2>1. \A x \in S : Horizon - x \in Nat
    BY TariffAssumption, SMT
  <2>. QED  BY <2>1
<1>2. PICK least \in gaps : \A g \in gaps : ~(<<g, least>> \in OpToRel(<, Nat))
  <2> HIDE DEF gaps
  <2>. QED  BY <1>1, NatLessThanWellFounded, WFMin
<1>3. \A g \in gaps : least <= g
  <2> SUFFICES ASSUME NEW g \in gaps PROVE least <= g
    OBVIOUS
  <2> HIDE DEF gaps
  <2>1. g \in Nat /\ least \in Nat
    BY <1>1, <1>2
  <2>2. ~(g < least)
    BY <1>2, <2>1 DEF OpToRel
  <2>. QED  BY <2>1, <2>2, SMT
<1>4. PICK x \in S : least = Horizon - x
  BY <1>2
<1>5. \A y \in S : x >= y
  <2> SUFFICES ASSUME NEW y \in S PROVE x >= y
    OBVIOUS
  <2>1. least <= Horizon - y
    BY <1>3
  <2>. QED  BY <1>4, <2>1, TariffAssumption
<1>. QED  BY <1>5 DEF T!Max

(* The price is that of one of the lines, residential if any is.           *)
LEMMA SuggestedFits ==
    ASSUME NEW lines \in LineSets
    PROVE  (\E l \in lines : l.class # "rural") =>
               \E l \in lines : l.class # "rural" /\ l.price = T!Suggested(lines)
<1> SUFFICES ASSUME NEW k \in lines, k.class # "rural"
             PROVE  \E l \in lines : l.class # "rural" /\ l.price = T!Suggested(lines)
  OBVIOUS
<1>1. \A l \in lines : l.class \in {"plain", "detail", "rural"}
  BY TariffAssumption DEF Line
<1>2. /\ T!Preferred(lines) # {} /\ T!Preferred(lines) \subseteq lines
      /\ \A l \in T!Preferred(lines) : l.class # "rural"
  BY <1>1 DEF T!Preferred
<1>3. PICK l \in T!Preferred(lines) : l.price = T!Suggested(lines)
  BY <1>2 DEF T!Suggested
<1>. QED  BY <1>2, <1>3

(* pickInForce, of records of which the day of publication is known.       *)
LEMMA PickedIsInForce ==
    ASSUME PortalInv, NEW q \in Callers, CallInv, call[q].at = "queried",
           NEW tariff, tariff = T!PickInForce(call[q].recs, clock),
           tariff # T!NoTariff
    PROVE  InForce(published, tariff, clock) /\ Priced(tariff)
<1> DEFINE recs == call[q].recs
           valid == T!InForceOn(recs, clock)
           starts == {r.start : r \in valid}
           latest == T!Max(starts)
           kept == {r \in valid : r.start = latest}
           lines == UNION {r.lines : r \in kept}
<1>1. /\ recs \subseteq published /\ call[q].since \in 0 .. clock
      /\ clock <= call[q].since + 1
      /\ recs # {} => \A r \in published : r.pub < call[q].since => r \in recs
  BY DEF CallInv, CallOK
<1>2. valid # {} /\ tariff.start = latest /\ tariff.lines = lines
      /\ tariff.price = T!Suggested(lines)
  BY DEF T!PickInForce
<1>3. valid \subseteq recs /\ \A r \in recs : r \in valid <=> T!Valid(r, clock)
  BY DEF T!InForceOn, T!Valid
<1>4. starts \subseteq 0 .. Horizon /\ starts # {}
  BY <1>1, <1>2, <1>3 DEF PortalInv, T!Resolution
<1>5. latest \in starts /\ \A x \in starts : latest >= x
  <2> HIDE DEF starts
  <2>. QED  BY <1>4, MaxIsLargest
<1>6. PICK r \in valid : r.start = latest
  BY <1>5
<1> HIDE DEF latest, valid
<1>7. kept = {r}
  <2>1. \A s \in kept : s = r
    BY <1>1, <1>3, <1>6 DEF PortalInv
  <2>. QED  BY <1>6, <2>1
<1>8. lines = r.lines
  BY <1>7
<1>9. r \in published /\ T!Valid(r, clock) /\ r.lines \in LineSets
  BY <1>1, <1>3 DEF PortalInv, T!Resolution
<1>10. \A o \in published :
           o.pub < clock - 1 /\ T!Valid(o, clock) => o.start <= r.start
  <2> SUFFICES ASSUME NEW o \in published, o.pub < clock - 1, T!Valid(o, clock)
               PROVE  o.start <= r.start
    OBVIOUS
  <2>1. o.pub \in Nat /\ clock \in Nat /\ call[q].since \in Nat /\ o.start \in Nat
        /\ r.start \in Nat
    BY <1>1, <1>9, TariffAssumption DEF PortalInv, T!Resolution
  <2>2. o.pub < call[q].since
    BY <1>1, <2>1
  <2>3. o \in valid
    BY <1>1, <1>3, <2>2
  <2>. QED  BY <1>5, <1>6, <2>1, <2>3
<1>11. InForce(published, tariff, clock)
  BY <1>2, <1>6, <1>8, <1>9, <1>10 DEF InForce
<1>12. Priced(tariff)
  BY <1>2, <1>8, <1>9, SuggestedFits DEF Priced
<1>. QED  BY <1>11, <1>12

-----------------------------------------------------------------------------
(* What is published later does not speak of a day that has begun.         *)
LEMMA InForceStays ==
    ASSUME PortalInv, T!Publish, NEW tariff, NEW today \in Int, today <= clock,
           InForce(published, tariff, today)
    PROVE  InForce(published', tariff, today)
<1>1. PICK start, lines, length :
          published' = published \cup
              {[pub |-> clock, start |-> start, lines |-> lines,
                end |-> IF length = NoEnd THEN NoEnd ELSE start + length]}
  BY DEF T!Publish
<1>2. \A o \in published' : o \in published \/ o.pub = clock
  BY <1>1
<1>3. published \subseteq published' /\ clock \in Int
  BY <1>1, TariffAssumption DEF PortalInv
<1>4. PICK r \in published :
          /\ r.start = tariff.start /\ r.lines = tariff.lines
          /\ T!Valid(r, today)
          /\ \A o \in published :
                 o.pub < today - 1 /\ T!Valid(o, today) => o.start <= r.start
  BY DEF InForce
<1>5. \A o \in published' : o.pub < today - 1 => o \in published
  BY <1>2, <1>3
<1>6. InForce(published', tariff, today)
  BY <1>3, <1>4, <1>5 DEF InForce, T!Valid
<1>. QED  BY <1>6

LEMMA TariffPublishes == ASSUME TariffInv, T!Publish PROVE TariffInv'
<1>1. PICK start \in clock .. Horizon, lines \in LineSets, length \in {1, NoEnd} :
          /\ \A r \in published : r.start # start
          /\ published' = published \cup
              {[pub |-> clock, start |-> start, lines |-> lines,
                end |-> IF length = NoEnd THEN NoEnd ELSE start + length]}
          /\ UNCHANGED <<entry, call, told, clock>>
  BY DEF T!Publish
<1> DEFINE new == [pub |-> clock, start |-> start, lines |-> lines,
                   end |-> IF length = NoEnd THEN NoEnd ELSE start + length]
<1>2. clock \in 0 .. Horizon /\ published \subseteq T!Resolution
  BY DEF TariffInv, PortalInv
<1>3. new \in T!Resolution /\ new.pub = clock /\ new.start = start
  <2>1. (IF length = NoEnd THEN NoEnd ELSE start + length) \in 0 .. NoEnd
    BY <1>2, TariffAssumption
  <2>2. start \in 0 .. Horizon
    BY <1>2, TariffAssumption
  <2>. QED  BY <1>2, <2>1, <2>2 DEF T!Resolution
<1> HIDE DEF new
<1>4. published' = published \cup {new}
  BY <1>1 DEF new
<1>5. PortalInv'
  <2>1. \A r \in published' : r.pub <= clock
    BY <1>2, <1>3, <1>4, TariffAssumption DEF TariffInv, PortalInv
  <2>2. \A r, s \in published' : r.start = s.start => r = s
    BY <1>1, <1>3, <1>4 DEF TariffInv, PortalInv
  <2>. QED  BY <1>1, <1>2, <1>3, <1>4, <2>1, <2>2 DEF PortalInv
<1>6. CallInv'
  <2> SUFFICES ASSUME NEW q \in Callers PROVE CallOK(call[q])'
    BY <1>1 DEF TariffInv, CallInv
  <2>1. CallOK(call[q]) /\ call'[q] = call[q] /\ clock' = clock
    BY <1>1 DEF TariffInv, CallInv
  <2>2. \A r \in published' : r.pub < call[q].since => r \in published
    <3>1. ~(clock < call[q].since)
      BY <1>2, <2>1, TariffAssumption DEF CallOK
    <3>. QED  BY <1>3, <1>4, <3>1
  <2>. QED  BY <1>4, <2>1, <2>2 DEF CallOK
<1>7. EntryInv'
  <2>1. ASSUME entry.tariff # T!NoTariff
        PROVE  InForce(published', entry.tariff, entry.expires - CacheTTL)
    <3>1. entry.expires - CacheTTL \in 0 .. clock
          /\ InForce(published, entry.tariff, entry.expires - CacheTTL)
      BY <2>1 DEF TariffInv, EntryInv
    <3>2. PICK today \in 0 .. clock : today = entry.expires - CacheTTL
      BY <3>1
    <3>3. today \in Int /\ today <= clock
      BY <1>2, <3>2, TariffAssumption
    <3>. QED  BY <3>1, <3>2, <3>3, InForceStays DEF TariffInv
  <2>. QED  BY <1>1, <2>1 DEF TariffInv, EntryInv, Priced, T!NoTariff
<1>8. ToldInv'
  <2>1. ASSUME told.tariff # T!NoTariff
        PROVE  \E today \in told.at - CacheTTL .. told.at :
                  today \in 0 .. clock /\ InForce(published', told.tariff, today)
    <3>1. PICK today \in told.at - CacheTTL .. told.at :
              today \in 0 .. clock /\ InForce(published, told.tariff, today)
      BY <2>1 DEF TariffInv, ToldInv
    <3>2. today \in Int /\ today <= clock
      BY <1>2, <3>1, TariffAssumption
    <3>. QED  BY <3>1, <3>2, InForceStays DEF TariffInv
  <2>2. told.at \in 0 .. clock /\ (told.tariff # T!NoTariff => Priced(told.tariff))
    BY DEF TariffInv, ToldInv
  <2>. QED  BY <1>1, <2>1, <2>2 DEF ToldInv, Priced, InForce, T!Valid, T!NoTariff
<1>. QED  BY <1>5, <1>6, <1>7, <1>8 DEF TariffInv

(* The rest of the invariant speaks of what is on the portal and of days   *)
(* gone by.                                                                *)
LEMMA TariffHits == ASSUME TariffInv, NEW q \in Callers, T!Hit(q) PROVE TariffInv'
<1>1. /\ clock <= entry.expires
      /\ told' = [tariff |-> entry.tariff, at |-> clock]
      /\ UNCHANGED <<published, entry, call, clock>>
  BY DEF T!Hit, T!CachedGet
<1>2. PortalInv' /\ CallInv' /\ EntryInv'
  BY <1>1 DEF TariffInv, PortalInv, CallInv, CallOK, EntryInv, InForce, Priced,
              T!Valid, T!NoTariff, T!Resolution
<1>3. told'.at = clock /\ told'.tariff = entry.tariff /\ clock' = clock
  BY <1>1
<1>4. clock \in 0 .. Horizon /\ clock \in 0 .. clock
  BY TariffAssumption DEF TariffInv, PortalInv
<1>5. ASSUME entry.tariff # T!NoTariff
      PROVE  /\ \E today \in clock - CacheTTL .. clock :
                    today \in 0 .. clock /\ InForce(published, entry.tariff, today)
             /\ Priced(entry.tariff)
  <2>1. /\ entry.expires - CacheTTL \in 0 .. clock
        /\ InForce(published, entry.tariff, entry.expires - CacheTTL)
        /\ Priced(entry.tariff) /\ entry.expires \in -1 .. clock + CacheTTL
    BY <1>5 DEF TariffInv, EntryInv
  <2>2. entry.expires - CacheTTL \in clock - CacheTTL .. clock
    BY <1>1, <1>4, <2>1, TariffAssumption
  <2>. QED  BY <2>1, <2>2
<1>6. ToldInv'
  <2>1. ASSUME told'.tariff # T!NoTariff
        PROVE  \E today \in told'.at - CacheTTL .. told'.at :
                   today \in 0 .. clock' /\ InForce(published', told'.tariff, today)
    BY <1>1, <1>3, <1>5, <2>1
  <2>. QED  BY <1>3, <1>4, <1>5, <2>1 DEF ToldInv, Priced, T!NoTariff
<1>. QED  BY <1>2, <1>6 DEF TariffInv

LEMMA TariffAsks ==
    ASSUME TariffInv, NEW q \in Callers, T!Query(q) \/ T!QueryFails(q)
    PROVE  TariffInv'
<1>1. UNCHANGED <<published, entry, told, clock>> /\ DOMAIN call = Callers
  BY DEF TariffInv, CallInv, T!Query, T!QueryFails
<1>2. PICK c : call' = [call EXCEPT ![q] = c] /\ CallOK(c)
  <2>1. clock \in 0 .. clock /\ clock <= clock + 1 /\ 0 \in 0 .. clock
    BY TariffAssumption DEF TariffInv, PortalInv
  <2>2. CASE T!Query(q)
    <3>1. PICK exact \in BOOLEAN :
              call' = [call EXCEPT ![q] =
                          [at |-> "queried", since |-> clock,
                           recs |-> IF exact THEN published ELSE {}]]
      BY <2>2 DEF T!Query
    <3> DEFINE c == [at |-> "queried", since |-> clock,
                     recs |-> IF exact THEN published ELSE {}]
    <3>2. CallOK(c)
      BY <2>1 DEF CallOK
    <3>. QED  BY <3>1, <3>2
  <2>3. CASE T!QueryFails(q)
    <3>1. CallOK(T!NoCall)
      BY <2>1 DEF CallOK, T!NoCall
    <3>. QED  BY <2>3, <3>1 DEF T!QueryFails
  <2>. QED  BY <2>2, <2>3
<1>3. CallInv'
  <2>1. \A p \in Callers : CallOK(call'[p])
    BY <1>1, <1>2 DEF TariffInv, CallInv
  <2>. QED  BY <1>1, <1>2, <2>1 DEF CallInv, CallOK
<1>4. PortalInv' /\ EntryInv' /\ ToldInv'
  BY <1>1 DEF TariffInv, PortalInv, EntryInv, ToldInv, T!NoTariff, T!Resolution
<1>. QED  BY <1>3, <1>4 DEF TariffInv

LEMMA TariffAnswers ==
    ASSUME TariffInv, NEW q \in Callers, T!Answered(q) PROVE TariffInv'
<1> DEFINE set == T!PickInForce(call[q].recs, clock)
<1>1. /\ call[q].at = "queried" /\ DOMAIN call = Callers
      /\ entry' = IF set = T!NoTariff THEN entry
                  ELSE [tariff |-> set, expires |-> clock + CacheTTL]
      /\ told' = [tariff |-> set, at |-> clock]
      /\ call' = [call EXCEPT ![q] = T!NoCall]
      /\ UNCHANGED <<published, clock>>
  BY DEF T!Answered, TariffInv, CallInv
<1>2. clock \in 0 .. clock /\ 0 \in 0 .. clock /\ clock \in Int
      /\ clock \in clock - CacheTTL .. clock
  BY TariffAssumption DEF TariffInv, PortalInv
<1>3. set # T!NoTariff => InForce(published, set, clock) /\ Priced(set)
  BY <1>1, PickedIsInForce DEF TariffInv
<1> HIDE DEF set
<1>4. PortalInv'
  BY <1>1 DEF TariffInv, PortalInv, T!Resolution
<1>5. CallInv'
  <2>1. CallOK(T!NoCall)
    BY <1>2 DEF CallOK, T!NoCall
  <2>2. \A p \in Callers : CallOK(call'[p])
    BY <1>1, <2>1 DEF TariffInv, CallInv
  <2>. QED  BY <1>1, <2>2 DEF CallInv, CallOK
<1>6. EntryInv'
  <2>1. CASE set = T!NoTariff
    BY <1>1, <2>1 DEF TariffInv, EntryInv, T!NoTariff
  <2>2. CASE set # T!NoTariff
    <3>1. entry'.tariff = set /\ entry'.expires = clock + CacheTTL
      BY <1>1, <2>2
    <3>2. entry'.expires - CacheTTL = clock
          /\ entry'.expires \in -1 .. clock + CacheTTL
      BY <1>2, <3>1, TariffAssumption
    <3>. QED  BY <1>1, <1>2, <1>3, <2>2, <3>1, <3>2 DEF EntryInv, T!NoTariff
  <2>. QED  BY <2>1, <2>2
<1>7. ToldInv'
  <2>1. told'.tariff = set /\ told'.at = clock
    BY <1>1
  <2>2. set # T!NoTariff =>
            \E today \in clock - CacheTTL .. clock :
                today \in 0 .. clock /\ InForce(published, set, today)
    BY <1>2, <1>3
  <2>. QED  BY <1>1, <1>2, <1>3, <2>1, <2>2 DEF ToldInv, T!NoTariff
<1>. QED  BY <1>4, <1>5, <1>6, <1>7 DEF TariffInv

LEMMA TariffTicks == ASSUME TariffInv, T!TariffTick PROVE TariffInv'
<1>1. /\ clock < Horizon /\ clock' = clock + 1
      /\ \A q \in Callers : call[q].at = "queried" => call[q].since = clock
      /\ UNCHANGED <<published, entry, call, told>>
  BY DEF T!TariffTick
<1>2. clock \in 0 .. Horizon /\ clock' \in 0 .. Horizon
      /\ \A n \in 0 .. clock : n \in 0 .. clock'
  BY <1>1, TariffAssumption DEF TariffInv, PortalInv
<1>3. PortalInv'
  <2>1. \A r \in published : r.pub <= clock'
    <3> SUFFICES ASSUME NEW r \in published PROVE r.pub <= clock + 1
      BY <1>1
    <3>1. r.pub \in Int /\ r.pub <= clock
      BY TariffAssumption DEF TariffInv, PortalInv, T!Resolution
    <3>. QED  BY <1>2, <3>1, TariffAssumption
  <2>. QED  BY <1>1, <1>2, <2>1 DEF TariffInv, PortalInv, T!Resolution
<1>4. CallInv'
  <2> SUFFICES ASSUME NEW q \in Callers PROVE CallOK(call[q])'
    BY <1>1 DEF TariffInv, CallInv
  <2>1. CallOK(call[q]) /\ call'[q] = call[q]
    BY <1>1 DEF TariffInv, CallInv
  <2>2. call[q].at = "queried" => clock' <= call[q].since + 1
    BY <1>1, <1>2, TariffAssumption
  <2>. QED  BY <1>1, <1>2, <2>1, <2>2 DEF CallOK
<1>5. EntryInv'
  <2>1. entry.expires \in -1 .. clock' + CacheTTL
    BY <1>1, <1>2, TariffAssumption DEF TariffInv, EntryInv
  <2>. QED  BY <1>1, <1>2, <2>1 DEF TariffInv, EntryInv, T!NoTariff
<1>6. ToldInv'
  BY <1>1, <1>2 DEF TariffInv, ToldInv, T!NoTariff
<1>. QED  BY <1>3, <1>4, <1>5, <1>6 DEF TariffInv

LEMMA TariffStep == ASSUME TariffInv, [MCNext]_mcvars PROVE TariffInv'
<1>1. CASE UNCHANGED <<published, entry, call, told, clock>>
  BY <1>1 DEF TariffInv, PortalInv, CallInv, CallOK, EntryInv, ToldInv,
              T!NoTariff, T!Resolution
<1>2. CASE T!TariffNext
  <2>1. CASE \E q \in Callers :
                 T!Hit(q) \/ T!Query(q) \/ T!QueryFails(q) \/ T!Answered(q)
    BY <2>1, TariffHits, TariffAsks, TariffAnswers
  <2>. QED  BY <1>2, <2>1, TariffPublishes, TariffTicks DEF T!TariffNext
<1>. QED  BY <1>1, <1>2 DEF MCNext, mcvars

(* CurrentTariff: the tariff told was in force, by what was published a    *)
(* query's time before, on the day of the answer or one entry's life ago   *)
(* at most, and its price is that of a residential line if it has one: for *)
(* any number of overlapping requests, resolutions, sets of lines and any  *)
(* life of an entry.                                                       *)
THEOREM TariffsWereInForce == MCSpec => []TariffsAreRecent
<1>1. MCInit => TariffInv
  BY TariffInitHolds DEF MCInit
<1>2. TariffInv => TariffsAreRecent
  <2> SUFFICES ASSUME TariffInv PROVE TariffsAreRecent
    OBVIOUS
  <2>1. T!TariffTypeOK
    <3>1. clock \in 0 .. Horizon /\ published \subseteq T!Resolution
      BY DEF TariffInv, PortalInv
    <3>2. \A q \in Callers : call[q].at \in {"idle", "queried"}
                              /\ call[q].recs \subseteq published
      BY DEF TariffInv, CallInv, CallOK
    <3>3. entry.expires \in -1 .. Horizon + CacheTTL
      BY <3>1, TariffAssumption DEF TariffInv, EntryInv
    <3>4. told.at <= clock
      BY <3>1, TariffAssumption DEF TariffInv, ToldInv
    <3>. QED  BY <3>1, <3>2, <3>3, <3>4 DEF T!TariffTypeOK
  <2>2. T!TariffWasInForce
    <3> SUFFICES ASSUME told.tariff # T!NoTariff
                 PROVE  /\ \E today \in told.at - CacheTTL .. told.at :
                               InForce(published, told.tariff, today)
                        /\ Priced(told.tariff)
      BY DEF T!TariffWasInForce, InForce, Priced
    <3>. QED  BY DEF TariffInv, ToldInv
  <2>. QED  BY <2>1, <2>2 DEF TariffsAreRecent
<1>3. QED  BY <1>1, <1>2, TariffStep, PTL DEF MCSpec

=============================================================================
