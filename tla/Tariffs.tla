------------------------------ MODULE Tariffs ------------------------------
(***************************************************************************)
(* The reference tariff of a distributor, from the open data portal of     *)
(* ANEEL through a cache of one day (aneel.Client): requests that overlap, *)
(* queries that fail, resolutions that are published, begin and end.       *)
(*                                                                         *)
(* One distributor: the cache has an entry for each and they share nothing.*)
(* A tick stands for hours, of which a query takes one at most: the client *)
(* of HTTP gives up after 20 seconds.                                      *)
(***************************************************************************)
EXTENDS Integers, FiniteSets, FiniteSetsExt

CONSTANTS
    Callers,      \* requests at the same time
    LineSets,     \* the tariff lines a resolution may have
    CacheTTL,     \* how long an entry is good, in ticks
    NoEnd,        \* a resolution without an end, a number above Horizon
    MaxPublished, \* bound on the resolutions published
    Horizon       \* bound on the clock

VARIABLES
    published,  \* the resolutions on the portal
    entry,      \* the cached tariff and when it expires
    call,       \* call[q]: the records a request received, not yet looked at
    told,       \* the last answer
    clock

tariffVars == <<published, entry, call, told, clock>>

-----------------------------------------------------------------------------
(* A line is of the residential class without detail ("plain"), with one   *)
(* ("detail"), or of another class; its price is TUSD + TE in R$/MWh.      *)
Resolution == [pub : 0 .. Horizon, start : 0 .. Horizon, end : 0 .. NoEnd,
               lines : LineSets]
NoTariff == [start |-> -1, end |-> -1, lines |-> {}, price |-> 0]
NoEntry == [tariff |-> NoTariff, expires |-> -1]
NoCall == [at |-> "idle", recs |-> {}, since |-> 0]

TariffTypeOK ==
    /\ published \subseteq Resolution
    /\ entry.expires \in -1 .. Horizon + CacheTTL
    /\ \A q \in Callers : /\ call[q].at \in {"idle", "queried"}
                          /\ call[q].recs \subseteq published
    /\ told.at <= clock /\ clock \in 0 .. Horizon

TariffInit ==
    /\ published = {}
    /\ entry = NoEntry
    /\ call = [q \in Callers |-> NoCall]
    /\ told = [tariff |-> NoTariff, at |-> 0]
    /\ clock = 0

-----------------------------------------------------------------------------
(* Mutant of InForceOn: a resolution that is over is in force.             *)
StartedBy(recs, today) == {r \in recs : r.start <= today}

(* pickInForce, over the records of a query: those whose validity contains *)
(* the day, and of them the lines of the most recent start.                *)
InForceOn(recs, today) == {r \in recs : r.start <= today /\ today <= r.end}

(* The price suggested: of a residential line without detail, else of a    *)
(* residential one, else of the first there is.                            *)
Preferred(lines) ==
    LET of(class) == {l \in lines : l.class = class} IN
    IF of("plain") # {} THEN of("plain")
    ELSE IF of("detail") # {} THEN of("detail") ELSE lines
Suggested(lines) == (CHOOSE l \in Preferred(lines) : TRUE).price

PickInForce(recs, today) ==
    LET valid == InForceOn(recs, today)
        latest == Max({r.start : r \in valid})
        kept == {r \in valid : r.start = latest}
        lines == UNION {r.lines : r \in kept}
    IN  IF valid = {} THEN NoTariff
        ELSE [start |-> latest, end |-> (CHOOSE r \in kept : TRUE).end,
              lines |-> lines, price |-> Suggested(lines)]

-----------------------------------------------------------------------------
(* cachedGet: an entry is good up to and including the moment it expires.  *)
CachedGet == clock <= entry.expires

(* CurrentTariff.  A hit is answered at once; on a miss the portal is      *)
(* queried, which may fail, without the lock, so that two misses both ask. *)
(* The portal compares the name as it is written, the key of the cache     *)
(* ignores its case: written otherwise, a name finds an entry or nothing.  *)
Hit(q) ==
    /\ call[q].at = "idle"
    /\ CachedGet
    /\ told' = [tariff |-> entry.tariff, at |-> clock]
    /\ UNCHANGED <<published, entry, call, clock>>

Query(q) ==
    /\ call[q].at = "idle"
    /\ ~CachedGet
    /\ \E exact \in BOOLEAN :
          call' = [call EXCEPT ![q] =
                      [at |-> "queried", since |-> clock,
                       recs |-> IF exact THEN published ELSE {}]]
    /\ UNCHANGED <<published, entry, told, clock>>

QueryFails(q) ==
    /\ call[q].at = "queried"
    /\ call' = [call EXCEPT ![q] = NoCall]
    /\ UNCHANGED <<published, entry, told, clock>>

(* The records are looked at with the day it is then.  That there is no    *)
(* tariff is answered and not cached.                                      *)
Answered(q) ==
    LET set == PickInForce(call[q].recs, clock) IN
    /\ call[q].at = "queried"
    /\ entry' = IF set = NoTariff THEN entry
                ELSE [tariff |-> set, expires |-> clock + CacheTTL]
    /\ told' = [tariff |-> set, at |-> clock]
    /\ call' = [call EXCEPT ![q] = NoCall]
    /\ UNCHANGED <<published, clock>>

(* ANEEL (external) publishes a resolution, for now or for later, that may *)
(* overlap the one before it.                                              *)
Publish ==
    \E start \in clock .. Horizon, lines \in LineSets,
       length \in {1, NoEnd} :
        /\ Cardinality(published) < MaxPublished
        /\ \A r \in published : r.start # start
        /\ published' = published \cup
               {[pub |-> clock, start |-> start, lines |-> lines,
                 end |-> IF length = NoEnd THEN NoEnd ELSE start + length]}
        /\ UNCHANGED <<entry, call, told, clock>>

(* A query may be answered in the next tick, not later.                    *)
TariffTick ==
    /\ clock < Horizon
    /\ \A q \in Callers : call[q].at = "queried" => call[q].since = clock
    /\ clock' = clock + 1
    /\ UNCHANGED <<published, entry, call, told>>

TariffNext ==
    \/ \E q \in Callers : Hit(q) \/ Query(q) \/ QueryFails(q) \/ Answered(q)
    \/ Publish
    \/ TariffTick

-----------------------------------------------------------------------------
(* CurrentTariff: however requests overlap and queries fail, the tariff    *)
(* told is the one that was in force, by what was published then, on the   *)
(* day of the answer or within the life of an entry before it (nothing     *)
(* newer was valid, and it was not over); and its price is that of a       *)
(* residential line if it has one.                                         *)
Valid(r, today) == r.start <= today /\ today <= r.end
TariffWasInForce ==
    told.tariff # NoTariff =>
        /\ \E today \in told.at - CacheTTL .. told.at, r \in published :
              /\ r.start = told.tariff.start /\ r.lines = told.tariff.lines
              /\ Valid(r, today)
              /\ \A o \in published :
                     o.pub < today - 1 /\ Valid(o, today) => o.start <= r.start
        /\ (\E l \in told.tariff.lines : l.class # "rural") =>
               \E l \in told.tariff.lines :
                   l.class # "rural" /\ l.price = told.tariff.price

=============================================================================
