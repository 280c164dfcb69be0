------------------------------ MODULE Metering ------------------------------
(***************************************************************************)
(* Readings typed by hand, the periods that requests and the daily job     *)
(* name, the balances stored for them, and the views of consumption        *)
(* (network_, balance_, report_ and consuming_unit_usecase.go, their       *)
(* handlers, RecalculateAll).  How calculations overlap is in Imports; here*)
(* each is one step, and time zones and calendar months are what matters.  *)
(*                                                                         *)
(* An instant is a number of half days.  The day in UTC begins at the even *)
(* ones, the day in Brasilia one later; a month has two days.  The last    *)
(* instant of a period stands for `its end minus a nanosecond'.            *)
(***************************************************************************)
EXTENDS Integers, FiniteSets, FiniteSetsExt

CONSTANTS
    Trafos, Units, NoTrafo,
    Server,        \* the zone of time.Now() in the process: UTC or Brasilia
    Requests,      \* what is asked for: months, days, the default, offsets
    Horizon,       \* bound: the last instant
    MaxReadings,   \* bound: readings of each kind
    MaxMoves       \* bound: units moved or removed

UTC == 0
Brasilia == 1
DayLength == 2
MonthLength == 4
GraceDays == 1     \* days of a month on which the one before is done too (5)

VARIABLES
    home,     \* the transformer of each unit; NoTrafo: removed
    trafoReadings,  \* [row, at]: readings of transformers, one kWh each
    ucReadings,     \* [unit, row, at]: readings of units, one kWh each
    balances, \* [row, start, end, inj, con, manual]
    today,    \* the current instant
    behind,   \* history: transformers and months that were read, or given by
              \* hand, since their balance was calculated from readings
    moves     \* units moved or removed so far

metervars == <<home, trafoReadings, ucReadings, balances, today, behind, moves>>

Instants == 1 .. Horizon

MonthStart(at, zone) ==
    ((at - zone) \div MonthLength) * MonthLength + zone
Month(first) == [start |-> first, end |-> first + MonthLength - 1]
MonthsOf(p) == {MonthStart(at, Brasilia) : at \in p.start .. p.end}

(* Mutant of NormalizePeriod: the last day of a period is left out.        *)
WithoutLastDay(start, end, zone) == [start |-> start, end |-> end]
(* An end at midnight, of its own zone, stands for the whole day.          *)
NormalizePeriod(start, end, zone) ==
    [start |-> start,
     end |-> IF (end - zone) % DayLength = 0 THEN end + DayLength - 1 ELSE end]

-----------------------------------------------------------------------------
(* Sums over readings.                                                     *)

In(at, p) == p.start <= at /\ at <= p.end
AggregateByTransformerAndPeriod(t, p) ==
    Cardinality({r \in trafoReadings : r.row = t /\ In(r.at, p)})
GetByTransformerAndPeriod(t, p) ==
    {r \in ucReadings : r.row = t /\ In(r.at, p)}
GetTotalByTransformerAndPeriod(t, p) ==
    Cardinality(GetByTransformerAndPeriod(t, p))
GetByUCAndPeriod(u, p) == {r \in ucReadings : r.unit = u /\ In(r.at, p)}

(* The transformers that CalculateBalance would store a balance for.       *)
Sufficient(p) ==
    {t \in Trafos : /\ AggregateByTransformerAndPeriod(t, p) > 0
                    /\ GetTotalByTransformerAndPeriod(t, p) > 0}
FromReadings(t, p) ==
    [row |-> t, start |-> p.start, end |-> p.end, manual |-> FALSE,
     inj |-> AggregateByTransformerAndPeriod(t, p),
     con |-> GetTotalByTransformerAndPeriod(t, p)]

(* UpsertForPeriod: the key is the transformer and both ends.              *)
Replaces(b, c) == b.row = c.row /\ b.start = c.start /\ b.end = c.end
Upsert(new) ==
    balances' = {b \in balances : \A c \in new : ~Replaces(b, c)} \cup new

WholeMonth(p) == p = Month(MonthStart(p.start, Brasilia))
Done(new) == {<<b.row, b.start>> : b \in {c \in new : WholeMonth(
                  [start |-> c.start, end |-> c.end]) /\ ~c.manual}}

-----------------------------------------------------------------------------
Init ==
    /\ home \in [Units -> Trafos]
    /\ trafoReadings = {} /\ ucReadings = {} /\ balances = {}
    /\ today = 1 /\ behind = {} /\ moves = 0

(* Of all given transformers at once; one without readings is left alone.   *)
CalculateBalance(ts, p) ==
    LET new == {FromReadings(t, p) : t \in ts \cap Sufficient(p)}
    IN  /\ new # {} /\ Upsert(new)
        /\ behind' = behind \ Done(new)
        /\ UNCHANGED <<home, trafoReadings, ucReadings, today, moves>>

(* The energies of the request replace the readings.                       *)
CalculateManually(t, p) ==
    /\ Upsert({[row |-> t, start |-> p.start, end |-> p.end, manual |-> TRUE,
                inj |-> 2, con |-> 1]})
    /\ behind' = behind \cup {<<t, m>> : m \in MonthsOf(p)}
    /\ UNCHANGED <<home, trafoReadings, ucReadings, today, moves>>

(* Without a period, the calendar month before this one, on the server.    *)
DefaultPeriod ==
    LET first == MonthStart(today, Server)
    IN  NormalizePeriod(first - MonthLength, first - DayLength, Server)
(* Dates are days of Brasilia; a month without a day is its first day.     *)
Days == {d \in Instants : (d - Brasilia) % DayLength = 0}
ParseDate(kind) ==
    IF kind = "days" THEN {x \in Days \X Days : x[1] <= x[2]}
    ELSE {x \in Days \X Days : /\ MonthStart(x[1], Brasilia) = x[1]
                               /\ x[2] = x[1] + MonthLength - DayLength}
Periods ==
    (IF "default" \in Requests THEN {DefaultPeriod} ELSE {})
    \cup {NormalizePeriod(x[1], x[2], Brasilia) :
              x \in UNION {ParseDate(k) : k \in Requests \cap {"days", "month"}}}

Calculate ==
    \E t \in Trafos, p \in Periods :
        CalculateBalance({t}, p) \/ CalculateManually(t, p)
CalculateAll == \E p \in Periods : CalculateBalance(Trafos, p)

(* The daily job: this month, and on its first days the one before; the    *)
(* two are calculated one after the other.                                 *)
RecalculateAll ==
    LET first == MonthStart(today, Brasilia)
        early == (today - first) \div DayLength < GraceDays
        ps == {Month(first)} \cup IF early THEN {Month(first - MonthLength)} ELSE {}
        new == UNION {{FromReadings(t, p) : t \in Sufficient(p)} : p \in ps}
    IN  /\ new # {} /\ Upsert(new)
        /\ behind' = behind \ Done(new)
        /\ UNCHANGED <<home, trafoReadings, ucReadings, today, moves>>

(* The month of a reading, in the zone that the reading was written in.    *)
RecalcMonth(t, at, zone) ==
    LET p == Month(MonthStart(at, zone))
    IN  IF t \in Sufficient(p)' THEN {FromReadings(t, p)'} ELSE {}

(* A time with an offset keeps it, other times are of Brasilia.            *)
Zones == {Brasilia} \cup IF "offset" \in Requests THEN {UTC} ELSE {}

Recalculated(t, at, zone, recalculate) ==
    LET new == IF recalculate THEN RecalcMonth(t, at, zone) ELSE {}
        right == recalculate /\ zone = Brasilia
    IN  /\ Upsert(new)
        /\ behind' = (IF right THEN behind
                      ELSE behind \cup {<<t, MonthStart(at, Brasilia)>>})
                     \ Done(new)

AddTransformerReading(t, at, zone, recalculate) ==
    /\ at <= today /\ Cardinality(trafoReadings) < MaxReadings
    /\ [row |-> t, at |-> at] \notin trafoReadings
    /\ trafoReadings' = trafoReadings \cup {[row |-> t, at |-> at]}
    /\ UNCHANGED <<home, ucReadings, today, moves>>
    /\ Recalculated(t, at, zone, recalculate)

AddUCReading(u, at, zone, recalculate) ==
    /\ home[u] # NoTrafo
    /\ at <= today /\ Cardinality(ucReadings) < MaxReadings
    /\ ~\E r \in ucReadings : r.unit = u /\ r.at = at
    /\ ucReadings' = ucReadings \cup {[unit |-> u, row |-> home[u], at |-> at]}
    /\ UNCHANGED <<home, trafoReadings, today, moves>>
    /\ Recalculated(home[u], at, zone, recalculate)

(* Readings stay with the transformer that they were stored with.          *)
MoveUnit(u, t) ==
    /\ home[u] \notin {t, NoTrafo}
    /\ moves < MaxMoves /\ moves' = moves + 1
    /\ home' = [home EXCEPT ![u] = t]
    /\ UNCHANGED <<trafoReadings, ucReadings, balances, today, behind>>

Tick ==
    /\ today < Horizon /\ today' = today + 1
    /\ UNCHANGED <<home, trafoReadings, ucReadings, balances, behind, moves>>

Next ==
    \/ Calculate \/ CalculateAll \/ RecalculateAll \/ Tick
    \/ \E at \in Instants, zone \in Zones, b \in BOOLEAN :
           \/ \E t \in Trafos : AddTransformerReading(t, at, zone, b)
           \/ \E u \in Units : AddUCReading(u, at, zone, b)
    \/ \E u \in Units, t \in Trafos \cup {NoTrafo} : MoveUnit(u, t)

-----------------------------------------------------------------------------
(* Views of the readings and of the balances.                              *)

(* Each unit of the transformer now, with all it consumed in the period.   *)
TopConsumers(t, p) ==
    LET units == {u \in Units : home[u] = t}
    IN  [total |-> MapThenSumSet(LAMBDA u : Cardinality(GetByUCAndPeriod(u, p)),
                                 units),
         without |-> Cardinality({u \in units : GetByUCAndPeriod(u, p) = {}})]

(* Months of the server's calendar, up to the current one.                 *)
GetConsumptionHistory(u, months) ==
    LET this == MonthStart(today, Server)
        starts == {this - k * MonthLength : k \in 0 .. months - 1}
    IN  [m \in starts |-> Cardinality(GetByUCAndPeriod(u,
                [start |-> m, end |-> Min({m + MonthLength - 1, today})]))]

(* date_trunc works in the zone of the database session.                   *)
TransformerSeries(t, p) ==
    LET rows == {r \in trafoReadings : r.row = t /\ In(r.at, p)}
    IN  [m \in {MonthStart(r.at, UTC) : r \in rows} |->
            Cardinality({r \in rows : MonthStart(r.at, UTC) = m})]

(* One transformer, or all; the end of the period as the query gives it.   *)
ExportReadings(kind, ts, p) ==
    IF kind = "uc" THEN UNION {GetByTransformerAndPeriod(t, p) : t \in ts}
    ELSE {r \in trafoReadings : r.row \in ts /\ In(r.at, p)}

(* The middle of a period says which month it is.                          *)
PeriodMonth(b) == MonthStart(b.start + (b.end - b.start) \div 2, Brasilia)

(* Balances of a month for the comparison: those that begin in the window, *)
(* by the month in which they begin on the server's calendar.              *)
CompareMonth(zone) ==
    LET first == MonthStart(today, zone) - MonthLength
    IN  {b \in balances : /\ In(b.start, Month(first))
                          /\ MonthStart(b.start, zone) = first}

-----------------------------------------------------------------------------
MeteringTypeOK ==
    /\ home \in [Units -> Trafos \cup {NoTrafo}]
    /\ trafoReadings \subseteq [row : Trafos, at : Instants]
    /\ ucReadings \subseteq [unit : Units, row : Trafos, at : Instants]
    /\ \A b \in balances : b.row \in Trafos /\ b.start <= b.end
    /\ today \in Instants /\ moves \in 0 .. MaxMoves

(* A month of a transformer has one balance: whoever calculates it, with   *)
(* or without naming it, by hand, from a file or at night, it is the same. *)
OneBalancePerMonth ==
    \A b, c \in balances : b.row = c.row /\ b # c => b.end < c.start \/ c.end < b.start

(* Two balances of a transformer have an instant in common only if one of  *)
(* them is of a month of Brasilia and the other is not: however often and  *)
(* in whatever words a month is calculated again, there are at most two.   *)
OneBalancePerCalendar ==
    \A b, c \in balances :
        b.row = c.row /\ b # c /\ b.start <= c.end /\ c.start <= b.end =>
            WholeMonth([start |-> b.start, end |-> b.end])
                # WholeMonth([start |-> c.start, end |-> c.end])

(* A balance is of the readings of its month, those typed late included,   *)
(* but for months given by hand, and those read without recalculation or in*)
(* an offset, whose month need not be the balance's.                       *)
BalanceOfReadings ==
    \A b \in balances :
        WholeMonth([start |-> b.start, end |-> b.end])
            /\ <<b.row, b.start>> \notin behind =>
                   b = FromReadings(b.row, [start |-> b.start, end |-> b.end])

(* The consumption of a transformer is the same in its balance, in the list*)
(* of its consumers, in the histories of these and in the export, until a  *)
(* unit moves or is removed; a move changes no sum over all transformers.  *)
ConsumptionAgrees ==
    LET first == MonthStart(today, Brasilia)
        p == Month(first)
        total(t) == GetTotalByTransformerAndPeriod(t, p)
        top(t) == TopConsumers(t, p).total
        at(t) == {u \in Units : home[u] = t}
        all == Month(first - MonthLength)
    IN  /\ moves = 0 => \A t \in Trafos :
               /\ top(t) = total(t)
               /\ total(t) = Cardinality(ExportReadings("uc", {t}, p))
               /\ Server = Brasilia =>
                      total(t) = MapThenSumSet(
                          LAMBDA u : GetConsumptionHistory(u, 2)[first], at(t))
        /\ NoTrafo \notin {home[u] : u \in Units} =>
               MapThenSumSet(top, Trafos)
                   = Cardinality(ExportReadings("uc", Trafos, p))
        /\ \A t \in Trafos :
               LET s == TransformerSeries(t, all)
               IN  MapThenSumSet(LAMBDA m : s[m], DOMAIN s)
                       = AggregateByTransformerAndPeriod(t, all)

(* The month that a balance is shown under is the same for the managerial  *)
(* dashboard (the middle, in Brasilia), for the queries (the beginning, in *)
(* UTC) and for the comparison on a server of either zone.                 *)
MonthsAreNamedAlike ==
    /\ \A b \in balances :
           PeriodMonth(b) - Brasilia = MonthStart(b.start, UTC) - UTC
    /\ (\A b \in balances : WholeMonth([start |-> b.start, end |-> b.end])) =>
           \A zone \in {UTC, Brasilia} : \A b \in balances :
               b \in CompareMonth(zone)
                   <=> b.start - Brasilia = MonthStart(today, zone) - zone - MonthLength

=============================================================================
