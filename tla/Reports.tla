------------------------------- MODULE Reports -------------------------------
(***************************************************************************)
(* What the dashboards, reports and exports of one tenant say of the same  *)
(* rows: dashboard_usecase.go and dashboard_handler.go, report_ and        *)
(* export_usecase.go over balance_repository.go.  The state is the         *)
(* network and its monthly balances; every view is an operator of it.      *)
(*                                                                         *)
(* A month is a number, a year YearLength of them.  Energies are chosen so *)
(* that a loss percentage is whole; amounts of R$ are energy times tariff; *)
(* ratios of sums and their rounding are left out where both sides of a    *)
(* comparison take them of the same sums.                                  *)
(***************************************************************************)
EXTENDS Integers, FiniteSets, FiniteSetsExt, SequencesExt

CONSTANTS
    Trafos,         \* ids of transformers, in the order of their codes: Nat
    Subs, NoSub,    \* substations
    Energies,       \* what a month may be: [inj, con : Nat]
    Limits, Nil,    \* loss limits in percent; Nil: a column that is NULL
    TenantTariff,   \* R$ per kWh of the tenant, or Nil
    YearLength,     \* months of a year (12)
    QuarterLength,  \* months of a quarter (3)
    MaxAttention,   \* rows of the attention list (20)
    MaxRecoverable, \* rows of the ranking by recoverable value (10)
    MaxMonth,       \* bound: months
    MaxEdits        \* bound: changes of the network

VARIABLES
    net,    \* the transformers: live, limit, sub, active, place, tech,
            \* kva, updated, alerted (three alerts or more in 30 days)
    bal,    \* bal[t][m]: the balance of transformer t in month m
    now,    \* the current month
    edits   \* changes of the network so far

reportvars == <<net, bal, now, edits>>

NoBalance == [inj |-> 0, con |-> 0, tech |-> Nil, status |-> "NO_DATA",
              with |-> Nil]
Statuses == {"NORMAL", "WARNING", "CRITICAL", "NO_DATA"}
Months == 1 .. MaxMonth
Places == {"none", "zero", "located"}

ReportsTypeOK ==
    /\ net \in [Trafos -> [live : BOOLEAN, limit : Limits \cup {Nil},
                           sub : Subs \cup {NoSub}, active : BOOLEAN,
                           place : Places, tech : Nat \cup {Nil},
                           kva : Nat, updated : 0 .. MaxEdits,
                           alerted : BOOLEAN]]
    /\ \A t \in Trafos, m \in Months :
           /\ [inj |-> bal[t][m].inj, con |-> bal[t][m].con]
                  \in Energies \cup {[inj |-> 0, con |-> 0]}
           /\ bal[t][m].status \in Statuses
           /\ m > now => bal[t][m] = NoBalance
    /\ now \in Months /\ edits \in 0 .. MaxEdits

-----------------------------------------------------------------------------
(* The limit of a transformer, as the readers of the column resolve NULL.  *)
LossLimitPctValue(t) == IF net[t].limit # Nil THEN net[t].limit ELSE 10
limitOf(t) ==
    IF net[t].limit # Nil /\ net[t].limit > 0 THEN net[t].limit ELSE 10

Loss(b) == b.inj - b.con
LossPct(b) == IF b.inj = 0 THEN 0 ELSE (100 * Loss(b)) \div b.inj
ClassifyStatus(pct, limit) ==
    CASE pct >= limit -> "CRITICAL"
      [] pct < limit /\ 10 * pct >= 8 * limit -> "WARNING"
      [] OTHER -> "NORMAL"

(* buildBalance: without nameplate data, or without energy, the engine     *)
(* declines and the parts of the loss stay NULL.  `with' is not stored: it *)
(* is the limit that the status was decided with.                          *)
BuildBalance(t, e) ==
    [inj |-> e.inj, con |-> e.con,
     tech |-> IF e.inj > 0 THEN net[t].tech ELSE Nil,
     status |-> ClassifyStatus(LossPct(e), LossLimitPctValue(t)),
     with |-> LossLimitPctValue(t)]
NonTechnical(b) == IF b.tech = Nil THEN Nil ELSE Max({0, Loss(b) - b.tech})

ReportsInit ==
    /\ net \in [Trafos -> [live : {TRUE}, limit : {Nil}, sub : Subs \cup {NoSub},
                           active : {TRUE}, place : {"located"}, tech : {1, Nil},
                           kva : {75}, updated : {0}, alerted : {FALSE}]]
    /\ \A t, u \in Trafos : t < u => net[t].tech = 1 /\ net[t].sub # NoSub
    /\ bal = [t \in Trafos |-> [m \in Months |-> NoBalance]]
    /\ now = 1 /\ edits = 0

(* A month ends: the balances of its transformers that have readings.      *)
CloseMonth(e) ==
    /\ now < MaxMonth /\ now' = now + 1
    /\ bal' = [t \in Trafos |-> [bal[t] EXCEPT ![now] =
                  IF net[t].live /\ net[t].active /\ e[t] # Nil
                  THEN BuildBalance(t, e[t]) ELSE @]]
    /\ UNCHANGED <<net, edits>>

(* Readings of the current month, or corrected ones of an earlier one.     *)
CalculateBalance(t, m, e) ==
    /\ net[t].live /\ m <= now
    /\ edits < MaxEdits /\ edits' = edits + 1
    /\ bal' = [bal EXCEPT ![t][m] = BuildBalance(t, e)]
    /\ UNCHANGED <<net, now>>

Change(t, field, to) ==
    /\ net[t].live /\ net[t][field] # to
    /\ edits < MaxEdits /\ edits' = edits + 1
    /\ net' = [net EXCEPT ![t] = [@ EXCEPT ![field] = to, !.updated = edits']]
    /\ UNCHANGED <<bal, now>>
DeleteTransformer(t) == Change(t, "live", FALSE)
ChangeLimit(t, l) == Change(t, "limit", l)
MoveToSubstation(t, s) == Change(t, "sub", s)
SetActive(t, b) == Change(t, "active", b)
SetLocation(t, p) == Change(t, "place", p)
(* Alerts are recorded, or get older than 30 days.                         *)
RecurringAlerts(t, b) ==
    /\ net[t].live /\ net[t].alerted # b
    /\ edits < MaxEdits /\ edits' = edits + 1
    /\ net' = [net EXCEPT ![t].alerted = b]
    /\ UNCHANGED <<bal, now>>

ReportsNext ==
    \/ \E e \in [Trafos -> Energies \cup {Nil}] : CloseMonth(e)
    \/ \E t \in Trafos :
           \/ \E m \in Months, e \in Energies : CalculateBalance(t, m, e)
           \/ DeleteTransformer(t)
           \/ \E l \in Limits : ChangeLimit(t, l)
           \/ \E s \in Subs \cup {NoSub} : MoveToSubstation(t, s)
           \/ \E b \in BOOLEAN : SetActive(t, b) \/ RecurringAlerts(t, b)
           \/ \E p \in Places : SetLocation(t, p)

-----------------------------------------------------------------------------
(* Queries over transformer_balance.                                       *)

Sum(f(_), rows) == MapThenSumSet(f, rows)
Known(x) == IF x = Nil THEN 0 ELSE x

Stored(from, to) ==
    {r \in Trafos \X Months : /\ bal[r[1]][r[2]] # NoBalance
                              /\ from <= r[2] /\ r[2] <= to}
At(r) == bal[r[1]][r[2]]
TotalInjected(rows) == Sum(LAMBDA r : At(r).inj, rows)
TotalConsumption(rows) == Sum(LAMBDA r : At(r).con, rows)
TotalLoss(rows) == Sum(LAMBDA r : Loss(At(r)), rows)
TotalTechnical(rows) == Sum(LAMBDA r : Known(At(r).tech), rows)
TotalNonTechnical(rows) == Sum(LAMBDA r : Known(NonTechnical(At(r))), rows)

Live == {t \in Trafos : net[t].live}
HasBalance(t) == \E m \in Months : bal[t][m] # NoBalance
LastMonth(t) == Max({m \in Months : bal[t][m] # NoBalance})
(* DISTINCT ON (transformer_id) ... ORDER BY period_start DESC             *)
Latest(t) == IF HasBalance(t) THEN bal[t][LastMonth(t)] ELSE NoBalance

(* Joined with the transformers that are not removed.                      *)
ListRowsByTenantPeriod(from, to) ==
    {r \in Stored(from, to) : net[r[1]].live}

(* The groups of a query, and the sums of one: removed transformers count, *)
(* and the window reaches a whole year before the current month.           *)
GetMonthlyAggregatesByTenant(months) ==
    LET rows == Stored(now - months, now)
    IN  [m \in {r[2] : r \in rows} |->
            LET group == {r \in rows : r[2] = m}
            IN  [inj |-> TotalInjected(group), con |-> TotalConsumption(group),
                 loss |-> TotalLoss(group), tech |-> TotalTechnical(group),
                 pnt |-> TotalNonTechnical(group), count |-> Cardinality(group)]]
GetLossCompositionByTenant ==
    LET rows == Stored(now - YearLength, now)
    IN  [tech |-> TotalTechnical(rows), pnt |-> TotalNonTechnical(rows)]
QuarterOf(m) == (m - 1) \div QuarterLength
GetQuarterlyAggregatesByTenant ==
    LET rows == Stored(QuarterOf(now) * QuarterLength + 1 - YearLength, now)
    IN  [q \in {QuarterOf(r[2]) : r \in rows} |->
            LET group == {r \in rows : QuarterOf(r[2]) = q}
            IN  [inj |-> TotalInjected(group), con |-> TotalConsumption(group)]]
(* The window function adds a month to those before it.                    *)
GetAccumulatedLossCost(tariff) ==
    LET rows == Stored(now - YearLength, now)
    IN  [m \in {r[2] : r \in rows} |->
            [monthly |-> TotalLoss({r \in rows : r[2] = m}) * tariff,
             accumulated |-> TotalLoss({r \in rows : r[2] <= m}) * tariff]]
GetTransformerStatusCounts ==
    [s \in Statuses \ {"NO_DATA"} |->
        Cardinality({t \in Live : HasBalance(t) /\ Latest(t).status = s})]
GetTopTransformersByLoss(n) ==
    LET all == SetToSortSeq({t \in Live : HasBalance(t)},
                            LAMBDA t, u : LossPct(Latest(t)) > LossPct(Latest(u)))
    IN  SubSeq(all, 1, Min({n, Len(all)}))
(* AvgLossLimit, times the transformers it is the average of.              *)
SumLossLimit == Sum(LAMBDA t : limitOf(t), Live)

-----------------------------------------------------------------------------
(* The dashboards of the latest balances.                                  *)

CountStatus(s) == Cardinality({t \in Live : Latest(t).status = s})
Measured == {t \in Live : HasBalance(t)}

GetKPIs ==
    [total |-> Cardinality(Live),
     status |-> [s \in Statuses |-> CountStatus(s)],
     inj |-> Sum(LAMBDA t : Latest(t).inj, Measured),
     con |-> Sum(LAMBDA t : Latest(t).con, Measured),
     loss |-> Sum(LAMBDA t : Loss(Latest(t)), Measured),
     sumPct |-> Sum(LAMBDA t : LossPct(Latest(t)), Measured),
     n |-> Cardinality(Measured)]

GetTransformerStatusDistribution ==
    [status |-> [s \in Statuses |-> CountStatus(s)], total |-> Cardinality(Live)]

(* is_overloaded compares with the limit of today, the status was stored.  *)
GetTransformerCurrentStatus(t) ==
    [status |-> Latest(t).status,
     overloaded |-> HasBalance(t) /\ LossPct(Latest(t)) >= limitOf(t)]

(* A transformer is read in the months that it has balances of; no reading *)
(* in 35 days is none in this month and the one before.                    *)
LateReadings(t) == HasBalance(t) /\ LastMonth(t) < now - 1
StaleReadings(t) == ~HasBalance(t) \/ LateReadings(t)

Rank(s) == CASE s = "CRITICAL" -> 0 [] s = "WARNING" -> 1
             [] s = "NORMAL" -> 2 [] OTHER -> 3
(* Mutant of BuildMap: points are cut in the order of their codes.         *)
MapByCode(limit) ==
    LET located == {t \in Live : net[t].place = "located"}
        points == SetToSortSeq(located, LAMBDA t, u : t < u)
    IN  [total |-> Cardinality(Live),
         status |-> [s \in Statuses |-> CountStatus(s)],
         located |-> Cardinality(located),
         withoutLocation |-> Cardinality(Live \ located),
         points |-> SubSeq(points, 1, Min({limit, Len(points)}))]
(* The point (0, 0) is no location; past the limit the points are taken by *)
(* status, then late readings first, then by the use of the limit, then as *)
(* they were.                                                              *)
Urgent(t, u) ==
    LET a == Rank(Latest(t).status)  b == Rank(Latest(u).status)
    IN  a < b \/ (a = b /\ StaleReadings(t) /\ ~StaleReadings(u))
Before(t, u) ==
    LET use == LossPct(Latest(t)) * limitOf(u) - LossPct(Latest(u)) * limitOf(t)
    IN  \/ Urgent(t, u)
        \/ ~Urgent(u, t) /\ (use > 0 \/ (use = 0 /\ t < u))
BuildMap(limit) ==
    LET located == {t \in Live : net[t].place = "located"}
        ranked == IF Cardinality(located) > limit
                  THEN SetToSortSeq(located, Before)
                  ELSE SetToSortSeq(located, LAMBDA t, u : t < u)
    IN  [total |-> Cardinality(Live),
         status |-> [s \in Statuses |-> CountStatus(s)],
         located |-> Cardinality(located),
         withoutLocation |-> Cardinality(Live \ located),
         points |-> SubSeq(ranked, 1, Min({limit, Len(ranked)}))]

(* Here (0, 0) is a location.  Active transformers at the warning or over  *)
(* the limit, read late or alerted again and again need attention, those of*)
(* a status by their excess, which has a sense for the first two only.     *)
NeedsAttention(t) ==
    /\ net[t].active
    /\ \/ Latest(t).status \in {"CRITICAL", "WARNING"}
       \/ LateReadings(t) \/ net[t].alerted
BuildOperational ==
    LET excess(t) == IF Latest(t).status \in {"CRITICAL", "WARNING"}
                     THEN LossPct(Latest(t)) - limitOf(t) ELSE 0
        first(t, u) == LET a == Rank(Latest(t).status)  b == Rank(Latest(u).status)
                       IN  \/ a < b
                           \/ a = b /\ excess(t) > excess(u)
                           \/ a = b /\ excess(t) = excess(u) /\ t < u
        listed == SetToSortSeq({t \in Live : NeedsAttention(t)}, first)
    IN  [transformers |-> Cardinality(Live),
         withLocation |-> Cardinality({t \in Live : net[t].place # "none"}),
         status |-> [s \in Statuses |-> CountStatus(s)],
         aboveLimit |-> CountStatus("CRITICAL"),
         noBalance |-> Cardinality(Live \ Measured),
         stale |-> Cardinality({t \in Live : LateReadings(t)}),
         attention |-> SubSeq(listed, 1, Min({MaxAttention, Len(listed)})),
         evolution |-> GetMonthlyAggregatesByTenant(YearLength)]

-----------------------------------------------------------------------------
(* Money.  Excess, and what is computed of it, is in hundredths.           *)

Tariff(override) ==
    IF override \in 1 .. 10000 THEN override
    ELSE IF TenantTariff # Nil /\ TenantTariff > 0 THEN TenantTariff ELSE 450

(* Mutant of Excess: a limit that is not set is read as none.              *)
ExcessOfStored(b, t) == Max({0, 100 * Loss(b) - b.inj * Known(net[t].limit)})
Excess(b, t) == Max({0, 100 * Loss(b) - b.inj * limitOf(t)})

(* MonthFinance.add over rows.                                             *)
Finance(rows, tariff) ==
    LET excess == Sum(LAMBDA r : Excess(At(r), r[1]), rows)
    IN  [inj |-> TotalInjected(rows), con |-> TotalConsumption(rows),
         loss |-> TotalLoss(rows), excess |-> excess,
         cost |-> TotalLoss(rows) * tariff, revenue |-> TotalConsumption(rows) * tariff,
         recoverable |-> excess * tariff, transformers |-> Cardinality(rows)]

(* The current month and the eleven before it; the month that is shown is  *)
(* the last that has rows.  The projection is n / k of a year's months. The*)
(* ranking is cut; equal amounts come in any order.                        *)
BuildManagerial(tariff) ==
    LET rows == ListRowsByTenantPeriod(now - (YearLength - 1), now)
        months == {r[2] : r \in rows}
        last == Max(months)
        current == {r \in rows : r[2] = last}
        limit(t) == LossLimitPctValue(t)
        recoverable(r) == Max({0, 100 * Loss(At(r)) - At(r).inj * limit(r[1])})
        ranking == SetToSortSeq({r \in current : recoverable(r) > 0},
                       LAMBDA r, q : \/ recoverable(r) > recoverable(q)
                                     \/ /\ recoverable(r) = recoverable(q)
                                        /\ r[1] < q[1])
    IN  IF months = {} THEN [empty |-> TRUE]
        ELSE
        [empty |-> FALSE, month |-> last,
         series |-> [m \in months |-> Finance({r \in rows : r[2] = m}, tariff)],
         last12 |-> Finance(rows, tariff),
         yearToDate |-> Finance({r \in rows : (r[2] - 1) \div YearLength
                                              = (now - 1) \div YearLength}, tariff),
         bySubstation |-> [s \in {net[r[1]].sub : r \in current} |->
                  Finance({r \in current : net[r[1]].sub = s}, tariff)],
         top |-> [i \in 1 .. Min({MaxRecoverable, Len(ranking)}) |->
                     [trafo |-> ranking[i][1],
                      amount |-> recoverable(ranking[i]) * tariff]],
         criticalCost |-> tariff * TotalLoss(
                  {r \in current : At(r).status = "CRITICAL"})]

GetMonthlyLossHistory ==
    LET a == GetMonthlyAggregatesByTenant(YearLength)
    IN  [inj |-> Sum(LAMBDA m : a[m].inj, DOMAIN a),
         con |-> Sum(LAMBDA m : a[m].con, DOMAIN a),
         loss |-> Sum(LAMBDA m : a[m].loss, DOMAIN a),
         count |-> Sum(LAMBDA m : a[m].count, DOMAIN a)]

(* potential_savings: the excess of the sums over the average limit, times *)
(* the transformers it is the average of.                                  *)
GetKPISparklines(tariff) ==
    LET a == GetMonthlyAggregatesByTenant(YearLength)
        n == Cardinality(Live)
        limits == IF n = 0 THEN 10 ELSE SumLossLimit
        k == IF n = 0 THEN 1 ELSE n
    IN  [m \in DOMAIN a |->
            [cost |-> a[m].loss * tariff, revenue |-> a[m].con * tariff,
             savingsTimes |-> k,
             savings |-> Max({0, k * 100 * a[m].loss - a[m].inj * limits}) * tariff]]

GetLossEvolution ==
    LET a == GetMonthlyAggregatesByTenant(YearLength)
    IN  [m \in DOMAIN a |-> [loss |-> a[m].loss, tech |-> a[m].tech,
                             pnt |-> a[m].pnt, inj |-> a[m].inj]]

(* GET /dashboard/financial-table.                                         *)
GetFinancialTable(tariff) ==
    [t \in Measured |->
        LET b == Latest(t)
        IN  [loss |-> Loss(b), cost |-> Loss(b) * tariff, revenue |-> b.con * tariff,
             savings |-> Excess(b, t) * tariff]]

-----------------------------------------------------------------------------
(* Reports of a transformer: its balances since a year ago today, which is *)
(* after the beginning of the month a year ago.                            *)
GetByTransformerAndPeriod(t, from, to) ==
    {r \in Stored(from, to) : r[1] = t}

GetTransformerStats(t) ==
    LET rows == GetByTransformerAndPeriod(t, now - YearLength + 1, now)
        latest == Max({r[2] : r \in rows})
        before == {r \in rows : r[2] < latest}
        change == LossPct(bal[t][latest])
                      - LossPct(bal[t][Max({r[2] : r \in before})])
    IN  [inj |-> TotalInjected(rows), con |-> TotalConsumption(rows),
         loss |-> TotalLoss(rows), tech |-> TotalTechnical(rows),
         count |-> Cardinality(rows),
         critical |-> Cardinality({r \in rows : At(r).status = "CRITICAL"}),
         status |-> IF rows = {} THEN "NO_DATA" ELSE bal[t][latest].status,
         trend |-> IF rows = {} \/ before = {} THEN "UNKNOWN"
                   ELSE IF 2 * change > 1 THEN "UP"
                   ELSE IF 2 * change < -1 THEN "DOWN" ELSE "STABLE"]

(* The share of the loss that is not technical counts the whole loss, that *)
(* of months without nameplate data too.                                   *)
TransformerLossAnalysis(t) ==
    LET rows == GetByTransformerAndPeriod(t, now - (YearLength - 1), now)
        known == {r \in rows : At(r).tech # Nil}
    IN  [months |-> {r[2] : r \in rows},
         limit |-> LossLimitPctValue(t),
         stats |-> GetTransformerStats(t),
         share |-> IF known # {} /\ TotalLoss(rows) > 0
                   THEN <<TotalNonTechnical(rows), TotalLoss(rows)>> ELSE Nil]
LossInsights(t) ==
    LET a == TransformerLossAnalysis(t)
        critical == {m \in a.months : bal[t][m].status = "CRITICAL"}
    IN  IF a.months = {} THEN {"no balances"}
        ELSE {i \in {"over the limit", "non-technical", "rising"} :
                 CASE i = "over the limit" -> Cardinality(critical) >= 3
                   [] i = "non-technical" -> a.share # Nil
                                             /\ 2 * a.share[1] > a.share[2]
                   [] OTHER -> a.stats.trend = "UP"}

(* The summary of the PDF, over what ExportBalance loads by default.       *)
BuildBalancePDF(t) ==
    LET rows == GetByTransformerAndPeriod(t, now - YearLength + 1, now)
        last == bal[t][Max({r[2] : r \in rows})]
    IN  [inj |-> TotalInjected(rows), con |-> TotalConsumption(rows),
         loss |-> TotalLoss(rows), tech |-> TotalTechnical(rows),
         pnt |-> TotalNonTechnical(rows), months |-> Cardinality(rows),
         critical |-> Cardinality({r \in rows : At(r).status = "CRITICAL"}),
         status |-> last.status]

(* The workbook for the regulator: a summary, the rows, and the rows by    *)
(* substation and by month.  A year and the current month by default.      *)
ExportANEEL ==
    LET rows == ListRowsByTenantPeriod(now - YearLength, now)
        agg(group) == [inj |-> TotalInjected(group), con |-> TotalConsumption(group),
                       loss |-> TotalLoss(group), tech |-> TotalTechnical(group),
                       pnt |-> TotalNonTechnical(group)]
    IN  [summary |-> agg(rows), balances |-> Cardinality(rows),
         trafos |-> {r[1] : r \in rows},
         status |-> [s \in Statuses |-> Cardinality({r \in rows : At(r).status = s})],
         bySub |-> [s \in {net[r[1]].sub : r \in rows} |->
                       agg({r \in rows : net[r[1]].sub = s})],
         byMonth |-> [m \in {r[2] : r \in rows} |-> agg({r \in rows : r[2] = m})]]

(* Transformers with a balance in the month or in the one before; the same *)
(* month of last year is compared for these only.                          *)
Comparative(cur) ==
    LET rows == ListRowsByTenantPeriod(cur - YearLength, cur)
        in(t, m) == <<t, m>> \in rows
        shown == {t \in {r[1] : r \in rows} : in(t, cur) \/ in(t, cur - 1)}
        of(m) == {r \in rows : r[1] \in shown /\ r[2] = m}
        delta(t) == LossPct(bal[t][cur]) - LossPct(bal[t][cur - 1])
        both == {t \in shown : in(t, cur) /\ in(t, cur - 1)}
    IN  [rows |-> [t \in shown |-> IF in(t, cur) THEN bal[t][cur].status ELSE "NO_DATA"],
         current |-> of(cur), previous |-> of(cur - 1), lastYear |-> of(cur - YearLength),
         improved |-> {t \in both : 10 * delta(t) < -1},
         worsened |-> {t \in both : 10 * delta(t) > 1}]

-----------------------------------------------------------------------------
(* What every dashboard says of the transformers as they are now: one count*)
(* of each status, one sum of the losses, whatever was recalculated, moved,*)
(* switched off, relocated or removed.                                     *)
StatusesAgree ==
    LET kpis == GetKPIs
        map == BuildMap(1)
        operational == BuildOperational
        counts == GetTransformerStatusCounts
        table == GetFinancialTable(1)
    IN  /\ kpis.status = GetTransformerStatusDistribution.status
        /\ kpis.status = map.status
        /\ kpis.status = operational.status
        /\ \A s \in DOMAIN counts : counts[s] = kpis.status[s]
        /\ Sum(LAMBDA s : kpis.status[s], Statuses) = kpis.total
        /\ operational.noBalance = kpis.status["NO_DATA"]
        /\ kpis.loss = Sum(LAMBDA t : table[t].loss, DOMAIN table)
        /\ Len(GetTopTransformersByLoss(Cardinality(Trafos))) = kpis.n
        /\ map.located + map.withoutLocation = kpis.total

(* A list that is cut keeps what is worst: on the map nothing is left out  *)
(* that is worse in status, or as bad and read late, than what is shown;   *)
(* the attention list leaves nobody out who needs attention while it has   *)
(* room, and nobody worse in status than it shows.                         *)
WorstIsShown ==
    LET shown == BuildMap(1).points
        listed == BuildOperational.attention
        worse(t, u) == Rank(Latest(t).status) < Rank(Latest(u).status)
    IN  /\ \A t \in Live : net[t].place = "located" =>
               \A i \in DOMAIN shown : ~Urgent(t, shown[i])
        /\ \A t \in Live : NeedsAttention(t) =>
               \/ t \in ToSet(listed)
               \/ /\ Len(listed) = MaxAttention
                  /\ \A i \in DOMAIN listed : ~worse(t, listed[i])

(* A transformer is called overloaded when its latest balance is CRITICAL  *)
(* and only then, unless its limit was changed since.                      *)
OverloadIsCritical ==
    \A t \in Live :
        HasBalance(t) /\ Latest(t).with = LossLimitPctValue(t) =>
            (GetTransformerCurrentStatus(t).overloaded
                <=> Latest(t).status = "CRITICAL")

(* The managerial dashboard adds up: its months to the year, the month it  *)
(* shows to its substations and to the savings that the table of the latest*)
(* balances shows for it; its ranking is what of these is largest.         *)
ManagerialAddsUp ==
    LET d == BuildManagerial(Tariff(0)) IN
    ~d.empty =>
        LET cur == d.series[d.month]
            parts == DOMAIN d.bySubstation
            table == GetFinancialTable(Tariff(0))
            measured == {t \in Measured : LastMonth(t) = d.month}
            shown == {d.top[i].trafo : i \in DOMAIN d.top}
        IN  /\ cur.cost = Sum(LAMBDA s : d.bySubstation[s].cost, parts)
            /\ cur.recoverable = Sum(LAMBDA s : d.bySubstation[s].recoverable, parts)
            /\ cur.recoverable = Sum(LAMBDA t : table[t].savings, measured)
            /\ \A i \in DOMAIN d.top :
                   d.top[i].amount = table[d.top[i].trafo].savings
            /\ \A t \in measured \ shown : table[t].savings > 0 =>
                   /\ Len(d.top) = MaxRecoverable
                   /\ \A i \in DOMAIN d.top : table[t].savings <= d.top[i].amount
            /\ d.last12.recoverable =
                   Sum(LAMBDA m : d.series[m].recoverable, DOMAIN d.series)
            /\ d.yearToDate.loss = Sum(LAMBDA m : d.series[m].loss,
                   {m \in DOMAIN d.series : (m - 1) \div YearLength
                                            = (now - 1) \div YearLength})

(* While no transformer is removed, the monthly queries, which count those *)
(* too, agree with the reports, which do not: month by month, in total, by *)
(* quarter and accumulated; and with one limit for all, the savings of the *)
(* aggregate never exceed what is recoverable from the transformers.       *)
HistoriesAgree ==
    (\A t \in Trafos : net[t].live) =>
        LET a == GetMonthlyAggregatesByTenant(YearLength)
            aneel == ExportANEEL
            cost == GetAccumulatedLossCost(1)
            d == BuildManagerial(1)
            spark == GetKPISparklines(1)
            q == GetQuarterlyAggregatesByTenant
            history == GetMonthlyLossHistory
            evolution == GetLossEvolution
        IN  /\ DOMAIN a = DOMAIN aneel.byMonth
            /\ \A m \in DOMAIN a : /\ a[m].loss = aneel.byMonth[m].loss
                                   /\ a[m].pnt = aneel.byMonth[m].pnt
                                   /\ cost[m].monthly = a[m].loss
                                   /\ evolution[m].tech = a[m].tech
            /\ aneel.summary.loss = history.loss
            /\ aneel.summary.loss = Sum(LAMBDA s : aneel.bySub[s].loss,
                                        DOMAIN aneel.bySub)
            /\ aneel.summary.pnt = GetLossCompositionByTenant.pnt
            /\ DOMAIN a # {} =>
                   /\ cost[Max(DOMAIN a)].accumulated = history.loss
                   /\ Sum(LAMBDA k : q[k].inj, DOMAIN q) >= Sum(LAMBDA m :
                          a[m].inj, {m \in DOMAIN a : m > now - YearLength})
            /\ ~d.empty => \A m \in DOMAIN d.series :
                   /\ d.series[m].loss = a[m].loss
                   /\ (\A t, u \in Trafos : limitOf(t) = limitOf(u)) =>
                          spark[m].savings <= spark[m].savingsTimes
                                                  * d.series[m].recoverable

(* The pages of the transformers say together what the dashboards of the   *)
(* tenant say: the losses of their statistics and of their PDFs add up to  *)
(* those of the last twelve months, their status is the current one until  *)
(* it is a year old, and one whose losses rise from the month before to    *)
(* this one has got worse in the comparison of the two.                    *)
PagesAgree ==
    LET d == BuildManagerial(1)
        c == Comparative(now)
        stats(t) == GetTransformerStats(t)
    IN  /\ (IF d.empty THEN 0 ELSE d.last12.loss)
               = Sum(LAMBDA t : stats(t).loss, Live)
        /\ ~d.empty => d.last12.loss = Sum(LAMBDA t : BuildBalancePDF(t).loss,
                                           {t \in Live : stats(t).count > 0})
        /\ \A t \in Live :
               /\ stats(t).status = IF HasBalance(t) /\ LastMonth(t) > now - YearLength
                                    THEN GetTransformerCurrentStatus(t).status
                                    ELSE "NO_DATA"
               /\ {<<t, now>>, <<t, now - 1>>} \subseteq c.current \cup c.previous =>
                      /\ "rising" \in LossInsights(t) => t \in c.worsened
                      /\ stats(t).trend = "DOWN" => t \in c.improved
        /\ TotalLoss(c.current) = IF ~d.empty /\ d.month = now
                                  THEN d.series[now].loss ELSE 0

=============================================================================
