-------------------------------- MODULE Risk --------------------------------
(***************************************************************************)
(* The risk score and the anomalies of one transformer (RiskUseCase and    *)
(* calc/risk.go), computed on request from its stored monthly balances.    *)
(*                                                                         *)
(* A month is the energy injected and consumed; energies are chosen so     *)
(* that the loss percentage is whole, and the rest is exact, over common   *)
(* denominators.  A balance older than the six months asked for leaves the *)
(* history (Window).                                                       *)
(***************************************************************************)
EXTENDS Integers, Sequences, SequencesExt, FiniteSetsExt

CONSTANTS
    Months,   \* what a month's balance may be: [inj : Nat, con : Nat]
    Trafos,   \* [limit, ucs, tech : Nat, plate : BOOLEAN]
    Window    \* the months that a query finds, LongestTrend at most

VARIABLES
    trafo,    \* the transformer: limit in percent, consuming units,
              \* technical loss of a month, whether it has nameplate data
    history   \* its balances in transformer_balance, oldest first

riskvars == <<trafo, history>>

RiskTypeOK ==
    /\ trafo \in Trafos
    /\ history \in Seq(Months) /\ Len(history) <= Window

RiskInit == trafo \in Trafos /\ history = << >>

(* The balance of the month that has just ended is calculated.             *)
CloseMonth(m) ==
    /\ history' = LET h == Append(history, m)
                  IN  IF Len(h) > Window THEN Tail(h) ELSE h
    /\ UNCHANGED trafo

(* UpsertForPeriod: a month is calculated again from other readings.       *)
Recalculated(k, m) ==
    /\ history' = [history EXCEPT ![k] = m]
    /\ UNCHANGED trafo

RiskNext ==
    \/ \E m \in Months : CloseMonth(m)
    \/ \E k \in DOMAIN history, m \in Months : Recalculated(k, m)

-----------------------------------------------------------------------------
(* Mutant of Fetched: the query orders by period_start ascending.          *)
FetchedAscending == history

(* What the repository returns, ORDER BY period_start DESC.                *)
Fetched == Reverse(history)

(* GetLatestByTransformer.                                                 *)
Latest == Last(history)

LossPct(m) == IF m.inj = 0 THEN 0 ELSE (100 * (m.inj - m.con)) \div m.inj

(* calculateNonTechnicalLoss.                                              *)
NonTechnical(m) == Max({0, m.inj - m.con - trafo.tech})

(* classifyStatus: the limit and 80 percent of it.                         *)
Status(m) ==
    IF LossPct(m) >= trafo.limit THEN "CRITICAL"
    ELSE IF 10 * LossPct(m) >= 8 * trafo.limit THEN "WARNING" ELSE "NORMAL"

(* The slope of the losses over their positions 0 .. n - 1 is Rise / Run.  *)
(* A month begins seven times at most between a day and that day six months*)
(* ago, so that the sums over the balances of the query have seven terms.  *)
LongestTrend == 7
SumOver(f(_), n) ==
    LET at(i) == IF i <= n THEN f(i) ELSE 0
    IN  at(1) + at(2) + at(3) + at(4) + at(5) + at(6) + at(7)
Rise(b) ==
    LET n == Len(b) IN
    n * SumOver(LAMBDA i : (i - 1) * LossPct(b[i]), n)
        - SumOver(LAMBDA i : i - 1, n) * SumOver(LAMBDA i : LossPct(b[i]), n)
Run(b) ==
    LET n == Len(b) IN
    n * SumOver(LAMBDA i : (i - 1) * (i - 1), n)
        - SumOver(LAMBDA i : i - 1, n) * SumOver(LAMBDA i : i - 1, n)

Trend ==
    IF Len(Fetched) < 3 THEN "STABLE"
    ELSE IF 2 * Rise(Fetched) > Run(Fetched) THEN "WORSENING"
    ELSE IF 2 * Rise(Fetched) < -Run(Fetched) THEN "IMPROVING" ELSE "STABLE"

-----------------------------------------------------------------------------
(* The factors, each a fraction [n, d] with d > 0.                         *)
Half == [n |-> 1, d |-> 2]

LossFactor ==
    [n |-> Min({LossPct(Latest), 2 * trafo.limit}), d |-> 2 * trafo.limit]

(* A half and a fifth of the slope, between 0 and 1.                       *)
TrendFactor ==
    LET d == 10 * Run(Fetched)
        n == 5 * Run(Fetched) + 2 * Rise(Fetched)
    IN  IF Trend = "STABLE" THEN Half
        ELSE [n |-> Max({0, Min({n, d})}), d |-> d]

UcFactor == [n |-> Min({trafo.ucs, 100}), d |-> 100]

(* Without nameplate data, or energy, the parts of the loss are unknown.   *)
TechFactor ==
    LET total == trafo.tech + NonTechnical(Latest)
    IN  IF trafo.plate /\ Latest.inj > 0 /\ total > 0
        THEN [n |-> NonTechnical(Latest), d |-> total]
        ELSE Half

(* The score is Points / Whole.  A stored balance has its calculated_at, so*)
(* the quality of the data is always worth its 10 of the 100 points.       *)
Points ==
    LET l == LossFactor  t == TrendFactor  u == UcFactor  c == TechFactor
    IN    40 * l.n * t.d * u.d * c.d + 25 * l.d * t.n * u.d * c.d
        + 15 * l.d * t.d * u.n * c.d + 10 * l.d * t.d * u.d * c.n
        + 10 * l.d * t.d * u.d * c.d
Whole == LossFactor.d * TrendFactor.d * UcFactor.d * TechFactor.d

Level ==
    IF Points >= 80 * Whole THEN "CRITICAL"
    ELSE IF Points >= 60 * Whole THEN "HIGH"
    ELSE IF Points >= 40 * Whole THEN "MEDIUM" ELSE "LOW"

-----------------------------------------------------------------------------
(* DetectAnomalies: nothing is said of fewer than two months.              *)
Spike(latest, previous) ==
    /\ LossPct(previous) > 0
    /\ 2 * (LossPct(latest) - LossPct(previous)) > LossPct(previous)

Drop(latest, previous) ==
    /\ previous.con > 0
    /\ 10 * (latest.con - previous.con) < -3 * previous.con

Inconsistent(latest) == latest.inj > 0 /\ latest.con > latest.inj

PersistentlyOver(b) ==
    Len(b) >= 3 /\ \A k \in DOMAIN b : LossPct(b[k]) >= trafo.limit

Anomalies ==
    IF Len(Fetched) < 2 THEN {}
    ELSE {a \in {"LOSS_SPIKE", "CONSUMPTION_DROP", "BALANCE_INCONSISTENCY",
                 "PERSISTENT_OVER_LIMIT"} :
             CASE a = "LOSS_SPIKE" -> Spike(Fetched[1], Fetched[2])
               [] a = "CONSUMPTION_DROP" -> Drop(Fetched[1], Fetched[2])
               [] a = "BALANCE_INCONSISTENCY" -> Inconsistent(Fetched[1])
               [] OTHER -> PersistentlyOver(Fetched)}

-----------------------------------------------------------------------------
(* The level never contradicts the loss, whatever the four other factors   *)
(* add up to: CRITICAL says that the month's status is CRITICAL too, and   *)
(* LOW that the loss is under one and a half times the limit.              *)
RiskFollowsLoss ==
    history # << >> =>
        /\ Level = "CRITICAL" => Status(Latest) = "CRITICAL"
        /\ Level = "LOW" => 2 * LossPct(Latest) < 3 * trafo.limit

(* The anomalies are those of the month that is scored: none is reported   *)
(* over the limit while the month is under it, and consumption above the   *)
(* energy injected is never reported with a loss too high.                 *)
AnomaliesFollowLoss ==
    history # << >> =>
        /\ "PERSISTENT_OVER_LIMIT" \in Anomalies
               => Status(Latest) = "CRITICAL"
        /\ "BALANCE_INCONSISTENCY" \in Anomalies
               => /\ Anomalies \cap {"LOSS_SPIKE", "PERSISTENT_OVER_LIMIT"} = {}
                  /\ Level # "CRITICAL" /\ Status(Latest) = "NORMAL"

(* Losses that only rise from month to month are not called an improvement.*)
TrendIsTrue ==
    (\A k \in 1 .. Len(history) - 1 : LossPct(history[k]) < LossPct(history[k + 1]))
        => Trend # "IMPROVING"

=============================================================================
