------------------------------ MODULE MCImports ------------------------------
(***************************************************************************)
(* Imports for TLC in three scenes, chosen at the start: one operation     *)
(* after the other, with whatever can fail or be cut off; the same when    *)
(* nothing fails and nothing is undone; and operations that overlap.  In a *)
(* fourth, the balances come month by month and Risk scores them.          *)
(***************************************************************************)
EXTENDS Imports, TLC

CONSTANTS a1, a2, i1, i2, i3, t1, t2, u1
CONSTANTS Months, Trafos, Window   \* of Risk

TwoAgents == {a1, a2}
ThreeImports == {i1, i2, i3}
TwoTrafo == {t1, t2}
OneUc == {u1}

Symmetric == Permutations(TwoAgents) \cup Permutations(ThreeImports)
             \cup Permutations(TwoTrafo)

VARIABLES scene, trafo, history

(* Losses below zero, none, at the warning, over the limit and far over it;*)
(* and a month for which no energy was recorded.                           *)
SomeMonths == [inj : {20}, con : {22, 20, 18, 17, 12, 8}]
              \cup {[inj |-> 0, con |-> 20]}
SomeTrafos == [limit : {10, 12}, ucs : {0, 100}, tech : {0, 3},
               plate : BOOLEAN]

R == INSTANCE Risk

(* A limit is positive (domain/validation.go).                             *)
ASSUME RiskAssumption ==
    /\ Months \subseteq [inj : Nat, con : Nat]
    /\ Trafos \subseteq [limit : Nat \ {0}, ucs : Nat, tech : Nat, plate : BOOLEAN]
    /\ Window \in 1 .. R!LongestTrend

mcvars == <<vars, scene, trafo, history>>

AtMost(n) == Cardinality({i \in Imports : imp'[i].status # "none"}) <= n

OneTrafo == trafo = [limit |-> 10, ucs |-> 0, tech |-> 0, plate |-> TRUE]

Everything == [options |-> {"retry", "delete", "recalculate", "skip"},
               serial |-> TRUE, steady |-> FALSE, prompt |-> TRUE]
SettingOf ==
    [serial      |-> Everything,
     steady      |-> [Everything EXCEPT !.options = {"retry", "recalculate"},
                                        !.steady = TRUE],
     overlapping |-> [Everything EXCEPT !.options = {"delete", "recalculate"},
                                        !.serial = FALSE, !.prompt = FALSE],
     retrying    |-> [Everything EXCEPT !.options = {"retry"},
                                        !.serial = FALSE, !.steady = TRUE],
     months      |-> Everything]

MCInit ==
    /\ Init /\ R!RiskInit
    /\ scene \in DOMAIN SettingOf \ {"retrying"} /\ setting = SettingOf[scene]
    /\ scene # "months" => OneTrafo
ImportsNext ==
    /\ Next
    /\ scene \in {"serial", "overlapping"} => AtMost(2)
MCNext ==
    /\ IF scene = "months" THEN R!RiskNext /\ UNCHANGED vars
       ELSE ImportsNext /\ UNCHANGED <<trafo, history>>
    /\ UNCHANGED scene
MCSpec == MCInit /\ [][MCNext]_mcvars

(* One import that nothing disturbs, retried more than once.               *)
RetrySpec == /\ Init /\ R!RiskInit /\ OneTrafo
             /\ scene = "retrying" /\ setting = SettingOf[scene]
             /\ [][/\ Next /\ AtMost(1)
                   /\ UNCHANGED <<scene, trafo, history>>]_mcvars

(* The balances of a transformer, month by month.                          *)
MonthsSpec == /\ Init /\ R!RiskInit
              /\ scene = "months" /\ setting = SettingOf[scene]
              /\ [][R!RiskNext /\ UNCHANGED <<vars, scene>>]_mcvars

-----------------------------------------------------------------------------
(* The level and the anomalies of a transformer never contradict its loss. *)
MonthsAreExplained ==
    /\ R!RiskTypeOK
    /\ scene = "months" => R!RiskFollowsLoss /\ R!AnomaliesFollowLoss

(* Losses that only rise from month to month are not called an improvement.*)
MonthsTrend == R!TrendIsTrue

=============================================================================
