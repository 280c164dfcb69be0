----------------------------- MODULE MCNetwork -----------------------------
(***************************************************************************)
(* The network of a tenant (Registry) and what is shown of it (Reports and *)
(* Listing), for TLC.  Registry runs in three settings, one operation after*)
(* the other, overlapping, and with consuming units; the views of monthly  *)
(* balances run in a fourth, `reports', where a small network is edited    *)
(* once while months go by.  In two more, readings are typed in and months *)
(* calculated (Metering), on a server in Brasilia and on one in UTC.       *)
(***************************************************************************)
EXTENDS Registry, MCMetering, TLC

CONSTANTS w1, w2, r1, r2, r3, s1, s2, u1, c1, c2, c3, C1, k1, k2

TwoWorkers == {w1, w2}
ThreeRows == {r1, r2, r3}
TwoSubs == {s1, s2}
OneUnit == {u1}
FourCodes == {c1, c2, c3, C1}
TwoSubCodes == {k1, k2}
UpperCase == [c \in FourCodes |-> IF c = c1 THEN C1 ELSE c]
Network == {"create", "batch", "update", "delete", "substation", "import"}

Symmetric == Permutations(TwoWorkers) \cup Permutations(ThreeRows)
             \cup Permutations(TwoSubs)

VARIABLES net, bal, now, edits  \* of Listing

mcvars == <<vars, meteringvars, net, bal, now, edits>>

Racing == INSTANCE Registry WITH MaxOps <- 3,
             Kinds <- Network \cup {"recode"}, MaxTransformers <- 0
Metered == INSTANCE Registry WITH MaxOps <- 4, MaxFile <- 1,
             Kinds <- {"import", "delete", "unit", "unitUpdate", "unitDelete",
                       "unitImport"}

(* Losses of 4, 8 and 16 percent, and a month without energy; a month ends *)
(* with a warning or over the limit, the others come when it is calculated *)
(* again.                                                                  *)
TwoTrafos == 1 .. 2
OneSub == {k1}
UsualMonths == [inj : {25}, con : {21, 23}]
SomeMonths == UsualMonths \cup {[inj |-> 25, con |-> 24], [inj |-> 0, con |-> 5]}

Re == INSTANCE Listing WITH
        Trafos <- TwoTrafos, Subs <- OneSub, Energies <- SomeMonths,
        Limits <- {5, 12}, Nil <- NoRow, TenantTariff <- 2, YearLength <- 2,
        QuarterLength <- 2, MaxAttention <- 1, MaxRecoverable <- 1, MaxMonth <- 4,
        MaxEdits <- 1, MaxPage <- 2, DefaultPage <- 2

UsualClose ==
    now' # now =>
    /\ \A t \in TwoTrafos :
        bal'[t][now] # Re!NoBalance /\ bal'[t][now] # bal[t][now] =>
            [inj |-> bal'[t][now].inj, con |-> bal'[t][now].con] \in UsualMonths
    /\ net[2].live /\ net[2].active => bal'[2][now] # Re!NoBalance
NoReports ==
    /\ net = [t \in TwoTrafos |-> [live |-> TRUE, limit |-> NoRow, sub |-> k1,
                                   active |-> TRUE, place |-> "none", tech |-> 1,
                                   kva |-> 75, updated |-> 0, alerted |-> FALSE]]
    /\ bal = [t \in TwoTrafos |-> [m \in Re!Months |-> Re!NoBalance]]
    /\ now = 1 /\ edits = 0

(* A reading of each kind and one more, in two months.                     *)
OneMeter == {1}
FewMoves == [metering |-> 1, meteringUtc |-> 0]
WithoutOffset == {"month", "default"}
AllRequests == WithoutOffset \cup {"offset"}

MCInit ==
    /\ Init /\ MeteringInit
    /\ scene \in {"serial", "racing", "metered", "reports",
                 "metering", "meteringUtc"}
    /\ serial = (scene = "serial")
    /\ typed = IF serial THEN {c1, c2, c3} ELSE {c1, c2, C1}
    /\ IF scene = "reports"
       THEN /\ Re!ReportsInit
            /\ net[2] = [net[1] EXCEPT !.sub = NoSub, !.tech = NoRow]
       ELSE NoReports
RegistryNext ==
    CASE scene = "serial" -> Next
      [] scene = "racing" -> Racing!Next
      [] scene = "metered" -> Metered!Next
MCNext ==
    /\ IF scene = "reports" THEN Re!ReportsNext /\ UsualClose
       ELSE UNCHANGED <<net, bal, now, edits>>
    /\ MeteringNext
    /\ IF scene \in {"reports"} \cup Metering THEN UNCHANGED vars
       ELSE RegistryNext
MCSpec == MCInit /\ [][MCNext]_mcvars

-----------------------------------------------------------------------------
(* The dashboards of the latest balances (KPIs, map, operational) count the*)
(* same transformers, cut their lists at the harmless end, and call what is*)
(* CRITICAL overloaded.                                                    *)
DashboardsAgree == scene = "reports" =>
    Re!ReportsTypeOK /\ Re!StatusesAgree /\ Re!WorstIsShown /\ Re!OverloadIsCritical

(* Parts add up to their totals, and figures that several routes compute   *)
(* (managerial, histories, ANEEL, PDF, comparison; and what is consumed in *)
(* a month) are the same figures.                                          *)
ReportsAddUp ==
    /\ scene = "reports" =>
           Re!ManagerialAddsUp /\ Re!HistoriesAgree /\ Re!PagesAgree
    /\ scene = "metering" => M!ConsumptionAgrees
    /\ scene = "meteringUtc" => MUtc!ConsumptionAgrees

(* The cached listing answers as the query does, and its pages are all of  *)
(* it, once.                                                               *)
ListingsAgree == scene = "reports" =>
    Re!PathsAgree /\ Re!PagesCover /\ Re!SubstationsAgree
=============================================================================
