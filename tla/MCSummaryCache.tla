--------------------------- MODULE MCSummaryCache ---------------------------
(***************************************************************************)
(* SummaryCache for TLC in three settings, chosen at the start: one tenant *)
(* whose loads fail and whose writes race them, two tenants under global   *)
(* invalidations, and one tenant over a longer time; and, in a fourth, the *)
(* other cache of the program, of reference tariffs.                       *)
(***************************************************************************)
EXTENDS SummaryCache, TLC

CONSTANTS t1, t2, p1, p2, w1
CONSTANTS Callers, LineSets, CacheTTL, NoEnd, MaxPublished, Horizon  \* of Tariffs

TwoTenants == {t1, t2}
TwoRequests == {p1, p2}
OneWriter == {w1}
AllWrites == {"plain", "global", "tx"}

Symmetric == Permutations(TwoRequests)

VARIABLES setting, published, entry, call, told, clock
mcvars == <<vars, setting, published, entry, call, told, clock>>

(* What a setting leaves out.                                              *)
OneTenant ==
    /\ \A p \in Requests : req'[p].tenant = Idle.tenant
    /\ \A w \in Writers : writer'[w].tenant = Rested.tenant
OneWrite ==
    \A w \in Writers : writer[w].at = "idle" /\ writer'[w].at # "idle"
                           => data[writer'[w].tenant] = 0
GoodLoads == \A p \in Requests : req'[p].at = "publish" => ~req'[p].value.err

Racing == OneTenant /\ now' = 0 /\ \A w \in Writers : ~writer'[w].global
Shared ==
    /\ OneWrite /\ GoodLoads /\ now' = 0
    /\ \A p \in Requests : req'[p].outer = 0 /\ req'[p].key = "summaries"
    /\ \A w \in Writers : writer'[w].at # "commit"
Aging == OneTenant /\ OneWrite /\ GoodLoads

(* Resolutions of up to two lines, in an entry's life and two days.        *)
Plain == [class |-> "plain", price |-> 3]
Detail == [class |-> "detail", price |-> 2]
Rural == [class |-> "rural", price |-> 1]
SomeLines == {{Plain, Detail}, {Detail, Rural}, {Rural}}

Line == [class : {"plain", "detail", "rural"}, price : Nat]
ASSUME TariffAssumption ==
    /\ CacheTTL \in Nat /\ MaxPublished \in Nat /\ Horizon \in Nat
    /\ NoEnd \in Nat /\ NoEnd > Horizon
    /\ \A lines \in LineSets : lines # {} /\ lines \subseteq Line

T == INSTANCE Tariffs

MCInit ==
    /\ Init /\ T!TariffInit
    /\ setting \in {"racing", "shared", "aging", "tariffs"}
    /\ short = (setting = "aging")
CacheNext ==
    /\ Next
    /\ CASE setting = "racing" -> Racing
         [] setting = "shared" -> Shared
         [] setting = "aging" -> Aging
MCNext ==
    /\ IF setting = "tariffs" THEN UNCHANGED vars /\ T!TariffNext
       ELSE CacheNext /\ UNCHANGED <<published, entry, call, told, clock>>
    /\ UNCHANGED setting
MCSpec == MCInit /\ [][MCNext]_mcvars

-----------------------------------------------------------------------------
(* A reference tariff that is told was in force at most one entry's life   *)
(* ago, whichever requests overlap and fail.                               *)
TariffsAreRecent == T!TariffTypeOK /\ T!TariffWasInForce

=============================================================================
