----------------------------- MODULE MCMetering -----------------------------
(***************************************************************************)
(* Metering in two settings, fixed by the start: on a server in Brasilia,  *)
(* asked for months by name or by default, and on one in UTC, as the image *)
(* and fly.toml leave it, which may also be sent readings with an offset.  *)
(* MCNetwork runs both among its own settings, in which nothing is metered.*)
(***************************************************************************)
EXTENDS Integers, FiniteSets

CONSTANTS Transformers, Meters, NoTransformer, Horizon,
          MaxReadings,  \* bound: readings of each kind
          MaxTyped,     \* bound: readings of both kinds
          MaxManual,    \* bound: balances given by hand
          UtcRequests,  \* what the server in UTC is asked for
          Moves         \* bound: units moved or removed, in each setting

ASSUME MeteringAssumption ==
    /\ Transformers # {} /\ NoTransformer \notin Transformers
    /\ Horizon \in Nat \ {0}
    /\ UtcRequests \subseteq {"month", "default", "offset"}
    /\ Moves \in [{"metering", "meteringUtc"} -> Nat]

VARIABLES
    scene,  \* what this behaviour runs
    home, trafoReadings, ucReadings, balances, today, behind, moves

M == INSTANCE Metering WITH
        Trafos <- Transformers, Units <- Meters, NoTrafo <- NoTransformer,
        Server <- 1, Requests <- {"month", "default"}, MaxMoves <- Moves["metering"]
MUtc == INSTANCE Metering WITH
        Trafos <- Transformers, Units <- Meters, NoTrafo <- NoTransformer,
        Server <- 0, Requests <- UtcRequests, MaxMoves <- Moves["meteringUtc"]

Metering == {"metering", "meteringUtc"}
meteringvars == <<scene, home, trafoReadings, ucReadings, balances, today, behind,
                  moves>>

FewReadings ==
    /\ Cardinality(trafoReadings') + Cardinality(ucReadings') <= MaxTyped
    /\ Cardinality({b \in balances' : b.manual}) <= MaxManual

MeteringInit ==
    /\ M!Init
    /\ home = [u \in Meters |-> CHOOSE t \in Transformers : TRUE]
MeteringNext ==
    /\ \/ scene = "metering" /\ M!Next /\ FewReadings
       \/ scene = "meteringUtc" /\ MUtc!Next /\ FewReadings
       \/ scene \notin Metering /\ UNCHANGED meteringvars
    /\ UNCHANGED scene
MeteringSpec == MeteringInit /\ [][MeteringNext]_meteringvars

-----------------------------------------------------------------------------
(* Whoever calculates a month, when and in whatever words, it has one      *)
(* balance on a server in Brasilia, and on one in UTC at most one of each  *)
(* calendar; a balance of a month of Brasilia is of the readings of that   *)
(* month and no other, and every view that shows it under a month names the*)
(* same one.                                                               *)
MonthsAreMetered ==
    /\ scene = "metering" =>
           /\ M!MeteringTypeOK /\ M!OneBalancePerMonth
           /\ M!BalanceOfReadings /\ M!MonthsAreNamedAlike
    /\ scene # "metering" =>
           /\ MUtc!MeteringTypeOK /\ MUtc!OneBalancePerCalendar
           /\ MUtc!BalanceOfReadings /\ MUtc!MonthsAreNamedAlike

(* `recalculations do not duplicate history' (balance_repository.go:556),  *)
(* of the server as it is deployed, with no time zone set.                 *)
RecalculationsReplace == scene = "meteringUtc" => MUtc!OneBalancePerMonth
=============================================================================
