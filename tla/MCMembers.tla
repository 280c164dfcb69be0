------------------------------ MODULE MCMembers ------------------------------
(***************************************************************************)
(* Members for TLC in two settings, chosen at the start: operations one    *)
(* after the other, any of which may be cut off; and operations that       *)
(* overlap.  In two more, the gate that their requests pass: sessions and  *)
(* permissions (Access), and a bucket of the login limiter (RateLimit).    *)
(***************************************************************************)
EXTENDS Members, TLC

CONSTANTS founder, m1, m2, w1, w2, i1, i2
CONSTANTS TokenLife, RefreshLife, MaxTime, MaxChanges   \* of Access
CONSTANTS Rpm, Burst, BucketLife, MaxClock              \* of RateLimit

ThreeEmails == {founder, m1, m2}
TwoWorkers == {w1, w2}
TwoInvites == {i1, i2}

Symmetric == Permutations({m1, m2}) \cup Permutations(TwoWorkers)
             \cup Permutations(TwoInvites)

VARIABLES
    setting,
    account, issued, tenant, clock, held, changes,   \* of Access
    exists, tokens, lastUpdate, now, excess              \* of RateLimit
mcvars == <<vars, setting, account, issued, tenant, clock, held, changes,
            exists, tokens, lastUpdate, now, excess>>

Gate == INSTANCE Access WITH Never <- Nobody
Limiter == INSTANCE RateLimit WITH Idle <- BucketLife

ASSUME GateAssumption ==
    /\ Nobody \notin Int
    /\ TokenLife \in Nat /\ RefreshLife \in Nat
    /\ MaxTime \in Nat /\ MaxChanges \in Nat
(* For the login, 5 requests a minute and 3 at once, and a bucket that is  *)
(* dropped as soon as it can only be full.                                 *)
ASSUME LimiterAssumption == Limiter!Limits

(* Operations that overlap are fewer.                                      *)
MaxOverlapping == 4

NoGate ==
    /\ account = [role |-> "OWNER", active |-> TRUE]
    /\ tenant = [status |-> "TRIAL", until |-> Nobody]

MCInit ==
    /\ Init /\ Gate!Init /\ Limiter!Init
    /\ setting \in {"serial", "overlapping", "sessions", "limiter"}
    /\ serial = (setting = "serial")
    /\ setting # "sessions" => NoGate
MembersNext ==
    Next /\ (setting = "overlapping" => ops' <= MaxOverlapping)
MCNext ==
    /\ IF setting = "sessions" THEN Gate!Next
       ELSE UNCHANGED <<account, issued, tenant, clock, held,
                        changes>>
    /\ IF setting = "limiter" THEN Limiter!Next
       ELSE UNCHANGED <<exists, tokens, lastUpdate, now, excess>>
    /\ IF setting \in {"sessions", "limiter"} THEN UNCHANGED vars ELSE MembersNext
    /\ UNCHANGED setting
MCSpec == MCInit /\ [][MCNext]_mcvars

-----------------------------------------------------------------------------
(* A right ends with its last access token, and a session without rights   *)
(* with its last token; a blocked tenant sees nothing but its bills, at    *)
(* once and whether the job has run or not; roles and what they may grant  *)
(* nest.                                                                   *)
GateHolds ==
    /\ Gate!AccessTypeOK
    /\ Gate!RightsLapse /\ Gate!BlockedTenantsPay
    /\ Gate!JobShowsNowhere /\ Gate!RolesNest

(* The limiter lets no more through than burst and rate, however buckets   *)
(* are dropped, and serves who waits as long as it says.                   *)
LimitHolds ==
    Limiter!LimitTypeOK /\ Limiter!WithinBurst /\ Limiter!RetrySucceeds

=============================================================================
