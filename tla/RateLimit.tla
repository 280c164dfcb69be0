----------------------------- MODULE RateLimit -----------------------------
(***************************************************************************)
(* The bucket of one fingerprint in one RateLimiter (rate_limit.go).  Time *)
(* is in seconds and tokens in sixtieths, so that a second adds Rpm.       *)
(***************************************************************************)
EXTENDS Integers

CONSTANTS
    Rpm,       \* RequestsPerMinute
    Burst,
    Idle,      \* seconds after which cleanup drops a bucket (30 minutes)
    MaxClock   \* bound: the clock

Token == 60

(* What the five limiters of NewRateLimits and the cleanup have in common: *)
(* a bucket fills in less than the time after which it is dropped.         *)
Limits ==
    /\ Rpm \in Nat \ {0} /\ Burst \in Nat \ {0}
    /\ Idle \in Nat /\ MaxClock \in Nat
    /\ Rpm * Idle >= Burst * Token

VARIABLES
    exists,      \* whether the bucket is in the map
    tokens,
    lastUpdate,
    now,
    excess       \* history: over all stretches of time up to now, the most
                 \* that was granted beyond Rpm per minute

limitvars == <<exists, tokens, lastUpdate, now, excess>>

(* How much a stretch that ends now exceeds the rate: requests are granted,*)
(* and seconds pay for them; a stretch that is paid for is forgotten.      *)
Paid(n) == IF n < 0 THEN 0 ELSE n

Least(a, b) == IF a <= b THEN a ELSE b
(* Mutant of Refilled: the bucket is not capped.                           *)
RefilledWithoutEnd(t) == tokens + (t - lastUpdate) * Rpm
Refilled(t) == Least(tokens + (t - lastUpdate) * Rpm, Burst * Token)

Init ==
    /\ exists = FALSE /\ tokens = 0 /\ lastUpdate = 0 /\ now = 0 /\ excess = 0

Granted == excess' = excess + Token

AllowNew ==
    /\ ~exists
    /\ exists' = TRUE /\ tokens' = (Burst - 1) * Token
    /\ Granted

AllowKnown ==
    /\ exists /\ Refilled(now) >= Token
    /\ tokens' = Refilled(now) - Token
    /\ Granted /\ UNCHANGED exists

Refuse ==
    /\ exists /\ Refilled(now) < Token
    /\ tokens' = Refilled(now)
    /\ UNCHANGED <<exists, excess>>

Allow ==
    /\ AllowNew \/ AllowKnown \/ Refuse
    /\ lastUpdate' = now
    /\ UNCHANGED now

retryAfter == IF Rpm >= 60 THEN 1 ELSE 60 \div Rpm

cleanup ==
    /\ exists /\ now - lastUpdate > Idle
    /\ exists' = FALSE
    /\ UNCHANGED <<tokens, lastUpdate, now, excess>>

Tick ==
    /\ now < MaxClock /\ now' = now + 1
    /\ excess' = Paid(excess - Rpm)
    /\ UNCHANGED <<exists, tokens, lastUpdate>>

Next == Allow \/ cleanup \/ Tick
Spec == Init /\ [][Next]_limitvars

-----------------------------------------------------------------------------
LimitTypeOK ==
    /\ exists \in BOOLEAN /\ tokens \in 0 .. Burst * Token
    /\ now \in Nat /\ lastUpdate \in 0 .. now /\ excess \in Nat

(* In no stretch of t seconds, however the bucket was dropped and made anew*)
(* in it, are more than Burst + t * Rpm / 60 requests let through.         *)
WithinBurst == excess <= Burst * Token

(* Who waits for the seconds of Retry-After is let through, provided that  *)
(* a minute is a whole number of them (60, 30, 20 and 5 divide it) and that*)
(* nobody shares the bucket.                                               *)
RetrySucceeds ==
    exists /\ (60 % Rpm = 0 \/ Rpm >= 60) => Refilled(now + retryAfter) >= Token

(* What is granted and what the bucket would still grant are the burst.    *)
Credit ==
    IF exists THEN excess + Refilled(now) <= Burst * Token ELSE excess = 0

=============================================================================
