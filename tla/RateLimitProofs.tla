-------------------------- MODULE RateLimitProofs --------------------------
(***************************************************************************)
(* Proofs about RateLimit, for any rate, burst and idle time that fit      *)
(* together (Limits).  WithinBurst does not say what the bucket still      *)
(* holds, so the induction goes over Credit: granted and held together are *)
(* never more than the burst.                                              *)
(***************************************************************************)
EXTENDS RateLimit, TLAPS

IInv == LimitTypeOK /\ Credit

(* A bucket left alone for d + 1 seconds holds Rpm more than after d.      *)
LEMMA OneMoreSecond ==
    ASSUME NEW r \in Nat, NEW d \in Nat
    PROVE  /\ d * r \in Nat
           /\ (d + 1) * r = d * r + r
<1>1. d * r \in Nat
  BY SMT
<1>2. (d + 1) * r = d * r + r
  BY SMT
<1>3. QED
  BY <1>1, <1>2

(* The longer the wait, the more is filled in.                             *)
LEMMA LongerFillsMore ==
    ASSUME NEW r \in Nat, NEW d \in Nat, NEW e \in Nat, e <= d
    PROVE  e * r <= d * r
<1>1. PICK k \in Nat : d = e + k
  BY SMT
<1>2. d * r = e * r + k * r
  BY <1>1, SMT
<1>3. k * r \in Nat /\ e * r \in Nat
  BY SMT
<1>4. QED
  BY <1>2, <1>3, SMT

(* What a bucket holds is a number of tokens within the burst.             *)
LEMMA RefilledType ==
    ASSUME Limits, NEW t \in Nat, lastUpdate \in Nat, lastUpdate <= t,
           tokens \in 0 .. Burst * Token
    PROVE  Refilled(t) \in 0 .. Burst * Token
<1>1. t - lastUpdate \in Nat /\ Rpm \in Nat /\ Burst * Token \in Nat
  BY SMT DEF Limits, Token
<1>2. (t - lastUpdate) * Rpm \in Nat
  BY <1>1, OneMoreSecond
<1>3. QED
  BY <1>1, <1>2, SMT DEF Refilled, Least

(* The map is empty and nothing has been granted.                          *)
LEMMA InitHolds == ASSUME Limits, Init PROVE IInv
<1>1. Burst * Token \in Nat
  BY SMT DEF Limits, Token
<1>2. 0 \in 0 .. Burst * Token
  BY <1>1, SMT
<1>3. LimitTypeOK
  <2>1. exists \in BOOLEAN /\ tokens \in 0 .. Burst * Token
    BY <1>2 DEF Init
  <2>2. now \in Nat /\ lastUpdate \in 0 .. now /\ excess \in Nat
    BY SMT DEF Init
  <2>3. QED
    BY <2>1, <2>2 DEF LimitTypeOK
<1>4. Credit
  BY DEF Init, Credit
<1>5. QED
  BY <1>3, <1>4 DEF IInv

(* Every request, removal and second keeps the types and the credit.       *)
LEMMA NextKeeps ==
    ASSUME Limits, IInv, [Next]_limitvars
    PROVE  IInv'
<1> DEFINE full == Burst * Token
<1> USE DEF IInv
<1>1. /\ Rpm \in Nat /\ Rpm > 0 /\ Burst \in Nat /\ Burst > 0
      /\ full \in Nat /\ full >= Token /\ (Burst - 1) * Token = full - Token
  BY SMT DEF Limits, Token
<1>2. now \in Nat /\ lastUpdate \in Nat /\ lastUpdate <= now
      /\ tokens \in Nat /\ tokens <= full /\ excess \in Nat
  BY SMT DEF LimitTypeOK
<1>3. Refilled(now) \in Nat /\ Refilled(now) <= full
  BY <1>1, <1>2, RefilledType, SMT DEF LimitTypeOK
<1>4. CASE Allow
  <2>1. lastUpdate' = now /\ now' = now
    BY <1>4 DEF Allow
  <2>2. ASSUME tokens' \in Nat, tokens' <= full
        PROVE  Refilled(now)' = tokens'
    <3>1. (now' - lastUpdate') * Rpm' = 0
      BY <1>1, <1>2, <2>1, SMT
    <3>2. QED
      BY <1>1, <2>2, <3>1, SMT DEF Refilled, Least, Token
  <2>3. CASE AllowNew
    <3>1. /\ exists' = TRUE /\ tokens' = full - Token
          /\ excess' = Token
      BY <2>3, <1>1, <1>2, SMT DEF AllowNew, Granted, Credit, Token
    <3>2. tokens' \in Nat /\ tokens' <= full
      BY <1>1, <3>1, SMT DEF Token
    <3>3. Credit'
      BY <1>1, <2>2, <3>1, <3>2, SMT DEF Credit, Token
    <3>4. LimitTypeOK'
      BY <1>1, <1>2, <2>1, <3>1, <3>2, SMT DEF LimitTypeOK, Token
    <3>5. QED
      BY <3>3, <3>4
  <2>4. CASE AllowKnown
    <3>1. /\ exists' /\ exists' \in BOOLEAN /\ tokens' = Refilled(now) - Token
          /\ excess' = excess + Token /\ excess + Refilled(now) <= full
          /\ Refilled(now) >= Token
      BY <2>4, <1>2 DEF AllowKnown, Granted, Credit, LimitTypeOK
    <3>2. tokens' \in Nat /\ tokens' <= full
      BY <1>1, <1>3, <3>1, SMT DEF Token
    <3>3. Credit'
      BY <1>1, <1>2, <1>3, <2>2, <3>1, <3>2, SMT DEF Credit, Token
    <3>4. LimitTypeOK'
      BY <1>1, <1>2, <2>1, <3>1, <3>2, SMT DEF LimitTypeOK, Token
    <3>5. QED
      BY <3>3, <3>4
  <2>5. CASE Refuse
    <3>1. /\ exists' /\ exists' \in BOOLEAN /\ tokens' = Refilled(now)
          /\ excess' = excess /\ excess + Refilled(now) <= full
      BY <2>5, <1>2 DEF Refuse, Credit, LimitTypeOK
    <3>2. Credit'
      BY <1>1, <1>2, <1>3, <2>2, <3>1, SMT DEF Credit
    <3>3. LimitTypeOK'
      BY <1>1, <1>2, <1>3, <2>1, <3>1, SMT DEF LimitTypeOK
    <3>4. QED
      BY <3>2, <3>3
  <2>6. QED
    BY <1>4, <2>3, <2>4, <2>5 DEF Allow
<1>5. CASE cleanup
  <2>1. /\ exists /\ ~exists' /\ exists' \in BOOLEAN
        /\ now - lastUpdate > Idle /\ Idle \in Nat
        /\ tokens' = tokens /\ lastUpdate' = lastUpdate /\ now' = now
        /\ excess' = excess
    BY <1>5 DEF cleanup, Limits
  <2>2. Idle * Rpm <= (now - lastUpdate) * Rpm
    <3>1. now - lastUpdate \in Nat /\ Idle <= now - lastUpdate
      BY <1>2, <2>1, SMT
    <3>2. QED
      BY <1>1, <2>1, <3>1, LongerFillsMore
  <2>3. Idle * Rpm = Rpm * Idle /\ Rpm * Idle >= full
    BY <1>1, <2>1, SMT DEF Limits
  <2>4. Refilled(now) = full
    <3> DEFINE filled == (now - lastUpdate) * Rpm
    <3>1. now - lastUpdate \in Nat
      BY <1>2, SMT
    <3>2. filled \in Nat
      BY <1>1, <3>1, OneMoreSecond
    <3>3. filled >= full
      <4>1. Idle * Rpm \in Nat
        BY <1>1, <2>1, OneMoreSecond
      <4>2. QED
        BY <1>1, <2>2, <2>3, <3>2, <4>1, SMT
    <3>4. Refilled(now) = Least(tokens + filled, full)
      BY DEF Refilled
    <3> HIDE DEF filled, full
    <3>5. QED
      BY <1>1, <1>2, <3>2, <3>3, <3>4, SMT DEF Least
  <2>5. excess = 0
    <3>1. excess + Refilled(now) <= full
      BY <2>1 DEF Credit
    <3> HIDE DEF full
    <3>2. QED
      BY <1>1, <1>2, <2>4, <3>1, SMT
  <2>6. QED
    BY <1>2, <2>1, <2>5, SMT DEF Credit, LimitTypeOK
<1>6. CASE Tick
  <2>1. /\ exists' = exists /\ tokens' = tokens /\ lastUpdate' = lastUpdate
        /\ now' = now + 1 /\ excess' = Paid(excess - Rpm)
    BY <1>6 DEF Tick
  <2>2. excess' \in Nat /\ (excess' = 0 \/ excess' = excess - Rpm)
    BY <1>1, <1>2, <2>1, SMT DEF Paid
  <2>3. LimitTypeOK'
    BY <1>2, <2>1, <2>2, SMT DEF LimitTypeOK
  <2>4. /\ Refilled(now)' \in Nat /\ Refilled(now)' <= full
        /\ Refilled(now)' <= Refilled(now) + Rpm
    <3> DEFINE d == now - lastUpdate
               filled == d * Rpm
    <3>1. d \in Nat /\ now' - lastUpdate' = d + 1
      BY <1>2, <2>1, SMT
    <3>2. filled \in Nat /\ (d + 1) * Rpm = filled + Rpm
      BY <1>1, <3>1, OneMoreSecond
    <3>3. Refilled(now)' = Least(tokens + (filled + Rpm), full)
      BY <2>1, <3>1, <3>2 DEF Refilled, Token
    <3>4. Refilled(now) = Least(tokens + filled, full)
      BY DEF Refilled
    <3> HIDE DEF filled, full
    <3>5. QED
      BY <1>1, <1>2, <3>2, <3>3, <3>4, SMT DEF Least
  <2>5. CASE exists
    <3>1. excess + Refilled(now) <= full
      BY <2>5 DEF Credit
    <3>2. excess' + Refilled(now)' <= full
      <4> HIDE DEF full
      <4>1. QED
        BY <1>1, <1>2, <1>3, <2>2, <2>4, <3>1, SMT
    <3>3. Credit'
      BY <2>1, <2>5, <3>2 DEF Credit
    <3>4. QED
      BY <2>3, <3>3
  <2>6. CASE ~exists
    BY <1>1, <1>2, <2>1, <2>2, <2>3, <2>6, SMT DEF Credit
  <2>7. QED
    BY <2>5, <2>6
<1>7. CASE UNCHANGED limitvars
  BY <1>7 DEF limitvars, LimitTypeOK, Credit, Refilled, Least, Token
<1>8. QED
  BY <1>4, <1>5, <1>6, <1>7 DEF Next

(* What was granted fits in the burst, whether there is a bucket or not.   *)
LEMMA InvBoundsBurst == ASSUME Limits, IInv PROVE WithinBurst
<1>1. CASE exists
  <2>1. Refilled(now) \in 0 .. Burst * Token
    BY RefilledType, SMT DEF IInv, LimitTypeOK
  <2>2. QED
    BY <1>1, <2>1, SMT DEF IInv, LimitTypeOK, Credit, WithinBurst, Limits, Token
<1>2. CASE ~exists
  BY <1>2, SMT DEF IInv, Credit, WithinBurst, Limits, Token
<1>3. QED
  BY <1>1, <1>2

(* The bucket has a token for whoever has waited.                          *)
LEMMA InvServesWaiting == ASSUME Limits, IInv PROVE RetrySucceeds
<1> SUFFICES ASSUME exists, 60 % Rpm = 0 \/ Rpm >= 60
             PROVE  Refilled(now + retryAfter) >= Token
  BY DEF RetrySucceeds
<1> DEFINE full == Burst * Token
           d == now - lastUpdate
<1>1. /\ Rpm \in Nat /\ Rpm > 0 /\ full \in Nat /\ full >= Token
      /\ tokens \in Nat /\ d \in Nat /\ now \in Nat /\ lastUpdate \in Nat
  BY SMT DEF Limits, IInv, LimitTypeOK, Token
<1>2. retryAfter \in Nat /\ retryAfter * Rpm >= 60
  <2>1. CASE Rpm >= 60
    BY <1>1, <2>1, SMT DEF retryAfter
  <2>2. CASE Rpm < 60 /\ 60 % Rpm = 0
    <3>1. 60 = Rpm * (60 \div Rpm) + (60 % Rpm) /\ 60 \div Rpm \in Nat
      BY <1>1, SMT
    <3>2. QED
      BY <1>1, <2>2, <3>1, SMT DEF retryAfter
  <2>3. QED
    BY <1>1, <2>1, <2>2, SMT
<1>3. (d + retryAfter) * Rpm >= retryAfter * Rpm
  <2>1. d + retryAfter \in Nat /\ retryAfter <= d + retryAfter
    BY <1>1, <1>2, SMT
  <2>2. QED
    BY <1>1, <1>2, <2>1, LongerFillsMore
<1> DEFINE filled == (d + retryAfter) * Rpm
<1>4. filled \in Nat /\ filled >= 60
  <2>1. d + retryAfter \in Nat
    BY <1>1, <1>2, SMT
  <2>2. filled \in Nat /\ retryAfter * Rpm \in Nat
    BY <1>1, <1>2, <2>1, OneMoreSecond
  <2>3. QED
    BY <1>2, <1>3, <2>2, SMT
<1>5. Refilled(now + retryAfter) = Least(tokens + filled, full)
  <2>1. (now + retryAfter) - lastUpdate = d + retryAfter
    BY <1>1, <1>2, SMT
  <2>2. Refilled(now + retryAfter)
            = Least(tokens + ((now + retryAfter) - lastUpdate) * Rpm, full)
    BY DEF Refilled
  <2>3. QED
    BY <2>1, <2>2
<1> HIDE DEF filled, full
<1>6. QED
  BY <1>1, <1>4, <1>5, SMT DEF Least, Token

(* In no stretch of time does a limiter let through more than its burst and*)
(* what its rate allows, dropped buckets included.                         *)
THEOREM BurstIsBounded == ASSUME Limits PROVE Spec => []WithinBurst
<1>1. Init => IInv
  BY InitHolds
<1>2. IInv /\ [Next]_limitvars => IInv'
  BY NextKeeps
<1>3. IInv => WithinBurst
  BY InvBoundsBurst
<1>4. QED
  BY <1>1, <1>2, <1>3, PTL DEF Spec

(* Who is refused and waits for Retry-After, unshared, is let through, for *)
(* every rate that divides a minute.                                       *)
THEOREM WaitingIsEnough == ASSUME Limits PROVE Spec => []RetrySucceeds
<1>1. Init => IInv
  BY InitHolds
<1>2. IInv /\ [Next]_limitvars => IInv'
  BY NextKeeps
<1>3. IInv => RetrySucceeds
  BY InvServesWaiting
<1>4. QED
  BY <1>1, <1>2, <1>3, PTL DEF Spec

=============================================================================
