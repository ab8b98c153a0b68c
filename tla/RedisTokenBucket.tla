-------------------------- MODULE RedisTokenBucket --------------------------
(***************************************************************************)
(* The token bucket in Redis: the Lua scripts of RedisTokenBucket in       *)
(* storage/RedisRateLimitStrategies.cpp.  A script runs in one step of the *)
(* server, whichever process sent it.  Its two keys are written together   *)
(* and expire together; tokens and last keep what was last written, and    *)
(* deadline says until when the server still has it.  Observers are those  *)
(* of TokenBucket.                                                         *)
(***************************************************************************)
EXTENDS BucketParameters, RedisClock

VARIABLES tokens, last,     \* the values of the keys :tokens and :ts
          deadline,         \* when the keys expire
          markTime, spent, lastAdmit

keys     == <<tokens, last, deadline>>
observer == <<markTime, spent, lastAdmit>>
vars     == <<time, keys, observer>>

TypeOK ==
    /\ ClockTypeOK
    /\ tokens \in Int /\ tokens <= Capacity
    /\ last \in 0..real
    /\ deadline \in Int /\ deadline >= Never
    /\ markTime \in 0..real
    /\ spent \in Nat
    /\ lastAdmit \in 0..real

(* No key is there yet. *)
Init ==
    /\ ClockInit
    /\ tokens = Capacity
    /\ last = 0
    /\ deadline = 0
    /\ markTime = 0
    /\ spent = 0
    /\ lastAdmit = 0

-----------------------------------------------------------------------------
AtMost(a, b) == IF a <= b THEN a ELSE b
Live == Alive(deadline)

\* Seeded fault: the distance of the two times, whichever is the later.
ElapsedAbsolute == IF ~Live THEN 0 ELSE IF now >= last THEN now - last ELSE last - now

(* now - last, where a missing time stamp reads as now. *)
Elapsed == IF Live THEN now - last ELSE 0

\* Seeded fault: the refill is not capped.
RefilledUncapped == (IF Live THEN tokens ELSE Capacity) + Rate * Elapsed

(* The tokens after the refill, where missing tokens read as capacity. *)
Refilled == AtMost(Capacity, (IF Live THEN tokens ELSE Capacity) + Rate * Elapsed)

\* Seeded fault: the keys of a bucket without refill expire after a second.
ExpiryAlways == now + (IF Rate > 0 THEN CeilSeconds(2 * Capacity, Rate) ELSE Second)

(* EXPIRE after twice the time of a full refill, or PERSIST without refill. *)
Expiry == IF Rate > 0 THEN now + CeilSeconds(2 * Capacity, Rate) ELSE Never

Write(n) ==
    /\ tokens' = n
    /\ last' = now
    /\ deadline' = Expiry

Admit ==
    /\ Refilled >= Cost
    /\ Write(Refilled - Cost)
    /\ spent' = spent + 1
    /\ lastAdmit' = real
    /\ UNCHANGED <<time, markTime>>

\* Seeded fault: the refill is written back on admissions only.
DenyLosingRefill ==
    /\ Refilled < Cost
    /\ Write(IF Live THEN tokens ELSE Capacity)
    /\ UNCHANGED <<time, observer>>

Deny ==
    /\ Refilled < Cost
    /\ Write(Refilled)
    /\ UNCHANGED <<time, observer>>

AllowRequest == Admit \/ Deny

(* The script of reset(). *)
Reset ==
    /\ Write(Capacity)
    /\ markTime' = real
    /\ spent' = 0
    /\ lastAdmit' = real
    /\ UNCHANGED time

Tick == (ClockTick \/ SetBack) /\ UNCHANGED <<keys, observer>>

Expire ==
    /\ Deleted(deadline)
    /\ UNCHANGED <<time, tokens, last, observer>>

Observe ==
    /\ markTime' = real
    /\ spent' = 0
    /\ UNCHANGED <<time, keys, lastAdmit>>

Next == AllowRequest \/ Reset \/ Tick \/ Expire \/ Observe

Spec == Init /\ [][Next]_vars

-----------------------------------------------------------------------------
(* While the clock is not set back, the scripts decide as the local bucket *)
(* does: that the keys expire never shows, because a bucket left alone for *)
(* so long is full, and one that does not refill does not expire.          *)
Local == INSTANCE TokenBucket WITH lastRefill <- last
ImplementsTokenBucket ==
    Local!Init /\ [][steady => [Local!Next]_(Local!vars)]_vars

(* Setting the clock back admits nothing that real time has not paid for.  *)
AdmissionBound ==
    Cost * spent <= Capacity + Rate * (real - markTime)

(* The price is a bucket in debt, but by no more than the refill of the    *)
(* time that was taken back, real - now: a client that keeps asking waits  *)
(* for that much longer, and not for ever.                                 *)
DebtIsBounded ==
    Cost <= Capacity =>
        Refilled >= AtMost(Capacity, Rate * (real - lastAdmit)) - Rate * (real - now)
=============================================================================
