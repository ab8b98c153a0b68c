-------------------------- MODULE RedisLeakyBucket --------------------------
(***************************************************************************)
(* The leaky bucket in Redis: the scripts of RedisLeakyBucket in           *)
(* storage/RedisRateLimitStrategies.cpp.  Keys, clock and observers are    *)
(* as in RedisTokenBucket, which it implements: tokens are free room.      *)
(***************************************************************************)
EXTENDS BucketParameters, RedisClock

VARIABLES queue, last,      \* the values of the keys :queue and :ts
          deadline,         \* when the keys expire
          markTime, spent, lastAdmit

keys     == <<queue, last, deadline>>
observer == <<markTime, spent, lastAdmit>>
vars     == <<time, keys, observer>>

TypeOK ==
    /\ ClockTypeOK
    /\ queue \in Nat
    /\ last \in 0..real
    /\ deadline \in Int /\ deadline >= Never
    /\ markTime \in 0..real
    /\ spent \in Nat
    /\ lastAdmit \in 0..real

Init ==
    /\ ClockInit
    /\ queue = 0
    /\ last = 0
    /\ deadline = 0
    /\ markTime = 0
    /\ spent = 0
    /\ lastAdmit = 0

-----------------------------------------------------------------------------
AtLeastZero(n) == IF n >= 0 THEN n ELSE 0

(* The level after the leak; missing keys read as empty and as now. *)
Leaked == IF Alive(deadline) THEN AtLeastZero(queue - Rate * (now - last)) ELSE 0

Write(n) ==
    /\ queue' = n
    /\ last' = now
    /\ deadline' = IF Rate > 0 THEN now + CeilSeconds(2 * Capacity, Rate) ELSE Never

Admit ==
    /\ Leaked + Cost <= Capacity
    /\ Write(Leaked + Cost)
    /\ spent' = spent + 1
    /\ lastAdmit' = real
    /\ UNCHANGED <<time, markTime>>

Deny ==
    /\ Leaked + Cost > Capacity
    /\ Write(Leaked)
    /\ UNCHANGED <<time, observer>>

AllowRequest == Admit \/ Deny

Reset ==
    /\ Write(0)
    /\ markTime' = real
    /\ spent' = 0
    /\ lastAdmit' = real
    /\ UNCHANGED time

Tick == (ClockTick \/ SetBack) /\ UNCHANGED <<keys, observer>>

Expire ==
    /\ Deleted(deadline)
    /\ UNCHANGED <<time, queue, last, observer>>

Observe ==
    /\ markTime' = real
    /\ spent' = 0
    /\ UNCHANGED <<time, keys, lastAdmit>>

Next == AllowRequest \/ Reset \/ Tick \/ Expire \/ Observe

Spec == Init /\ [][Next]_vars

-----------------------------------------------------------------------------
(* Whatever the server's clock does, the leaky bucket's scripts decide as  *)
(* the token bucket's do, from the same keys and with the same expiry.     *)
TB == INSTANCE RedisTokenBucket WITH tokens <- Capacity - queue
=============================================================================
