---------------------------- MODULE LeakyBucket ----------------------------
(***************************************************************************)
(* The local leaky bucket (LeakyBucket.cpp).  queue_ is a virtual level of *)
(* water: a request is admitted or denied at once and nothing waits in the *)
(* bucket.  Units, clock and observer variables are those of TokenBucket,  *)
(* which this module implements: the tokens there are the room left here.  *)
(***************************************************************************)
EXTENDS BucketParameters

VARIABLES now,          \* steady_clock
          queue,        \* queue_
          lastLeak,     \* lastLeak_
          markTime, spent, lastAdmit

bucket   == <<queue, lastLeak>>
observer == <<markTime, spent, lastAdmit>>
vars     == <<now, bucket, observer>>

TypeOK ==
    /\ now \in 0..MaxTime
    /\ queue \in 0..Capacity
    /\ lastLeak \in 0..now
    /\ markTime \in 0..now
    /\ spent \in Nat
    /\ lastAdmit \in 0..now

Init ==
    /\ now = 0
    /\ queue = 0
    /\ lastLeak = 0
    /\ markTime = 0
    /\ spent = 0
    /\ lastAdmit = 0

-----------------------------------------------------------------------------
AtLeastZero(n) == IF n >= 0 THEN n ELSE 0

(* leak(): the level once the time since the last leak has drained it. *)
Leaked == AtLeastZero(queue - Rate * (now - lastLeak))

(* allowRequest with room for a whole request. *)
Admit ==
    /\ Leaked + Cost <= Capacity
    /\ queue' = Leaked + Cost
    /\ lastLeak' = now
    /\ spent' = spent + 1
    /\ lastAdmit' = now
    /\ UNCHANGED <<now, markTime>>

\* Seeded fault: a denied request is poured in as far as it fits.
DenyFilling ==
    /\ Leaked + Cost > Capacity
    /\ queue' = Capacity
    /\ lastLeak' = now
    /\ UNCHANGED <<now, observer>>

(* allowRequest without room: only the leak is recorded. *)
Deny ==
    /\ Leaked + Cost > Capacity
    /\ queue' = Leaked
    /\ lastLeak' = now
    /\ UNCHANGED <<now, observer>>

AllowRequest == Admit \/ Deny

(* reset() empties the bucket; observation starts afresh. *)
Reset ==
    /\ queue' = 0
    /\ lastLeak' = now
    /\ markTime' = now
    /\ spent' = 0
    /\ lastAdmit' = now
    /\ UNCHANGED now

Tick ==
    /\ now < MaxTime
    /\ now' = now + 1
    /\ UNCHANGED <<bucket, observer>>

Observe ==
    /\ markTime' = now
    /\ spent' = 0
    /\ UNCHANGED <<now, bucket, lastAdmit>>

Next == AllowRequest \/ Reset \/ Tick \/ Observe

Spec == Init /\ [][Next]_vars

-----------------------------------------------------------------------------
(* The token bucket whose tokens are the room left in this bucket. *)
TB == INSTANCE TokenBucket WITH tokens     <- Capacity - queue,
                                lastRefill <- lastLeak

(* Call for call the leaky bucket decides as the token bucket of the same  *)
(* capacity and rate does: the two differ in name and in state, not in the *)
(* requests they let through (LeakyBucket.cpp against TokenBucket.cpp).    *)
ImplementsTokenBucket == TB!Spec
=============================================================================
