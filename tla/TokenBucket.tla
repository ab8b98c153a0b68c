---------------------------- MODULE TokenBucket ----------------------------
(***************************************************************************)
(* The local token bucket (TokenBucket.cpp).  Time is an integer number of *)
(* ticks read from steady_clock; tokens are kept in integer units.         *)
(*                                                                         *)
(* markTime, spent and lastAdmit observe the bucket and are never read by  *)
(* it: spent counts the requests admitted since the arbitrary instant      *)
(* markTime, and a step Observe may choose that instant at any time, so an *)
(* invariant about them speaks of every interval of every behaviour.       *)
(***************************************************************************)
EXTENDS BucketParameters

VARIABLES now,          \* steady_clock
          tokens,       \* tokens_
          lastRefill,   \* lastRefill_
          markTime, spent, lastAdmit

bucket   == <<tokens, lastRefill>>
observer == <<markTime, spent, lastAdmit>>
vars     == <<now, bucket, observer>>

AtMost(a, b) == IF a <= b THEN a ELSE b

TypeOK ==
    /\ now \in 0..MaxTime
    /\ tokens \in 0..Capacity
    /\ lastRefill \in 0..now
    /\ markTime \in 0..now
    /\ spent \in Nat
    /\ lastAdmit \in 0..now

Init ==
    /\ now = 0
    /\ tokens = Capacity            \* the bucket starts full
    /\ lastRefill = 0
    /\ markTime = 0
    /\ spent = 0
    /\ lastAdmit = 0

-----------------------------------------------------------------------------
\* Seeded fault: the refill is not capped by the capacity.
RefilledUncapped == tokens + Rate * (now - lastRefill)

(* refill(): the time since the last refill is credited, up to capacity_.  *)
Refilled == AtMost(Capacity, tokens + Rate * (now - lastRefill))

\* Seeded fault: lastRefill_ is left behind, so the time is credited twice.
AdmitCreditingTwice ==
    /\ Refilled >= Cost
    /\ tokens' = Refilled - Cost
    /\ spent' = spent + 1
    /\ lastAdmit' = now
    /\ UNCHANGED <<now, lastRefill, markTime>>

(* allowRequest with at least one token: refill, then take it. *)
Admit ==
    /\ Refilled >= Cost
    /\ tokens' = Refilled - Cost
    /\ lastRefill' = now
    /\ spent' = spent + 1
    /\ lastAdmit' = now
    /\ UNCHANGED <<now, markTime>>

\* Seeded fault: a denied call moves lastRefill_ but drops the fraction.
DenyLosingRefill ==
    /\ Refilled < Cost
    /\ lastRefill' = now
    /\ UNCHANGED <<now, tokens, observer>>

(* allowRequest without a whole token: the refill is kept all the same. *)
Deny ==
    /\ Refilled < Cost
    /\ tokens' = Refilled
    /\ lastRefill' = now
    /\ UNCHANGED <<now, observer>>

AllowRequest == Admit \/ Deny

(* reset() hands the whole capacity back; observation starts afresh. *)
Reset ==
    /\ tokens' = Capacity
    /\ lastRefill' = now
    /\ markTime' = now
    /\ spent' = 0
    /\ lastAdmit' = now
    /\ UNCHANGED now

Tick ==
    /\ now < MaxTime
    /\ now' = now + 1
    /\ UNCHANGED <<bucket, observer>>

Observe ==
    /\ markTime' = now
    /\ spent' = 0
    /\ UNCHANGED <<now, bucket, lastAdmit>>

Next == AllowRequest \/ Reset \/ Tick \/ Observe

Spec == Init /\ [][Next]_vars

-----------------------------------------------------------------------------
(* In every interval, whenever it starts and however the calls are timed,  *)
(* the bucket admits at most what its capacity and the tokens refilled     *)
(* during the interval pay for.                                            *)
AdmissionBound ==
    Cost * spent <= Capacity + Rate * (now - markTime)

(* Polling loses no tokens: since the last admission (or reset) the bucket *)
(* has regained the full refill for the time elapsed, up to its capacity,  *)
(* however many denied calls each rounded the refill off in between.       *)
PollingKeepsRefill ==
    Refilled >= AtMost(Capacity, Rate * (now - lastAdmit))

(* The inductive strengthening of AdmissionBound: what was spent since the *)
(* mark, together with what is left, was there at the mark or came since.  *)
SpendingAccounted ==
    spent > 0 =>
        /\ markTime <= lastRefill
        /\ Cost * spent + tokens <= Capacity + Rate * (lastRefill - markTime)

(* The inductive strengthening of PollingKeepsRefill. *)
RefillAccounted ==
    /\ lastAdmit <= lastRefill
    /\ tokens >= AtMost(Capacity, Rate * (lastRefill - lastAdmit))

BucketInv == TypeOK /\ SpendingAccounted /\ RefillAccounted
=============================================================================
