----------------------- MODULE RedisFixedWindowCounter -----------------------
(***************************************************************************)
(* The fixed window counter in Redis: the scripts of                       *)
(* RedisFixedWindowCounter in storage/RedisRateLimitStrategies.cpp.  The   *)
(* keys are as in RedisTokenBucket.  Where the local object opens its      *)
(* first window when it is made, the scripts open one when they find no    *)
(* keys.                                                                   *)
(***************************************************************************)
EXTENDS WindowParameters, RedisClock

VARIABLES counter, start,   \* the values of the keys :counter and :start
          deadline,         \* when the keys expire
          markTime, spent

keys     == <<counter, start, deadline>>
observer == <<markTime, spent>>
vars     == <<time, keys, observer>>

TypeOK ==
    /\ ClockTypeOK
    /\ counter \in 0..Limit
    /\ start \in {-Window} \cup 0..real
    /\ deadline \in Nat
    /\ markTime \in 0..real
    /\ spent \in Nat

(* No key is there yet, as if the last window had just expired. *)
Init ==
    /\ ClockInit
    /\ counter = 0
    /\ start = -Window
    /\ deadline = 0
    /\ markTime = 0
    /\ spent = 0

-----------------------------------------------------------------------------
(* The window is over, or there is none. *)
Expired == ~Alive(deadline) \/ now - start >= Window

CurrentCount == IF Expired THEN 0 ELSE counter
\* Seeded fault: every call, denied ones too, opens the window anew.
CurrentStartPolled == now

CurrentStart == IF Expired THEN now ELSE start

\* Seeded fault: the keys live for a second, whatever the window.
ExpiryShort == now + Second

(* Twice the window, in seconds. *)
Expiry == now + 2 * CeilSeconds(Window, 1)

Write(n) ==
    /\ counter' = n
    /\ start' = CurrentStart
    /\ deadline' = Expiry

Admit ==
    /\ CurrentCount < Limit
    /\ Write(CurrentCount + 1)
    /\ spent' = spent + 1
    /\ UNCHANGED <<time, markTime>>

Deny ==
    /\ CurrentCount >= Limit
    /\ Write(CurrentCount)
    /\ UNCHANGED <<time, observer>>

AllowRequest == Admit \/ Deny

Reset ==
    /\ counter' = 0
    /\ start' = now
    /\ deadline' = Expiry
    /\ markTime' = real
    /\ spent' = 0
    /\ UNCHANGED time

Tick == (ClockTick \/ SetBack) /\ UNCHANGED <<keys, observer>>

Expire ==
    /\ Deleted(deadline)
    /\ UNCHANGED <<time, counter, start, observer>>

Observe ==
    /\ markTime' = real
    /\ spent' = 0
    /\ UNCHANGED <<time, keys>>

Next == AllowRequest \/ Reset \/ Tick \/ Expire \/ Observe

Spec == Init /\ [][Next]_vars

-----------------------------------------------------------------------------
(* While the clock is not set back, the scripts decide as the local        *)
(* counter does: keys expire only after the window they keep.              *)
Local == INSTANCE FixedWindowCounter WITH windowStart <- start
ImplementsFixedWindow ==
    [][steady => [Local!Next]_(Local!vars)]_vars

(* Even if it is, windows may only be stretched: no interval of real time  *)
(* shorter than the window sees more than twice the limit.                 *)
BoundaryBurstBound ==
    real < markTime + Window => spent <= 2 * Limit

(* And they are stretched by no more than was set back.                    *)
QuietWindowReopens ==
    (spent = 0 /\ now >= markTime + Window) => CurrentCount < Limit
=============================================================================
