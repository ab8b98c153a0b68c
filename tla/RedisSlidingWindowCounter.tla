---------------------- MODULE RedisSlidingWindowCounter ----------------------
(***************************************************************************)
(* The sliding window counter in Redis: the scripts of                     *)
(* RedisSlidingWindowCounter in storage/RedisRateLimitStrategies.cpp.      *)
(* Estimates are kept multiplied by Window, as in SlidingWindowCounter;    *)
(* the number of windows that passed is a Lua number and never overflows.  *)
(* When the keys have expired, or are not there yet, the grid of windows   *)
(* starts anew at now, where the local object keeps the phase of its own.  *)
(***************************************************************************)
EXTENDS WindowParameters, RedisClock

VARIABLES prev, curr, start,    \* the values of the keys
          deadline,             \* when they expire
          admitted

keys == <<prev, curr, start, deadline>>
vars == <<time, keys, admitted>>

Ideal == INSTANCE RollingWindow WITH now <- real, answer <- 0

TypeOK ==
    /\ ClockTypeOK
    /\ prev \in 0..Limit
    /\ curr \in 0..Limit
    /\ start \in {-Window} \cup 0..real
    /\ deadline \in Nat
    /\ admitted \in [Ideal!Instants -> Nat]

Init ==
    /\ ClockInit
    /\ prev = 0
    /\ curr = 0
    /\ start = -Window
    /\ deadline = 0
    /\ admitted = [t \in Ideal!Instants |-> 0]

-----------------------------------------------------------------------------
Passed == (now - start) \div Window

Carried == IF Passed = 1 THEN curr ELSE 0

(* The counts and the window that a script run now finds. *)
Found ==
    IF ~Alive(deadline) THEN [prev |-> 0, curr |-> 0, start |-> now]
    ELSE IF now - start < Window THEN [prev |-> prev, curr |-> curr, start |-> start]
    ELSE [prev |-> Carried, curr |-> 0, start |-> start + Passed * Window]

(* prev * (1 - f) + curr, times Window; f is negative before the start. *)
Estimate == Found.prev * (Window - (now - Found.start)) + Found.curr * Window

(* Three times the window, in seconds. *)
Expiry == now + 3 * CeilSeconds(Window, 1)

Write(n) ==
    /\ prev' = Found.prev
    /\ curr' = n
    /\ start' = Found.start
    /\ deadline' = Expiry

Admit ==
    /\ Estimate < Limit * Window
    /\ Write(Found.curr + 1)
    /\ admitted' = [admitted EXCEPT ![real] = @ + 1]
    /\ UNCHANGED time

Deny ==
    /\ Estimate >= Limit * Window
    /\ Write(Found.curr)
    /\ UNCHANGED <<time, admitted>>

AllowRequest == Admit \/ Deny

Reset ==
    /\ prev' = 0
    /\ curr' = 0
    /\ start' = now
    /\ deadline' = Expiry
    /\ admitted' = [t \in Ideal!Instants |-> 0]
    /\ UNCHANGED time

Tick == (ClockTick \/ SetBack) /\ UNCHANGED <<keys, admitted>>

Expire ==
    /\ Deleted(deadline)
    /\ UNCHANGED <<time, prev, curr, start, admitted>>

Next == AllowRequest \/ Reset \/ Tick \/ Expire

Spec == Init /\ [][Next]_vars

-----------------------------------------------------------------------------
(* The estimate falls short of the rolling count of real time by at most   *)
(* limit * f, whether the keys have expired or the clock was set back.     *)
UnderestimateBound ==
    Ideal!Load(real, Window) * Window
        <= Estimate + Limit * (IF now > Found.start THEN now - Found.start ELSE 0)

(* So no rolling window of real time holds more than twice the limit.      *)
AtMostTwiceLimit ==
    \A t \in 0..real : Ideal!Load(t, Window) <= 2 * Limit

(* Beyond two windows and the time by which the clock was set back, no     *)
(* call counts.  A window that begins later than now has a negative f,     *)
(* which inflates the weight of the calls before it: then fewer than the   *)
(* limit may deny, but in proportion to how far it lies ahead, and a       *)
(* client that was not served for so long is admitted.  While the clock is *)
(* not set back, Ahead and the lag are 0 and the bound is the local one.   *)
Ahead == IF Found.start > now THEN Found.start - now ELSE 0
DenialsJustified ==
    Estimate >= Limit * Window =>
        Ideal!Load(real, 2 * Window + (real - now)) * (Window + Ahead) >= Limit * Window

(* While the clock is not set back, the scripts decide as the local object *)
(* does, with one exception: it keeps the phase of its grid for as long as *)
(* it lives, and the keys only for three windows after the last call.      *)
(* Keys that have expired stand for a grid that begins at whatever now the *)
(* next call reads; by then nothing was admitted for three windows.        *)
Local == INSTANCE SlidingWindowCounter WITH
            prev        <- IF Alive(deadline) THEN prev ELSE 0,
            curr        <- IF Alive(deadline) THEN curr ELSE 0,
            windowStart <- IF Alive(deadline) THEN start ELSE now,
            IntMax      <- MaxTime

Regrid ==
    /\ ClockTick
    /\ ~Alive(deadline)' /\ (Ideal!Load(real, 3 * Window) = 0)'
    /\ UNCHANGED admitted

ImplementsSlidingWindowCounter ==
    Local!Init /\ [][steady => [Local!Next \/ Regrid]_(Local!vars)]_vars
=============================================================================
