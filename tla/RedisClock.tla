----------------------------- MODULE RedisClock -----------------------------
(***************************************************************************)
(* The clock that the scripts of storage/RedisRateLimitStrategies.cpp read *)
(* with TIME and that expires their keys.  It is the server's, and may be  *)
(* set back, and then run on from there.  It never jumps ahead of the time *)
(* that has passed: a script takes such a jump for time, credits it and    *)
(* expires keys by it, and nothing in real time bounds what it admits.     *)
(* real counts the ticks that have really passed, and the instants kept by *)
(* observers are real ones.                                                *)
(***************************************************************************)
EXTENDS Clock

CONSTANT Second         \* the ticks in a second, the unit of EXPIRE

ASSUME SecondAssumption == Second \in Nat \ {0}

VARIABLES now,          \* TIME
          real,         \* the ticks since the start
          steady        \* whether the clock is never set back

time == <<now, real, steady>>

ClockTypeOK ==
    /\ real \in 0..MaxTime
    /\ now \in 0..real
    /\ steady \in BOOLEAN

ClockInit ==
    /\ now = 0
    /\ real = 0
    /\ steady \in BOOLEAN

(* A positive quotient, rounded up, in ticks: math.ceil of seconds. *)
CeilSeconds(a, b) == ((a + b * Second - 1) \div (b * Second)) * Second

(* A key lives until its deadline, or for ever; 0 if it is not there. *)
Never == -1
Alive(deadline) == deadline = Never \/ now < deadline

(* The server deletes keys that have expired, sooner or later: a key that  *)
(* it has not deleted yet is back when the clock is set back.              *)
Deleted(deadline) == ~Alive(deadline) /\ deadline' = 0

ClockTick ==
    /\ real < MaxTime
    /\ real' = real + 1
    /\ now' = now + 1
    /\ UNCHANGED steady

(* The server's clock is corrected, or another that lags takes over. *)
SetBack ==
    /\ ~steady
    /\ \E t \in 0..(now - 1) : now' = t
    /\ UNCHANGED <<real, steady>>
=============================================================================
