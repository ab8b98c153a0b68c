------------------------ MODULE RedisSlidingWindowLog ------------------------
(***************************************************************************)
(* The sliding window log in Redis: the scripts of RedisSlidingWindowLog   *)
(* in storage/RedisRateLimitStrategies.cpp.  The log is a sorted set; the  *)
(* members are told apart by a sequence number, which is a key of its own  *)
(* and expires with the log.  Observers are those of SlidingWindowLog, in  *)
(* real time.                                                              *)
(***************************************************************************)
EXTENDS WindowParameters, RedisClock, FiniteSets

VARIABLES log,              \* the key :entries, pairs of score and number
          seq,              \* the key :seq
          deadline,         \* when the keys expire
          answer, admitted

keys     == <<log, seq, deadline>>
observer == <<answer, admitted>>
vars     == <<time, keys, observer>>

Ideal == INSTANCE RollingWindow WITH now <- real

TypeOK ==
    /\ ClockTypeOK
    /\ \A e \in log : e \in Nat \X Nat
    /\ Cardinality(log) <= Limit
    /\ seq \in Nat
    /\ deadline \in Nat
    /\ answer \in (0..real) \X {"none", "allow", "deny"}
    /\ admitted \in [Ideal!Instants -> Nat]

Init ==
    /\ ClockInit
    /\ log = {}
    /\ seq = 0
    /\ deadline = 0
    /\ answer = <<0, "none">>
    /\ admitted = [t \in Ideal!Instants |-> 0]

-----------------------------------------------------------------------------
(* What ZREMRANGEBYSCORE leaves. *)
Current == {e \in log : Alive(deadline) /\ e[1] > now - Window}

(* INCR *)
Number == IF Alive(deadline) THEN seq + 1 ELSE 1

Renew == deadline' = now + CeilSeconds(2 * Window, 1)

Admit ==
    /\ Cardinality(Current) < Limit
    /\ log' = Current \cup {<<now, Number>>}
    /\ seq' = Number
    /\ Renew
    /\ answer' = <<real, "allow">>
    /\ admitted' = [admitted EXCEPT ![real] = @ + 1]
    /\ UNCHANGED time

Deny ==
    /\ Cardinality(Current) >= Limit
    /\ log' = Current
    /\ Renew
    /\ answer' = <<real, "deny">>
    /\ UNCHANGED <<time, seq, admitted>>

AllowRequest == Admit \/ Deny

(* DEL of both keys. *)
Reset ==
    /\ log' = {}
    /\ seq' = 0
    /\ deadline' = 0
    /\ answer' = <<real, "none">>
    /\ admitted' = [t \in Ideal!Instants |-> 0]
    /\ UNCHANGED time

Tick == (ClockTick \/ SetBack) /\ UNCHANGED <<keys, observer>>

Expire ==
    /\ Deleted(deadline)
    /\ UNCHANGED <<time, log, seq, observer>>

Next == AllowRequest \/ Reset \/ Tick \/ Expire

Spec == Init /\ [][Next]_vars

-----------------------------------------------------------------------------
(* While the clock is not set back, each answer is that of the limiter     *)
(* that forgets nothing. *)
ImplementsRollingWindow ==
    Ideal!Init /\ [][steady => [Ideal!Next]_<<real, admitted, answer>>]_vars

(* Even if it is, no window of real time holds more than the limit.        *)
EveryWindowWithinLimit ==
    \A t \in 0..real : Ideal!Load(t, Window) <= Limit

(* The price are denials over entries that bear a later time than the      *)
(* clock: each still stands for a call that was let through, and is pruned *)
(* once the window and the time that was set back have really passed.      *)
DenialsJustified ==
    Cardinality(Current) >= Limit => Ideal!Load(real, Window + (real - now)) >= Limit
=============================================================================
