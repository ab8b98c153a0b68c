------------------------ MODULE SlidingWindowCounter ------------------------
(***************************************************************************)
(* The local sliding window counter (SlidingWindowCounter.cpp): the counts *)
(* of the current and the previous window of a grid, combined into an      *)
(* estimate of the rolling count.  Estimates are kept multiplied by Window *)
(* so that they are integers.  admitted is the history of all admissions   *)
(* since the last reset, which the limiter never reads.                    *)
(***************************************************************************)
EXTENDS WindowParameters

CONSTANT IntMax         \* INT_MAX, the range of windowsPassed

VARIABLES now,          \* steady_clock
          prev,         \* prevCount_
          curr,         \* currCount_
          windowStart,  \* windowStart_
          admitted

vars == <<now, prev, curr, windowStart, admitted>>

Ideal == INSTANCE RollingWindow WITH answer <- 0

TypeOK ==
    /\ now \in 0..MaxTime
    /\ prev \in 0..Limit
    /\ curr \in 0..Limit
    /\ windowStart \in Int /\ windowStart <= now
    /\ admitted \in [Ideal!Instants -> Nat]

Init ==
    /\ now = 0
    /\ prev = 0
    /\ curr = 0
    /\ windowStart = 0
    /\ admitted = [t \in Ideal!Instants |-> 0]

-----------------------------------------------------------------------------
(* static_cast<int> of a quotient.  Out of range it is undefined: x86      *)
(* yields INT_MIN, a saturating conversion INT_MAX.                        *)
CastToInt(q) == IF q <= IntMax THEN {q} ELSE {IntMax, -IntMax - 1}

(* What is left of the current count after n windows have passed. *)
Carried(n) == IF n = 1 THEN curr ELSE 0

(* maybeAdvanceWindow: the counts and the window that a call at the        *)
(* present time finds; a set, for the outcomes of the conversion.          *)
Advanced ==
    IF now - windowStart < Window
    THEN {[prev |-> prev, curr |-> curr, start |-> windowStart]}
    ELSE {[prev |-> Carried(n), curr |-> 0, start |-> windowStart + n * Window] :
            n \in CastToInt((now - windowStart) \div Window)}

\* Seeded fault: the weights of the two windows are exchanged.
EstimateSwapped(w) == w.prev * (now - w.start) + w.curr * Window

(* prevCount_ * (1 - f) + currCount_, times Window. *)
Estimate(w) == w.prev * (Window - (now - w.start)) + w.curr * Window

Keep(w) ==
    /\ prev' = w.prev
    /\ windowStart' = w.start

\* Seeded fault: <= for <.
AdmitAtLimit(w) ==
    /\ Estimate(w) <= Limit * Window
    /\ Keep(w)
    /\ curr' = w.curr + 1
    /\ admitted' = [admitted EXCEPT ![now] = @ + 1]
    /\ UNCHANGED now

Admit(w) ==
    /\ Estimate(w) < Limit * Window
    /\ Keep(w)
    /\ curr' = w.curr + 1
    /\ admitted' = [admitted EXCEPT ![now] = @ + 1]
    /\ UNCHANGED now

Deny(w) ==
    /\ Estimate(w) >= Limit * Window
    /\ Keep(w)
    /\ curr' = w.curr
    /\ UNCHANGED <<now, admitted>>

AllowRequest == \E w \in Advanced : Admit(w) \/ Deny(w)

Reset ==
    /\ prev' = 0
    /\ curr' = 0
    /\ windowStart' = now
    /\ admitted' = [t \in Ideal!Instants |-> 0]
    /\ UNCHANGED now

Tick ==
    /\ now < MaxTime
    /\ now' = now + 1
    /\ UNCHANGED <<prev, curr, windowStart, admitted>>

Next == AllowRequest \/ Reset \/ Tick

Spec == Init /\ [][Next]_vars

-----------------------------------------------------------------------------
(* SlidingWindowCounter.h:23: "Max error = limit * f".  At any instant the *)
(* estimate falls short of the true rolling count by at most that.         *)
UnderestimateBound ==
    \A w \in Advanced :
        Ideal!Load(now, Window) * Window <= Estimate(w) + Limit * (now - w.start)

(* The same comment, with f at most 1 (SlidingWindowCounter.h:10): no      *)
(* rolling window ever holds more than twice the limit.                    *)
AtMostTwiceLimit ==
    \A t \in 0..now : Ideal!Load(t, Window) <= 2 * Limit

(* The estimate errs on the other side too, but only over traffic that was *)
(* there: a call is denied only if the limit was reached within the last   *)
(* two windows.  Idle windows are forgotten ("prev is effectively 0").     *)
DenialsJustified ==
    \A w \in Advanced :
        Estimate(w) >= Limit * Window => Ideal!Load(now, 2 * Window) >= Limit
=============================================================================
