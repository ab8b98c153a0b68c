------------------------ MODULE FixedWindowCounter ------------------------
(***************************************************************************)
(* The local fixed window counter (FixedWindowCounter.cpp).  A window is   *)
(* opened by the first call that finds the old one expired, at the time of *)
(* that call: windows are at least Window ticks apart, not on a grid.      *)
(*                                                                         *)
(* markTime and spent observe: spent counts the requests admitted since    *)
(* the arbitrary instant markTime (see TokenBucket).                       *)
(***************************************************************************)
EXTENDS WindowParameters

VARIABLES now,          \* steady_clock
          counter,      \* counter_
          windowStart,  \* windowStart_
          markTime, spent

window   == <<counter, windowStart>>
observer == <<markTime, spent>>
vars     == <<now, window, observer>>

TypeOK ==
    /\ now \in 0..MaxTime
    /\ counter \in 0..Limit
    /\ windowStart \in 0..now
    /\ markTime \in 0..now
    /\ spent \in Nat

Init ==
    /\ now = 0
    /\ counter = 0
    /\ windowStart = 0
    /\ markTime = 0
    /\ spent = 0

-----------------------------------------------------------------------------
Expired == now - windowStart >= Window

(* The counter and the window as a call at the present time finds them. *)
CurrentCount == IF Expired THEN 0 ELSE counter

\* Seeded fault: the expired counter is cleared but no new window is opened.
CurrentStartForgotten == windowStart

CurrentStart == IF Expired THEN now ELSE windowStart

Admit ==
    /\ CurrentCount < Limit
    /\ counter' = CurrentCount + 1
    /\ windowStart' = CurrentStart
    /\ spent' = spent + 1
    /\ UNCHANGED <<now, markTime>>

Deny ==
    /\ CurrentCount >= Limit
    /\ counter' = CurrentCount
    /\ windowStart' = CurrentStart
    /\ UNCHANGED <<now, observer>>

AllowRequest == Admit \/ Deny

Reset ==
    /\ counter' = 0
    /\ windowStart' = now
    /\ markTime' = now
    /\ spent' = 0
    /\ UNCHANGED now

Tick ==
    /\ now < MaxTime
    /\ now' = now + 1
    /\ UNCHANGED <<window, observer>>

Observe ==
    /\ markTime' = now
    /\ spent' = 0
    /\ UNCHANGED <<now, window>>

Next == AllowRequest \/ Reset \/ Tick \/ Observe

Spec == Init /\ [][Next]_vars

-----------------------------------------------------------------------------
(* FixedWindowCounter.h:12: two full windows may meet at a boundary, but   *)
(* never three: no interval shorter than the window, whenever it starts,   *)
(* sees more than twice the limit.                                         *)
BoundaryBurstBound ==
    now < markTime + Window => spent <= 2 * Limit

(* In an interval that starts with its window open, the limit itself holds *)
(* until that window expires.                                              *)
WindowBound ==
    (markTime >= windowStart /\ now < windowStart + Window) => spent <= Limit

(* A client is turned away only while the limit is really used up: after a *)
(* whole window without an admission the next call is admitted, however    *)
(* often the client was denied in the meantime.                            *)
QuietWindowReopens ==
    (spent = 0 /\ now >= markTime + Window) => CurrentCount < Limit

(* The inductive strengthening of the three: what the counter says of the  *)
(* admissions since the mark.                                              *)
CounterAccounts ==
    /\ windowStart <= markTime => spent <= counter
    /\ windowStart > markTime => spent >= counter
    /\ (markTime < windowStart /\ windowStart < markTime + Window)
          => spent <= Limit + counter
    /\ spent > 0 => markTime < windowStart + Window

FixedWindowInv == TypeOK /\ CounterAccounts
=============================================================================
