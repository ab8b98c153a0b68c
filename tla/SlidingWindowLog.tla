-------------------------- MODULE SlidingWindowLog --------------------------
(***************************************************************************)
(* The local sliding window log (SlidingWindowLog.cpp): a deque of the     *)
(* times of the admitted calls, shortened from the front as they age.      *)
(* answer is the time and the verdict of the last call; admitted is the    *)
(* history of all admissions since the last reset, which the limiter never *)
(* reads.                                                                  *)
(***************************************************************************)
EXTENDS WindowParameters, Sequences, FiniteSets

VARIABLES now,          \* steady_clock
          log,          \* log_
          answer,       \* what allowRequest last returned
          admitted

vars == <<now, log, answer, admitted>>

Ideal == INSTANCE RollingWindow

TypeOK ==
    /\ now \in 0..MaxTime
    /\ log \in Seq(0..now)
    /\ Len(log) <= Limit
    /\ answer \in (0..now) \X {"none", "allow", "deny"}
    /\ admitted \in [Ideal!Instants -> Nat]

Init ==
    /\ now = 0
    /\ log = <<>>
    /\ answer = <<0, "none">>
    /\ admitted = [t \in Ideal!Instants |-> 0]

-----------------------------------------------------------------------------
\* Seeded fault: an entry exactly one window old is kept.
StaleKeepingEdge ==
    {i \in DOMAIN log : \A j \in 1..i : log[j] < now - Window}

(* The entries at the front that evictOldEntries pops. *)
Stale == {i \in DOMAIN log : \A j \in 1..i : log[j] <= now - Window}

Evicted == SubSeq(log, Cardinality(Stale) + 1, Len(log))

Admit ==
    /\ Len(Evicted) < Limit
    /\ log' = Append(Evicted, now)
    /\ answer' = <<now, "allow">>
    /\ admitted' = [admitted EXCEPT ![now] = @ + 1]
    /\ UNCHANGED now

Deny ==
    /\ Len(Evicted) >= Limit
    /\ log' = Evicted
    /\ answer' = <<now, "deny">>
    /\ UNCHANGED <<now, admitted>>

AllowRequest == Admit \/ Deny

Reset ==
    /\ log' = <<>>
    /\ answer' = <<now, "none">>
    /\ admitted' = [t \in Ideal!Instants |-> 0]
    /\ UNCHANGED now

Tick ==
    /\ now < MaxTime
    /\ now' = now + 1
    /\ UNCHANGED <<log, answer, admitted>>

Next == AllowRequest \/ Reset \/ Tick

Spec == Init /\ [][Next]_vars

-----------------------------------------------------------------------------
(* SlidingWindowLog.h:13: "the only algorithm with perfect accuracy".  At  *)
(* every call the log, which has forgotten most admissions, gives the very *)
(* answer of the limiter that never forgets, allow and deny alike.         *)
ImplementsRollingWindow == Ideal!Spec

(* No window, wherever it ends, ever holds more than the limit, although   *)
(* the log has forgotten most of them.                                     *)
EveryWindowWithinLimit ==
    \A t \in 0..now : Ideal!Load(t, Window) <= Limit
=============================================================================
