--------------------------- MODULE RollingWindow ---------------------------
(***************************************************************************)
(* The ideal rolling limiter: a call is admitted exactly when fewer than   *)
(* Limit calls were admitted in the Window ticks that end with it.  It     *)
(* remembers every admission; the code's limiters remember less and are    *)
(* measured against it.                                                    *)
(***************************************************************************)
EXTENDS WindowParameters, FiniteSets

VARIABLES now,          \* the present tick
          admitted,     \* how many calls were admitted at each tick
          answer        \* the time and the verdict of the last call

Instants == 0..MaxTime

(* An admission is its tick and its number among those of that tick. *)
Admissions == UNION {{i} \X (1..admitted[i]) : i \in Instants}

(* How many there were during the d ticks that end with t. *)
Load(t, d) == Cardinality({a \in Admissions : t - d < a[1] /\ a[1] <= t})

Init ==
    /\ now = 0
    /\ admitted = [t \in Instants |-> 0]
    /\ answer = <<0, "none">>

Admit ==
    /\ Load(now, Window) < Limit
    /\ admitted' = [admitted EXCEPT ![now] = @ + 1]
    /\ answer' = <<now, "allow">>
    /\ UNCHANGED now

Deny ==
    /\ Load(now, Window) >= Limit
    /\ answer' = <<now, "deny">>
    /\ UNCHANGED <<now, admitted>>

Reset ==
    /\ admitted' = [t \in Instants |-> 0]
    /\ answer' = <<now, "none">>
    /\ UNCHANGED now

Tick ==
    /\ now < MaxTime
    /\ now' = now + 1
    /\ UNCHANGED <<admitted, answer>>

Next == Admit \/ Deny \/ Reset \/ Tick

Spec == Init /\ [][Next]_<<now, admitted, answer>>
=============================================================================
