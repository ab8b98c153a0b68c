----------------------------- MODULE BoundedLog -----------------------------
(***************************************************************************)
(* What the audit file promises while rows are written whole: each logged  *)
(* record, and each change of a tenant, takes effect in one step or not at *)
(* all, and the log holds the newest MaxRecords records.                   *)
(***************************************************************************)
EXTENDS Integers, Sequences

CONSTANTS Tenants, Params, NoTenant, MaxRecords, MaxCalls

VARIABLES rows,         \* the records, oldest first
          stored        \* what is stored for each tenant

Init ==
    /\ rows = <<>>
    /\ stored = [t \in Tenants |-> NoTenant]

(* A later record than any in the log; at the bound the oldest makes room. *)
Record(n) ==
    /\ \A i \in DOMAIN rows : rows[i] < n
    /\ rows' = IF Len(rows) < MaxRecords THEN Append(rows, n) ELSE Append(Tail(rows), n)
    /\ UNCHANGED stored

Store(t, p) ==
    /\ stored' = [stored EXCEPT ![t] = p]
    /\ UNCHANGED rows

Next ==
    \/ \E n \in 1..MaxCalls : Record(n)
    \/ \E t \in Tenants, p \in Params \cup {NoTenant} : Store(t, p)

Spec == Init /\ [][Next]_<<rows, stored>>
=============================================================================
