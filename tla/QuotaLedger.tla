---------------------------- MODULE QuotaLedger ----------------------------
(***************************************************************************)
(* What the policy engine promises, without threads or locks: a ledger of  *)
(* quotas in which a request is decided in one indivisible step.  A quota  *)
(* belongs to one key; installing a policy makes a new quota current for   *)
(* its key, and requests that hold an older one may still be decided on    *)
(* it, each on the ledger as it then stands.                               *)
(***************************************************************************)
EXTENDS Integers

CONSTANTS Workers,      \* the threads that ask
          Keys,         \* the policy keys
          Entries,      \* the quotas there may ever be
          Limit,        \* the admissions in one quota
          MaxCalls,     \* the bound on the calls of one worker
          NoEntry       \* "no quota"

VARIABLES current,      \* the quota of each key
          spent,        \* the admissions taken from each quota
          answer        \* the number, quota and verdict of a worker's last call

vars == <<current, spent, answer>>

Init ==
    /\ current = [k \in Keys |-> NoEntry]
    /\ spent = [e \in Entries |-> 0]
    /\ answer = [w \in Workers |-> <<0, NoEntry, "none">>]

Install(k, e) ==
    /\ \A j \in Keys : current[j] # e
    /\ spent[e] = 0
    /\ current' = [current EXCEPT ![k] = e]
    /\ UNCHANGED <<spent, answer>>

Answer(w, e, verdict) ==
    \E n \in 1..MaxCalls :
        /\ n > answer[w][1]
        /\ answer' = [answer EXCEPT ![w] = <<n, e, verdict>>]

Grant(w, e) ==
    /\ spent[e] < Limit
    /\ spent' = [spent EXCEPT ![e] = @ + 1]
    /\ Answer(w, e, "allow")
    /\ UNCHANGED current

Refuse(w, e) ==
    /\ spent[e] = Limit
    /\ Answer(w, e, "deny")
    /\ UNCHANGED <<current, spent>>

Renew(e) ==
    /\ spent' = [spent EXCEPT ![e] = 0]
    /\ UNCHANGED <<current, answer>>

Next ==
    \/ \E k \in Keys, e \in Entries : Install(k, e)
    \/ \E w \in Workers, e \in Entries : Grant(w, e) \/ Refuse(w, e)
    \/ \E e \in Entries : Renew(e)

Spec == Init /\ [][Next]_vars
=============================================================================
