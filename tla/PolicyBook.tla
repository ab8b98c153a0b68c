----------------------------- MODULE PolicyBook -----------------------------
(***************************************************************************)
(* What the policies promise, without files, locks or an order to keep:    *)
(* for every request there is at most one policy that decides it.  A       *)
(* policy that is created takes over, in one step, the requests that it    *)
(* matches and that no policy of its priority or a higher one decides.     *)
(* The process may end; a creation under way then has taken effect or has  *)
(* not.                                                                    *)
(***************************************************************************)
EXTENDS Integers

CONSTANTS Requests,
          Offered,      \* the policies that may be created
          First,        \* what decides each request at first
          Nothing       \* no policy decides it

VARIABLES decider,      \* the policy that decides each request
          created,      \* the policies that were acknowledged
          up            \* whether the process runs

vars == <<decider, created, up>>

Init ==
    /\ decider = First
    /\ created = {}
    /\ up = TRUE

Outranks(p, r) ==
    /\ r \in p.matches
    /\ decider[r] # Nothing => p.priority > decider[r].priority

TakeOver(p) ==
    decider' = [r \in Requests |-> IF Outranks(p, r) THEN p ELSE decider[r]]

Create(p) ==
    /\ up
    /\ TakeOver(p)
    /\ created' = created \cup {p}
    /\ UNCHANGED up

End ==
    /\ up
    /\ up' = FALSE
    /\ UNCHANGED decider \/ \E p \in Offered : TakeOver(p)
    /\ UNCHANGED created

Start ==
    /\ ~up
    /\ up' = TRUE
    /\ UNCHANGED <<decider, created>>

Next == (\E p \in Offered : Create(p)) \/ End \/ Start

Spec == Init /\ [][Next]_vars

-----------------------------------------------------------------------------
(* What the constants are: policies have numbers as priorities.            *)
Numbered ==
    /\ \A p \in Offered : p # Nothing /\ p.priority \in Int
    /\ First \in [Requests -> {First[r] : r \in Requests}]
    /\ \A r \in Requests : First[r] # Nothing => First[r].priority \in Int

TypeOK ==
    /\ decider \in [Requests -> Offered \cup {First[r] : r \in Requests} \cup {Nothing}]
    /\ created \subseteq Offered
    /\ up \in BOOLEAN

(* Whoever decides a request is replaced only by one of higher priority.   *)
PrecedenceKept ==
    [][\A r \in Requests :
         \/ decider[r] \in {Nothing, decider'[r]}
         \/ decider'[r].priority > decider[r].priority]_vars

(* A policy that was created decides each request it matches, or one of at *)
(* least its priority does.                                                *)
CreatedCounts ==
    \A p \in created : \A r \in Requests :
        r \in p.matches => decider[r] # Nothing /\ decider[r].priority >= p.priority
=============================================================================
