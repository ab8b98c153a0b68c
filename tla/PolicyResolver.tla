--------------------------- MODULE PolicyResolver ---------------------------
(***************************************************************************)
(* Policies as the resolver orders and finds them (policy/Policy.h,        *)
(* policy/PolicyResolver.cpp) and as the policy file keeps them            *)
(* (policy/PolicyLoader.cpp).  A policy is a record: its priority, the     *)
(* requests it matches, its parameters as one number, and whether the text *)
(* of its match fields is valid.                                           *)
(***************************************************************************)
EXTENDS Integers, Sequences, FiniteSets

CONSTANT Digits     \* parameters from here on lose their last digit in the file

ASSUME DigitsAssumption == Digits \in Nat

\* Seeded fault: among equal priorities the newest is first.
UpToNewestFirst(policies, i) ==
    {j \in 1..Len(policies) :
        \/ policies[j].priority > policies[i].priority
        \/ policies[j].priority = policies[i].priority /\ j >= i}

(* What a stable sort by descending priority puts before the i-th policy,  *)
(* and that policy itself. *)
UpTo(policies, i) ==
    {j \in 1..Len(policies) :
        \/ policies[j].priority > policies[i].priority
        \/ policies[j].priority = policies[i].priority /\ j <= i}

(* Where the sort puts it, and which policy it puts in the n-th place. *)
Place(policies, i) == Cardinality(UpTo(policies, i))
Placed(policies, n) == CHOOSE i \in 1..Len(policies) : Place(policies, i) = n

Sorted(policies) == [n \in 1..Len(policies) |-> policies[Placed(policies, n)]]

(* The policy that decides on request r: the first that matches.  No       *)
(* policy at all is NoPolicy.                                              *)
NoPolicy == [none |-> TRUE]

Matching(policies, r) == {i \in 1..Len(policies) : r \in policies[i].matches}
Least(places)         == CHOOSE i \in places : \A j \in places : i <= j

Resolve(policies, r) ==
    IF Matching(policies, r) = {} THEN NoPolicy ELSE policies[Least(Matching(policies, r))]

(* The default format of an ostream has six digits. *)
Rounded(n) == IF n < Digits THEN n ELSE 10 * ((n + 5) \div 10)

(* A policy as a save and a load give it back. *)
Saved(p) == [p EXCEPT !.params = Rounded(p.params)]

AllValid(policies) == \A i \in 1..Len(policies) : policies[i].valid
=============================================================================
