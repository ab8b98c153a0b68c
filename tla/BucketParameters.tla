-------------------------- MODULE BucketParameters --------------------------
(***************************************************************************)
(* The parameters of a token or leaky bucket that validate accepts         *)
(* (policy/Policy.cpp).  Amounts are integers in units of which a request  *)
(* takes Cost, so that fractional capacities and rates are representable:  *)
(* Capacity need not be a multiple of Cost, and may be less than Cost.     *)
(***************************************************************************)
EXTENDS Clock

CONSTANTS Capacity,     \* capacity, in units
          Rate,         \* refill or leakRate, in units per tick
          Cost          \* the 1.0 that one request takes, in units

ASSUME BucketAssumption ==
    /\ Capacity \in Nat \ {0}
    /\ Rate \in Nat
    /\ Cost \in Nat \ {0}
=============================================================================
