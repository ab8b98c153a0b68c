-------------------------- MODULE WindowParameters --------------------------
(***************************************************************************)
(* The parameters of the window algorithms that validate accepts           *)
(* (policy/Policy.cpp): a positive whole limit and a positive window.      *)
(***************************************************************************)
EXTENDS Clock

CONSTANTS Limit,        \* limit
          Window        \* window, in ticks

ASSUME WindowAssumption ==
    /\ Limit \in Nat \ {0}
    /\ Window \in Nat \ {0}
=============================================================================
