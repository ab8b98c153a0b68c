------------------------------- MODULE Clock -------------------------------
(* The clock of the limiters counts ticks, up to a bound.                  *)
EXTENDS Integers

CONSTANT MaxTime        \* the bound on the clock

ASSUME ClockAssumption == MaxTime \in Nat
=============================================================================
