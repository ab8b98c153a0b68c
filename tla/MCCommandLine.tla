--------------------------- MODULE MCCommandLine ---------------------------
(* CommandLine for TLC: settings on both sides of the six digits that the  *)
(* store keeps.                                                            *)
EXTENDS CommandLine

Setting(counts, size) == [counts |-> counts, size |-> size]

(* Limits and capacities that the text has room for. *)
PlainSettings ==
    {Setting("ints", 5), Setting("ints", 999999), Setting("doubles", 1000000)}

(* A limit of a million requests per window. *)
LargeSettings == {Setting("ints", 5), Setting("ints", 1000000)}
=============================================================================
