-------------------------- MODULE MCRestController --------------------------
(* Policies for RestController: one of the lowest priority that matches    *)
(* everything but r2 is there at first.  Of those posted, one has the same *)
(* priority and parameters that the file rounds, one a higher priority,    *)
(* and one has an endpoint that is no path.                                *)
EXTENDS RestController

Policy(priority, matches, params, valid) ==
    [priority |-> priority, matches |-> matches, params |-> params, valid |-> valid]

FirstPolicies == <<Policy(1, {"r1"}, 5, TRUE)>>

NewPolicies ==
    {Policy(1, {"r1", "r2"}, 14, TRUE),
     Policy(2, {"r1"}, 7, TRUE),
     Policy(2, {"r2"}, 7, FALSE)}
=============================================================================
