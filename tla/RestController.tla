--------------------------- MODULE RestController ---------------------------
(***************************************************************************)
(* The controller of the REST service (api/RestController.cpp) with the    *)
(* policy file (policy/PolicyLoader.cpp) and the start of the process      *)
(* (server_main.cpp).  Worker threads evaluate requests, add policies and  *)
(* read the metrics; the process may crash at any point and starts again   *)
(* from the file.                                                          *)
(*                                                                         *)
(* What a limiter decides, what the audit store does with a row and how    *)
(* Redis fails are in modules of their own; here every outcome they have   *)
(* is possible.  refused, created and before observe.                      *)
(***************************************************************************)
EXTENDS PolicyResolver

CONSTANTS Workers,      \* HTTP worker threads
          Requests,     \* what the policies tell apart: a tenant and an endpoint
          Seeded,       \* the policies in the file at first
          Postable,     \* the policies an administrator may post
          MaxCalls,     \* the bound on calls in all
          MaxFaults,    \* the bound on failures of the file system and crashes
          Nobody, NoFile

Policies == [priority : Int, matches : SUBSET Requests, params : Nat, valid : BOOLEAN]

ASSUME RestControllerAssumption ==
    /\ IsFiniteSet(Workers) /\ Nobody \notin Workers
    /\ MaxCalls \in Nat /\ MaxFaults \in Nat
    /\ Seeded \in Seq(Policies) /\ Postable \subseteq Policies
    /\ AllValid(Seeded) /\ Sorted(Seeded) = Seeded

VARIABLES
    up,         \* whether the process runs
    policies,   \* policies_ of the resolver
    file, temporary,    \* the policy file and the sibling it is written to
    mutation,   \* who holds policyMutationMutex_
    counter,    \* the four atomic counters
    auditUp,    \* available_ of the audit store
    rows,       \* the audited decisions
    pc,         \* the next step of each worker
    data,       \* what its call has got so far
    calls, faults,      \* counted for the bounds
    refused,    \* evaluations of this process answered with 4xx
    created,    \* the policies answered with 201
    before      \* the rows when this process started

book   == <<policies, file, temporary, mutation, created>>
tally  == <<counter, auditUp, rows, refused>>
bounds == <<calls, faults, before>>
vars   == <<up, book, tally, pc, data, bounds>>

Decisions == {"ALLOW", "DENY"}
NoData    == [nothing |-> TRUE]
Zero      == [evaluations |-> 0, allowed |-> 0, denied |-> 0, errors |-> 0]
NoRows    == [d \in Decisions |-> 0]

Steps == {"idle",
          "resolve", "decide", "log", "count",          \* POST /evaluate
          "lock", "write", "rename", "install",         \* POST /policies
          "allowed", "denied", "errors"}                \* GET /metrics

InBook == {Seeded[i] : i \in 1..Len(Seeded)} \cup Postable
Known  == InBook \cup {Saved(p) : p \in InBook}

TypeOK ==
    /\ up \in BOOLEAN
    /\ policies \in Seq(Known)
    /\ file \in Seq(Known)
    /\ temporary = NoFile \/ temporary \in Seq(Known)
    /\ mutation \in Workers \cup {Nobody}
    /\ counter \in [DOMAIN Zero -> Nat]
    /\ auditUp \in BOOLEAN
    /\ rows \in [Decisions -> Nat] /\ before \in [Decisions -> Nat]
    /\ pc \in [Workers -> Steps]
    /\ calls \in 0..MaxCalls /\ faults \in 0..MaxFaults
    /\ refused \in Nat
    /\ created \subseteq Postable
    /\ \A w \in Workers :
         /\ pc[w] \in {"write", "rename", "install"} <=> mutation = w
         /\ pc[w] = "resolve" => data[w] \in [request : Requests]
         /\ pc[w] = "decide" => data[w] \in [policy : Known]
         /\ pc[w] \in {"log", "count"} => data[w] \in [decision : Decisions]
         /\ pc[w] = "lock" => data[w] \in [posted : Postable]
         /\ pc[w] \in {"allowed", "denied", "errors"} => data[w] \in [DOMAIN Zero -> Nat]

Init ==
    /\ up = TRUE
    /\ policies = Seeded
    /\ file = Seeded
    /\ temporary = NoFile
    /\ mutation = Nobody
    /\ counter = Zero
    /\ auditUp = TRUE
    /\ rows = NoRows
    /\ pc = [w \in Workers |-> "idle"]
    /\ data = [w \in Workers |-> NoData]
    /\ calls = 0 /\ faults = 0
    /\ refused = 0
    /\ created = {}
    /\ before = NoRows

-----------------------------------------------------------------------------
Goto(w, step, value) ==
    /\ pc' = [pc EXCEPT ![w] = step]
    /\ data' = [data EXCEPT ![w] = value]

Finish(w) == Goto(w, "idle", NoData)

Add(field) == counter' = [counter EXCEPT ![field] = @ + 1]

Arrive(w) ==
    /\ pc[w] = "idle"
    /\ calls < MaxCalls
    /\ calls' = calls + 1
    /\ UNCHANGED <<up, faults, before>>

(* POST /evaluate counts first. *)
BeginEvaluate(w) ==
    /\ Arrive(w)
    /\ Add("evaluations")
    /\ \E r \in Requests : Goto(w, "resolve", [request |-> r])
    /\ UNCHANGED <<book, auditUp, rows, refused>>

(* 415, 400, 401 and 403: the media type, the body or the token is wrong. *)
Refuse(w) ==
    /\ pc[w] = "resolve"
    /\ refused' = refused + 1
    /\ Finish(w)
    /\ UNCHANGED <<up, book, counter, auditUp, rows, bounds>>

(* A copy of the policy; 404 if there is none. *)
ResolvePolicy(w) ==
    /\ pc[w] = "resolve"
    /\ LET p == Resolve(policies, data[w].request)
       IN  IF p = NoPolicy
             THEN refused' = refused + 1 /\ Finish(w)
             ELSE Goto(w, "decide", [policy |-> p]) /\ UNCHANGED refused
    /\ UNCHANGED <<up, book, counter, auditUp, rows, bounds>>

(* The strategy is made if need be, which succeeds for the policies of the *)
(* resolver, all of them valid, and decides in one step (PolicyEngine).    *)
Decide(w) ==
    /\ pc[w] = "decide"
    /\ \E d \in Decisions : Goto(w, "log", [decision |-> d])
    /\ UNCHANGED <<up, book, tally, bounds>>

(* 503: the state store has failed. *)
DecideFails(w) ==
    /\ pc[w] = "decide"
    /\ Add("errors")
    /\ Finish(w)
    /\ UNCHANGED <<up, book, auditUp, rows, refused, bounds>>

LogRequest(w) ==
    /\ pc[w] = "log"
    /\ auditUp
    /\ rows' = [rows EXCEPT ![data[w].decision] = @ + 1]
    /\ Goto(w, "count", data[w])
    /\ UNCHANGED <<up, book, counter, auditUp, refused, bounds>>

Fault == faults < MaxFaults /\ faults' = faults + 1 /\ UNCHANGED <<calls, before>>

\* Seeded fault: a failed write is counted, but the caller is told its decision.
LogFailsSilently(w) ==
    /\ pc[w] = "log"
    /\ \/ ~auditUp /\ UNCHANGED <<auditUp, bounds>>
       \/ auditUp /\ auditUp' = FALSE /\ Fault
    /\ Add("errors")
    /\ Goto(w, "count", data[w])
    /\ UNCHANGED <<up, book, rows, refused>>

(* 503: the write fails, now or before; the decision stands. *)
LogFails(w) ==
    /\ pc[w] = "log"
    /\ \/ ~auditUp /\ UNCHANGED <<auditUp, bounds>>
       \/ auditUp /\ auditUp' = FALSE /\ Fault
    /\ Add("errors")
    /\ Finish(w)
    /\ UNCHANGED <<up, book, rows, refused>>

(* 200, and one of the two counters. *)
CountDecision(w) ==
    /\ pc[w] = "count"
    /\ Add(IF data[w].decision = "ALLOW" THEN "allowed" ELSE "denied")
    /\ Finish(w)
    /\ UNCHANGED <<up, book, auditUp, rows, refused, bounds>>

-----------------------------------------------------------------------------
(* POST /policies, past the checks that change nothing: createStrategy     *)
(* has accepted the parameters and not seen the match fields.              *)
BeginPost(w) ==
    /\ Arrive(w)
    /\ \E p \in Postable : Goto(w, "lock", [posted |-> p])
    /\ UNCHANGED <<book, tally>>

\* Seeded fault: the list is copied without waiting for the lock.
CopyUnlocked(w) ==
    /\ pc[w] = "lock"
    /\ mutation' = w
    /\ Goto(w, "write", [posted |-> data[w].posted,
                         updated |-> Sorted(Append(policies, data[w].posted))])
    /\ UNCHANGED <<up, policies, file, temporary, created, tally, bounds>>

(* policyMutationMutex_ is held from here on until the return. *)
CopyPolicies(w) ==
    /\ pc[w] = "lock"
    /\ mutation = Nobody
    /\ mutation' = w
    /\ Goto(w, "write", [posted |-> data[w].posted,
                         updated |-> Sorted(Append(policies, data[w].posted))])
    /\ UNCHANGED <<up, policies, file, temporary, created, tally, bounds>>

(* saveToFile.  What a crash leaves of the temporary file is never read. *)
WriteTemporary(w) ==
    /\ pc[w] = "write"
    /\ AllValid(data[w].updated)
    /\ temporary' = [i \in 1..Len(data[w].updated) |-> Saved(data[w].updated[i])]
    /\ Goto(w, "rename", data[w])
    /\ UNCHANGED <<up, policies, file, mutation, created, tally, bounds>>

\* Seeded fault: the lock covers the save, but not setPolicies.
RenameUnlocking(w) ==
    /\ pc[w] = "rename"
    /\ file' = temporary
    /\ temporary' = NoFile
    /\ mutation' = Nobody
    /\ Goto(w, "install", data[w])
    /\ UNCHANGED <<up, policies, created, tally, bounds>>

RenameTemporary(w) ==
    /\ pc[w] = "rename"
    /\ file' = temporary
    /\ temporary' = NoFile
    /\ Goto(w, "install", data[w])
    /\ UNCHANGED <<up, policies, mutation, created, tally, bounds>>

\* Seeded fault: the lock is not given back.
SaveFailsLocked(w) ==
    /\ \/ pc[w] = "write" /\ ~AllValid(data[w].updated) /\ UNCHANGED <<temporary, bounds>>
       \/ pc[w] \in {"write", "rename"} /\ temporary' = NoFile /\ Fault
    /\ Finish(w)
    /\ UNCHANGED <<up, policies, file, mutation, created, tally>>

(* 500: a policy is invalid, or the file cannot be written or renamed; the *)
(* temporary file is removed.                                              *)
SaveFails(w) ==
    /\ \/ pc[w] = "write" /\ ~AllValid(data[w].updated) /\ UNCHANGED <<temporary, bounds>>
       \/ pc[w] \in {"write", "rename"} /\ temporary' = NoFile /\ Fault
    /\ mutation' = Nobody
    /\ Finish(w)
    /\ UNCHANGED <<up, policies, file, created, tally>>

(* setPolicies and 201 *)
InstallPolicies(w) ==
    /\ pc[w] = "install"
    /\ policies' = Sorted(data[w].updated)
    /\ created' = created \cup {data[w].posted}
    /\ mutation' = Nobody
    /\ Finish(w)
    /\ UNCHANGED <<up, file, temporary, tally, bounds>>

-----------------------------------------------------------------------------
(* GET /metrics loads the counters one after the other. *)
BeginMetrics(w) ==
    /\ Arrive(w)
    /\ Goto(w, "allowed", [Zero EXCEPT !.evaluations = counter.evaluations])
    /\ UNCHANGED <<book, tally>>

LoadCounter(w) ==
    /\ \/ pc[w] = "allowed" /\ Goto(w, "denied", [data[w] EXCEPT !.allowed = counter.allowed])
       \/ pc[w] = "denied" /\ Goto(w, "errors", [data[w] EXCEPT !.denied = counter.denied])
       \/ pc[w] = "errors" /\ Finish(w)
    /\ UNCHANGED <<up, book, tally, bounds>>

-----------------------------------------------------------------------------
(* The process ends: only the files are left. *)
Crash ==
    /\ up
    /\ Fault
    /\ up' = FALSE
    /\ policies' = <<>>
    /\ mutation' = Nobody
    /\ pc' = [w \in Workers |-> "idle"]
    /\ data' = [w \in Workers |-> NoData]
    /\ counter' = Zero
    /\ refused' = 0
    /\ UNCHANGED <<file, temporary, created, auditUp, rows>>

(* main loads the file and the audit store, whose trouble is over. *)
Restart ==
    /\ ~up
    /\ up' = TRUE
    /\ policies' = Sorted(file)
    /\ auditUp' = TRUE
    /\ before' = rows
    /\ UNCHANGED <<file, temporary, mutation, created, counter, rows, refused,
                   pc, data, calls, faults>>

Begin(w) == BeginEvaluate(w) \/ BeginPost(w) \/ BeginMetrics(w)

Step(w) ==
    \/ Refuse(w) \/ ResolvePolicy(w) \/ Decide(w) \/ DecideFails(w)
    \/ LogRequest(w) \/ LogFails(w) \/ CountDecision(w)
    \/ CopyPolicies(w) \/ WriteTemporary(w) \/ RenameTemporary(w)
    \/ SaveFails(w) \/ InstallPolicies(w)
    \/ LoadCounter(w)

Next ==
    \/ up /\ \E w \in Workers : Begin(w) \/ Step(w)
    \/ Crash
    \/ Restart

Spec == Init /\ [][Next]_vars

(* Worker threads run, and file operations return. *)
FairSpec == Spec /\ \A w \in Workers : WF_vars(up /\ Step(w))

-----------------------------------------------------------------------------
(* The policies in force, or that a restart would put in force. *)
InForce == IF up THEN policies ELSE file

(* README.md:172: "Policy writes use a temporary file and atomic           *)
(* replacement, then update the thread-safe resolver".  A policy that was  *)
(* answered with 201 decides requests and is in the file, whoever else was *)
(* posting, and whatever failed or crashed since.                          *)
CreatedInForce ==
    \A p \in created :
        /\ \E i \in 1..Len(InForce) : Saved(InForce[i]) = Saved(p)
        /\ \E i \in 1..Len(file) : file[i] = Saved(p)

(* README.md:51: "sorted by descending priority ... Equal priorities       *)
(* retain file order"; TECHNICAL_ONBOARDING.md:707: a post whose save      *)
(* fails "leaves the live resolver unchanged".  Which policy decides a     *)
(* request changes only when one of a higher priority is created, as a     *)
(* whole and with its acknowledgement, or when the process dies on the way *)
(* to it; neither a refused or failed post nor a restart changes it, but   *)
(* for the digits of its parameters that the file does not keep.           *)
Decider(list) ==
    [r \in Requests |-> LET p == Resolve(list, r)
                        IN  IF p = NoPolicy THEN p ELSE Saved(p)]

Book == INSTANCE PolicyBook WITH
            Offered <- {Saved(p) : p \in {q \in Postable : q.valid}},
            First   <- Decider(Seeded),
            Nothing <- NoPolicy,
            decider <- Decider(InForce),
            created <- {Saved(p) : p \in created}

ImplementsPolicyBook == Book!Spec

InFlight(steps) == Cardinality({w \in Workers : pc[w] \in steps})
Counting(d)     == Cardinality({w \in Workers : pc[w] = "count" /\ data[w].decision = d})

(* TECHNICAL_ONBOARDING.md:647: "Only a successfully audited domain        *)
(* decision increments allowed/denied and becomes HTTP 200".  The counters *)
(* and the audit rows of this process tell the same story, and every       *)
(* evaluation that was counted is answered, in error, or under way.  The   *)
(* metrics are no snapshot (RestController.cpp:219: the evaluations are    *)
(* read first, so fewer of them than outcomes may be reported), but never  *)
(* report more outcomes than have begun by the time of the last load.      *)
DecisionsAccounted ==
    /\ up =>
         /\ rows["ALLOW"] - before["ALLOW"] = counter.allowed + Counting("ALLOW")
         /\ rows["DENY"] - before["DENY"] = counter.denied + Counting("DENY")
         /\ counter.evaluations = counter.allowed + counter.denied + counter.errors
                                   + refused + InFlight({"resolve", "decide", "log", "count"})
    /\ \A w \in Workers : pc[w] = "errors" =>
         data[w].allowed + data[w].denied + counter.errors <= counter.evaluations

(* Every call returns or dies with the process: no early return keeps the  *)
(* mutex.                                                                  *)
EveryCallReturns ==
    \A w \in Workers : pc[w] # "idle" ~> pc[w] = "idle"
=============================================================================
