---------------------------- MODULE PolicyEngine ----------------------------
(***************************************************************************)
(* The policy engine (PolicyEngine.h, PolicyEngine.cpp) under concurrent   *)
(* callers, with the lazy creation that RestController::handleEvaluate     *)
(* wraps around it.  A call is a sequence of steps of one worker thread;   *)
(* what runs under registryMutex_ is one step, what runs under the mutex   *)
(* of an entry is several, so that the mutex is seen to be needed.         *)
(*                                                                         *)
(* A strategy is what every local algorithm is between two instants of its *)
(* clock: a number of used admissions that allowRequest reads, compares    *)
(* with a limit and writes back.                                           *)
(***************************************************************************)
EXTENDS Integers, FiniteSets

CONSTANTS Workers,      \* the threads that call the engine
          Keys,         \* tenant ids, or policy keys of buildPolicyKey
          Entries,      \* the Entry objects there may ever be (a bound)
          Limit,        \* what one strategy admits
          Kinds,        \* the public operations in use, a subset of AllKinds
          MaxCalls,     \* the bound on the calls of one worker
          NoEntry,      \* nullptr
          NoWorker      \* a mutex that is free

(* served: handleEvaluate's hasTenant, ensurePolicy, evaluateDetailed;     *)
(* direct: evaluate or evaluateDetailed alone; unsafe: evaluateUnsafe;     *)
(* set, reset: setPolicy, resetPolicy; query: getState or getAlgorithm.    *)
AllKinds == {"served", "direct", "unsafe", "set", "reset", "query"}

ASSUME PolicyEngineAssumption ==
    /\ Kinds \subseteq AllKinds
    /\ Limit \in Nat \ {0}
    /\ MaxCalls \in Nat
    /\ NoEntry \notin Entries \cup Keys
    /\ NoWorker \notin Workers

VARIABLES
    registry,   \* tenantPolicies_
    keyOf,      \* the key an Entry was made for; NoEntry while it is not made
    owner,      \* the holder of Entry::mutex
    used,       \* the state of Entry::strategy
    pc,         \* the next step of each worker
    call,       \* the number, operation and key of its present call
    entry,      \* its copy of the shared_ptr that findEntry returned
    loaded,     \* what its allowRequest read of the strategy
    answer,     \* the number, entry and verdict of its last decision
    state,      \* EvaluationResult::state, as a count
    granted,    \* the admissions each entry has given since its last reset
    admits,     \* the admissions each key has been given
    renewals    \* the setPolicy and resetPolicy calls that renewed a key

shared  == <<registry, keyOf, owner, used>>
local   == <<call, entry, loaded, answer, state>>
history == <<granted, admits, renewals>>
vars    == <<shared, pc, local, history>>

Steps == {"idle", "check", "ensure", "set", "find", "lock", "load", "store",
          "snapshot", "reset", "unlock"}

NoCall == [number |-> 0, kind |-> "none", key |-> NoEntry]

TypeOK ==
    /\ registry \in [Keys -> Entries \cup {NoEntry}]
    /\ keyOf \in [Entries -> Keys \cup {NoEntry}]
    /\ owner \in [Entries -> Workers \cup {NoWorker}]
    /\ used \in [Entries -> 0..Limit]
    /\ pc \in [Workers -> Steps]
    /\ call \in [Workers -> [number : 0..MaxCalls, kind : Kinds \cup {"none"},
                             key : Keys \cup {NoEntry}]]
    /\ entry \in [Workers -> Entries \cup {NoEntry}]
    /\ loaded \in [Workers -> 0..Limit]
    /\ answer \in [Workers -> (0..MaxCalls) \X (Entries \cup {NoEntry})
                                \X {"none", "allow", "deny"}]
    /\ state \in [Workers -> 0..Limit]
    /\ granted \in [Entries -> Nat]
    /\ admits \in [Keys -> Nat]
    /\ renewals \in [Keys -> Nat]

Init ==
    /\ registry = [k \in Keys |-> NoEntry]
    /\ keyOf = [e \in Entries |-> NoEntry]
    /\ owner = [e \in Entries |-> NoWorker]
    /\ used = [e \in Entries |-> 0]
    /\ pc = [w \in Workers |-> "idle"]
    /\ call = [w \in Workers |-> NoCall]
    /\ entry = [w \in Workers |-> NoEntry]
    /\ loaded = [w \in Workers |-> 0]
    /\ answer = [w \in Workers |-> <<0, NoEntry, "none">>]
    /\ state = [w \in Workers |-> 0]
    /\ granted = [e \in Entries |-> 0]
    /\ admits = [k \in Keys |-> 0]
    /\ renewals = [k \in Keys |-> 0]

-----------------------------------------------------------------------------
Goto(w, step) == pc' = [pc EXCEPT ![w] = step]

Key(w)  == call[w].key
Kind(w) == call[w].kind

(* A worker calls one of the operations on a key. *)
Call(w, kind, k) ==
    /\ pc[w] = "idle"
    /\ call[w].number < MaxCalls
    /\ call' = [call EXCEPT ![w] = [number |-> @.number + 1, kind |-> kind, key |-> k]]
    /\ Goto(w, CASE kind = "served" -> "check"
                 [] kind = "set" -> "set"
                 [] OTHER -> "find")
    /\ UNCHANGED <<shared, entry, loaded, answer, state, history>>

StartCall(w) == \E kind \in Kinds, k \in Keys : Call(w, kind, k)

(* hasTenant, under the shared registry lock. *)
HasTenant(w) ==
    /\ pc[w] = "check"
    /\ Goto(w, IF registry[Key(w)] = NoEntry THEN "ensure" ELSE "find")
    /\ UNCHANGED <<shared, local, history>>

(* make_shared<Entry>: which of the unused entries it is does not matter. *)
Unused == {e \in Entries : keyOf[e] = NoEntry}
NewEntry == CHOOSE e \in Unused : TRUE

(* A new Entry with a fresh strategy, installed for the worker's key. *)
Install(w) ==
    /\ Unused # {}
    /\ keyOf' = [keyOf EXCEPT ![NewEntry] = Key(w)]
    /\ registry' = [registry EXCEPT ![Key(w)] = NewEntry]

\* Seeded fault: ensurePolicy trusts the earlier hasTenant and overwrites.
EnsureOverwriting(w) ==
    /\ pc[w] = "ensure"
    /\ Goto(w, "find")
    /\ Install(w)
    /\ UNCHANGED <<owner, used, local, history>>

(* createStrategy and ensurePolicy: insert unless another worker has, in   *)
(* which case the new strategy is thrown away.                             *)
EnsurePolicy(w) ==
    /\ pc[w] = "ensure"
    /\ Goto(w, "find")
    /\ IF registry[Key(w)] = NoEntry
         THEN Install(w)
         ELSE UNCHANGED <<registry, keyOf>>
    /\ UNCHANGED <<owner, used, local, history>>

(* setPolicy: replace whatever is there, under the unique registry lock. *)
SetPolicy(w) ==
    /\ pc[w] = "set"
    /\ Goto(w, "idle")
    /\ Install(w)
    /\ renewals' = [renewals EXCEPT ![Key(w)] =
                      IF registry[Key(w)] = NoEntry THEN @ ELSE @ + 1]
    /\ UNCHANGED <<owner, used, local, granted, admits>>

(* findEntry, under the shared registry lock; a call on an unknown key     *)
(* returns here, with found = false.                                       *)
FindEntry(w) ==
    /\ pc[w] = "find"
    /\ entry' = [entry EXCEPT ![w] = registry[Key(w)]]
    /\ Goto(w, IF registry[Key(w)] = NoEntry THEN "idle"
               ELSE IF Kind(w) = "unsafe" THEN "load" ELSE "lock")
    /\ UNCHANGED <<shared, call, loaded, answer, state, history>>

\* Seeded fault: the guard on the mutex is dropped, as in evaluateUnsafe.
LockIgnoring(w) ==
    /\ pc[w] = "lock"
    /\ owner' = [owner EXCEPT ![entry[w]] = w]
    /\ Goto(w, CASE Kind(w) = "reset" -> "reset"
                 [] Kind(w) = "query" -> "snapshot"
                 [] OTHER -> "load")
    /\ UNCHANGED <<registry, keyOf, used, local, history>>

(* lock_guard on the entry's own mutex. *)
Lock(w) ==
    /\ pc[w] = "lock"
    /\ owner[entry[w]] = NoWorker
    /\ owner' = [owner EXCEPT ![entry[w]] = w]
    /\ Goto(w, CASE Kind(w) = "reset" -> "reset"
                 [] Kind(w) = "query" -> "snapshot"
                 [] OTHER -> "load")
    /\ UNCHANGED <<registry, keyOf, used, local, history>>

(* allowRequest, first half: the state is read ... *)
Load(w) ==
    /\ pc[w] = "load"
    /\ loaded' = [loaded EXCEPT ![w] = used[entry[w]]]
    /\ Goto(w, "store")
    /\ UNCHANGED <<shared, call, entry, answer, state, history>>

AfterStore(w) == IF Kind(w) = "unsafe" THEN "idle" ELSE "snapshot"

\* Seeded fault: one request takes two admissions from the strategy.
StoreAllowTwice(w) ==
    /\ pc[w] = "store"
    /\ loaded[w] < Limit
    /\ used' = [used EXCEPT ![entry[w]] = loaded[w] + 2]
    /\ answer' = [answer EXCEPT ![w] = <<call[w].number, entry[w], "allow">>]
    /\ granted' = [granted EXCEPT ![entry[w]] = @ + 1]
    /\ admits' = [admits EXCEPT ![Key(w)] = @ + 1]
    /\ Goto(w, AfterStore(w))
    /\ UNCHANGED <<registry, keyOf, owner, call, entry, loaded, state, renewals>>

\* Seeded fault: the mutex is released before the result is put together.
StoreReleasing(w) ==
    /\ pc[w] = "store"
    /\ loaded[w] < Limit
    /\ used' = [used EXCEPT ![entry[w]] = loaded[w] + 1]
    /\ owner' = [owner EXCEPT ![entry[w]] = NoWorker]
    /\ answer' = [answer EXCEPT ![w] = <<call[w].number, entry[w], "allow">>]
    /\ granted' = [granted EXCEPT ![entry[w]] = @ + 1]
    /\ admits' = [admits EXCEPT ![Key(w)] = @ + 1]
    /\ Goto(w, AfterStore(w))
    /\ UNCHANGED <<registry, keyOf, call, entry, loaded, state, renewals>>

(* ... second half: compared with the limit and written back. *)
StoreAllow(w) ==
    /\ pc[w] = "store"
    /\ loaded[w] < Limit
    /\ used' = [used EXCEPT ![entry[w]] = loaded[w] + 1]
    /\ answer' = [answer EXCEPT ![w] = <<call[w].number, entry[w], "allow">>]
    /\ granted' = [granted EXCEPT ![entry[w]] = @ + 1]
    /\ admits' = [admits EXCEPT ![Key(w)] = @ + 1]
    /\ Goto(w, AfterStore(w))
    /\ UNCHANGED <<registry, keyOf, owner, call, entry, loaded, state, renewals>>

StoreDeny(w) ==
    /\ pc[w] = "store"
    /\ loaded[w] >= Limit
    /\ used' = [used EXCEPT ![entry[w]] = loaded[w]]
    /\ answer' = [answer EXCEPT ![w] = <<call[w].number, entry[w], "deny">>]
    /\ Goto(w, AfterStore(w))
    /\ UNCHANGED <<registry, keyOf, owner, call, entry, loaded, state, history>>

(* strategy->getState(), still under the entry's mutex. *)
Snapshot(w) ==
    /\ pc[w] = "snapshot"
    /\ state' = [state EXCEPT ![w] = used[entry[w]]]
    /\ Goto(w, "unlock")
    /\ UNCHANGED <<shared, call, entry, loaded, answer, history>>

(* strategy->reset(), under the entry's mutex. *)
ResetStrategy(w) ==
    /\ pc[w] = "reset"
    /\ used' = [used EXCEPT ![entry[w]] = 0]
    /\ granted' = [granted EXCEPT ![entry[w]] = 0]
    /\ renewals' = [renewals EXCEPT ![Key(w)] = @ + 1]
    /\ Goto(w, "unlock")
    /\ UNCHANGED <<registry, keyOf, owner, local, admits>>

\* Seeded fault: an exit path that leaves the mutex locked.
UnlockForgotten(w) ==
    /\ pc[w] = "unlock"
    /\ Goto(w, "idle")
    /\ owner' = IF Kind(w) = "query" THEN owner
                ELSE [owner EXCEPT ![entry[w]] = NoWorker]
    /\ UNCHANGED <<registry, keyOf, used, local, history>>

(* The lock_guard goes out of scope and the call returns. *)
Unlock(w) ==
    /\ pc[w] = "unlock"
    /\ owner' = [owner EXCEPT ![entry[w]] = NoWorker]
    /\ Goto(w, "idle")
    /\ UNCHANGED <<registry, keyOf, used, local, history>>

Step(w) ==
    \/ HasTenant(w) \/ EnsurePolicy(w) \/ SetPolicy(w) \/ FindEntry(w)
    \/ Lock(w) \/ Load(w) \/ StoreAllow(w) \/ StoreDeny(w)
    \/ Snapshot(w) \/ ResetStrategy(w) \/ Unlock(w)

(* The workers have made all their calls. *)
Terminated ==
    /\ \A w \in Workers : pc[w] = "idle" /\ call[w].number = MaxCalls
    /\ UNCHANGED vars

Next == (\E w \in Workers : StartCall(w) \/ Step(w)) \/ Terminated

Spec == Init /\ [][Next]_vars

(* The scheduler runs every thread that can run; nothing is assumed of the *)
(* order in which a mutex is handed over.                                  *)
FairSpec == Spec /\ \A w \in Workers : WF_vars(Step(w))

-----------------------------------------------------------------------------
(* "The critical invariant": between two renewals an entry admits at most  *)
(* its limit, however many threads evaluate it at once.                    *)
NoOverAdmission ==
    \A e \in Entries : granted[e] <= Limit

(* Workers that find a key missing at the same time do not each hand it a  *)
(* quota, and requests still holding an entry that setPolicy replaced take *)
(* from what that entry had left: a key is given one limit per renewal.    *)
OneQuotaPerRenewal ==
    \A k \in Keys : admits[k] <= Limit * (1 + renewals[k])

(* An EvaluationResult is of one piece: the state it reports is the one    *)
(* its own decision left behind, not that of another thread's.             *)
ResultCoherent ==
    \A w \in Workers :
        (pc[w] = "unlock" /\ Kind(w) \in {"served", "direct"}) =>
            state[w] = IF answer[w][3] = "allow" THEN loaded[w] + 1 ELSE Limit

(* The engine is a ledger of quotas with indivisible decisions. *)
Ledger == INSTANCE QuotaLedger WITH current <- registry, spent <- used
ImplementsLedger == Ledger!Spec

(* Every call returns: no thread waits for ever for a mutex, whichever of  *)
(* the operations are in progress. *)
EveryCallReturns ==
    \A w \in Workers : pc[w] # "idle" ~> pc[w] = "idle"

(* The inductive invariant behind NoOverAdmission and ImplementsLedger,    *)
(* for callers that keep away from evaluateUnsafe.  A call in progress has *)
(* a key, and an entry once it has found one ... *)
CallInProgress ==
    \A w \in Workers :
        /\ pc[w] # "idle" => Key(w) \in Keys /\ Kind(w) \in Kinds
        /\ pc[w] \in {"lock", "load", "store", "snapshot", "reset", "unlock"} =>
              entry[w] \in Entries

(* ... a worker between Lock and Unlock owns its entry ... *)
HoldsMutex ==
    \A w \in Workers :
        pc[w] \in {"load", "store", "snapshot", "reset", "unlock"} =>
            owner[entry[w]] = w

(* ... and what it loaded is still there when it stores ... *)
LoadedIsCurrent ==
    \A w \in Workers : pc[w] = "store" => loaded[w] = used[entry[w]]

(* ... so that every admission is counted once ... *)
CountIsExact ==
    \A e \in Entries : granted[e] = used[e]

(* ... an entry not yet made is known to nobody ... *)
UnusedUnknown ==
    /\ \A k \in Keys, e \in Entries : registry[k] = e => keyOf[e] # NoEntry
    /\ \A w \in Workers, e \in Entries : entry[w] = e => keyOf[e] # NoEntry
    /\ \A e \in Entries : keyOf[e] = NoEntry => used[e] = 0

(* ... and a call is answered once. *)
AnsweredOnce ==
    \A w \in Workers :
        /\ answer[w][1] <= call[w].number
        /\ pc[w] \in {"check", "ensure", "set", "find", "lock", "load", "store"} =>
              answer[w][1] < call[w].number

EngineInv ==
    /\ TypeOK
    /\ CallInProgress
    /\ HoldsMutex
    /\ LoadedIsCurrent
    /\ CountIsExact
    /\ UnusedUnknown
    /\ AnsweredOnce
=============================================================================
