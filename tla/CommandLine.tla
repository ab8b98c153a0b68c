---------------------------- MODULE CommandLine ----------------------------
(***************************************************************************)
(* The command line program (main.cpp): one thread reads commands and      *)
(* calls the policy engine, to which it gives back at its start the        *)
(* policies that the local store has kept; the stress test adds two        *)
(* threads.  Input may end or not be a number, the store may fail, and the *)
(* process may be killed and started again.                                *)
(*                                                                         *)
(* The engine is PolicyEngine, where every strategy admits Limit; what it  *)
(* was set to is kept beside it.  What goes on inside the store is in      *)
(* AuditStore, and its audit rows are not shown here.  asked and kept      *)
(* observe, and are never read.                                            *)
(***************************************************************************)
EXTENDS Integers, Sequences, FiniteSets

CONSTANTS Main, Threads,    \* the thread of main, and those of the stress test
          Tenants,          \* the ids that are typed
          Stress, Empty,    \* "_stress_", and the id when none could be read
          Settings,         \* what a policy may be set to
          Entries, NoEntry, NoWorker,   \* for PolicyEngine
          Limit, ReqsEach,  \* LIMIT and REQS_EACH of the stress test
          MaxBurst,         \* the bound on the requests of a burst simulation
          MaxCommands,      \* the bound on commands
          MaxFaults,        \* the bound on failures of the store and kills
          Nothing           \* no setting

Ids     == Tenants \cup {Stress, Empty}
Workers == Threads \cup {Main}

(* A limit is an int; a capacity, a double, is taken to be a whole number  *)
(* in the same range.                                                      *)
INT_MAX     == 2147483647
AllSettings == [counts : {"doubles", "ints"}, size : Nat \ {0}]

ASSUME CommandLineAssumption ==
    /\ IsFiniteSet(Tenants) /\ IsFiniteSet(Threads) /\ Main \notin Threads
    /\ NoEntry \notin Entries \cup Ids /\ NoWorker \notin Workers
    /\ Limit \in Nat \ {0} /\ ReqsEach \in Nat
    /\ ReqsEach * Cardinality(Threads) >= Limit
    /\ MaxBurst \in Nat /\ MaxCommands \in Nat /\ MaxFaults \in Nat
    /\ Settings \subseteq AllSettings /\ \A s \in Settings : s.size <= INT_MAX
    /\ Nothing \notin AllSettings

VARIABLES
    registry, keyOf, owner, used, pc, call, entry, loaded, answer, state,
    granted, admits, renewals,      \* of PolicyEngine
    at,         \* where main is when no call of its own is in progress
    command,    \* the tenant, setting and count of the present command
    setting,    \* what the strategy of each entry was made with
    input,      \* whether std::cin is still good
    file,       \* the settings in the store, as text
    available,  \* available_ of the store
    opened,     \* whether this process has read the file
    left,       \* the tenants still to be restored
    allowed,    \* unsafeAllowed or safeAllowed
    report,     \* what the stress test has printed of them
    asked,      \* what each tenant was last set to
    kept,       \* the tenants whose last saveTenant returned true
    commands, faults    \* counted for the bounds

E == INSTANCE PolicyEngine
       WITH Keys <- Ids, Kinds <- {"direct", "unsafe", "set"},
            MaxCalls <- ReqsEach + MaxBurst + Cardinality(Ids)

engine == <<registry, keyOf, owner, used, pc, call, entry, loaded, answer, state,
            granted, admits, renewals>>
store  == <<file, available, opened, kept>>
stress == <<allowed, report>>
bounds == <<commands, faults>>
vars   == <<engine, at, command, setting, input, store, left, stress, asked, bounds>>

Places == {"down", "restore", "menu", "save", "evaluate", "log",
           "unsafe", "again", "direct"}

NoCommand == [id |-> Empty, setting |-> Nothing, count |-> 0]

TypeOK ==
    /\ E!TypeOK
    /\ at \in Places
    /\ command.id \in Ids /\ command.count \in 0..MaxBurst
    /\ \A e \in Entries : setting[e] = Nothing <=> keyOf[e] = NoEntry
    /\ input \in BOOLEAN /\ available \in BOOLEAN /\ opened \in BOOLEAN
    /\ DOMAIN file = Ids /\ DOMAIN asked = Ids
    /\ kept \subseteq {t \in Ids : file[t] # Nothing}
    /\ left \subseteq {t \in Ids : file[t] # Nothing}
    /\ allowed \in 0..(ReqsEach * Cardinality(Threads))
    /\ report \in Seq(Nat) /\ Len(report) <= 2
    /\ commands \in 0..MaxCommands /\ faults \in 0..MaxFaults

NoSettings == [t \in Ids |-> Nothing]

(* Before the first start there is no file. *)
Init ==
    /\ E!Init
    /\ at = "down"
    /\ command = NoCommand
    /\ setting = [e \in Entries |-> Nothing]
    /\ input = TRUE
    /\ file = NoSettings
    /\ available = FALSE /\ opened = FALSE
    /\ left = {}
    /\ allowed = 0 /\ report = <<>>
    /\ asked = NoSettings
    /\ kept = {}
    /\ commands = 0 /\ faults = 0

-----------------------------------------------------------------------------
(* Numbers as text: makeParams writes six significant digits, rounded half *)
(* to even, and a number with more than six in the form d.ddddde+xx.       *)
Million == 1000000

Unit(n) == CHOOSE u \in {1, 10, 100, 1000, 10000} : n < u * Million /\
                    (u = 1 \/ n >= u * (Million \div 10))

SixDigits(n) ==
    LET u == Unit(n)
        q == n \div u
        r == n % u
    IN  u * (IF 2 * r > u \/ (2 * r = u /\ q % 2 = 1) THEN q + 1 ELSE q)

(* std::stoi stops at the first character that is no digit. *)
Leading(n) == CHOOSE d \in 1..9 : \E k \in {1, 10, 100, 1000} :
                d * k * Million <= n /\ n < (d + 1) * k * Million

(* What makeStrategy makes of what makeParams wrote: a capacity is read    *)
(* with std::stod, a limit with std::stoi.  Only this first parameter of a *)
(* setting is followed, as a whole number; the second (refill or window),  *)
(* fractions, and text that std::stod or std::stoi rejects are not.        *)
ReadBack(s) ==
    [s EXCEPT !.size = IF s.counts = "ints" /\ SixDigits(@) >= Million
                         THEN Leading(SixDigits(@))
                         ELSE SixDigits(@)]

-----------------------------------------------------------------------------
(* No call is in progress, and nothing of the last is on any stack. *)
EmptyStacks ==
    /\ call' = [w \in Workers |-> E!NoCall]
    /\ entry' = [w \in Workers |-> NoEntry]
    /\ loaded' = [w \in Workers |-> 0]
    /\ answer' = [w \in Workers |-> <<0, NoEntry, "none">>]
    /\ state' = [w \in Workers |-> 0]

Unwind ==
    /\ EmptyStacks
    /\ command' = NoCommand
    /\ UNCHANGED <<registry, keyOf, owner, used, pc, granted, admits, renewals>>

MainAt(place) == at = place /\ pc[Main] = "idle"

Fault == faults < MaxFaults /\ faults' = faults + 1 /\ UNCHANGED commands

(* A step of a call on the engine.  SetPolicy brings the strategy that     *)
(* main has made; a thread of the stress test counts what it was allowed.  *)
EngineStep(w) ==
    /\ E!Step(w)
    /\ setting' = [e \in Entries |-> IF keyOf'[e] # keyOf[e] THEN command.setting
                                                             ELSE setting[e]]
    /\ allowed' = IF w \in Threads /\ answer'[w] # answer[w] /\ answer'[w][3] = "allow"
                    THEN allowed + 1
                    ELSE allowed
    /\ UNCHANGED <<at, command, input, store, left, report, asked, bounds>>

-----------------------------------------------------------------------------
(* The process starts: the store opens and reads the file, or the program  *)
(* goes on in memory.                                                      *)
Start ==
    /\ at = "down"
    /\ at' = "restore"
    /\ \/ /\ available' = TRUE /\ opened' = TRUE
          /\ left' = {t \in Ids : file[t] # Nothing}
          /\ UNCHANGED bounds
       \/ Fault /\ UNCHANGED <<available, opened, left>>
    /\ input' = TRUE
    /\ UNCHANGED <<engine, command, setting, file, kept, stress, asked>>

(* setPolicy for one of loadAllTenants; their order does not matter. *)
Restore ==
    /\ MainAt("restore")
    /\ left # {}
    /\ LET t == CHOOSE t \in left : TRUE
       IN  /\ left' = left \ {t}
           /\ command' = [id |-> t, setting |-> ReadBack(file[t]), count |-> 0]
           /\ E!Call(Main, "set", t)
    /\ UNCHANGED <<at, setting, input, store, stress, asked, bounds>>

(* "Restored ... tenant policies" *)
Restored ==
    /\ MainAt("restore")
    /\ left = {}
    /\ at' = "menu"
    /\ Unwind
    /\ UNCHANGED <<setting, input, store, left, stress, asked, bounds>>

(* A choice is read, and the id with it.  What std::cin cannot read stays  *)
(* as it was: the choice and the numbers uninitialized, and so anything,   *)
(* and the id empty.                                                       *)
Read(good, id) ==
    /\ MainAt("menu")
    /\ commands < MaxCommands
    /\ commands' = commands + 1 /\ UNCHANGED faults
    /\ good => input
    /\ input' = good
    /\ IF good THEN id # Empty ELSE input \/ id = Empty

(* Add tenant, show state, show the audit log, an invalid choice, settings *)
(* that are refused, and the benchmarks, which have engines of their own:  *)
(* only the input changes.                                                 *)
Look ==
    /\ \E good \in BOOLEAN, id \in Ids : Read(good, id)
    /\ UNCHANGED <<engine, at, command, setting, store, left, stress, asked>>

(* setPolicyMenu sets the policy first ... *)
SetPolicy ==
    /\ \E good \in BOOLEAN, id \in Ids, s \in Settings :
          /\ Read(good, id)
          /\ command' = [id |-> id, setting |-> s, count |-> 0]
          /\ E!Call(Main, "set", id)
    /\ at' = "save"
    /\ UNCHANGED <<setting, store, left, stress, asked>>

\* Seeded fault: a tenant that is in the store already keeps its old row.
SaveTenantOnce ==
    /\ MainAt("save")
    /\ available
    /\ file' = [file EXCEPT ![command.id] = IF @ = Nothing THEN command.setting ELSE @]
    /\ kept' = kept \cup {command.id}
    /\ asked' = [asked EXCEPT ![command.id] = command.setting]
    /\ at' = "menu"
    /\ Unwind
    /\ UNCHANGED <<setting, input, available, opened, left, stress, bounds>>

(* ... and saves it then. *)
SaveTenant ==
    /\ MainAt("save")
    /\ available
    /\ file' = [file EXCEPT ![command.id] = command.setting]
    /\ kept' = kept \cup {command.id}
    /\ asked' = [asked EXCEPT ![command.id] = command.setting]
    /\ at' = "menu"
    /\ Unwind
    /\ UNCHANGED <<setting, input, available, opened, left, stress, bounds>>

(* saveTenant returns false, now that a write fails or since one did; main *)
(* does not look.                                                          *)
SaveFails ==
    /\ MainAt("save")
    /\ \/ ~available /\ UNCHANGED bounds
       \/ available /\ Fault
    /\ available' = FALSE
    /\ kept' = kept \ {command.id}
    /\ asked' = [asked EXCEPT ![command.id] = command.setting]
    /\ at' = "menu"
    /\ Unwind
    /\ UNCHANGED <<setting, input, file, opened, left, stress>>

-----------------------------------------------------------------------------
(* A single request or a burst, of a tenant that hasTenant knows. *)
Simulate ==
    /\ \E good \in BOOLEAN, id \in Ids, n \in 1..MaxBurst :
          /\ Read(good, id)
          /\ registry[id] # NoEntry
          /\ command' = [id |-> id, setting |-> Nothing, count |-> n]
    /\ at' = "evaluate"
    /\ UNCHANGED <<engine, setting, store, left, stress, asked>>

Evaluate ==
    /\ MainAt("evaluate")
    /\ command.count > 0
    /\ command' = [command EXCEPT !.count = @ - 1]
    /\ E!Call(Main, "direct", command.id)
    /\ at' = "log"
    /\ UNCHANGED <<setting, input, store, left, stress, asked, bounds>>

(* logEvaluation: main does not look at what logRequest returns.  What it  *)
(* and the table show, getAlgorithm and getState, is as evaluate left it:  *)
(* no other thread runs.                                                   *)
LogEvaluation ==
    /\ MainAt("log")
    /\ \/ UNCHANGED <<available, bounds>>
       \/ available /\ available' = FALSE /\ Fault
    /\ at' = "evaluate"
    /\ UNCHANGED <<engine, command, setting, input, file, opened, left, kept,
                   stress, asked>>

Simulated ==
    /\ MainAt("evaluate")
    /\ command.count = 0
    /\ at' = "menu"
    /\ Unwind
    /\ UNCHANGED <<setting, input, store, left, stress, asked, bounds>>

-----------------------------------------------------------------------------
(* The stress test: a full bucket that does not refill, and two threads    *)
(* that call evaluateUnsafe.  The policy is not saved.                     *)
FullBucket == [id |-> Stress, setting |-> [counts |-> "doubles", size |-> Limit],
               count |-> 0]

StressTest ==
    /\ \E good \in BOOLEAN, id \in Ids : Read(good, id)
    /\ command' = FullBucket
    /\ E!Call(Main, "set", Stress)
    /\ at' = "unsafe"
    /\ allowed' = 0 /\ report' = <<>>
    /\ UNCHANGED <<setting, store, left, asked>>

Racing == at \in {"unsafe", "direct"} /\ pc[Main] = "idle"

Request(t) ==
    /\ Racing
    /\ call[t].number < ReqsEach
    /\ E!Call(t, at, Stress)
    /\ UNCHANGED <<at, command, setting, input, store, left, stress, asked, bounds>>

\* Seeded fault: both runs count in one variable that is set to 0 once.
JoinKeepingCount ==
    /\ Racing
    /\ \A t \in Threads : pc[t] = "idle" /\ call[t].number = ReqsEach
    /\ report' = Append(report, allowed)
    /\ IF at = "unsafe" THEN at' = "again" ELSE at' = "menu"
    /\ Unwind
    /\ UNCHANGED <<setting, input, store, left, allowed, asked, bounds>>

(* Both threads are joined, and the counter is printed. *)
Join ==
    /\ Racing
    /\ \A t \in Threads : pc[t] = "idle" /\ call[t].number = ReqsEach
    /\ report' = Append(report, allowed)
    /\ allowed' = 0
    /\ IF at = "unsafe" THEN at' = "again" ELSE at' = "menu"
    /\ Unwind
    /\ UNCHANGED <<setting, input, store, left, asked, bounds>>

\* Seeded fault: the second run goes on with the bucket of the first.
RunAgainEmpty ==
    /\ MainAt("again")
    /\ at' = "direct"
    /\ UNCHANGED <<engine, command, setting, input, store, left, stress, asked, bounds>>

(* The second run, with evaluate and another full bucket. *)
RunAgain ==
    /\ MainAt("again")
    /\ command' = FullBucket
    /\ E!Call(Main, "set", Stress)
    /\ at' = "direct"
    /\ UNCHANGED <<setting, input, store, left, stress, asked, bounds>>

-----------------------------------------------------------------------------
(* The process ends: what it had in memory is gone, and what a tenant was  *)
(* asked to be is still known of those that were kept.                     *)
End ==
    /\ at' = "down"
    /\ registry' = [k \in Ids |-> NoEntry]
    /\ keyOf' = [e \in Entries |-> NoEntry]
    /\ owner' = [e \in Entries |-> NoWorker]
    /\ used' = [e \in Entries |-> 0]
    /\ pc' = [w \in Workers |-> "idle"]
    /\ granted' = [e \in Entries |-> 0]
    /\ admits' = [k \in Ids |-> 0] /\ renewals' = [k \in Ids |-> 0]
    /\ EmptyStacks
    /\ setting' = [e \in Entries |-> Nothing]
    /\ command' = NoCommand
    /\ available' = FALSE /\ opened' = FALSE
    /\ left' = {}
    /\ allowed' = 0 /\ report' = <<>>
    /\ asked' = [t \in Ids |-> IF t \in kept THEN asked[t] ELSE Nothing]
    /\ UNCHANGED <<file, kept>>

(* Choice 9. *)
Exit ==
    /\ \E good \in BOOLEAN, id \in Ids : Read(good, id)
    /\ End

(* In the middle of saveTenant it is before or after the rename. *)
Kill ==
    /\ at # "down"
    /\ Fault
    /\ End
    /\ UNCHANGED input

Terminated ==
    /\ MainAt("menu") /\ commands = MaxCommands
    /\ UNCHANGED vars

Next ==
    \/ Start \/ Restore \/ Restored
    \/ Look \/ SetPolicy \/ SaveTenant \/ SaveFails
    \/ Simulate \/ Evaluate \/ LogEvaluation \/ Simulated
    \/ StressTest \/ Join \/ RunAgain
    \/ \E t \in Threads : Request(t)
    \/ \E w \in Workers : EngineStep(w)
    \/ Exit \/ Kill \/ Terminated

Spec == Init /\ [][Next]_vars

-----------------------------------------------------------------------------
(* main.cpp:333: "Correct result: exactly 1000 allowed".  With the mutex   *)
(* it is so in every interleaving; without, updates are lost, so that more *)
(* is allowed than the limit and never less: Metrics.cpp:72, which counts  *)
(* max(0, allowed - limit) as over-admissions, hides nothing.              *)
StressReport ==
    /\ Len(report) >= 1 => report[1] >= Limit
    /\ Len(report) = 2 => report[2] = Limit

InForce(t) == IF registry[t] = NoEntry THEN Nothing ELSE setting[registry[t]]

(* TECHNICAL_ONBOARDING.md:702: tenant policies survive a restart of the   *)
(* command line program.  At the menu of a process whose store opened,     *)
(* every tenant has the policy that it was last set to, in this process    *)
(* or, if saveTenant returned true, in an earlier one, whatever else       *)
(* failed, or was killed, or was typed in vain.  (A process whose store    *)
(* does not open says so, restores nothing and saves nothing.)  The stress *)
(* test takes its tenant's id without asking.                              *)
RestoredAsSet ==
    at = "menu" =>
        \A t \in Ids \ {Stress} :
            (opened /\ asked[t] # Nothing) => InForce(t) = asked[t]
=============================================================================
