------------------------ MODULE PolicyEngine_proofs ------------------------
(***************************************************************************)
(* Proofs about PolicyEngine, for any number of workers, keys, entries and *)
(* calls, as long as no caller uses evaluateUnsafe: no entry ever admits   *)
(* more than its limit, and the engine implements QuotaLedger, in which a  *)
(* decision is one indivisible step.                                       *)
(***************************************************************************)
EXTENDS PolicyEngine, FiniteSetTheorems, TLAPS

LEMMA InitInv == Init => EngineInv
  BY PolicyEngineAssumption
  DEF Init, NoCall, EngineInv, TypeOK, CallInProgress, HoldsMutex, LoadedIsCurrent,
      CountIsExact, UnusedUnknown, AnsweredOnce, Steps, Key, Kind

(* A new entry is one that nobody has made. *)
LEMMA NewEntryUnused == Unused # {} => NewEntry \in Entries /\ keyOf[NewEntry] = NoEntry
  BY DEF Unused, NewEntry

LEMMA StepInv ==
    ASSUME "unsafe" \notin Kinds, EngineInv, NEW w \in Workers, StartCall(w) \/ Step(w)
    PROVE  EngineInv'
<1> USE PolicyEngineAssumption DEF EngineInv, Goto, Key, Kind
<1>1. CASE StartCall(w)
  <2>1. TypeOK'
    BY <1>1 DEF StartCall, Call, TypeOK, Steps, shared, history
  <2>2. CallInProgress'
    BY <1>1 DEF StartCall, Call, TypeOK, CallInProgress
  <2>3. (HoldsMutex /\ LoadedIsCurrent /\ CountIsExact /\ UnusedUnknown)'
    BY <1>1
    DEF StartCall, Call, TypeOK, HoldsMutex, LoadedIsCurrent, CountIsExact,
        UnusedUnknown, shared, history
  <2>4. AnsweredOnce'
    BY <1>1 DEF StartCall, Call, TypeOK, AnsweredOnce
  <2> QED
    BY <2>1, <2>2, <2>3, <2>4
<1>2. CASE HasTenant(w)
  BY <1>2
  DEF HasTenant, TypeOK, Steps, shared, local, history, CallInProgress, HoldsMutex,
      LoadedIsCurrent, CountIsExact, UnusedUnknown, AnsweredOnce
<1>3. CASE EnsurePolicy(w)
  <2>1. TypeOK'
    <3>1. Key(w) \in Keys
      BY <1>3 DEF EnsurePolicy, CallInProgress
    <3>2. /\ registry' \in [Keys -> Entries \cup {NoEntry}]
          /\ keyOf' \in [Entries -> Keys \cup {NoEntry}]
      <4>1. CASE UNCHANGED <<registry, keyOf>>
        BY <4>1 DEF TypeOK
      <4>2. CASE Install(w)
        BY <3>1, <4>2, NewEntryUnused DEF Install, TypeOK
      <4> QED
        BY <1>3, <4>1, <4>2 DEF EnsurePolicy
    <3>3. pc' \in [Workers -> Steps]
      BY <1>3 DEF EnsurePolicy, TypeOK, Steps
    <3> QED
      BY <1>3, <3>2, <3>3 DEF EnsurePolicy, TypeOK, local, history
  <2>2. (CallInProgress /\ HoldsMutex /\ LoadedIsCurrent /\ CountIsExact /\ AnsweredOnce)'
    BY <1>3
    DEF EnsurePolicy, TypeOK, CallInProgress, HoldsMutex, LoadedIsCurrent, CountIsExact,
        AnsweredOnce, local, history
  <2>3. UnusedUnknown'
    BY <1>3, NewEntryUnused
    DEF EnsurePolicy, Install, TypeOK, CallInProgress, UnusedUnknown, local, history
  <2> QED
    BY <2>1, <2>2, <2>3
<1>4. CASE SetPolicy(w)
  <2>1. TypeOK'
    BY <1>4, NewEntryUnused DEF SetPolicy, Install, TypeOK, CallInProgress, Steps, local
  <2>2. (CallInProgress /\ HoldsMutex /\ LoadedIsCurrent /\ CountIsExact /\ AnsweredOnce)'
    BY <1>4
    DEF SetPolicy, TypeOK, CallInProgress, HoldsMutex, LoadedIsCurrent, CountIsExact,
        AnsweredOnce, local
  <2>3. UnusedUnknown'
    BY <1>4, NewEntryUnused
    DEF SetPolicy, Install, TypeOK, CallInProgress, UnusedUnknown, local
  <2> QED
    BY <2>1, <2>2, <2>3
<1>5. CASE FindEntry(w)
  <2>1. TypeOK'
    BY <1>5 DEF FindEntry, TypeOK, CallInProgress, Steps, shared, history
  <2>2. (CallInProgress /\ HoldsMutex /\ LoadedIsCurrent /\ CountIsExact /\ AnsweredOnce)'
    BY <1>5
    DEF FindEntry, TypeOK, CallInProgress, HoldsMutex, LoadedIsCurrent, CountIsExact,
        AnsweredOnce, shared, history
  <2>3. UnusedUnknown'
    BY <1>5 DEF FindEntry, TypeOK, CallInProgress, UnusedUnknown, shared, history
  <2> QED
    BY <2>1, <2>2, <2>3
<1>6. CASE Lock(w)
  <2>1. TypeOK'
    BY <1>6 DEF Lock, TypeOK, CallInProgress, Steps, local, history
  <2>2. HoldsMutex'
    BY <1>6 DEF Lock, TypeOK, CallInProgress, HoldsMutex, local
  <2>3. (CallInProgress /\ LoadedIsCurrent /\ CountIsExact /\ UnusedUnknown /\ AnsweredOnce)'
    BY <1>6
    DEF Lock, TypeOK, CallInProgress, LoadedIsCurrent, CountIsExact, UnusedUnknown,
        AnsweredOnce, local, history
  <2> QED
    BY <2>1, <2>2, <2>3
<1>7. CASE Load(w)
  BY <1>7
  DEF Load, TypeOK, Steps, shared, history, CallInProgress, HoldsMutex, LoadedIsCurrent,
      CountIsExact, UnusedUnknown, AnsweredOnce
<1>8. CASE StoreAllow(w)
  <2>1. AfterStore(w) = "snapshot"
    BY <1>8 DEF StoreAllow, CallInProgress, AfterStore
  <2>2. entry[w] \in Entries /\ owner[entry[w]] = w /\ loaded[w] = used[entry[w]]
    BY <1>8 DEF StoreAllow, CallInProgress, HoldsMutex, LoadedIsCurrent
  <2>3. TypeOK'
    BY <1>8, <2>1, <2>2 DEF StoreAllow, TypeOK, CallInProgress, Steps
  <2>4. LoadedIsCurrent'
    BY <1>8, <2>1, <2>2
    DEF StoreAllow, TypeOK, CallInProgress, HoldsMutex, LoadedIsCurrent
  <2>5. CountIsExact'
    BY <1>8, <2>2 DEF StoreAllow, TypeOK, CountIsExact
  <2>6. (CallInProgress /\ HoldsMutex /\ UnusedUnknown)'
    BY <1>8, <2>1, <2>2
    DEF StoreAllow, TypeOK, CallInProgress, HoldsMutex, UnusedUnknown
  <2>7. AnsweredOnce'
    BY <1>8, <2>1 DEF StoreAllow, TypeOK, AnsweredOnce
  <2> QED
    BY <2>3, <2>4, <2>5, <2>6, <2>7
<1>9. CASE StoreDeny(w)
  <2>1. AfterStore(w) = "snapshot"
    BY <1>9 DEF StoreDeny, CallInProgress, AfterStore
  <2>2. used' = used
    BY <1>9 DEF StoreDeny, TypeOK, LoadedIsCurrent
  <2>3. (TypeOK /\ CallInProgress /\ HoldsMutex /\ LoadedIsCurrent /\ CountIsExact
           /\ UnusedUnknown)'
    BY <1>9, <2>1, <2>2
    DEF StoreDeny, TypeOK, CallInProgress, Steps, HoldsMutex, LoadedIsCurrent,
        CountIsExact, UnusedUnknown, history
  <2>4. AnsweredOnce'
    BY <1>9, <2>1 DEF StoreDeny, TypeOK, AnsweredOnce
  <2> QED
    BY <2>3, <2>4
<1>10. CASE Snapshot(w)
  BY <1>10
  DEF Snapshot, TypeOK, Steps, shared, history, CallInProgress, HoldsMutex,
      LoadedIsCurrent, CountIsExact, UnusedUnknown, AnsweredOnce
<1>11. CASE ResetStrategy(w)
  <2>1. entry[w] \in Entries /\ owner[entry[w]] = w
    BY <1>11 DEF ResetStrategy, CallInProgress, HoldsMutex
  <2>2. TypeOK'
    BY <1>11 DEF ResetStrategy, TypeOK, CallInProgress, Steps, local
  <2>3. LoadedIsCurrent'
    BY <1>11, <2>1
    DEF ResetStrategy, TypeOK, CallInProgress, HoldsMutex, LoadedIsCurrent, local
  <2>4. (CallInProgress /\ HoldsMutex /\ CountIsExact /\ UnusedUnknown /\ AnsweredOnce)'
    BY <1>11, <2>1
    DEF ResetStrategy, TypeOK, CallInProgress, HoldsMutex, CountIsExact, UnusedUnknown,
        AnsweredOnce, local
  <2> QED
    BY <2>2, <2>3, <2>4
<1>12. CASE Unlock(w)
  <2>1. entry[w] \in Entries /\ owner[entry[w]] = w
    BY <1>12 DEF Unlock, CallInProgress, HoldsMutex
  <2>2. (TypeOK /\ CallInProgress /\ LoadedIsCurrent /\ CountIsExact /\ UnusedUnknown
           /\ AnsweredOnce)'
    BY <1>12
    DEF Unlock, TypeOK, Steps, CallInProgress, LoadedIsCurrent, CountIsExact,
        UnusedUnknown, AnsweredOnce, local, history
  <2>3. HoldsMutex'
    BY <1>12, <2>1 DEF Unlock, TypeOK, CallInProgress, HoldsMutex, local
  <2> QED
    BY <2>2, <2>3
<1> QED
  BY <1>1, <1>2, <1>3, <1>4, <1>5, <1>6, <1>7, <1>8, <1>9, <1>10, <1>11, <1>12 DEF Step

LEMMA StutterInv == EngineInv /\ UNCHANGED vars => EngineInv'
  BY DEF vars, shared, local, history, EngineInv, TypeOK, CallInProgress, HoldsMutex,
         LoadedIsCurrent, CountIsExact, UnusedUnknown, AnsweredOnce, Key, Kind

(* The strengthened invariant holds whenever every caller goes through the *)
(* mutex, that is, whenever evaluateUnsafe is not called.                  *)
THEOREM SpecEngineInv ==
    ASSUME "unsafe" \notin Kinds
    PROVE  Spec => []EngineInv
<1>1. EngineInv /\ [Next]_vars => EngineInv'
  BY StepInv, StutterInv DEF Next, Terminated
<1> QED
  BY <1>1, InitInv, PTL DEF Spec

(* The engine's registry, locks and locals keep their types. *)
THEOREM TypeCorrect ==
    ASSUME "unsafe" \notin Kinds
    PROVE  Spec => []TypeOK
<1>1. EngineInv => TypeOK
  BY DEF EngineInv
<1> QED
  BY <1>1, SpecEngineInv, PTL

(* No entry admits more than its limit between two resets, whatever the    *)
(* number of threads evaluating, replacing and resetting it.               *)
THEOREM NeverOverAdmits ==
    ASSUME "unsafe" \notin Kinds
    PROVE  Spec => []NoOverAdmission
<1>1. EngineInv => NoOverAdmission
  BY PolicyEngineAssumption DEF EngineInv, TypeOK, CountIsExact, NoOverAdmission
<1> QED
  BY <1>1, SpecEngineInv, PTL

-----------------------------------------------------------------------------
LEMMA LedgerInit == Init => Ledger!Init
  BY DEF Init, Ledger!Init

LEMMA LedgerStep ==
    ASSUME "unsafe" \notin Kinds, EngineInv, [Next]_vars
    PROVE  [Ledger!Next]_Ledger!vars
<1> USE PolicyEngineAssumption DEF EngineInv, Goto, Key, Kind
<1>1. ASSUME NEW w \in Workers, StoreAllow(w)
      PROVE  Ledger!Grant(w, entry[w]) /\ entry[w] \in Entries
  <2>1. entry[w] \in Entries /\ loaded[w] = used[entry[w]]
    BY <1>1 DEF StoreAllow, CallInProgress, LoadedIsCurrent
  <2>2. call[w].number \in 1..MaxCalls /\ call[w].number > answer[w][1]
    BY <1>1 DEF StoreAllow, TypeOK, AnsweredOnce
  <2> QED
    BY <1>1, <2>1, <2>2 DEF StoreAllow, TypeOK, Ledger!Grant, Ledger!Answer
<1>2. ASSUME NEW w \in Workers, StoreDeny(w)
      PROVE  Ledger!Refuse(w, entry[w]) /\ entry[w] \in Entries
  <2>1. entry[w] \in Entries /\ loaded[w] = used[entry[w]]
    BY <1>2 DEF StoreDeny, CallInProgress, LoadedIsCurrent
  <2>2. call[w].number \in 1..MaxCalls /\ call[w].number > answer[w][1]
    BY <1>2 DEF StoreDeny, TypeOK, AnsweredOnce
  <2>3. used[entry[w]] = Limit
    <3>1. used[entry[w]] \in 0..Limit /\ loaded[w] >= Limit
      BY <1>2, <2>1 DEF StoreDeny, TypeOK
    <3> QED
      BY <2>1, <3>1
  <2>4. used' = used
    BY <1>2, <2>1 DEF StoreDeny, TypeOK
  <2> QED
    BY <1>2, <2>1, <2>2, <2>3, <2>4 DEF StoreDeny, Ledger!Refuse, Ledger!Answer
<1>3. ASSUME NEW w \in Workers, Install(w), Key(w) \in Keys, UNCHANGED <<used, answer>>
      PROVE  \E k \in Keys, e \in Entries : Ledger!Install(k, e)
  <2>1. NewEntry \in Entries /\ keyOf[NewEntry] = NoEntry
    BY <1>3, NewEntryUnused DEF Install
  <2>2. Ledger!Install(Key(w), NewEntry)
    BY <1>3, <2>1 DEF Install, UnusedUnknown, Ledger!Install
  <2> QED
    BY <1>3, <2>1, <2>2
<1>4. ASSUME NEW w \in Workers, EnsurePolicy(w)
      PROVE  [Ledger!Next]_Ledger!vars
  <2>1. Key(w) \in Keys /\ UNCHANGED <<used, answer>>
    BY <1>4 DEF EnsurePolicy, CallInProgress, local
  <2>2. CASE Install(w)
    BY <1>3, <2>1, <2>2 DEF Ledger!Next
  <2>3. CASE UNCHANGED <<registry, keyOf>>
    BY <2>1, <2>3 DEF Ledger!vars
  <2> QED
    BY <1>4, <2>2, <2>3 DEF EnsurePolicy
<1>5. ASSUME NEW w \in Workers, SetPolicy(w)
      PROVE  Ledger!Next
  <2>1. Key(w) \in Keys /\ Install(w) /\ UNCHANGED <<used, answer>>
    BY <1>5 DEF SetPolicy, CallInProgress, local
  <2> QED
    BY <1>3, <2>1 DEF Ledger!Next
<1>6. ASSUME NEW w \in Workers, ResetStrategy(w)
      PROVE  Ledger!Next
  <2>1. entry[w] \in Entries
    BY <1>6 DEF ResetStrategy, CallInProgress
  <2>2. Ledger!Renew(entry[w])
    BY <1>6 DEF ResetStrategy, local, Ledger!Renew
  <2> QED
    BY <2>1, <2>2 DEF Ledger!Next
<1>7. ASSUME NEW w \in Workers,
             StartCall(w) \/ HasTenant(w) \/ FindEntry(w) \/ Lock(w) \/ Load(w)
               \/ Snapshot(w) \/ Unlock(w)
      PROVE  UNCHANGED Ledger!vars
  BY <1>7
  DEF StartCall, Call, HasTenant, FindEntry, Lock, Load, Snapshot, Unlock, shared, local,
      Ledger!vars
<1>8. CASE UNCHANGED vars
  BY <1>8 DEF vars, shared, local, Ledger!vars
<1> QED
  BY <1>1, <1>2, <1>4, <1>5, <1>6, <1>7, <1>8 DEF Next, Terminated, Step, Ledger!Next

(* The engine with its locks implements the ledger without any: every      *)
(* decision takes effect in one indivisible step, on an entry that was the *)
(* key's own, and every refusal is of an exhausted quota.                  *)
THEOREM Implements ==
    ASSUME "unsafe" \notin Kinds
    PROVE  Spec => ImplementsLedger
  BY LedgerInit, LedgerStep, SpecEngineInv, PTL DEF Spec, ImplementsLedger, Ledger!Spec

-----------------------------------------------------------------------------
(* Under the mutex of its entry a worker still sees, when it makes its     *)
(* result, what its own decision left.                                     *)
Left(w) == IF answer[w][3] = "allow" THEN loaded[w] + 1 ELSE Limit

OwnSnapshot ==
    \A w \in Workers : Kind(w) \in {"served", "direct"} =>
        /\ pc[w] # "reset"
        /\ pc[w] = "snapshot" => used[entry[w]] = Left(w)
        /\ pc[w] = "unlock" => state[w] = Left(w)

LEMMA SnapshotKept ==
    ASSUME "unsafe" \notin Kinds, EngineInv, OwnSnapshot, NEW w \in Workers,
           StartCall(w) \/ Step(w)
    PROVE  OwnSnapshot'
<1> USE PolicyEngineAssumption DEF EngineInv, Goto, Key, Kind
<1> SUFFICES ASSUME NEW v \in Workers, Kind(v)' \in {"served", "direct"}
             PROVE  /\ pc'[v] # "reset"
                    /\ pc'[v] = "snapshot" => used'[entry'[v]] = Left(v)'
                    /\ pc'[v] = "unlock" => state'[v] = Left(v)'
  BY DEF OwnSnapshot
<1>1. CASE v # w
  <2>1. /\ pc'[v] = pc[v] /\ call'[v] = call[v] /\ entry'[v] = entry[v]
        /\ loaded'[v] = loaded[v] /\ answer'[v] = answer[v] /\ state'[v] = state[v]
    BY <1>1
    DEF StartCall, Call, Step, HasTenant, EnsurePolicy, SetPolicy, FindEntry, Lock, Load,
        StoreAllow, StoreDeny, Snapshot, ResetStrategy, Unlock, local, TypeOK
  <2>2. pc[v] = "snapshot" => used'[entry[v]] = used[entry[v]]
    <3>1. \/ used' = used
          \/ /\ pc[w] \in {"store", "reset"}
             /\ \A e \in Entries \ {entry[w]} : used'[e] = used[e]
      BY DEF StartCall, Call, Step, HasTenant, EnsurePolicy, SetPolicy, FindEntry, Lock,
             Load, StoreAllow, StoreDeny, Snapshot, ResetStrategy, Unlock, shared,
             TypeOK
    <3>2. pc[v] = "snapshot" /\ pc[w] \in {"store", "reset"} =>
            entry[v] # entry[w] /\ entry[v] \in Entries
      BY <1>1 DEF HoldsMutex, CallInProgress
    <3> QED
      BY <3>1, <3>2 DEF TypeOK
  <2> QED
    BY <2>1, <2>2 DEF OwnSnapshot, Left
<1>2. CASE v = w
  <2>1. CASE StoreAllow(w)
    <3>1. entry[w] \in Entries /\ loaded[w] \in Nat
      BY <2>1 DEF StoreAllow, CallInProgress, TypeOK
    <3> QED
      BY <1>2, <2>1, <3>1 DEF StoreAllow, AfterStore, TypeOK, Left
  <2>2. CASE StoreDeny(w)
    <3>1. entry[w] \in Entries /\ loaded[w] >= Limit
      BY <2>2 DEF StoreDeny, CallInProgress
    <3>2. loaded[w] \in 0..Limit
      BY DEF TypeOK
    <3>3. loaded[w] = Limit
      BY <3>1, <3>2
    <3> QED
      BY <1>2, <2>2, <3>1, <3>3 DEF StoreDeny, AfterStore, TypeOK, Left
  <2>3. CASE Snapshot(w)
    BY <1>2, <2>3 DEF Snapshot, TypeOK, OwnSnapshot, Left
  <2>4. CASE StartCall(w) \/ HasTenant(w) \/ EnsurePolicy(w) \/ SetPolicy(w) \/ FindEntry(w)
    <3>1. pc'[w] \notin {"reset", "snapshot", "unlock"}
      BY <2>4 DEF StartCall, Call, HasTenant, EnsurePolicy, SetPolicy, FindEntry, TypeOK
    <3> QED
      BY <1>2, <3>1
  <2>5. CASE Lock(w) \/ Load(w) \/ Unlock(w)
    <3>1. pc'[w] \notin {"reset", "snapshot", "unlock"} \/ Kind(w)' \notin {"served", "direct"}
      BY <2>5 DEF Lock, Load, Unlock, local, TypeOK
    <3> QED
      BY <1>2, <3>1
  <2>6. CASE ResetStrategy(w)
    BY <1>2, <2>6 DEF ResetStrategy, local, OwnSnapshot
  <2> QED
    BY <2>1, <2>2, <2>3, <2>4, <2>5, <2>6 DEF Step
<1> QED
  BY <1>1, <1>2

(* The result of an evaluation is of one piece: the state reported is the  *)
(* one the decision left behind.                                           *)
THEOREM ResultOfOnePiece ==
    ASSUME "unsafe" \notin Kinds
    PROVE  Spec => []ResultCoherent
<1>1. Init => OwnSnapshot
  BY DEF Init, OwnSnapshot, NoCall, Kind
<1>2. EngineInv /\ OwnSnapshot /\ [Next]_vars => OwnSnapshot'
  <2>1. OwnSnapshot /\ UNCHANGED vars => OwnSnapshot'
    BY DEF vars, shared, local, OwnSnapshot, Left, Kind
  <2> QED
    BY <2>1, SnapshotKept DEF Next, Terminated
<1>3. OwnSnapshot => ResultCoherent
  BY DEF OwnSnapshot, Left, ResultCoherent
<1> QED
  BY <1>1, <1>2, <1>3, SpecEngineInv, PTL DEF Spec

-----------------------------------------------------------------------------
(* An entry is installed, found and used for one key only. *)
OneKey ==
    /\ \A k \in Keys, e \in Entries : registry[k] = e => keyOf[e] = k
    /\ \A w \in Workers :
         pc[w] \in {"lock", "load", "store", "snapshot", "reset", "unlock"} =>
             keyOf[entry[w]] = Key(w)

LEMMA OneKeyKept ==
    ASSUME "unsafe" \notin Kinds, EngineInv, OneKey, NEW w \in Workers,
           StartCall(w) \/ Step(w)
    PROVE  OneKey'
<1> USE PolicyEngineAssumption DEF EngineInv, Goto, Key, Kind, OneKey
<1>1. ASSUME Install(w), Key(w) \in Keys, pc'[w] \in {"find", "idle"},
             \A v \in Workers \ {w} : pc'[v] = pc[v], UNCHANGED <<call, entry>>
      PROVE  OneKey'
  <2>1. NewEntry \in Entries /\ keyOf[NewEntry] = NoEntry
    BY <1>1, NewEntryUnused DEF Install
  <2>2. /\ keyOf' = [keyOf EXCEPT ![NewEntry] = Key(w)]
        /\ registry' = [registry EXCEPT ![Key(w)] = NewEntry]
    BY <1>1 DEF Install
  <2>3. \A k \in Keys, e \in Entries : registry'[k] = e => keyOf'[e] = k
    BY <1>1, <2>1, <2>2 DEF UnusedUnknown, TypeOK
  <2>4. ASSUME NEW v \in Workers,
               pc'[v] \in {"lock", "load", "store", "snapshot", "reset", "unlock"}
        PROVE  keyOf'[entry[v]] = Key(v)
    <3>1. v # w /\ pc'[v] = pc[v]
      BY <1>1, <2>4
    <3>2. entry[v] \in Entries /\ keyOf[entry[v]] = Key(v) /\ keyOf[entry[v]] # NoEntry
      BY <2>4, <3>1 DEF CallInProgress, UnusedUnknown
    <3> QED
      BY <2>1, <2>2, <3>2 DEF TypeOK
  <2> QED
    BY <1>1, <2>3, <2>4
<1>2. CASE StartCall(w)
  BY <1>2 DEF StartCall, Call, shared, TypeOK
<1>3. CASE EnsurePolicy(w)
  <2>1. /\ Key(w) \in Keys /\ pc'[w] = "find" /\ UNCHANGED <<call, entry>>
        /\ \A v \in Workers \ {w} : pc'[v] = pc[v]
    BY <1>3 DEF EnsurePolicy, CallInProgress, TypeOK, local
  <2>2. CASE UNCHANGED <<registry, keyOf>>
    BY <2>1, <2>2
  <2> QED
    BY <1>1, <1>3, <2>1, <2>2 DEF EnsurePolicy
<1>4. CASE SetPolicy(w)
  <2>1. /\ Key(w) \in Keys /\ pc'[w] = "idle" /\ UNCHANGED <<call, entry>>
        /\ \A v \in Workers \ {w} : pc'[v] = pc[v]
    BY <1>4 DEF SetPolicy, CallInProgress, TypeOK, local
  <2> QED
    BY <1>1, <1>4, <2>1 DEF SetPolicy
<1>5. CASE FindEntry(w)
  <2>1. Key(w) \in Keys /\ registry[Key(w)] \in Entries \cup {NoEntry}
    BY <1>5 DEF FindEntry, CallInProgress, TypeOK
  <2> QED
    BY <1>5, <2>1 DEF FindEntry, TypeOK, shared
<1>6. CASE HasTenant(w) \/ Lock(w) \/ Load(w) \/ StoreAllow(w) \/ StoreDeny(w) \/ Snapshot(w)
             \/ ResetStrategy(w) \/ Unlock(w)
  <2>1. UNCHANGED <<registry, keyOf, call, entry>>
    BY <1>6
    DEF HasTenant, Lock, Load, StoreAllow, StoreDeny, Snapshot, ResetStrategy, Unlock,
        shared, local
  <2>2. \A v \in Workers :
          pc'[v] \in {"lock", "load", "store", "snapshot", "reset", "unlock"} =>
            pc[v] \in {"lock", "load", "store", "snapshot", "reset", "unlock"}
    BY <1>6
    DEF HasTenant, Lock, Load, StoreAllow, StoreDeny, Snapshot, ResetStrategy, Unlock,
        TypeOK
  <2> QED
    BY <2>1, <2>2
<1> QED
  BY <1>2, <1>3, <1>4, <1>5, <1>6 DEF Step

-----------------------------------------------------------------------------
(* The admissions that the entries made for a key have left, replaced ones *)
(* too: one pair for each, so that their number is a cardinality.          *)
Room(k) == {a \in Entries \X (1..Limit) : keyOf[a[1]] = k /\ a[2] > used[a[1]]}

(* The quotas a key has had: the one it got first and one per renewal. *)
Quotas(k) == renewals[k] + IF registry[k] = NoEntry THEN 0 ELSE 1

(* What a key was given and what it may still be given are of its quotas. *)
KeyBound(k) ==
    /\ IsFiniteSet(Room(k))
    /\ admits[k] + Cardinality(Room(k)) <= Limit * Quotas(k)

RoomBound == \A k \in Keys : KeyBound(k)

(* A fresh or renewed entry has room for one limit. *)
LEMMA OneLimitMore ==
    ASSUME NEW S, IsFiniteSet(S), NEW T, NEW e, T \subseteq S \cup ({e} \X (1..Limit))
    PROVE  IsFiniteSet(T) /\ Cardinality(T) <= Cardinality(S) + Limit
<1> DEFINE fresh == {e} \X (1..Limit)
<1>1. IsFiniteSet({e}) /\ Cardinality({e}) = 1
  BY FS_Singleton
<1>2. IsFiniteSet(1..Limit) /\ Cardinality(1..Limit) = Limit
  BY FS_Interval, PolicyEngineAssumption
<1>3. IsFiniteSet(fresh) /\ Cardinality(fresh) = Limit
  <2>1. /\ IsFiniteSet(fresh)
        /\ Cardinality(fresh) = Cardinality({e}) * Cardinality(1..Limit)
    BY <1>1, <1>2, FS_Product
  <2> HIDE DEF fresh
  <2> QED
    BY <1>1, <1>2, <2>1, PolicyEngineAssumption
<1> HIDE DEF fresh
<1>4. /\ IsFiniteSet(S \cup fresh)
      /\ Cardinality(S \cup fresh) = Cardinality(S) + Limit - Cardinality(S \cap fresh)
  BY <1>3, FS_Union
<1>5. IsFiniteSet(S \cap fresh)
  BY FS_Intersection
<1>6. Cardinality(S) \in Nat /\ Cardinality(S \cap fresh) \in Nat
  BY <1>5, FS_CardinalityType
<1>7. T \in SUBSET (S \cup fresh)
  BY DEF fresh
<1>8. IsFiniteSet(T) /\ Cardinality(T) <= Cardinality(S \cup fresh)
  BY <1>4, <1>7, FS_Subset
<1>9. Cardinality(T) \in Nat
  BY <1>8, FS_CardinalityType
<1> QED
  BY <1>4, <1>6, <1>8, <1>9, PolicyEngineAssumption

(* ... for which it is given one quota more. *)
LEMMA BoundGrows ==
    ASSUME TypeOK, NEW k \in Keys, KeyBound(k), NEW e,
           Room(k)' \subseteq Room(k) \cup ({e} \X (1..Limit)),
           admits'[k] = admits[k], Quotas(k)' = Quotas(k) + 1
    PROVE  KeyBound(k)'
<1>1. IsFiniteSet(Room(k)') /\ Cardinality(Room(k)') <= Cardinality(Room(k)) + Limit
  BY OneLimitMore DEF KeyBound
<1>2. Cardinality(Room(k)) \in Nat /\ Cardinality(Room(k)') \in Nat
  BY <1>1, FS_CardinalityType DEF KeyBound
<1>3. admits[k] \in Nat /\ Quotas(k) \in Nat /\ Limit \in Nat
  BY PolicyEngineAssumption DEF TypeOK, Quotas
<1>4. Limit * (Quotas(k) + 1) = Limit * Quotas(k) + Limit /\ Limit * Quotas(k) \in Nat
  BY <1>3
<1>5. admits[k] + Cardinality(Room(k)') <= Limit * (Quotas(k) + 1)
  <2>1. admits[k] + Cardinality(Room(k)) <= Limit * Quotas(k)
    BY DEF KeyBound
  <2> HIDE DEF Quotas
  <2> QED
    BY <1>1, <1>2, <1>3, <1>4, <2>1
<1> QED
  BY <1>1, <1>5 DEF KeyBound

LEMMA BoundKept ==
    ASSUME "unsafe" \notin Kinds, EngineInv, OneKey, NEW w \in Workers,
           StartCall(w) \/ Step(w), NEW k \in Keys, KeyBound(k)
    PROVE  KeyBound(k)'
<1> USE PolicyEngineAssumption DEF EngineInv, Goto
<1>1. CASE UNCHANGED <<keyOf, used, admits, renewals, registry>>
  BY <1>1 DEF KeyBound, Room, Quotas
<1>2. ASSUME Install(w), Key(w) \in Keys, UNCHANGED <<used, admits>>,
             \A j \in Keys : renewals'[j] = IF j = Key(w) /\ registry[j] # NoEntry
                                            THEN renewals[j] + 1 ELSE renewals[j]
      PROVE  KeyBound(k)'
  <2>1. /\ NewEntry \in Entries /\ keyOf[NewEntry] = NoEntry /\ NewEntry # NoEntry
        /\ keyOf' = [keyOf EXCEPT ![NewEntry] = Key(w)]
        /\ registry' = [registry EXCEPT ![Key(w)] = NewEntry]
    BY <1>2, NewEntryUnused DEF Install
  <2>2. CASE k = Key(w)
    <3>1. Room(k)' \subseteq Room(k) \cup ({NewEntry} \X (1..Limit))
      BY <1>2, <2>1 DEF Room, TypeOK
    <3>2. Quotas(k)' = Quotas(k) + 1
      BY <1>2, <2>1, <2>2 DEF Quotas, TypeOK
    <3> QED
      BY <1>2, <3>1, <3>2, BoundGrows
  <2>3. CASE k # Key(w)
    <3>1. Room(k)' = Room(k)
      BY <1>2, <2>1, <2>3 DEF Room, TypeOK
    <3>2. Quotas(k)' = Quotas(k)
      BY <1>2, <2>1, <2>3 DEF Quotas, TypeOK
    <3> QED
      BY <1>2, <3>1, <3>2 DEF KeyBound
  <2> QED
    BY <2>2, <2>3
<1>3. CASE EnsurePolicy(w)
  <2>1. Key(w) \in Keys /\ UNCHANGED <<used, admits, renewals>>
    BY <1>3 DEF EnsurePolicy, CallInProgress, history
  <2>2. CASE registry[Key(w)] = NoEntry
    BY <1>2, <1>3, <2>1, <2>2 DEF EnsurePolicy
  <2>3. CASE registry[Key(w)] # NoEntry
    BY <1>1, <1>3, <2>1, <2>3 DEF EnsurePolicy
  <2> QED
    BY <2>2, <2>3
<1>4. CASE SetPolicy(w)
  <2>1. /\ Key(w) \in Keys /\ Install(w) /\ UNCHANGED <<used, admits>>
        /\ renewals' = [renewals EXCEPT ![Key(w)] =
                          IF registry[Key(w)] = NoEntry THEN @ ELSE @ + 1]
    BY <1>4 DEF SetPolicy, CallInProgress
  <2> QED
    BY <1>2, <2>1 DEF TypeOK
<1>5. CASE StoreAllow(w)
  <2>1. /\ entry[w] \in Entries /\ keyOf[entry[w]] = Key(w) /\ Key(w) \in Keys
        /\ loaded[w] = used[entry[w]] /\ loaded[w] < Limit
    BY <1>5 DEF StoreAllow, CallInProgress, OneKey, LoadedIsCurrent
  <2>2. /\ used' = [used EXCEPT ![entry[w]] = loaded[w] + 1]
        /\ admits' = [admits EXCEPT ![Key(w)] = @ + 1]
        /\ UNCHANGED <<keyOf, registry, renewals>>
    BY <1>5 DEF StoreAllow
  <2>3. Quotas(k)' = Quotas(k)
    BY <2>2 DEF Quotas
  <2>4. used[entry[w]] \in Nat /\ used[entry[w]] + 1 \in 1..Limit
    <3>1. used[entry[w]] \in 0..Limit
      BY <2>1 DEF TypeOK
    <3> QED
      BY <2>1, <3>1
  <2>5. CASE k = Key(w)
    <3> DEFINE taken == <<entry[w], used[entry[w]] + 1>>
    <3>1. taken \in Room(k)
      BY <2>1, <2>4, <2>5 DEF Room
    <3>2. Room(k)' = Room(k) \ {taken}
      <4>1. \A e \in Entries : used'[e] = IF e = entry[w] THEN used[e] + 1 ELSE used[e]
        BY <2>1, <2>2 DEF TypeOK
      <4>2. ASSUME NEW a \in Entries \X (1..Limit)
            PROVE  a[2] > used'[a[1]] <=> a[2] > used[a[1]] /\ a # taken
        <5>1. a[1] \in Entries /\ a[2] \in 1..Limit
          OBVIOUS
        <5>2. a = taken <=> a[1] = entry[w] /\ a[2] = used[entry[w]] + 1
          OBVIOUS
        <5>3. used[a[1]] \in 0..Limit
          BY <5>1 DEF TypeOK
        <5> HIDE DEF taken
        <5>4. CASE a[1] = entry[w]
          BY <2>4, <4>1, <5>1, <5>2, <5>4
        <5>5. CASE a[1] # entry[w]
          BY <4>1, <5>1, <5>2, <5>5
        <5> QED
          BY <5>4, <5>5
      <4> QED
        BY <2>2, <4>2 DEF Room
    <3> HIDE DEF taken
    <3>3. /\ IsFiniteSet(Room(k)') /\ Cardinality(Room(k)') = Cardinality(Room(k)) - 1
          /\ Cardinality(Room(k)) \in Nat
      BY <3>1, <3>2, FS_RemoveElement, FS_CardinalityType DEF KeyBound
    <3>4. admits'[k] = admits[k] + 1 /\ admits[k] \in Nat
      BY <2>2, <2>5 DEF TypeOK
    <3> QED
      BY <2>3, <3>3, <3>4 DEF KeyBound
  <2>6. CASE k # Key(w)
    <3>1. Room(k)' = Room(k)
      BY <2>1, <2>2, <2>6 DEF Room, TypeOK
    <3> QED
      BY <2>2, <2>3, <2>6, <3>1 DEF KeyBound, TypeOK
  <2> QED
    BY <2>5, <2>6
<1>6. CASE StoreDeny(w)
  <2>1. used' = used
    BY <1>6 DEF StoreDeny, TypeOK, LoadedIsCurrent
  <2> QED
    BY <1>1, <1>6, <2>1 DEF StoreDeny, history
<1>7. CASE ResetStrategy(w)
  <2>1. entry[w] \in Entries /\ keyOf[entry[w]] = Key(w) /\ Key(w) \in Keys
    BY <1>7 DEF ResetStrategy, CallInProgress, OneKey
  <2>2. /\ used' = [used EXCEPT ![entry[w]] = 0]
        /\ renewals' = [renewals EXCEPT ![Key(w)] = @ + 1]
        /\ UNCHANGED <<keyOf, registry, admits>>
    BY <1>7 DEF ResetStrategy
  <2>3. CASE k = Key(w)
    <3>1. Room(k)' \subseteq Room(k) \cup ({entry[w]} \X (1..Limit))
      BY <2>1, <2>2 DEF Room, TypeOK
    <3>2. Quotas(k)' = Quotas(k) + 1
      BY <2>2, <2>3 DEF Quotas, TypeOK
    <3> QED
      BY <2>2, <3>1, <3>2, BoundGrows
  <2>4. CASE k # Key(w)
    <3>1. Room(k)' = Room(k)
      BY <2>1, <2>2, <2>4 DEF Room, TypeOK
    <3>2. Quotas(k)' = Quotas(k)
      BY <2>2, <2>4 DEF Quotas, TypeOK
    <3> QED
      BY <2>2, <3>1, <3>2 DEF KeyBound
  <2> QED
    BY <2>3, <2>4
<1>8. CASE StartCall(w) \/ HasTenant(w) \/ FindEntry(w) \/ Lock(w) \/ Load(w) \/ Snapshot(w)
             \/ Unlock(w)
  BY <1>1, <1>8
  DEF StartCall, Call, HasTenant, FindEntry, Lock, Load, Snapshot, Unlock, shared,
      history
<1> QED
  BY <1>3, <1>4, <1>5, <1>6, <1>7, <1>8 DEF Step

(* A key is given one limit, and one more for each call that renewed it,   *)
(* whoever was creating, replacing or resetting its entry and whoever      *)
(* still held an entry that had been replaced.                             *)
THEOREM OneQuota ==
    ASSUME "unsafe" \notin Kinds
    PROVE  Spec => []OneQuotaPerRenewal
<1>1. Init => OneKey /\ RoomBound
  <2> SUFFICES ASSUME Init
               PROVE  OneKey /\ RoomBound
    OBVIOUS
  <2>1. OneKey
    BY PolicyEngineAssumption DEF Init, OneKey
  <2>2. ASSUME NEW k \in Keys
        PROVE  KeyBound(k)
    <3>1. Room(k) = {} /\ admits[k] = 0 /\ Quotas(k) = 0
      BY <2>2, PolicyEngineAssumption DEF Init, Room, Quotas
    <3> QED
      BY <3>1, FS_EmptySet, PolicyEngineAssumption DEF KeyBound
  <2> QED
    BY <2>1, <2>2 DEF RoomBound
<1>2. EngineInv /\ OneKey /\ RoomBound /\ [Next]_vars => (OneKey /\ RoomBound)'
  <2> SUFFICES ASSUME EngineInv, OneKey, RoomBound, [Next]_vars
               PROVE  (OneKey /\ RoomBound)'
    OBVIOUS
  <2>1. CASE UNCHANGED vars
    BY <2>1
    DEF vars, shared, local, history, OneKey, RoomBound, KeyBound, Room, Quotas, Key
  <2>2. ASSUME NEW w \in Workers, StartCall(w) \/ Step(w)
        PROVE  (OneKey /\ RoomBound)'
    BY <2>2, OneKeyKept, BoundKept DEF RoomBound
  <2> QED
    BY <2>1, <2>2 DEF Next, Terminated
<1>3. EngineInv /\ RoomBound => OneQuotaPerRenewal
  <2> SUFFICES ASSUME EngineInv, RoomBound, NEW k \in Keys
               PROVE  admits[k] <= Limit * (1 + renewals[k])
    BY DEF OneQuotaPerRenewal
  <2>1. admits[k] \in Nat /\ renewals[k] \in Nat /\ Limit \in Nat
    BY PolicyEngineAssumption DEF EngineInv, TypeOK
  <2>2. /\ Cardinality(Room(k)) \in Nat
        /\ admits[k] + Cardinality(Room(k)) <= Limit * Quotas(k)
    BY FS_CardinalityType DEF RoomBound, KeyBound
  <2>3. Limit * Quotas(k) <= Limit * (1 + renewals[k])
    <3>1. Quotas(k) \in {renewals[k], renewals[k] + 1}
      BY <2>1 DEF Quotas
    <3>2. Limit * (renewals[k] + 1) = Limit * renewals[k] + Limit
      BY <2>1
    <3>3. Limit * renewals[k] \in Nat
      BY <2>1
    <3> QED
      BY <2>1, <3>1, <3>2, <3>3
  <2>4. Limit * Quotas(k) \in Nat /\ Limit * (1 + renewals[k]) \in Nat
    BY <2>1 DEF Quotas
  <2> QED
    BY <2>1, <2>2, <2>3, <2>4
<1> QED
  BY <1>1, <1>2, <1>3, SpecEngineInv, PTL DEF Spec
=============================================================================
