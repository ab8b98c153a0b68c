-------------------------- MODULE CommandLine_proofs --------------------------
(***************************************************************************)
(* Proofs about the command line program, for any tenants, settings and    *)
(* commands, any number of threads and requests of the stress test, and    *)
(* any failures, kills and restarts.                                       *)
(***************************************************************************)
EXTENDS CommandLine, FiniteSetTheorems, TLAPS
-----------------------------------------------------------------------------
(* Numbers as text.  Every number that main reads has a unit ... *)
LEMMA UnitIs ==
    ASSUME NEW n \in Nat, 1 <= n, n <= INT_MAX
    PROVE  /\ Unit(n) \in {1, 10, 100, 1000, 10000}
           /\ n < Unit(n) * Million
           /\ Unit(n) = 1 \/ n >= Unit(n) * (Million \div 10)
<1> DEFINE fits(u) == n < u * Million /\ (u = 1 \/ n >= u * (Million \div 10))
<1>1. \E u \in {1, 10, 100, 1000, 10000} : fits(u)
  BY SMT DEF Million, INT_MAX
<1> QED
  BY <1>1 DEF Unit

(* ... in which it has six digits, and is still some number. *)
LEMMA SixDigitsIs ==
    ASSUME NEW n \in Nat, 1 <= n, n <= INT_MAX
    PROVE  SixDigits(n) \in Nat /\ 1 <= SixDigits(n) /\ SixDigits(n) <= 2 * INT_MAX
<1> DEFINE u == Unit(n)
           q == n \div u
           r == n % u
           six == IF 2 * r > u \/ (2 * r = u /\ q % 2 = 1) THEN q + 1 ELSE q
<1>1. u \in {1, 10, 100, 1000, 10000} /\ (u = 1 \/ n >= u * 100000)
  BY SMT, UnitIs, Million \div 10 = 100000 DEF Million
<1>2. SixDigits(n) = u * six
  BY DEF SixDigits
<1>3. q \in Nat /\ q >= 1 /\ u * q <= n /\ u * (q + 1) <= n + 10000
  <2>1. CASE u = 1
    BY SMT, <2>1 DEF INT_MAX
  <2>2. CASE u = 10
    BY SMT, <1>1, <2>2 DEF INT_MAX
  <2>3. CASE u = 100
    BY SMT, <1>1, <2>3 DEF INT_MAX
  <2>4. CASE u = 1000
    BY SMT, <1>1, <2>4 DEF INT_MAX
  <2>5. CASE u = 10000
    BY SMT, <1>1, <2>5 DEF INT_MAX
  <2> QED
    BY <1>1, <2>1, <2>2, <2>3, <2>4, <2>5
<1>4. six \in {q, q + 1}
  OBVIOUS
<1> HIDE DEF u, q, six
<1>5. u * six \in Nat /\ u * six >= 1 /\ u * six <= n + 10000
  <2>1. CASE u = 1
    BY <1>3, <1>4, <2>1
  <2>2. CASE u = 10
    BY <1>3, <1>4, <2>2
  <2>3. CASE u = 100
    BY <1>3, <1>4, <2>3
  <2>4. CASE u = 1000
    BY <1>3, <1>4, <2>4
  <2>5. CASE u = 10000
    BY <1>3, <1>4, <2>5
  <2> QED
    BY <1>1, <2>1, <2>2, <2>3, <2>4, <2>5
<1> QED
  BY SMT, <1>2, <1>5 DEF INT_MAX

(* Below a million it is the number itself. *)
LEMMA SixDigitsKept ==
    ASSUME NEW n \in Nat, 1 <= n, n < Million
    PROVE  SixDigits(n) = n
<1>1. n <= INT_MAX
  BY SMT DEF Million, INT_MAX
<1>2. Million \div 10 = 100000 /\ \A u \in {10, 100, 1000, 10000} : n < u * 100000
  BY SMT DEF Million
<1>3. Unit(n) = 1
  BY <1>1, <1>2, UnitIs
<1>4. n \div 1 = n /\ n % 1 = 0
  OBVIOUS
<1> QED
  BY <1>3, <1>4 DEF SixDigits

(* A number in the form d.ddddde+xx has a first digit. *)
LEMMA LeadingIs ==
    ASSUME NEW n \in Nat, Million <= n, n <= 2 * INT_MAX
    PROVE  Leading(n) \in 1..9
<1> DEFINE leads(d) == \E k \in {1, 10, 100, 1000} :
                         d * k * Million <= n /\ n < (d + 1) * k * Million
<1>1. \E d \in 1..9 : leads(d)
  <2>1. \A k \in {1, 10, 100, 1000} : k * Million <= n /\ n < 10 * k * Million
          => \E d \in 1..9 : d * k * Million <= n /\ n < (d + 1) * k * Million
    <3>1. ASSUME NEW m \in Nat \ {0}, m <= n, n < 10 * m
          PROVE  \E d \in 1..9 : d * m <= n /\ n < (d + 1) * m
      <4>1. CASE n < 2 * m
        BY <3>1, <4>1, 1 \in 1..9
      <4>2. CASE 2 * m <= n /\ n < 3 * m
        BY <3>1, <4>2, 2 \in 1..9
      <4>3. CASE 3 * m <= n /\ n < 4 * m
        BY <3>1, <4>3, 3 \in 1..9
      <4>4. CASE 4 * m <= n /\ n < 5 * m
        BY <3>1, <4>4, 4 \in 1..9
      <4>5. CASE 5 * m <= n /\ n < 6 * m
        BY <3>1, <4>5, 5 \in 1..9
      <4>6. CASE 6 * m <= n /\ n < 7 * m
        BY <3>1, <4>6, 6 \in 1..9
      <4>7. CASE 7 * m <= n /\ n < 8 * m
        BY <3>1, <4>7, 7 \in 1..9
      <4>8. CASE 8 * m <= n /\ n < 9 * m
        BY <3>1, <4>8, 8 \in 1..9
      <4>9. CASE 9 * m <= n
        BY <3>1, <4>9, 9 \in 1..9
      <4> QED
        BY SMT, <3>1, <4>1, <4>2, <4>3, <4>4, <4>5, <4>6, <4>7, <4>8, <4>9 DEF Million, INT_MAX
    <3>2. ASSUME NEW k \in {1, 10, 100, 1000}, k * Million <= n, n < 10 * k * Million
          PROVE  \E d \in 1..9 : d * k * Million <= n /\ n < (d + 1) * k * Million
      <4>1. k * Million \in Nat \ {0} /\ 10 * k * Million = 10 * (k * Million)
        BY SMT DEF Million
      <4>2. PICK d \in 1..9 : d * (k * Million) <= n /\ n < (d + 1) * (k * Million)
        BY <3>1, <3>2, <4>1
      <4>3. d * k * Million = d * (k * Million)
            /\ (d + 1) * k * Million = (d + 1) * (k * Million)
        BY SMT, <4>2 DEF Million
      <4> QED
        BY <4>2, <4>3
    <3> QED
      BY <3>2
  <2>2. \E k \in {1, 10, 100, 1000} : k * Million <= n /\ n < 10 * k * Million
    BY SMT DEF Million, INT_MAX
  <2> QED
    BY <2>1, <2>2
<1> QED
  BY <1>1 DEF Leading

(* What is read back is some setting ... *)
LEMMA ReadBackIs ==
    ASSUME NEW s \in Settings
    PROVE  ReadBack(s) \in AllSettings /\ s \in AllSettings
<1>1. s \in AllSettings /\ s.size \in Nat /\ 1 <= s.size /\ s.size <= INT_MAX
  BY SMT, CommandLineAssumption DEF AllSettings, INT_MAX
<1>2. LET n == SixDigits(s.size) IN n \in Nat /\ 1 <= n /\ n <= 2 * INT_MAX
  BY <1>1, SixDigitsIs
<1>3. SixDigits(s.size) >= Million => Leading(SixDigits(s.size)) \in 1..9
  BY SMT, <1>2, LeadingIs DEF Million, INT_MAX
<1> QED
  BY <1>1, <1>2, <1>3 DEF ReadBack, AllSettings

(* ... and the same one exactly where the text has room for it: a limit    *)
(* below a million, a capacity of six significant digits.                  *)
Plain(s) == IF s.counts = "ints" THEN s.size < Million ELSE SixDigits(s.size) = s.size

LEMMA ReadBackPlain ==
    ASSUME NEW s \in Settings
    PROVE  ReadBack(s) = s <=> Plain(s)
<1>1. s \in AllSettings /\ s.size \in Nat /\ 1 <= s.size /\ s.size <= INT_MAX
  BY SMT, CommandLineAssumption DEF AllSettings, INT_MAX
<1>2. SixDigits(s.size) \in Nat /\ 1 <= SixDigits(s.size) /\ SixDigits(s.size) <= 2 * INT_MAX
  BY <1>1, SixDigitsIs
<1>3. s.size < Million => SixDigits(s.size) = s.size
  BY <1>1, SixDigitsKept
<1>4. ReadBack(s) = s <=> ReadBack(s).size = s.size
  BY <1>1 DEF ReadBack, AllSettings
<1>5. CASE s.counts = "ints" /\ SixDigits(s.size) >= Million
  <2>1. Leading(SixDigits(s.size)) \in 1..9
    BY SMT, <1>2, <1>5, LeadingIs DEF Million, INT_MAX
  <2>2. ReadBack(s).size = Leading(SixDigits(s.size))
    BY <1>1, <1>5 DEF ReadBack, AllSettings
  <2>3. s.size < Million => SixDigits(s.size) < Million
    BY <1>3
  <2> QED
    BY SMT, <1>1, <1>2, <1>4, <1>5, <2>1, <2>2, <2>3 DEF Plain, Million
<1>6. CASE ~(s.counts = "ints" /\ SixDigits(s.size) >= Million)
  <2>1. ReadBack(s).size = SixDigits(s.size)
    BY <1>1, <1>6 DEF ReadBack, AllSettings
  <2> QED
    BY SMT, <1>1, <1>2, <1>3, <1>4, <1>6, <2>1 DEF Plain, Million
<1> QED
  BY <1>5, <1>6

-----------------------------------------------------------------------------
(* The engine.  An entry that was not made is nobody's, and full ...       *)
MadeInv ==
    /\ \A k \in Ids : registry[k] # NoEntry => keyOf[registry[k]] # NoEntry
    /\ \A e \in Entries : keyOf[e] = NoEntry => used[e] = 0

(* ... a call in progress has a key and an operation of the program's, and *)
(* an entry once it has found one ...                                      *)
CallInv(w) == pc[w] # "idle" =>
    /\ pc[w] \in {"set", "find", "lock", "load", "store", "snapshot", "unlock"}
    /\ call[w].kind \in {"set", "direct", "unsafe"}
    /\ call[w].key \in Ids
    /\ pc[w] = "set" <=> call[w].kind = "set"
    /\ call[w].kind = "unsafe" => pc[w] \in {"find", "load", "store"}
    /\ pc[w] \notin {"set", "find"} => entry[w] \in Entries /\ keyOf[entry[w]] # NoEntry

(* ... and, unless it is evaluateUnsafe, owns the entry's mutex between    *)
(* Lock and Unlock.                                                        *)
Holds(w) == pc[w] \in {"load", "store", "snapshot", "unlock"} /\ call[w].kind = "direct"

EngineInv ==
    /\ E!TypeOK
    /\ MadeInv
    /\ \A w \in Workers : CallInv(w)
    /\ \A w \in Workers : Holds(w) => owner[entry[w]] = w

LEMMA BoundIs ==
    /\ ReqsEach + MaxBurst + Cardinality(Ids) \in Nat
    /\ IsFiniteSet(Ids)
<1>1. IsFiniteSet({Stress}) /\ IsFiniteSet({Empty}) /\ {Stress, Empty} = {Stress} \cup {Empty}
  BY FS_Singleton
<1>2. IsFiniteSet({Stress, Empty})
  BY <1>1, FS_Union
<1>3. IsFiniteSet(Ids)
  BY <1>2, FS_Union, CommandLineAssumption DEF Ids
<1>4. Cardinality(Ids) \in Nat
  BY <1>3, FS_CardinalityType
<1> QED
  BY <1>3, <1>4, CommandLineAssumption

LEMMA EngineInit == E!Init => EngineInv
  BY CommandLineAssumption, BoundIs
  DEF E!Init, E!NoCall, EngineInv, E!TypeOK, E!Steps, MadeInv, CallInv, Holds

(* A call of the program begins ... *)
LEMMA EngineCall ==
    ASSUME EngineInv, NEW w \in Workers, NEW kind \in {"set", "direct", "unsafe"},
           NEW k \in Ids, E!Call(w, kind, k)
    PROVE  EngineInv'
<1> USE DEF EngineInv, E!Call, E!Goto
<1>1. E!TypeOK'
  BY BoundIs DEF E!TypeOK, E!Steps, E!shared, E!history
<1>2. MadeInv'
  BY DEF MadeInv, E!shared, E!history
<1>3. \A v \in Workers : CallInv(v)'
  BY DEF CallInv, E!TypeOK, E!shared, E!history
<1>4. \A v \in Workers : (Holds(v) => owner[entry[v]] = v)'
  BY DEF Holds, E!TypeOK, E!shared, E!history
<1> QED
  BY <1>1, <1>2, <1>3, <1>4

(* ... and ends, ... *)
LEMMA EngineUnwinds ==
    ASSUME EngineInv, \A w \in Workers : pc[w] = "idle", Unwind
    PROVE  EngineInv'
  BY CommandLineAssumption, BoundIs
  DEF EngineInv, Unwind, EmptyStacks, E!NoCall, E!TypeOK, E!Steps, MadeInv, CallInv, Holds

(* ... or is cut off with the process. *)
LEMMA EngineEnds == End => EngineInv'
  BY CommandLineAssumption, BoundIs
  DEF End, EmptyStacks, E!NoCall, EngineInv, E!TypeOK, E!Steps, MadeInv, CallInv, Holds

(* Of the engine's steps the program takes these. *)
LEMMA StepIs ==
    ASSUME EngineInv, NEW w \in Workers, E!Step(w)
    PROVE  \/ E!SetPolicy(w) \/ E!FindEntry(w) \/ E!Lock(w) \/ E!Load(w)
           \/ E!StoreAllow(w) \/ E!StoreDeny(w) \/ E!Snapshot(w) \/ E!Unlock(w)
  BY DEF EngineInv, CallInv, E!Step, E!HasTenant, E!EnsurePolicy, E!ResetStrategy

LEMMA NewEntryIs ==
    ASSUME NEW w, E!Install(w)
    PROVE  E!NewEntry \in Entries /\ keyOf[E!NewEntry] = NoEntry
  BY DEF E!Install, E!Unused, E!NewEntry

LEMMA EngineSteps ==
    ASSUME EngineInv, NEW w \in Workers, E!Step(w)
    PROVE  EngineInv'
<1> USE DEF EngineInv, E!Goto, E!Key, E!Kind
<1>1. CASE E!SetPolicy(w)
  <2> USE <1>1 DEF E!SetPolicy
  <2>1. E!NewEntry \in Entries /\ keyOf[E!NewEntry] = NoEntry /\ call[w].key \in Ids
    BY NewEntryIs DEF CallInv
  <2>2. E!TypeOK'
    BY <2>1 DEF E!Install, E!TypeOK, E!Steps, E!local
  <2>3. MadeInv'
    BY <2>1, CommandLineAssumption DEF E!Install, E!TypeOK, MadeInv
  <2>4. \A v \in Workers : CallInv(v)'
    BY <2>1 DEF E!Install, E!TypeOK, CallInv, E!local
  <2>5. \A v \in Workers : (Holds(v) => owner[entry[v]] = v)'
    BY DEF Holds, E!TypeOK, E!local
  <2> QED
    BY <2>2, <2>3, <2>4, <2>5
<1>2. CASE E!FindEntry(w)
  <2> USE <1>2 DEF E!FindEntry, E!shared, E!history
  <2>1. call[w].key \in Ids
    BY DEF CallInv
  <2>2. E!TypeOK'
    BY <2>1 DEF E!TypeOK, E!Steps
  <2>3. MadeInv'
    BY DEF MadeInv
  <2>4. \A v \in Workers : CallInv(v)'
    BY <2>1 DEF E!TypeOK, MadeInv, CallInv
  <2>5. \A v \in Workers : (Holds(v) => owner[entry[v]] = v)'
    BY DEF Holds, E!TypeOK, CallInv
  <2> QED
    BY <2>2, <2>3, <2>4, <2>5
<1>3. CASE E!Lock(w)
  <2> USE <1>3 DEF E!Lock, E!local, E!history
  <2>1. entry[w] \in Entries /\ call[w].kind = "direct"
    BY DEF CallInv
  <2>2. E!TypeOK'
    BY <2>1 DEF E!TypeOK, E!Steps
  <2>3. MadeInv'
    BY DEF MadeInv
  <2>4. \A v \in Workers : CallInv(v)'
    BY <2>1 DEF E!TypeOK, CallInv
  <2>5. \A v \in Workers : (Holds(v) => owner[entry[v]] = v)'
    BY <2>1, CommandLineAssumption DEF Holds, E!TypeOK
  <2> QED
    BY <2>2, <2>3, <2>4, <2>5
<1>4. CASE E!Load(w)
  <2> USE <1>4 DEF E!Load, E!shared, E!history
  <2>1. entry[w] \in Entries
    BY DEF CallInv
  <2>2. E!TypeOK'
    BY <2>1 DEF E!TypeOK, E!Steps
  <2>3. MadeInv'
    BY DEF MadeInv
  <2>4. \A v \in Workers : CallInv(v)'
    BY <2>1 DEF E!TypeOK, CallInv
  <2>5. \A v \in Workers : (Holds(v) => owner[entry[v]] = v)'
    BY DEF Holds, E!TypeOK
  <2> QED
    BY <2>2, <2>3, <2>4, <2>5
<1>5. CASE E!StoreAllow(w) \/ E!StoreDeny(w)
  <2> USE <1>5, CommandLineAssumption
      DEF E!StoreAllow, E!StoreDeny, E!AfterStore, E!history
  <2>1. /\ entry[w] \in Entries /\ keyOf[entry[w]] # NoEntry
        /\ call[w].kind \in {"direct", "unsafe"} /\ call[w].key \in Ids
    BY DEF CallInv
  <2>2. E!TypeOK'
    <3>1. used' \in [Entries -> 0..Limit]
      BY <2>1 DEF E!TypeOK
    <3>2. call[w].number \in 0..(ReqsEach + MaxBurst + Cardinality(Ids))
      BY DEF E!TypeOK
    <3>3. PICK verdict \in {"allow", "deny"} :
            answer' = [answer EXCEPT ![w] = <<call[w].number, entry[w], verdict>>]
      OBVIOUS
    <3> DEFINE Answers == (0..(ReqsEach + MaxBurst + Cardinality(Ids)))
                            \X (Entries \cup {NoEntry}) \X {"none", "allow", "deny"}
    <3>4. <<call[w].number, entry[w], verdict>> \in Answers
      BY ONLY <3>2, <3>3, <2>1
    <3>5. answer \in [Workers -> Answers]
      BY ONLY EngineInv DEF EngineInv, E!TypeOK
    <3>6. answer' \in [Workers -> Answers]
      <4> HIDE DEF Answers
      <4> QED
        BY ONLY <3>3, <3>4, <3>5
    <3>7. pc' \in [Workers -> E!Steps]
      <4>1. PICK step \in E!Steps : pc' = [pc EXCEPT ![w] = step]
        BY DEF E!Steps
      <4> QED
        BY ONLY <4>1, EngineInv DEF EngineInv, E!TypeOK
    <3>8. /\ granted' \in [Entries -> Nat] /\ admits' \in [Ids -> Nat]
          /\ renewals' \in [Ids -> Nat]
      <4>1. CASE E!StoreAllow(w)
        <5>1. /\ granted' = [granted EXCEPT ![entry[w]] = @ + 1]
              /\ admits' = [admits EXCEPT ![call[w].key] = @ + 1]
              /\ renewals' = renewals
          BY <4>1
        <5> QED
          BY ONLY <5>1, <2>1, EngineInv DEF EngineInv, E!TypeOK
      <4>2. CASE E!StoreDeny(w)
        <5>1. granted' = granted /\ admits' = admits /\ renewals' = renewals
          BY <4>2
        <5> QED
          BY ONLY <5>1, EngineInv DEF EngineInv, E!TypeOK
      <4> QED
        BY <4>1, <4>2
    <3>9. /\ registry' = registry /\ keyOf' = keyOf /\ owner' = owner /\ call' = call
          /\ entry' = entry /\ loaded' = loaded /\ state' = state
      OBVIOUS
    <3> QED
      BY ONLY Zenon, <3>1, <3>6, <3>7, <3>8, <3>9, EngineInv DEF EngineInv, E!TypeOK
  <2>3. MadeInv'
    BY <2>1 DEF MadeInv, E!TypeOK
  <2>4. \A v \in Workers : CallInv(v)'
    <3>1. /\ pc' = [pc EXCEPT ![w] = IF call[w].kind = "unsafe" THEN "idle" ELSE "snapshot"]
          /\ call' = call /\ entry' = entry /\ keyOf' = keyOf
      OBVIOUS
    <3> QED
      BY ONLY <2>1, <3>1, EngineInv DEF EngineInv, E!TypeOK, CallInv
  <2>5. \A v \in Workers : (Holds(v) => owner[entry[v]] = v)'
    BY DEF Holds, E!TypeOK
  <2> QED
    BY <2>2, <2>3, <2>4, <2>5
<1>6. CASE E!Snapshot(w)
  <2> USE <1>6 DEF E!Snapshot, E!shared, E!history
  <2>1. entry[w] \in Entries
    BY DEF CallInv
  <2>2. E!TypeOK'
    BY <2>1 DEF E!TypeOK, E!Steps
  <2>3. MadeInv'
    BY DEF MadeInv
  <2>4. \A v \in Workers : CallInv(v)'
    BY <2>1 DEF E!TypeOK, CallInv
  <2>5. \A v \in Workers : (Holds(v) => owner[entry[v]] = v)'
    BY DEF Holds, E!TypeOK
  <2> QED
    BY <2>2, <2>3, <2>4, <2>5
<1>7. CASE E!Unlock(w)
  <2> USE <1>7 DEF E!Unlock, E!local, E!history
  <2>1. entry[w] \in Entries /\ call[w].kind = "direct" /\ owner[entry[w]] = w
    BY DEF CallInv, Holds
  <2>2. E!TypeOK'
    BY <2>1 DEF E!TypeOK, E!Steps
  <2>3. MadeInv'
    BY DEF MadeInv
  <2>4. \A v \in Workers : CallInv(v)'
    BY <2>1 DEF E!TypeOK, CallInv
  <2>5. \A v \in Workers : (Holds(v) => owner[entry[v]] = v)'
    BY <2>1 DEF Holds, E!TypeOK
  <2> QED
    BY <2>2, <2>3, <2>4, <2>5
<1> QED
  BY <1>1, <1>2, <1>3, <1>4, <1>5, <1>6, <1>7, StepIs

-----------------------------------------------------------------------------
(* Of a step of the engine the rest of the program sees this. *)
LEMMA StepEffect ==
    ASSUME EngineInv, NEW w \in Workers, E!Step(w)
    PROVE  /\ call' = call
           /\ pc[w] # "idle"
           /\ \A v \in Workers \ {w} : pc'[v] = pc[v]
           /\ pc[w] = "set" => E!SetPolicy(w)
           /\ pc[w] # "set" => registry' = registry /\ keyOf' = keyOf /\ pc'[w] # "set"
<1>1. pc \in [Workers -> E!Steps] /\ call[w].kind \in {"set", "direct", "unsafe"}
  BY DEF EngineInv, E!TypeOK, CallInv, E!Step, E!SetPolicy, E!FindEntry, E!Lock, E!Load,
         E!StoreAllow, E!StoreDeny, E!Snapshot, E!Unlock, E!HasTenant, E!EnsurePolicy,
         E!ResetStrategy
<1> USE DEF E!Goto, E!Kind, E!local, E!shared
<1>2. CASE E!SetPolicy(w)
  BY <1>1, <1>2 DEF E!SetPolicy
<1>3. CASE E!FindEntry(w)
  BY <1>1, <1>3 DEF E!FindEntry
<1>4. CASE E!Lock(w)
  BY <1>1, <1>4 DEF E!Lock
<1>5. CASE E!Load(w)
  BY <1>1, <1>5 DEF E!Load
<1>6. CASE E!StoreAllow(w) \/ E!StoreDeny(w)
  BY <1>1, <1>6 DEF E!StoreAllow, E!StoreDeny, E!AfterStore
<1>7. CASE E!Snapshot(w)
  BY <1>1, <1>7 DEF E!Snapshot
<1>8. CASE E!Unlock(w)
  BY <1>1, <1>8 DEF E!Unlock
<1> QED
  BY <1>2, <1>3, <1>4, <1>5, <1>6, <1>7, <1>8, StepIs

-----------------------------------------------------------------------------
(* Main and the threads of the stress test take turns: main sets a policy  *)
(* or simulates a request while no thread runs ...                         *)
TurnInv ==
    /\ at \in Places
    /\ \A t \in Threads : pc[t] # "idle" => /\ Racing
                                            /\ call[t].kind = at
                                            /\ call[t].key = Stress
    /\ at \in {"down", "menu", "evaluate", "again"} => pc[Main] = "idle"
    /\ pc[Main] # "idle" /\ at # "log" => pc[Main] = "set" /\ call[Main].key = command.id
    /\ pc[Main] # "idle" /\ at = "log" => call[Main].kind = "direct"

(* ... with a setting at hand that it was told, or has restored ...        *)
CommandInv ==
    /\ command \in [id : Ids, setting : AllSettings \cup {Nothing}, count : 0..MaxBurst]
    /\ at \in {"unsafe", "direct"} => command = FullBucket
    /\ at = "save" => command.setting \in Settings
    /\ at = "restore" /\ pc[Main] = "set" =>
         command.setting = ReadBack(file[command.id]) /\ file[command.id] # Nothing

(* ... and the file has what saveTenant kept, and at the start of a        *)
(* process only what was kept is asked for.                                *)
FileInv ==
    /\ file \in [Ids -> Settings \cup {Nothing}]
    /\ asked \in [Ids -> Settings \cup {Nothing}]
    /\ kept \subseteq {t \in Ids : file[t] # Nothing}
    /\ left \subseteq {t \in Ids : file[t] # Nothing}
    /\ \A t \in kept : file[t] = asked[t]
    /\ at \in {"down", "restore"} => \A t \in Ids : asked[t] # Nothing => t \in kept
    /\ at = "down" => ~opened

(* Everything but the race of the stress test and the settings in force. *)
ProgramInv == EngineInv /\ TurnInv /\ CommandInv /\ FileInv

LEMMA WorkersAre ==
    /\ Main \in Workers /\ Main \notin Threads
    /\ \A w \in Workers : w = Main \/ w \in Threads
    /\ \A t \in Threads : t \in Workers /\ t # Main
  BY CommandLineAssumption DEF Workers

LEMMA IdleWhenNotRacing ==
    ASSUME TurnInv, pc[Main] = "idle", at \notin {"unsafe", "direct"}
    PROVE  \A w \in Workers : pc[w] = "idle"
  BY WorkersAre DEF TurnInv, Racing

LEMMA FullBucketIs == FullBucket \in [id : Ids, setting : AllSettings, count : 0..MaxBurst]
  BY CommandLineAssumption DEF FullBucket, Ids, AllSettings

(* A policy is set by main only, and to some setting. *)
LEMMA MainSets ==
    ASSUME ProgramInv, NEW w \in Workers, pc[w] = "set"
    PROVE  w = Main /\ call[w].key = command.id /\ command.setting \in AllSettings
<1> USE DEF ProgramInv
<1>1. w = Main
  BY WorkersAre DEF EngineInv, CallInv, TurnInv, Racing
<1>2. at # "log"
  BY <1>1 DEF EngineInv, CallInv, TurnInv
<1>3. at \in {"restore", "save", "unsafe", "direct"} /\ call[w].key = command.id
  BY <1>1, <1>2 DEF TurnInv, Places
<1>4. CASE at = "restore"
  <2>1. file[command.id] \in Settings /\ command.setting = ReadBack(file[command.id])
    BY <1>1, <1>4 DEF CommandInv, FileInv
  <2> QED
    BY <1>1, <1>3, <2>1, ReadBackIs
<1>5. CASE at = "save"
  BY <1>1, <1>3, <1>5, ReadBackIs DEF CommandInv
<1>6. CASE at \in {"unsafe", "direct"}
  BY <1>1, <1>3, <1>6, FullBucketIs DEF CommandInv
<1> QED
  BY <1>3, <1>4, <1>5, <1>6

LEMMA ProgramInit == Init => ProgramInv
<1> SUFFICES ASSUME Init PROVE ProgramInv
  OBVIOUS
<1>1. EngineInv
  BY EngineInit DEF Init
<1>2. TurnInv
  BY WorkersAre DEF Init, E!Init, TurnInv, Places
<1>3. CommandInv
  BY CommandLineAssumption DEF Init, NoCommand, CommandInv, Ids
<1>4. FileInv
  BY DEF Init, NoSettings, FileInv
<1> QED
  BY <1>1, <1>2, <1>3, <1>4 DEF ProgramInv

LEMMA EngineNext ==
    ASSUME ProgramInv, [Next]_vars
    PROVE  EngineInv'
<1> USE WorkersAre DEF ProgramInv
<1>1. Stress \in Ids /\ command.id \in Ids /\ left \subseteq Ids
  BY DEF CommandInv, FileInv, Ids
<1>2. CASE Start \/ Look \/ Simulate \/ LogEvaluation
  <2>1. UNCHANGED engine
    BY <1>2 DEF Start, Look, Simulate, LogEvaluation
  <2> QED
    BY <2>1 DEF engine, EngineInv, E!TypeOK, MadeInv, CallInv, Holds
<1>3. CASE Restore
  <2>1. (CHOOSE t \in left : TRUE) \in Ids
    BY <1>1, <1>3 DEF Restore
  <2> QED
    BY <1>3, <2>1, EngineCall DEF Restore
<1>4. CASE SetPolicy
  BY <1>4, EngineCall DEF SetPolicy
<1>5. CASE Evaluate
  BY <1>1, <1>5, EngineCall DEF Evaluate
<1>6. CASE StressTest \/ RunAgain
  BY <1>1, <1>6, EngineCall DEF StressTest, RunAgain
<1>7. CASE \E t \in Threads : Request(t)
  <2>1. PICK t \in Threads : Request(t)
    BY <1>7
  <2> QED
    BY <1>1, <2>1, EngineCall DEF Request, Racing
<1>8. CASE Restored \/ SaveTenant \/ SaveFails \/ Simulated
  <2>1. \A w \in Workers : pc[w] = "idle"
    BY <1>8, IdleWhenNotRacing DEF Restored, SaveTenant, SaveFails, Simulated, MainAt
  <2> QED
    BY <1>8, <2>1, EngineUnwinds DEF Restored, SaveTenant, SaveFails, Simulated
<1>9. CASE Join
  BY <1>9, EngineUnwinds DEF Join, Racing
<1>10. CASE \E w \in Workers : EngineStep(w)
  BY <1>10, EngineSteps DEF EngineStep
<1>11. CASE Exit \/ Kill
  BY <1>11, EngineEnds DEF Exit, Kill
<1>12. CASE UNCHANGED vars \/ Terminated
  BY <1>12 DEF Terminated, vars, engine, EngineInv, E!TypeOK, MadeInv, CallInv, Holds
<1> QED
  BY <1>2, <1>3, <1>4, <1>5, <1>6, <1>7, <1>8, <1>9, <1>10, <1>11, <1>12 DEF Next

LEMMA TurnNext ==
    ASSUME ProgramInv, [Next]_vars
    PROVE  TurnInv'
<1> USE WorkersAre DEF ProgramInv, TurnInv, Places, Racing
<1>1. pc \in [Workers -> E!Steps] /\ DOMAIN call = Workers
  BY DEF EngineInv, E!TypeOK
<1>2. CASE Start \/ Look \/ Simulate \/ LogEvaluation
  BY <1>2 DEF Start, Look, Simulate, LogEvaluation, Read, MainAt, engine
<1>3. CASE Restore
  BY <1>1, <1>3 DEF Restore, MainAt, E!Call, E!Goto
<1>4. CASE SetPolicy
  BY <1>1, <1>4 DEF SetPolicy, Read, MainAt, E!Call, E!Goto
<1>5. CASE Evaluate
  BY <1>1, <1>5 DEF Evaluate, MainAt, E!Call, E!Goto
<1>6. CASE StressTest \/ RunAgain
  BY <1>1, <1>6 DEF StressTest, RunAgain, FullBucket, Read, MainAt, E!Call, E!Goto
<1>7. CASE \E t \in Threads : Request(t)
  BY <1>1, <1>7 DEF Request, E!Call, E!Goto
<1>8. CASE Restored \/ SaveTenant \/ SaveFails \/ Simulated
  BY <1>8 DEF Restored, SaveTenant, SaveFails, Simulated, MainAt, Unwind
<1>9. CASE Join
  BY <1>9 DEF Join, Unwind
<1>10. CASE \E w \in Workers : EngineStep(w)
  <2>1. PICK w \in Workers : EngineStep(w)
    BY <1>10
  <2>2. /\ call' = call /\ pc[w] # "idle"
        /\ \A v \in Workers \ {w} : pc'[v] = pc[v]
        /\ pc[w] = "set" => pc'[w] = "idle"
    BY <1>1, <2>1, StepEffect DEF EngineStep, E!SetPolicy, E!Goto
  <2> QED
    BY <2>1, <2>2 DEF EngineStep
<1>11. CASE Exit \/ Kill
  BY <1>11 DEF Exit, Kill, End
<1>12. CASE UNCHANGED vars \/ Terminated
  BY <1>12 DEF Terminated, vars, engine
<1> QED
  BY <1>2, <1>3, <1>4, <1>5, <1>6, <1>7, <1>8, <1>9, <1>10, <1>11, <1>12 DEF Next

LEMMA CommandNext ==
    ASSUME ProgramInv, [Next]_vars
    PROVE  CommandInv'
<1> USE WorkersAre, FullBucketIs DEF ProgramInv, CommandInv
<1>1. pc \in [Workers -> E!Steps]
  BY DEF EngineInv, E!TypeOK
<1>2. NoCommand \in [id : Ids, setting : AllSettings \cup {Nothing}, count : 0..MaxBurst]
  BY CommandLineAssumption DEF NoCommand, Ids
<1>3. CASE Start \/ Look \/ LogEvaluation
  BY <1>3 DEF Start, Look, LogEvaluation, Read, MainAt, TurnInv, engine, store
<1>4. CASE Restore
  <2> DEFINE t == CHOOSE t \in left : TRUE
  <2>1. t \in Ids /\ file[t] \in Settings /\ ReadBack(file[t]) \in AllSettings
    BY <1>4, ReadBackIs DEF Restore, FileInv
  <2>2. /\ command' = [id |-> t, setting |-> ReadBack(file[t]), count |-> 0]
        /\ at' = "restore" /\ file' = file /\ 0 \in 0..MaxBurst
    BY <1>4, CommandLineAssumption DEF Restore, MainAt, store
  <2>3. Nothing \notin Settings
    BY CommandLineAssumption
  <2> HIDE DEF t
  <2> QED
    BY <2>1, <2>2, <2>3
<1>5. CASE SetPolicy
  BY <1>5, ReadBackIs, CommandLineAssumption DEF SetPolicy, Read
<1>6. CASE Simulate
  BY <1>6 DEF Simulate, Read
<1>7. CASE Evaluate
  <2>1. /\ command' = [command EXCEPT !.count = @ - 1]
        /\ command.count \in 1..MaxBurst /\ at' = "log"
    BY <1>7, CommandLineAssumption DEF Evaluate
  <2>2. command.count - 1 \in 0..MaxBurst
    BY <2>1, CommandLineAssumption
  <2> QED
    BY <2>1, <2>2
<1>8. CASE StressTest \/ RunAgain
  BY <1>8 DEF StressTest, RunAgain
<1>9. CASE \E t \in Threads : Request(t)
  BY <1>1, <1>9 DEF Request, Racing, E!Call, E!Goto, store
<1>10. CASE Restored \/ SaveTenant \/ SaveFails \/ Simulated
  BY <1>2, <1>10 DEF Restored, SaveTenant, SaveFails, Simulated, Unwind
<1>11. CASE Join
  BY <1>2, <1>11 DEF Join, Unwind
<1>12. CASE \E w \in Workers : EngineStep(w)
  <2>1. PICK w \in Workers : EngineStep(w)
    BY <1>12
  <2>2. pc'[Main] = "set" => pc[Main] = "set"
    BY <2>1, StepEffect DEF EngineStep, E!SetPolicy, E!Goto
  <2> QED
    BY <2>1, <2>2 DEF EngineStep, store
<1>13. CASE Exit \/ Kill
  BY <1>2, <1>13 DEF Exit, Kill, End
<1>14. CASE UNCHANGED vars \/ Terminated
  BY <1>14 DEF Terminated, vars, engine, store
<1> QED
  BY <1>3, <1>4, <1>5, <1>6, <1>7, <1>8, <1>9, <1>10, <1>11, <1>12, <1>13, <1>14 DEF Next

LEMMA FileNext ==
    ASSUME ProgramInv, [Next]_vars
    PROVE  FileInv'
<1> USE DEF ProgramInv, FileInv, store
<1>1. Nothing \notin Settings
  BY CommandLineAssumption
<1>2. command.id \in Ids
  BY DEF CommandInv
<1>3. CASE Start
  BY <1>3 DEF Start
<1>4. CASE Restore
  BY <1>4 DEF Restore, MainAt
<1>5. CASE Restored \/ Simulated
  BY <1>5 DEF Restored, Simulated
<1>6. CASE SaveTenant
  BY <1>1, <1>2, <1>6 DEF SaveTenant, MainAt, CommandInv
<1>7. CASE SaveFails
  BY <1>1, <1>2, <1>7 DEF SaveFails, MainAt, CommandInv
<1>8. CASE Look \/ SetPolicy \/ Simulate \/ StressTest
  BY <1>8 DEF Look, SetPolicy, Simulate, StressTest, Read, MainAt
<1>9. CASE Evaluate \/ LogEvaluation \/ RunAgain
  BY <1>9 DEF Evaluate, LogEvaluation, RunAgain, MainAt
<1>10. CASE (\E t \in Threads : Request(t)) \/ (\E w \in Workers : EngineStep(w))
  BY <1>10 DEF Request, EngineStep
<1>11. CASE Join
  BY <1>11 DEF Join
<1>12. CASE Exit \/ Kill
  BY <1>1, <1>12 DEF Exit, Kill, End
<1>13. CASE UNCHANGED vars \/ Terminated
  BY <1>13 DEF Terminated, vars
<1> QED
  BY <1>3, <1>4, <1>5, <1>6, <1>7, <1>8, <1>9, <1>10, <1>11, <1>12, <1>13 DEF Next

LEMMA ProgramNext ==
    ASSUME ProgramInv, [Next]_vars
    PROVE  ProgramInv'
  BY EngineNext, TurnNext, CommandNext, FileNext DEF ProgramInv

(* Main and the threads of the stress test take turns on an engine whose   *)
(* mutexes hold, every policy is set to a setting that was told or kept,   *)
(* and the file has what saveTenant kept, whatever fails or is killed.     *)
THEOREM ProgramSafe == Spec => []ProgramInv
<1>1. ProgramInv /\ [Next]_vars => ProgramInv'
  BY ProgramNext
<1> QED
  BY <1>1, ProgramInit, PTL DEF Spec

-----------------------------------------------------------------------------
(* The stress test: the requests that have been answered. *)
Asked    == Threads \X (1..ReqsEach)
Answered == {a \in Asked : a[2] <= answer[a[1]][1]}

(* A thread's answer is to its present call, or to the one before. *)
AnswersInv ==
    \A t \in Threads :
        /\ call[t].number <= ReqsEach
        /\ answer[t][1] = IF pc[t] \in {"find", "lock", "load", "store"}
                            THEN call[t].number - 1 ELSE call[t].number
        /\ ~Racing => call[t].number = 0

(* While threads race for the bucket of the stress test, everything they   *)
(* take from it is counted; without the mutex some of what was counted is  *)
(* lost from the bucket, with it nothing.  Until Limit were allowed every  *)
(* answer allowed one.                                                     *)
CountInv ==
    /\ allowed \in Nat
    /\ ~Racing => allowed = 0
    /\ allowed <= Cardinality(Answered)
    /\ allowed >= Limit \/ allowed = Cardinality(Answered)

BucketInv ==
    /\ Racing =>
         /\ registry[Stress] \in Entries
         /\ used[registry[Stress]] <= allowed
         /\ at = "direct" => used[registry[Stress]] = allowed
    /\ \A t \in Threads :
         /\ pc[t] \notin {"idle", "find"} => entry[t] = registry[Stress]
         /\ pc[t] = "store" => loaded[t] <= allowed
         /\ pc[t] = "store" /\ at = "direct" => loaded[t] = used[registry[Stress]]

ReportInv ==
    /\ report \in Seq(Nat) /\ Len(report) <= 2
    /\ StressReport
    /\ at = "unsafe" => Len(report) = 0
    /\ at \in {"again", "direct"} => Len(report) = 1

RaceInv == AnswersInv /\ CountInv /\ BucketInv

LEMMA AskedIs ==
    /\ IsFiniteSet(Asked) /\ Cardinality(Asked) = ReqsEach * Cardinality(Threads)
    /\ Cardinality(Asked) \in Nat /\ Cardinality(Asked) >= Limit
<1>1. IsFiniteSet(1..ReqsEach) /\ Cardinality(1..ReqsEach) = ReqsEach
  BY FS_Interval, CommandLineAssumption
<1>2. /\ IsFiniteSet(Asked)
      /\ Cardinality(Asked) = Cardinality(Threads) * Cardinality(1..ReqsEach)
  BY <1>1, FS_Product, CommandLineAssumption DEF Asked
<1>3. Cardinality(Threads) \in Nat /\ Cardinality(Asked) \in Nat
  BY <1>2, FS_CardinalityType, CommandLineAssumption
<1>4. Cardinality(Threads) * ReqsEach = ReqsEach * Cardinality(Threads)
  BY <1>3, CommandLineAssumption
<1> QED
  BY <1>1, <1>2, <1>3, <1>4, CommandLineAssumption

LEMMA AnsweredIs ==
    /\ IsFiniteSet(Answered) /\ Cardinality(Answered) \in Nat
    /\ Cardinality(Answered) <= ReqsEach * Cardinality(Threads)
<1>1. Answered \subseteq Asked
  BY DEF Answered
<1> QED
  BY <1>1, AskedIs, FS_Subset, FS_CardinalityType

(* When no thread has called, nothing has been answered ... *)
LEMMA AnsweredNone ==
    ASSUME \A t \in Threads : answer[t][1] = 0
    PROVE  Answered = {} /\ Cardinality(Answered) = 0
<1>1. \A a \in Asked : a[1] \in Threads /\ a[2] \in 1..ReqsEach
  BY DEF Asked
<1>2. Answered = {}
  BY <1>1, CommandLineAssumption DEF Answered
<1> QED
  BY <1>2, FS_EmptySet

(* ... with each answer one more is, ... *)
LEMMA AnsweredGrows ==
    ASSUME EngineInv, NEW t \in Threads, NEW n \in 1..ReqsEach, NEW e, NEW verdict,
           answer[t][1] = n - 1, answer' = [answer EXCEPT ![t] = <<n, e, verdict>>]
    PROVE  Cardinality(Answered)' = Cardinality(Answered) + 1
<1>1. \A a \in Asked : a[1] \in Threads /\ a[2] \in 1..ReqsEach /\ a = <<a[1], a[2]>>
  BY DEF Asked
<1>2. /\ DOMAIN answer = Workers /\ \A v \in Workers : answer[v][1] \in Nat
      /\ ReqsEach \in Nat /\ Threads \subseteq Workers
  <2>1. \A v \in Workers : answer[v] \in (0..(ReqsEach + MaxBurst + Cardinality(Ids)))
                             \X (Entries \cup {NoEntry}) \X {"none", "allow", "deny"}
    BY DEF EngineInv, E!TypeOK
  <2>2. 0..(ReqsEach + MaxBurst + Cardinality(Ids)) \subseteq Nat
    BY BoundIs
  <2> QED
    BY <2>1, <2>2, CommandLineAssumption DEF EngineInv, E!TypeOK, Workers
<1>3. <<t, n>> \in Asked /\ <<t, n>> \notin Answered
  BY <1>2 DEF Asked, Answered
<1>4. Answered' = Answered \cup {<<t, n>>}
  <2>1. \A a \in Asked : a[2] <= answer'[a[1]][1] <=> a[2] <= answer[a[1]][1] \/ a = <<t, n>>
    <3> SUFFICES ASSUME NEW a \in Asked
                 PROVE  a[2] <= answer'[a[1]][1] <=> a[2] <= answer[a[1]][1] \/ a = <<t, n>>
      OBVIOUS
    <3>1. CASE a[1] = t
      <4>1. answer'[t][1] = n /\ answer[t][1] = n - 1
        BY <1>2
      <4>2. a = <<t, n>> <=> a[2] = n
        BY <1>1, <3>1
      <4> QED
        BY <1>1, <1>2, <3>1, <4>1, <4>2
    <3>2. CASE a[1] # t
      <4>1. answer'[a[1]] = answer[a[1]] /\ a # <<t, n>>
        BY <1>1, <1>2, <3>2
      <4> QED
        BY <4>1
    <3> QED
      BY <3>1, <3>2
  <2> QED
    BY <1>3, <2>1 DEF Answered
<1> QED
  BY <1>3, <1>4, AnsweredIs, FS_AddElement

(* ... and when all have called ReqsEach times, everything is. *)
LEMMA AnsweredAll ==
    ASSUME \A t \in Threads : answer[t][1] = ReqsEach
    PROVE  Cardinality(Answered) = ReqsEach * Cardinality(Threads)
<1>1. \A a \in Asked : a[1] \in Threads /\ a[2] \in 1..ReqsEach
  BY DEF Asked
<1>2. Answered = Asked
  BY <1>1, CommandLineAssumption DEF Answered
<1> QED
  BY <1>2, AskedIs

(* No race is on: no thread has called, and nothing is counted. *)
LEMMA NoRace ==
    ASSUME TurnInv, ~Racing, allowed = 0,
           \A t \in Threads : call[t].number = 0 /\ answer[t][1] = 0
    PROVE  RaceInv
<1>1. \A t \in Threads : pc[t] = "idle"
  BY DEF TurnInv
<1>2. Cardinality(Answered) = 0
  BY AnsweredNone
<1> QED
  BY <1>1, <1>2, CommandLineAssumption DEF RaceInv, AnswersInv, CountInv, BucketInv

LEMMA RaceInit == Init => RaceInv
<1> SUFFICES ASSUME Init PROVE RaceInv
  OBVIOUS
<1>1. TurnInv
  BY ProgramInit DEF ProgramInv
<1>2. \A t \in Threads : call[t].number = 0 /\ answer[t][1] = 0
  BY WorkersAre DEF Init, E!Init, E!NoCall
<1>3. ~Racing /\ allowed = 0
  BY DEF Init, Racing
<1> QED
  BY <1>1, <1>2, <1>3, NoRace

(* The steps of main: none is taken while threads race ... *)
LEMMA MainIdles ==
    ASSUME ProgramInv, RaceInv, NEW t \in Threads, ~Racing
    PROVE  pc[t] = "idle" /\ call[t].number = 0 /\ answer[t][1] = 0 /\ allowed = 0
<1>1. pc[t] = "idle" /\ call[t].number = 0 /\ allowed = 0
  BY DEF ProgramInv, TurnInv, RaceInv, AnswersInv, CountInv
<1> QED
  BY <1>1 DEF RaceInv, AnswersInv

(* ... save that main joins them, and each starts from nothing. *)
LEMMA QuietSteps ==
    ASSUME ProgramInv, RaceInv,
           \/ Start \/ Restore \/ Restored \/ Look \/ SetPolicy \/ SaveTenant \/ SaveFails
           \/ Simulate \/ Evaluate \/ LogEvaluation \/ Simulated
           \/ StressTest \/ Join \/ RunAgain \/ Exit \/ Kill
    PROVE  RaceInv'
<1> USE WorkersAre
<1>1. /\ \A t \in Threads : call'[t].number = 0 /\ answer'[t][1] = 0
      /\ ~Racing' /\ allowed' = 0
  <2>1. DOMAIN call = Workers
    BY DEF ProgramInv, EngineInv, E!TypeOK
  <2>2. CASE Start \/ Look \/ Simulate \/ LogEvaluation
    <3>1. ~Racing /\ ~Racing' /\ UNCHANGED <<call, answer, allowed>>
      BY <2>2 DEF Start, Look, Simulate, LogEvaluation, Read, MainAt, Racing, engine, stress
    <3> QED
      BY <3>1, MainIdles DEF ProgramInv, TurnInv, RaceInv, CountInv
  <2>3. CASE Restore \/ SetPolicy \/ Evaluate
    <3>1. ~Racing /\ ~Racing' /\ UNCHANGED <<answer, allowed>>
      BY <2>3 DEF Restore, SetPolicy, Evaluate, Read, MainAt, Racing, E!Call, stress
    <3>2. \A t \in Threads : call'[t] = call[t]
      BY <2>1, <2>3 DEF Restore, SetPolicy, Evaluate, E!Call
    <3> QED
      BY <3>1, <3>2, MainIdles DEF RaceInv, CountInv
  <2>4. CASE StressTest
    <3>1. ~Racing /\ UNCHANGED answer /\ allowed' = 0 /\ pc'[Main] # "idle"
      BY <2>4 DEF StressTest, Read, MainAt, Racing, E!Call, E!Goto, ProgramInv, EngineInv,
                  E!TypeOK
    <3>2. \A t \in Threads : call'[t] = call[t]
      BY <2>1, <2>4 DEF StressTest, E!Call
    <3> QED
      BY <3>1, <3>2, MainIdles DEF Racing
  <2>5. CASE RunAgain
    <3>1. ~Racing /\ UNCHANGED <<answer, allowed>> /\ pc'[Main] # "idle"
      BY <2>5 DEF RunAgain, MainAt, Racing, E!Call, E!Goto, ProgramInv, EngineInv,
                  E!TypeOK, stress
    <3>2. \A t \in Threads : call'[t] = call[t]
      BY <2>1, <2>5 DEF RunAgain, E!Call
    <3> QED
      BY <3>1, <3>2, MainIdles DEF Racing, RaceInv, CountInv
  <2>6. CASE Restored \/ SaveTenant \/ SaveFails \/ Simulated
    <3>1. ~Racing /\ ~Racing' /\ UNCHANGED allowed /\ EmptyStacks
      BY <2>6 DEF Restored, SaveTenant, SaveFails, Simulated, MainAt, Racing, Unwind, stress
    <3> QED
      BY <3>1 DEF EmptyStacks, E!NoCall, RaceInv, CountInv
  <2>7. CASE Join \/ Exit \/ Kill
    <3>1. ~Racing' /\ allowed' = 0 /\ EmptyStacks
      BY <2>7 DEF Join, Exit, Kill, End, Racing, Unwind
    <3> QED
      BY <3>1 DEF EmptyStacks, E!NoCall
  <2> QED
    BY <2>2, <2>3, <2>4, <2>5, <2>6, <2>7
<1>2. TurnInv'
  BY ProgramNext DEF Next, ProgramInv
<1>3. \A t \in Threads : pc'[t] = "idle"
  BY <1>1, <1>2 DEF TurnInv
<1>4. Cardinality(Answered)' = 0
  <2>1. \A a \in Asked : a[1] \in Threads /\ a[2] \in 1..ReqsEach
    BY DEF Asked
  <2>2. Answered' = {}
    BY <1>1, <2>1, CommandLineAssumption DEF Answered
  <2> QED
    BY <2>2, FS_EmptySet
<1> QED
  BY <1>1, <1>3, <1>4, CommandLineAssumption DEF RaceInv, AnswersInv, CountInv, BucketInv

(* Main gives the threads a full bucket, or does what no thread sees. *)
LEMMA MainStepKeepsRace ==
    ASSUME ProgramInv, RaceInv, EngineStep(Main)
    PROVE  RaceInv'
<1> USE WorkersAre
<1>1. /\ UNCHANGED <<at, allowed, call>> /\ ~Racing
      /\ \A t \in Threads : pc'[t] = "idle" /\ call'[t].number = 0 /\ answer'[t][1] = 0
  <2>1. E!Step(Main) /\ UNCHANGED <<at, allowed, call>> /\ pc[Main] # "idle"
    BY StepEffect DEF EngineStep, ProgramInv
  <2>2. \A t \in Threads : pc[t] = "idle" /\ pc'[t] = pc[t]
    BY <2>1, StepEffect DEF ProgramInv, TurnInv, Racing
  <2>3. \A t \in Threads : answer'[t] = answer[t]
    BY <2>1, StepIs DEF ProgramInv, EngineInv, E!TypeOK, E!SetPolicy, E!FindEntry, E!Lock,
       E!Load, E!StoreAllow, E!StoreDeny, E!Snapshot, E!Unlock, E!local
  <2> QED
    BY <2>1, <2>2, <2>3, MainIdles DEF Racing
<1>2. Cardinality(Answered)' = 0
  <2>1. \A a \in Asked : a[1] \in Threads /\ a[2] \in 1..ReqsEach
    BY DEF Asked
  <2>2. Answered' = {}
    BY <1>1, <2>1, CommandLineAssumption DEF Answered
  <2> QED
    BY <2>2, FS_EmptySet
<1>3. AnswersInv' /\ CountInv'
  BY <1>1, <1>2, CommandLineAssumption DEF RaceInv, AnswersInv, CountInv
<1>4. Racing' => registry'[Stress] \in Entries /\ used'[registry'[Stress]] = 0
  <2> SUFFICES ASSUME Racing'
               PROVE  registry'[Stress] \in Entries /\ used'[registry'[Stress]] = 0
    OBVIOUS
  <2>1. at \in {"unsafe", "direct"} /\ pc[Main] # "idle"
    BY <1>1 DEF Racing
  <2>2. E!SetPolicy(Main) /\ call[Main].key = Stress
    BY <2>1, StepEffect DEF EngineStep, ProgramInv, TurnInv, CommandInv, FullBucket
  <2>3. E!NewEntry \in Entries /\ keyOf[E!NewEntry] = NoEntry /\ used[E!NewEntry] = 0
    BY <2>2, NewEntryIs DEF E!SetPolicy, ProgramInv, EngineInv, MadeInv
  <2>4. registry' = [registry EXCEPT ![Stress] = E!NewEntry] /\ used' = used
    BY <2>2 DEF E!SetPolicy, E!Install, E!Key
  <2>5. Stress \in DOMAIN registry
    BY DEF ProgramInv, EngineInv, E!TypeOK, Ids
  <2> QED
    BY <2>3, <2>4, <2>5
<1>5. allowed = 0
  BY <1>1 DEF RaceInv, CountInv
<1> QED
  BY <1>1, <1>3, <1>4, <1>5 DEF RaceInv, BucketInv

(* A thread of the stress test calls once more ... *)
LEMMA RequestKeepsRace ==
    ASSUME ProgramInv, RaceInv, NEW t \in Threads, Request(t)
    PROVE  RaceInv'
<1>1. /\ Racing /\ Racing' /\ pc[t] = "idle"
      /\ pc' = [pc EXCEPT ![t] = "find"]
      /\ call[t].number < ReqsEach /\ call[t].number \in Nat
      /\ call' = [call EXCEPT ![t] = [number |-> call[t].number + 1, kind |-> at, key |-> Stress]]
      /\ UNCHANGED <<registry, used, entry, loaded, answer, at, allowed>>
  <2>1. DOMAIN pc = Workers
    BY DEF ProgramInv, EngineInv, E!TypeOK
  <2>2. call[t] \in [number : 0..(ReqsEach + MaxBurst + Cardinality(Ids)),
                    kind : {"direct", "unsafe", "set", "none"}, key : Ids \cup {NoEntry}]
    BY WorkersAre DEF ProgramInv, EngineInv, E!TypeOK
  <2>3. call[t].number \in Nat
    BY <2>2, BoundIs
  <2>4. Racing /\ call[t].number < ReqsEach /\ E!Call(t, at, Stress) /\ UNCHANGED <<at, allowed>>
    BY DEF Request, stress
  <2>5. /\ pc[t] = "idle"
        /\ call' = [call EXCEPT ![t] = [number |-> call[t].number + 1, kind |-> at,
                                        key |-> Stress]]
        /\ UNCHANGED <<registry, used, entry, loaded, answer>>
        /\ at \in {"unsafe", "direct"} => pc' = [pc EXCEPT ![t] = "find"]
    BY <2>4 DEF E!Call, E!Goto, E!shared
  <2>6. pc' = [pc EXCEPT ![t] = "find"] /\ Racing'
    BY <2>1, <2>4, <2>5, WorkersAre DEF Racing
  <2> QED
    BY <2>3, <2>4, <2>5, <2>6
<1>2. DOMAIN pc = Workers /\ DOMAIN call = Workers
  BY DEF ProgramInv, EngineInv, E!TypeOK
<1>3. Answered' = Answered
  BY <1>1 DEF Answered
<1>4. CountInv'
  BY <1>1, <1>3 DEF RaceInv, CountInv
<1>5. AnswersInv'
  BY <1>1, <1>2, WorkersAre, CommandLineAssumption DEF RaceInv, AnswersInv
<1>6. BucketInv'
  BY <1>1, <1>2, WorkersAre DEF RaceInv, BucketInv
<1> QED
  BY <1>4, <1>5, <1>6 DEF RaceInv

(* ... and takes a step of its call, alone with the bucket or not. *)
LEMMA ThreadStepKeepsRace ==
    ASSUME ProgramInv, RaceInv, NEW t \in Threads, EngineStep(t)
    PROVE  RaceInv'
<1> DEFINE b == registry[Stress]
<1>1. /\ Racing /\ Racing' /\ b \in Entries /\ t \in Workers /\ Threads \subseteq Workers
      /\ UNCHANGED <<registry, call, at>> /\ pc[t] # "set"
      /\ call[t].kind = at /\ call[t].key = Stress /\ call[t].kind \in {"unsafe", "direct"}
  <2>1. pc[t] # "idle" /\ E!Step(t) /\ UNCHANGED at
    BY StepEffect, WorkersAre DEF EngineStep, ProgramInv
  <2>2. /\ Racing /\ call[t].kind = at /\ call[t].key = Stress
        /\ call[t].kind \in {"unsafe", "direct"}
    BY <2>1 DEF ProgramInv, TurnInv, Racing
  <2>3. pc[t] # "set"
    BY <2>1, <2>2, WorkersAre DEF ProgramInv, EngineInv, CallInv
  <2>4. UNCHANGED <<registry, call>> /\ pc'[Main] = pc[Main]
    BY <2>1, <2>3, StepEffect, WorkersAre DEF ProgramInv
  <2> QED
    BY <2>1, <2>2, <2>3, <2>4, WorkersAre DEF Racing, RaceInv, BucketInv
<1>2. /\ DOMAIN pc = Workers /\ DOMAIN entry = Workers /\ DOMAIN loaded = Workers
      /\ DOMAIN answer = Workers /\ DOMAIN used = Entries
      /\ used[b] \in 0..Limit /\ loaded[t] \in 0..Limit /\ call[t].number \in Nat
      /\ b # NoEntry /\ Limit \in Nat
  BY <1>1, BoundIs, CommandLineAssumption DEF ProgramInv, EngineInv, E!TypeOK
<1>3. allowed' = IF answer'[t] # answer[t] /\ answer'[t][3] = "allow"
                   THEN allowed + 1 ELSE allowed
  BY DEF EngineStep
<1> HIDE DEF b
<1>4. ASSUME answer' = answer,
             E!FindEntry(t) \/ E!Lock(t) \/ E!Load(t) \/ E!Snapshot(t) \/ E!Unlock(t)
      PROVE  AnswersInv' /\ CountInv'
  <2>1. Answered' = Answered /\ allowed' = allowed
    BY <1>3, <1>4 DEF Answered
  <2>2. CountInv'
    BY <1>1, <2>1 DEF RaceInv, CountInv
  <2>3. \E step : /\ pc' = [pc EXCEPT ![t] = step]
                  /\ step \in {"find", "lock", "load", "store"}
                       <=> pc[t] \in {"find", "lock", "load", "store"}
    <3>1. CASE E!FindEntry(t)
      BY <1>1, <1>2, <3>1 DEF E!FindEntry, E!Goto, E!Key, E!Kind, b
    <3>2. CASE E!Lock(t)
      BY <1>1, <3>2 DEF E!Lock, E!Goto, E!Kind
    <3>3. CASE E!Load(t) \/ E!Snapshot(t) \/ E!Unlock(t)
      BY <3>3 DEF E!Load, E!Snapshot, E!Unlock, E!Goto
    <3> QED
      BY <1>4, <3>1, <3>2, <3>3
  <2>4. AnswersInv'
    BY <1>1, <1>2, <1>4, <2>3 DEF RaceInv, AnswersInv
  <2> QED
    BY <2>2, <2>4
<1>5. CASE E!FindEntry(t)
  <2>1. /\ entry' = [entry EXCEPT ![t] = b] /\ UNCHANGED <<used, answer, loaded>>
        /\ \A v \in Threads \ {t} : pc'[v] = pc[v]
        /\ pc'[t] # "store"
    BY <1>1, <1>2, <1>5 DEF E!FindEntry, E!Goto, E!Key, E!Kind, E!shared, b
  <2>2. BucketInv'
    BY <1>1, <1>2, <1>3, <2>1 DEF RaceInv, BucketInv, b
  <2> QED
    BY <1>4, <1>5, <2>1, <2>2 DEF RaceInv
<1>6. CASE E!Lock(t) \/ E!Snapshot(t) \/ E!Unlock(t)
  <2>1. /\ UNCHANGED <<used, answer, loaded, entry>>
        /\ \A v \in Threads \ {t} : pc'[v] = pc[v]
        /\ pc'[t] # "store" /\ pc[t] \notin {"idle", "find"}
    BY <1>1, <1>2, <1>6 DEF E!Lock, E!Snapshot, E!Unlock, E!Goto, E!Kind, E!shared, E!local
  <2>2. BucketInv'
    BY <1>1, <1>2, <1>3, <2>1 DEF RaceInv, BucketInv, b
  <2> QED
    BY <1>4, <1>6, <2>1, <2>2 DEF RaceInv
<1>7. CASE E!Load(t)
  <2>1. entry[t] = b
    BY <1>7 DEF E!Load, RaceInv, BucketInv, b
  <2>2. /\ UNCHANGED <<used, answer, entry>> /\ loaded' = [loaded EXCEPT ![t] = used[b]]
        /\ pc' = [pc EXCEPT ![t] = "store"] /\ pc[t] = "load"
    BY <1>7, <2>1 DEF E!Load, E!Goto, E!shared
  <2>3. BucketInv'
    BY <1>1, <1>2, <1>3, <2>1, <2>2 DEF RaceInv, BucketInv, b
  <2> QED
    BY <1>4, <1>7, <2>2, <2>3 DEF RaceInv
<1>8. CASE E!StoreAllow(t) \/ E!StoreDeny(t)
  <2>1. /\ entry[t] = b /\ pc[t] = "store" /\ loaded[t] <= allowed
        /\ at = "direct" => loaded[t] = used[b] /\ used[b] = allowed
        /\ allowed \in Nat
    BY <1>1, <1>8 DEF E!StoreAllow, E!StoreDeny, RaceInv, BucketInv, CountInv, b
  <2>2. PICK verdict \in {"allow", "deny"} :
          /\ answer' = [answer EXCEPT ![t] = <<call[t].number, entry[t], verdict>>]
          /\ verdict = "allow" => loaded[t] < Limit
                                  /\ used' = [used EXCEPT ![b] = loaded[t] + 1]
          /\ verdict = "deny" => loaded[t] >= Limit
                                 /\ used' = [used EXCEPT ![b] = loaded[t]]
    BY <1>8, <2>1 DEF E!StoreAllow, E!StoreDeny
  <2>3. /\ UNCHANGED <<loaded, entry>>
        /\ \E step \in {"idle", "snapshot"} : pc' = [pc EXCEPT ![t] = step]
    BY <1>8 DEF E!StoreAllow, E!StoreDeny, E!AfterStore, E!Goto
  <2>4. /\ answer[t][1] = call[t].number - 1 /\ call[t].number <= ReqsEach
        /\ answer'[t] # answer[t] /\ answer'[t][3] = verdict
    BY <1>1, <1>2, <2>1, <2>2 DEF RaceInv, AnswersInv
  <2>5. allowed' = IF verdict = "allow" THEN allowed + 1 ELSE allowed
    BY <1>3, <2>4
  <2>6. AnswersInv'
    BY <1>1, <1>2, <2>1, <2>2, <2>3 DEF RaceInv, AnswersInv
  <2>7. call[t].number \in 1..ReqsEach
    <3>1. answer[t] \in (0..(ReqsEach + MaxBurst + Cardinality(Ids)))
                          \X (Entries \cup {NoEntry}) \X {"none", "allow", "deny"}
      BY <1>1 DEF ProgramInv, EngineInv, E!TypeOK
    <3>2. answer[t][1] \in Nat
      BY <3>1, BoundIs
    <3> QED
      BY <1>2, <2>4, <3>2, CommandLineAssumption
  <2>8. Cardinality(Answered)' = Cardinality(Answered) + 1
    BY <2>2, <2>4, <2>7, AnsweredGrows DEF ProgramInv
  <2>9. CountInv'
    BY <1>1, <1>2, <2>1, <2>2, <2>5, <2>8, AnsweredIs DEF RaceInv, CountInv
  <2>10. \A v \in Threads : v # t /\ pc[v] = "store" => at = "unsafe"
    <3> SUFFICES ASSUME NEW v \in Threads, v # t, pc[v] = "store", at = "direct"
                 PROVE  FALSE
      BY <1>1 DEF Racing
    <3>1. entry[v] = b /\ call[v].kind = "direct"
      BY DEF ProgramInv, TurnInv, RaceInv, BucketInv, b
    <3>2. owner[b] = v /\ owner[b] = t
      BY <1>1, <2>1, <3>1 DEF ProgramInv, EngineInv, Holds
    <3> QED
      BY <3>2
  <2>11. BucketInv'
    <3>1. /\ used'[b] <= allowed' /\ allowed <= allowed' /\ allowed' \in Nat
          /\ at = "direct" => used'[b] = allowed'
      BY <1>1, <1>2, <2>1, <2>2, <2>5
    <3>2. \A v \in Threads : pc'[v] # "idle" /\ v # t => pc'[v] = pc[v]
      BY <1>1, <1>2, <2>3
    <3>3. pc'[t] \in {"idle", "snapshot"}
      BY <1>1, <1>2, <2>3
    <3>4. \A v \in Threads : pc'[v] = "store" =>
            pc[v] = "store" /\ v # t /\ at = "unsafe" /\ loaded[v] \in Nat
            /\ loaded[v] <= allowed
      BY <1>1, <2>10, <3>2, <3>3
         DEF ProgramInv, EngineInv, E!TypeOK, RaceInv, BucketInv
    <3>5. \A v \in Threads : pc'[v] = "store" => loaded[v] <= allowed'
      BY <2>1, <3>1, <3>4
    <3> QED
      BY <1>1, <2>1, <2>3, <3>1, <3>2, <3>3, <3>4, <3>5 DEF RaceInv, BucketInv, b
  <2> QED
    BY <2>6, <2>9, <2>11 DEF RaceInv
<1> QED
  BY <1>1, <1>5, <1>6, <1>7, <1>8, StepIs DEF EngineStep, ProgramInv, E!SetPolicy

LEMMA RaceNext ==
    ASSUME ProgramInv, RaceInv, [Next]_vars
    PROVE  RaceInv'
<1>1. CASE UNCHANGED vars \/ Terminated
  <2>1. UNCHANGED <<registry, used, pc, call, entry, loaded, answer, at, allowed>>
    BY <1>1 DEF Terminated, vars, engine, stress
  <2>2. Answered' = Answered /\ Racing' = Racing
    BY <2>1 DEF Answered, Racing
  <2> QED
    BY <2>1, <2>2 DEF RaceInv, AnswersInv, CountInv, BucketInv
<1>2. CASE \E w \in Workers : EngineStep(w)
  BY <1>2, MainStepKeepsRace, ThreadStepKeepsRace, WorkersAre
<1>3. CASE \E t \in Threads : Request(t)
  BY <1>3, RequestKeepsRace
<1> QED
  BY <1>1, <1>2, <1>3, QuietSteps DEF Next

LEMMA ReportInit == Init => ReportInv
  BY DEF Init, ReportInv, StressReport

(* When the threads are joined at least Limit were allowed, and with the   *)
(* mutex no more than the bucket had.                                      *)
LEMMA JoinReports ==
    ASSUME ProgramInv, RaceInv, Join
    PROVE  allowed \in Nat /\ allowed >= Limit /\ (at = "direct" => allowed = Limit)
<1>1. \A t \in Threads : answer[t][1] = ReqsEach
  BY DEF Join, RaceInv, AnswersInv
<1>2. allowed \in Nat /\ allowed >= Limit
  BY <1>1, AnsweredAll, AskedIs, CommandLineAssumption DEF RaceInv, CountInv
<1>3. registry[Stress] \in Entries /\ (at = "direct" => used[registry[Stress]] = allowed)
  BY DEF Join, RaceInv, BucketInv
<1>4. used[registry[Stress]] \in 0..Limit
  BY <1>3 DEF ProgramInv, EngineInv, E!TypeOK
<1> QED
  BY <1>2, <1>3, <1>4, CommandLineAssumption

LEMMA ReportNext ==
    ASSUME ProgramInv, RaceInv, ReportInv, [Next]_vars
    PROVE  ReportInv'
<1> USE DEF ReportInv, StressReport
<1>1. CASE Start \/ Restore \/ Restored \/ Look \/ SetPolicy \/ SaveTenant \/ SaveFails
  BY <1>1 DEF Start, Restore, Restored, Look, SetPolicy, SaveTenant, SaveFails, Read, MainAt,
              stress
<1>2. CASE Simulate \/ Evaluate \/ LogEvaluation \/ Simulated
  BY <1>2 DEF Simulate, Evaluate, LogEvaluation, Simulated, Read, MainAt, stress
<1>3. CASE StressTest
  BY <1>3 DEF StressTest
<1>4. CASE Join
  <2>1. /\ report' = Append(report, allowed)
        /\ at = "unsafe" => at' = "again" /\ Len(report) = 0
        /\ at # "unsafe" => at' = "menu" /\ Len(report) = 1 /\ at = "direct"
    BY <1>4 DEF Join, Racing
  <2>2. allowed \in Nat /\ allowed >= Limit /\ (at = "direct" => allowed = Limit)
    BY <1>4, JoinReports
  <2>3. report' \in Seq(Nat) /\ Len(report') = Len(report) + 1
        /\ report'[Len(report) + 1] = allowed
        /\ \A i \in 1..Len(report) : report'[i] = report[i]
    BY <2>1, <2>2
  <2>4. CASE at = "unsafe"
    BY <2>1, <2>2, <2>3, <2>4
  <2>5. CASE at # "unsafe"
    <3>1. Len(report) = 1 /\ at' = "menu" /\ allowed = Limit /\ report[1] >= Limit
      BY <2>1, <2>2, <2>5
    <3>2. Len(report') = 2 /\ report'[2] = Limit
      BY ONLY <2>3, <3>1
    <3>3. report'[1] = report[1]
      BY ONLY <2>3, <3>1
    <3> QED
      BY ONLY <2>3, <3>1, <3>2, <3>3 DEF ReportInv, StressReport
  <2> QED
    BY <2>4, <2>5
<1>5. CASE RunAgain
  BY <1>5 DEF RunAgain, MainAt, stress
<1>6. CASE (\E t \in Threads : Request(t)) \/ (\E w \in Workers : EngineStep(w))
  BY <1>6 DEF Request, EngineStep, stress
<1>7. CASE Exit \/ Kill
  <2>1. report' = <<>> /\ at' = "down"
    BY <1>7 DEF Exit, Kill, End
  <2> QED
    BY ONLY <2>1 DEF ReportInv, StressReport
<1>8. CASE UNCHANGED vars \/ Terminated
  BY <1>8 DEF Terminated, vars, stress
<1> QED
  BY <1>1, <1>2, <1>3, <1>4, <1>5, <1>6, <1>7, <1>8 DEF Next

(* The race of the stress test, and what was printed of it. *)
THEOREM RaceCounted == Spec => [](RaceInv /\ ReportInv)
<1>1. ProgramInv /\ RaceInv /\ ReportInv /\ [Next]_vars
        => (RaceInv /\ ReportInv)'
  BY RaceNext, ReportNext
<1>2. Init => RaceInv /\ ReportInv
  BY RaceInit, ReportInit
<1> QED
  BY <1>1, <1>2, ProgramSafe, PTL DEF Spec

(* StressReport (main.cpp:333): with any number of threads and requests,   *)
(* and in every order of their loads and stores, evaluateUnsafe allows no  *)
(* less than the limit and evaluate exactly that.                          *)
THEOREM StressReported == Spec => []StressReport
<1>1. ReportInv => StressReport
  BY DEF ReportInv
<1> QED
  BY <1>1, RaceCounted, PTL

-----------------------------------------------------------------------------
(* What the strategy of each entry was made with: an entry has a setting   *)
(* when it was made, and none before.                                      *)
SettingInv ==
    /\ setting \in [Entries -> AllSettings \cup {Nothing}]
    /\ \A e \in Entries : setting[e] = Nothing <=> keyOf[e] = NoEntry

LEMMA SettingInit == Init => SettingInv
  BY DEF Init, E!Init, SettingInv

LEMMA SettingNext ==
    ASSUME ProgramInv, SettingInv, [Next]_vars
    PROVE  SettingInv'
<1> USE DEF SettingInv
<1>1. CASE Start \/ Look \/ Simulate \/ LogEvaluation
  BY <1>1 DEF Start, Look, Simulate, LogEvaluation, engine
<1>2. CASE Restore \/ SetPolicy \/ Evaluate \/ StressTest \/ RunAgain
  BY <1>2 DEF Restore, SetPolicy, Evaluate, StressTest, RunAgain, E!Call, E!shared
<1>3. CASE Restored \/ SaveTenant \/ SaveFails \/ Simulated \/ Join
  BY <1>3 DEF Restored, SaveTenant, SaveFails, Simulated, Join, Unwind
<1>4. CASE \E t \in Threads : Request(t)
  BY <1>4 DEF Request, E!Call, E!shared
<1>5. CASE \E w \in Workers : EngineStep(w)
  <2>1. PICK w \in Workers : EngineStep(w)
    BY <1>5
  <2>2. CASE pc[w] # "set"
    <3>1. keyOf' = keyOf
      BY <2>1, <2>2, StepEffect DEF EngineStep, ProgramInv
    <3> QED
      BY <2>1, <3>1 DEF EngineStep
  <2>3. CASE pc[w] = "set"
    <3>1. command.setting \in AllSettings /\ command.setting # Nothing
      BY <2>3, MainSets, CommandLineAssumption
    <3>2. E!SetPolicy(w) /\ call[w].key \in Ids
      BY <2>1, <2>3, StepEffect DEF EngineStep, ProgramInv, EngineInv, CallInv
    <3>3. E!NewEntry \in Entries /\ keyOf[E!NewEntry] = NoEntry
      BY <3>2, NewEntryIs DEF E!SetPolicy
    <3>4. keyOf' = [keyOf EXCEPT ![E!NewEntry] = call[w].key] /\ call[w].key # NoEntry
      BY <3>2, CommandLineAssumption DEF E!SetPolicy, E!Install, E!Key
    <3>5. DOMAIN keyOf = Entries
      BY DEF ProgramInv, EngineInv, E!TypeOK
    <3> QED
      BY <2>1, <3>1, <3>3, <3>4, <3>5 DEF EngineStep
  <2> QED
    BY <2>2, <2>3
<1>6. CASE Exit \/ Kill
  BY <1>6 DEF Exit, Kill, End
<1>7. CASE UNCHANGED vars \/ Terminated
  BY <1>7 DEF Terminated, vars, engine
<1> QED
  BY <1>1, <1>2, <1>3, <1>4, <1>5, <1>6, <1>7 DEF Next

(* A step of main's setPolicy puts the setting at hand in force, for the   *)
(* tenant of the command and nobody else; no other step changes what is in *)
(* force.                                                                  *)
LEMMA StepForces ==
    ASSUME ProgramInv, SettingInv, NEW w \in Workers, EngineStep(w)
    PROVE  /\ pc[w] = "set" =>
                /\ w = Main /\ pc'[Main] = "idle"
                /\ InForce(command.id)' = command.setting
                /\ \A t \in Ids \ {command.id} : InForce(t)' = InForce(t)
           /\ pc[w] # "set" => \A t \in Ids : InForce(t)' = InForce(t)
<1>1. /\ registry \in [Ids -> Entries \cup {NoEntry}] /\ DOMAIN keyOf = Entries
      /\ \A t \in Ids : registry[t] # NoEntry => keyOf[registry[t]] # NoEntry
      /\ command.id \in Ids /\ NoEntry \notin Entries /\ DOMAIN pc = Workers
  BY CommandLineAssumption DEF ProgramInv, EngineInv, E!TypeOK, MadeInv, CommandInv
<1>2. setting' = [e \in Entries |-> IF keyOf'[e] # keyOf[e] THEN command.setting
                                                            ELSE setting[e]]
  BY DEF EngineStep
<1>3. CASE pc[w] # "set"
  <2>1. registry' = registry /\ keyOf' = keyOf
    BY <1>3, StepEffect DEF EngineStep, ProgramInv
  <2> QED
    BY <1>1, <1>2, <1>3, <2>1 DEF InForce, SettingInv
<1>4. CASE pc[w] = "set"
  <2>1. w = Main /\ call[w].key = command.id
    BY <1>4, MainSets
  <2>2. E!SetPolicy(w)
    BY <1>4, StepEffect DEF EngineStep, ProgramInv
  <2> DEFINE new == E!NewEntry
  <2>3. new \in Entries /\ keyOf[new] = NoEntry
    BY <2>2, NewEntryIs DEF E!SetPolicy
  <2>4. /\ keyOf' = [keyOf EXCEPT ![new] = command.id]
        /\ registry' = [registry EXCEPT ![command.id] = new]
        /\ pc' = [pc EXCEPT ![w] = "idle"]
    BY <2>1, <2>2 DEF E!SetPolicy, E!Install, E!Key, E!Goto
  <2> HIDE DEF new
  <2>5. command.id # NoEntry
    BY <1>1, CommandLineAssumption
  <2>6. InForce(command.id)' = command.setting
    <3>1. command.id' = command.id
      BY DEF EngineStep
    <3>2. registry'[command.id] = new /\ setting'[new] = command.setting
      BY <1>1, <1>2, <2>3, <2>4, <2>5
    <3> QED
      BY <1>1, <2>3, <3>1, <3>2 DEF InForce
  <2>7. \A t \in Ids \ {command.id} : InForce(t)' = InForce(t)
    <3> SUFFICES ASSUME NEW t \in Ids \ {command.id} PROVE InForce(t)' = InForce(t)
      OBVIOUS
    <3>1. registry'[t] = registry[t]
      BY <1>1, <2>4
    <3>2. registry[t] # NoEntry => setting'[registry[t]] = setting[registry[t]]
      BY <1>1, <1>2, <2>3, <2>4
    <3> QED
      BY <3>1, <3>2 DEF InForce
  <2> QED
    BY <1>1, <1>4, <2>1, <2>4, <2>6, <2>7
<1> QED
  BY <1>3, <1>4

(* What a tenant was set to is in force, as it was typed or as it came     *)
(* back from the file, or is about to be restored or set.                  *)
AsKept(t) == InForce(t) = asked[t] \/ InForce(t) = ReadBack(asked[t])

ToCome(t) ==
    \/ at = "restore" /\ (t \in left \/ (pc[Main] = "set" /\ command.id = t))
    \/ at = "save" /\ command.id = t

ForceInv ==
    /\ opened => \A t \in Ids \ {Stress} : asked[t] # Nothing => AsKept(t) \/ ToCome(t)
    /\ at = "save" /\ pc[Main] = "idle" => InForce(command.id) = command.setting

LEMMA ForceInit == Init => ForceInv
  BY DEF Init, NoSettings, ForceInv

LEMMA ForceNext ==
    ASSUME ProgramInv, SettingInv, ForceInv, [Next]_vars
    PROVE  ForceInv'
<1>1. command.id \in Ids /\ DOMAIN pc = Workers /\ Main \in Workers
  BY WorkersAre DEF ProgramInv, EngineInv, E!TypeOK, CommandInv
<1>2. CASE Start
  <2>1. /\ UNCHANGED <<registry, setting, asked>> /\ at' = "restore" /\ ~opened
        /\ opened' => left' = {t \in Ids : file[t] # Nothing}
    BY <1>2 DEF Start, engine, ProgramInv, FileInv
  <2>2. \A t \in Ids : asked[t] # Nothing => file[t] # Nothing
    BY <1>2 DEF Start, ProgramInv, FileInv
  <2> QED
    BY <2>1, <2>2 DEF ForceInv, ToCome
<1>3. CASE Restore
  <2>1. /\ UNCHANGED <<registry, setting, asked, opened, at>> /\ at = "restore"
        /\ pc[Main] = "idle" /\ pc'[Main] = "set"
        /\ \A t \in left : t \in left' \/ t = command'.id
    BY <1>1, <1>3 DEF Restore, MainAt, E!Call, E!Goto, E!shared, store
  <2>2. \A t \in Ids : InForce(t)' = InForce(t)
    BY <2>1 DEF InForce
  <2> QED
    BY <2>1, <2>2 DEF ForceInv, ToCome, AsKept
<1>4. CASE Restored
  <2>1. /\ UNCHANGED <<registry, setting, asked, opened>> /\ at = "restore" /\ at' = "menu"
        /\ pc[Main] = "idle" /\ left = {}
    BY <1>4 DEF Restored, MainAt, Unwind, store
  <2>2. \A t \in Ids : InForce(t)' = InForce(t)
    BY <2>1 DEF InForce
  <2> QED
    BY <2>1, <2>2 DEF ForceInv, ToCome, AsKept
<1>5. CASE SetPolicy \/ StressTest
  <2>1. /\ UNCHANGED <<registry, setting, asked, opened>> /\ at = "menu"
        /\ at' = "save" => pc'[Main] = "set"
    BY <1>1, <1>5 DEF SetPolicy, StressTest, Read, MainAt, E!Call, E!Goto, E!shared, store
  <2>2. \A t \in Ids : InForce(t)' = InForce(t)
    BY <2>1 DEF InForce
  <2> QED
    BY <2>1, <2>2 DEF ForceInv, ToCome, AsKept
<1>6. CASE SaveTenant \/ SaveFails
  <2>1. /\ UNCHANGED <<registry, setting, opened>> /\ at = "save" /\ pc[Main] = "idle"
        /\ at' = "menu" /\ asked' = [asked EXCEPT ![command.id] = command.setting]
    BY <1>6 DEF SaveTenant, SaveFails, MainAt, Unwind
  <2>2. \A t \in Ids : InForce(t)' = InForce(t)
    BY <2>1 DEF InForce
  <2>3. DOMAIN asked = Ids
    BY DEF ProgramInv, FileInv
  <2>4. \A t \in Ids : t = command.id => InForce(t) = command.setting
    BY <2>1 DEF ForceInv
  <2>5. \A t \in Ids : IF t = command.id THEN InForce(t)' = asked'[t]
                                         ELSE asked'[t] = asked[t]
    BY <2>1, <2>2, <2>3, <2>4
  <2> QED
    BY <2>1, <2>2, <2>5 DEF ForceInv, ToCome, AsKept
<1>7. CASE \/ Look \/ Simulate \/ Evaluate \/ LogEvaluation \/ Simulated \/ Join \/ RunAgain
           \/ \E t \in Threads : Request(t)
  <2>1. /\ UNCHANGED <<registry, setting, asked, opened>>
        /\ at \notin {"restore", "save"} /\ at' # "save"
    <3>1. CASE Look \/ Simulate \/ LogEvaluation
      BY <3>1 DEF Look, Simulate, LogEvaluation, Read, MainAt, store, engine
    <3>2. CASE Evaluate \/ RunAgain
      BY <3>2 DEF Evaluate, RunAgain, MainAt, E!Call, E!shared, store
    <3>3. CASE Simulated \/ Join
      BY <3>3 DEF Simulated, Join, MainAt, Racing, Unwind, store
    <3>4. CASE \E t \in Threads : Request(t)
      BY <3>4 DEF Request, Racing, E!Call, E!shared, store
    <3> QED
      BY <1>7, <3>1, <3>2, <3>3, <3>4
  <2>2. \A t \in Ids : InForce(t)' = InForce(t)
    BY <2>1 DEF InForce
  <2> QED
    BY <2>1, <2>2 DEF ForceInv, ToCome, AsKept
<1>8. CASE \E w \in Workers : EngineStep(w)
  <2>1. PICK w \in Workers : EngineStep(w)
    BY <1>8
  <2>2. UNCHANGED <<at, command, asked, opened, left, file, kept>>
    BY <2>1 DEF EngineStep, store
  <2>3. CASE pc[w] # "set"
    <3>1. \A t \in Ids : InForce(t)' = InForce(t)
      BY <2>1, <2>3, StepForces
    <3>2. pc[Main] = "set" => pc'[Main] = "set"
      BY <1>1, <2>1, <2>3, StepEffect DEF EngineStep, ProgramInv
    <3>3. at = "save" /\ pc'[Main] = "idle" => pc[Main] = "idle"
      <4>1. at = "save" /\ pc[Main] # "idle" => pc[Main] = "set"
        BY DEF ProgramInv, TurnInv
      <4> QED
        BY <3>2, <4>1
    <3>4. InForce(command.id)' = InForce(command.id)
      BY <1>1, <2>2, <3>1
    <3> QED
      BY <2>2, <3>1, <3>2, <3>3, <3>4 DEF ForceInv, ToCome, AsKept
  <2>4. CASE pc[w] = "set"
    <3>1. /\ pc[Main] = "set" /\ pc'[Main] = "idle"
          /\ InForce(command.id)' = command.setting
          /\ \A t \in Ids \ {command.id} : InForce(t)' = InForce(t)
      BY <2>1, <2>4, StepForces
    <3>2. at \in {"restore", "save", "unsafe", "direct"}
      BY <1>1, <3>1 DEF ProgramInv, EngineInv, CallInv, TurnInv, Places
    <3>3. at = "save" => ForceInv'
      BY <2>2, <3>1 DEF ForceInv, ToCome, AsKept
    <3>4. at = "restore" => ForceInv'
      <4>1. /\ at = "restore" => command.setting = ReadBack(file[command.id])
            /\ at = "restore" /\ asked[command.id] # Nothing
                 => file[command.id] = asked[command.id]
        BY <1>1, <3>1 DEF ProgramInv, CommandInv, FileInv
      <4> QED
        BY <2>2, <3>1, <4>1 DEF ForceInv, ToCome, AsKept
    <3>5. at \in {"unsafe", "direct"} => ForceInv'
      <4>1. at \in {"unsafe", "direct"} => command.id = Stress
        BY DEF ProgramInv, CommandInv, FullBucket
      <4> QED
        BY <2>2, <3>1, <4>1 DEF ForceInv, ToCome, AsKept
    <3> QED
      BY <3>2, <3>3, <3>4, <3>5
  <2> QED
    BY <2>3, <2>4
<1>9. CASE Exit \/ Kill
  <2>1. ~opened' /\ at' = "down"
    BY <1>9 DEF Exit, Kill, End
  <2> QED
    BY <2>1 DEF ForceInv
<1>10. CASE UNCHANGED vars \/ Terminated
  <2>1. UNCHANGED <<registry, setting, asked, opened, at, pc, command, left>>
    BY <1>10 DEF Terminated, vars, engine, store
  <2> QED
    BY <2>1 DEF ForceInv, ToCome, AsKept, InForce
<1> QED
  BY <1>2, <1>3, <1>4, <1>5, <1>6, <1>7, <1>8, <1>9, <1>10 DEF Next

(* What a restart may make of a policy (makeParams and makeStrategy): the  *)
(* one it was, or what its text reads as.                                  *)
RestoredAsRead ==
    at = "menu" =>
        \A t \in Ids \ {Stress} :
            (opened /\ asked[t] # Nothing) =>
                InForce(t) \in {asked[t], ReadBack(asked[t])}

(* Whatever failed, was killed or could not be read, a tenant has at the   *)
(* menu the policy that it was last set to, in this process or in an       *)
(* earlier one that kept it, as it was typed or as its text reads.         *)
THEOREM RestoredFromText == Spec => []RestoredAsRead
<1>1. ProgramInv /\ SettingInv /\ ForceInv /\ [Next]_vars => (SettingInv /\ ForceInv)'
  BY SettingNext, ForceNext
<1>2. Init => SettingInv /\ ForceInv
  BY SettingInit, ForceInit
<1>3. ForceInv => RestoredAsRead
  BY DEF ForceInv, RestoredAsRead, ToCome, AsKept
<1> QED
  BY <1>1, <1>2, <1>3, ProgramSafe, PTL DEF Spec

(* RestoredAsSet (TECHNICAL_ONBOARDING.md:702): for settings whose numbers *)
(* the text has room for, it is exactly the policy it was set to.  For     *)
(* others it is not what is read back (ReadBackPlain).                     *)
THEOREM RestoredExactly ==
    ASSUME \A s \in Settings : Plain(s)
    PROVE  Spec => []RestoredAsSet
<1>1. ProgramInv /\ RestoredAsRead => RestoredAsSet
  <2> SUFFICES ASSUME ProgramInv, RestoredAsRead, at = "menu",
                      NEW t \in Ids \ {Stress}, opened, asked[t] # Nothing
               PROVE  InForce(t) = asked[t]
    BY DEF RestoredAsSet
  <2>1. asked[t] \in Settings
    BY DEF ProgramInv, FileInv
  <2> QED
    BY <2>1, ReadBackPlain DEF RestoredAsRead
<1> QED
  BY <1>1, ProgramSafe, RestoredFromText, PTL

-----------------------------------------------------------------------------
(* The rest of the types. *)
FlagsInv ==
    /\ input \in BOOLEAN /\ available \in BOOLEAN /\ opened \in BOOLEAN
    /\ commands \in 0..MaxCommands /\ faults \in 0..MaxFaults

LEMMA FlagsInit == Init => FlagsInv
<1>1. 0 \in 0..MaxCommands /\ 0 \in 0..MaxFaults
  BY CommandLineAssumption
<1> QED
  BY <1>1 DEF Init, FlagsInv

LEMMA FlagsNext ==
    ASSUME FlagsInv, [Next]_vars
    PROVE  FlagsInv'
<1>1. MaxCommands \in Nat /\ MaxFaults \in Nat
  BY CommandLineAssumption
<1>2. ASSUME NEW good \in BOOLEAN, NEW id \in Ids, Read(good, id)
      PROVE  input' \in BOOLEAN /\ commands' \in 0..MaxCommands /\ faults' = faults
  BY <1>1, <1>2 DEF Read, FlagsInv
<1>3. Fault => faults' \in 0..MaxFaults /\ commands' = commands
  BY <1>1 DEF Fault, FlagsInv
<1>4. CASE Start \/ LogEvaluation
  BY <1>3, <1>4 DEF Start, LogEvaluation, FlagsInv, bounds
<1>5. CASE SaveTenant \/ SaveFails
  BY <1>3, <1>5 DEF SaveTenant, SaveFails, FlagsInv, bounds
<1>6. CASE Look \/ SetPolicy \/ Simulate \/ StressTest
  BY <1>2, <1>6 DEF Look, SetPolicy, Simulate, StressTest, FlagsInv, store
<1>7. CASE Restore \/ Restored \/ Evaluate \/ Simulated \/ Join \/ RunAgain
  BY <1>7 DEF Restore, Restored, Evaluate, Simulated, Join, RunAgain, FlagsInv, store, bounds
<1>8. CASE (\E t \in Threads : Request(t)) \/ (\E w \in Workers : EngineStep(w))
  BY <1>8 DEF Request, EngineStep, FlagsInv, store, bounds
<1>9. CASE Exit \/ Kill
  BY <1>2, <1>3, <1>9 DEF Exit, Kill, End, FlagsInv
<1>10. CASE UNCHANGED vars \/ Terminated
  BY <1>10 DEF Terminated, vars, FlagsInv, store, bounds
<1> QED
  BY <1>4, <1>5, <1>6, <1>7, <1>8, <1>9, <1>10 DEF Next

(* The types of the command line program's variables (CommandLine!TypeOK), *)
(* the engine's among them: what has a setting was made, what is kept or   *)
(* still to be restored is in the file, and no more are counted than ask.  *)
THEOREM TypeCorrect == Spec => []TypeOK
<1>1. ProgramInv /\ SettingInv /\ FlagsInv /\ [Next]_vars => (SettingInv /\ FlagsInv)'
  BY SettingNext, FlagsNext
<1>2. Init => SettingInv /\ FlagsInv
  BY SettingInit, FlagsInit
<1>3. ProgramInv /\ SettingInv /\ FlagsInv /\ RaceInv /\ ReportInv => TypeOK
  <2> SUFFICES ASSUME ProgramInv, SettingInv, FlagsInv, RaceInv, ReportInv PROVE TypeOK
    OBVIOUS
  <2>1. E!TypeOK /\ at \in Places
    BY DEF ProgramInv, EngineInv, TurnInv
  <2>2. command.id \in Ids /\ command.count \in 0..MaxBurst
    BY DEF ProgramInv, CommandInv
  <2>3. /\ DOMAIN file = Ids /\ DOMAIN asked = Ids
        /\ kept \subseteq {t \in Ids : file[t] # Nothing}
        /\ left \subseteq {t \in Ids : file[t] # Nothing}
    BY DEF ProgramInv, FileInv
  <2>4. allowed \in 0..(ReqsEach * Cardinality(Threads))
    BY AnsweredIs, AskedIs DEF RaceInv, CountInv
  <2>5. report \in Seq(Nat) /\ Len(report) <= 2
    BY DEF ReportInv
  <2>6. \A e \in Entries : setting[e] = Nothing <=> keyOf[e] = NoEntry
    BY DEF SettingInv
  <2> QED
    BY <2>1, <2>2, <2>3, <2>4, <2>5, <2>6 DEF TypeOK, FlagsInv
<1> QED
  BY <1>1, <1>2, <1>3, ProgramSafe, RaceCounted, PTL DEF Spec
=============================================================================
