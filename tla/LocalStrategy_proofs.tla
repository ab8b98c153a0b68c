------------------------- MODULE LocalStrategy_proofs -------------------------
(***************************************************************************)
(* Proofs about the five local algorithms, for every capacity, rate, cost, *)
(* limit and window and a clock of any length: each one's own invariant is *)
(* kept by its own steps, and so by the strategy that was made of it.      *)
(***************************************************************************)
EXTENDS LocalStrategy, FiniteSetTheorems, SequenceTheorems, TLAPS
-----------------------------------------------------------------------------
(* A refill over two adjacent periods is the refill over their union. *)
LEMMA RefillAdds ==
    ASSUME NEW r \in Nat, NEW a \in Int, NEW b \in Int, NEW c \in Int
    PROVE  /\ r * (c - a) = r * (b - a) + r * (c - b)
           /\ r * (c - a) \in Int
           /\ r * (a - a) = 0
  OBVIOUS

(* The clock never runs backwards, so a refill is never negative. *)
LEMMA RefillNonNegative ==
    ASSUME NEW r \in Nat, NEW a \in Int, NEW b \in Int, a <= b
    PROVE  r * (b - a) \in Nat
<1>1. b - a \in Nat
  OBVIOUS
<1>2. \A d \in Nat : r * d \in Nat
  OBVIOUS
<1> QED
  BY <1>1, <1>2

-----------------------------------------------------------------------------
(* Counting admissions: one is its tick and its number at that tick.       *)
Instants      == 0..MaxTime
History(f)    == UNION {{i} \X (1..f[i]) : i \in Instants}
Part(f, a, b) == {x \in History(f) : a < x[1] /\ x[1] <= b}
Count(f, a, b) == Cardinality(Part(f, a, b))

LEMMA HistoryIs ==
    ASSUME NEW f \in [Instants -> Nat]
    PROVE  /\ IsFiniteSet(History(f))
           /\ \A x : x \in History(f) <=>
                \E i \in Instants : \E n \in 1..f[i] : x = <<i, n>>
<1> DEFINE At(i) == {i} \X (1..f[i])
           ticks == {At(i) : i \in Instants}
<1>1. \A i \in Instants : f[i] \in Nat
  OBVIOUS
<1>2. ASSUME NEW i \in Instants
      PROVE  IsFiniteSet(At(i))
  <2>1. IsFiniteSet({i})
    BY FS_Singleton
  <2>2. f[i] \in Int /\ 1 \in Int
    BY <1>1
  <2>3. IsFiniteSet(1..f[i])
    BY <2>2, FS_Interval
  <2> QED
    BY <2>1, <2>3, FS_Product
<1>3. IsFiniteSet(ticks)
  <2>1. IsFiniteSet(Instants)
    BY ClockAssumption, FS_Interval DEF Instants
  <2> DEFINE at == [i \in Instants |-> At(i)]
  <2>2. at \in Surjection(Instants, ticks)
    BY Zenon DEF Surjection
  <2> HIDE DEF at, ticks
  <2> QED
    BY <2>1, <2>2, FS_Surjection
<1>4. IsFiniteSet(UNION ticks)
  BY <1>2, <1>3, FS_UNION
<1> QED
  BY <1>4 DEF History

LEMMA CountType ==
    ASSUME NEW f \in [Instants -> Nat], NEW a, NEW b
    PROVE  IsFiniteSet(Part(f, a, b)) /\ Count(f, a, b) \in Nat
<1>1. IsFiniteSet(Part(f, a, b))
  BY HistoryIs, FS_Subset DEF Part
<1> QED
  BY <1>1, FS_CardinalityType DEF Count

LEMMA CountAdds ==
    ASSUME NEW f \in [Instants -> Nat], NEW a \in Int, NEW b \in Int, NEW c \in Int,
           a <= b, b <= c
    PROVE  Count(f, a, c) = Count(f, a, b) + Count(f, b, c)
<1>1. IsFiniteSet(Part(f, a, b)) /\ IsFiniteSet(Part(f, b, c))
  BY CountType
<1>2. \A x \in History(f) : x[1] \in Int
  BY HistoryIs DEF Instants
<1>3. Part(f, a, c) = Part(f, a, b) \cup Part(f, b, c)
  BY <1>2 DEF Part
<1>4. Part(f, a, b) \cap Part(f, b, c) = {}
  BY <1>2 DEF Part
<1>5. Cardinality(Part(f, a, b) \cup Part(f, b, c))
        = Count(f, a, b) + Count(f, b, c) - Cardinality({})
  BY <1>1, <1>4, FS_Union DEF Count
<1> QED
  BY <1>3, <1>5, CountType, FS_EmptySet DEF Count

(* g is the history f with one more admission at t. *)
OneMore(f, g, t) ==
    /\ g \in [Instants -> Nat]
    /\ \A i \in Instants : g[i] = IF i = t THEN f[t] + 1 ELSE f[i]

LEMMA AdmitsOne ==
    ASSUME NEW f \in [Instants -> Nat], NEW t \in Instants
    PROVE  OneMore(f, [f EXCEPT ![t] = @ + 1], t)
  BY DEF OneMore

LEMMA CountAdmit ==
    ASSUME NEW f \in [Instants -> Nat], NEW t \in Instants, NEW a \in Int,
           NEW b \in Int,
           NEW g, OneMore(f, g, t)
    PROVE  /\ g \in [Instants -> Nat]
           /\ a < t /\ t <= b => Count(g, a, b) = Count(f, a, b) + 1
           /\ ~(a < t /\ t <= b) => Count(g, a, b) = Count(f, a, b)
<1> DEFINE new == <<t, f[t] + 1>>
<1>1. g \in [Instants -> Nat] /\ f[t] \in Nat
  BY DEF OneMore
<1>2. \A i \in Instants : g[i] = IF i = t THEN f[t] + 1 ELSE f[i]
  BY DEF OneMore
<1>3. 1..f[t] + 1 = (1..f[t]) \cup {f[t] + 1}
  BY <1>1
<1>4. \A x : x \in History(g) <=> x \in History(f) \/ x = new
  BY <1>1, <1>2, <1>3, HistoryIs
<1>5. new \notin History(f)
  BY <1>1, HistoryIs
<1>6. a < t /\ t <= b => /\ Part(g, a, b) = Part(f, a, b) \cup {new}
                         /\ new \notin Part(f, a, b)
  BY <1>4, <1>5 DEF Part
<1>7. ~(a < t /\ t <= b) => Part(g, a, b) = Part(f, a, b)
  BY <1>4 DEF Part
<1>8. a < t /\ t <= b => Count(g, a, b) = Count(f, a, b) + 1
  BY <1>6, CountType, FS_AddElement DEF Count
<1>9. ~(a < t /\ t <= b) => Count(g, a, b) = Count(f, a, b)
  BY <1>7 DEF Count
<1> QED
  BY <1>1, <1>8, <1>9

NoAdmissions == [t \in Instants |-> 0]

LEMMA CountNone ==
    ASSUME NEW a, NEW b
    PROVE  NoAdmissions \in [Instants -> Nat] /\ Count(NoAdmissions, a, b) = 0
<1>1. NoAdmissions \in [Instants -> Nat] /\ \A i \in Instants : NoAdmissions[i] = 0
  BY DEF NoAdmissions
<1>2. History(NoAdmissions) = {}
  BY <1>1, HistoryIs
<1> QED
  BY <1>1, <1>2, FS_EmptySet DEF Count, Part

LEMMA CountEmpty ==
    ASSUME NEW f \in [Instants -> Nat], NEW a \in Int, NEW b \in Int, b <= a
    PROVE  Count(f, a, b) = 0
<1>1. \A x \in History(f) : x[1] \in Int
  BY HistoryIs DEF Instants
<1>2. Part(f, a, b) = {}
  BY <1>1 DEF Part
<1> QED
  BY <1>2, FS_EmptySet DEF Count

(* A part of a period holds no more than the period. *)
LEMMA CountPart ==
    ASSUME NEW f \in [Instants -> Nat], NEW a \in Int, NEW b \in Int,
           NEW c \in Int, NEW d \in Int,
           a <= b, b <= c, c <= d
    PROVE  Count(f, b, c) <= Count(f, a, d)
<1>1. /\ Count(f, a, d) = Count(f, a, b) + Count(f, b, d)
      /\ Count(f, b, d) = Count(f, b, c) + Count(f, c, d)
  BY CountAdds
<1> QED
  BY <1>1, CountType

-----------------------------------------------------------------------------
(* Whole windows in a period. *)
LEMMA Windows ==
    ASSUME NEW x \in Nat
    PROVE  /\ x \div Window \in Nat
           /\ (x \div Window) * Window <= x
           /\ x < (x \div Window) * Window + Window
  BY WindowAssumption

LEMMA Times ==
    ASSUME NEW a \in Int, NEW b \in Int, NEW k \in Nat, a <= b
    PROVE  a * k \in Int /\ b * k \in Int /\ a * k <= b * k
<1>1. b - a \in Nat
  OBVIOUS
<1>2. \A x \in Nat : x * k \in Nat
  OBVIOUS
<1>3. (b - a) * k \in Nat
  BY <1>1, <1>2
<1>4. (b - a) * k = b * k - a * k /\ a * k \in Int /\ b * k \in Int
  OBVIOUS
<1> QED
  BY <1>3, <1>4

(* A longer period holds no fewer windows. *)
LEMMA WindowsGrow ==
    ASSUME NEW x \in Nat, NEW y \in Nat, x <= y
    PROVE  x \div Window <= y \div Window
<1> DEFINE p == x \div Window
           q == y \div Window
<1>1. p \in Nat /\ q \in Nat /\ p * Window <= x /\ y < q * Window + Window
  BY Windows
<1>2. q * Window + Window = (q + 1) * Window
  BY <1>1, WindowAssumption
<1> HIDE DEF p, q
<1>3. SUFFICES ASSUME p > q PROVE FALSE
  BY <1>1 DEF p, q
<1>4. (q + 1) * Window <= p * Window
  BY <1>1, <1>3, Times, WindowAssumption
<1>5. (q + 1) * Window \in Int /\ p * Window \in Int
  BY <1>1, WindowAssumption
<1> QED
  BY <1>1, <1>2, <1>4, <1>5

(* A period of at least one window holds one, and of two only if it is     *)
(* twice as long.                                                          *)
LEMMA WindowsPassed ==
    ASSUME NEW x \in Nat, x >= Window
    PROVE  /\ x \div Window >= 1
           /\ (x \div Window) * Window >= Window
           /\ x \div Window # 1 => (x \div Window) * Window >= 2 * Window
<1> DEFINE q == x \div Window
<1>1. q \in Nat /\ q * Window <= x /\ x < q * Window + Window
  BY Windows
<1> HIDE DEF q
<1>2. q # 0
  BY <1>1, WindowAssumption
<1>3. 1 * Window = Window /\ Window \in Nat
  BY WindowAssumption
<1>4. q * Window >= 1 * Window
  BY <1>1, <1>2, <1>3, Times
<1>5. q # 1 => q * Window >= 2 * Window
  BY <1>1, <1>2, <1>3, Times
<1> QED
  BY <1>1, <1>2, <1>3, <1>4, <1>5 DEF q
(* The arithmetic of the estimate: p and c calls, d ticks into a window of *)
(* W, weighted against a limit L.                                          *)
LEMMA Weights ==
    ASSUME NEW L \in Nat, NEW W \in Nat, NEW p \in 0..L, NEW c \in Nat,
           NEW d \in 0..W
    PROVE  /\ p * (W - d) + c * W \in Int
           /\ (p + c) * W <= p * (W - d) + c * W + L * d
           /\ p * (W - d) + c * W <= (p + c) * W
           /\ (p + c) * W \in Int /\ L * d \in Int
<1>1. p \in Nat /\ d \in Nat /\ W - d \in Nat /\ p <= L
  OBVIOUS
<1>2. p * (W - d) = p * W - p * d /\ (p + c) * W = p * W + c * W
  BY <1>1
<1>3. p * W \in Int /\ c * W \in Int
  BY <1>1
<1>4. p * d <= L * d /\ p * d \in Int /\ L * d \in Int
  BY <1>1, Times
<1>5. 0 * d <= p * d /\ 0 * d = 0
  BY <1>1, Times
<1> QED
  BY <1>2, <1>3, <1>4, <1>5

-----------------------------------------------------------------------------
(* The token bucket.                                                       *)

LEMMA TokenInit == Token!Init => Token!BucketInv
  BY BucketAssumption, ClockAssumption, RefillAdds
  DEF Token!Init, Token!BucketInv, Token!TypeOK, Token!SpendingAccounted,
      Token!RefillAccounted, Token!AtMost

(* What a refill leaves in the bucket. *)
LEMMA RefilledBounds ==
    ASSUME Token!BucketInv
    PROVE  /\ Token!Refilled \in 0..Capacity
           /\ Token!Refilled <= tokens + Rate * (now - lastRefill)
           /\ Token!Refilled >= Token!AtMost(Capacity, Rate * (now - lastAdmit))
<1> USE BucketAssumption, ClockAssumption DEF Token!BucketInv, Token!TypeOK
<1>1. Rate * (now - lastRefill) \in Nat
  BY RefillNonNegative
<1>2. Rate * (now - lastAdmit)
        = Rate * (lastRefill - lastAdmit) + Rate * (now - lastRefill)
  BY RefillAdds
<1>3. Rate * (lastRefill - lastAdmit) \in Nat
  BY RefillNonNegative DEF Token!RefillAccounted
<1> QED
  BY <1>1, <1>2, <1>3 DEF Token!Refilled, Token!AtMost, Token!RefillAccounted

LEMMA TokenStep == Token!BucketInv /\ [Token!Next]_(Token!vars) => Token!BucketInv'
<1> SUFFICES ASSUME Token!BucketInv, [Token!Next]_(Token!vars)
             PROVE  Token!BucketInv'
  OBVIOUS
<1> USE BucketAssumption, ClockAssumption DEF Token!BucketInv
<1>1. CASE Token!Admit
  <2>1. Token!TypeOK'
    BY <1>1, RefilledBounds DEF Token!Admit, Token!TypeOK
  <2>2. Token!SpendingAccounted'
    <3>1. Cost * (spent + 1) = Cost * spent + Cost
      BY DEF Token!TypeOK
    <3>2. Rate * (now - markTime) \in Nat
      BY RefillNonNegative DEF Token!TypeOK
    <3>3. CASE spent = 0
      <4>1. Cost * (spent + 1) = Cost
        BY <3>3
      <4> QED
        BY <1>1, <3>2, <4>1, RefilledBounds
        DEF Token!Admit, Token!TypeOK, Token!SpendingAccounted
    <3>4. CASE spent > 0
      <4>1. Rate * (now - markTime)
              = Rate * (lastRefill - markTime) + Rate * (now - lastRefill)
        BY RefillAdds DEF Token!TypeOK
      <4>2. /\ Rate * (lastRefill - markTime) \in Int
            /\ Rate * (now - lastRefill) \in Int
            /\ Cost * spent \in Int
        BY DEF Token!TypeOK
      <4> QED
        BY <1>1, <3>1, <3>2, <3>4, <4>1, <4>2, RefilledBounds
        DEF Token!Admit, Token!TypeOK, Token!SpendingAccounted
    <3> QED
      BY <3>3, <3>4 DEF Token!TypeOK
  <2>3. Token!RefillAccounted'
    BY <1>1, <2>1, RefillAdds
    DEF Token!Admit, Token!TypeOK, Token!RefillAccounted, Token!AtMost
  <2> QED
    BY <2>1, <2>2, <2>3
<1>2. CASE Token!Deny
  <2>1. Token!TypeOK'
    BY <1>2, RefilledBounds DEF Token!Deny, Token!TypeOK, Token!observer
  <2>2. Token!SpendingAccounted'
    <3>1. Rate * (now - markTime)
            = Rate * (lastRefill - markTime) + Rate * (now - lastRefill)
      BY RefillAdds DEF Token!TypeOK
    <3>2. /\ Rate * (lastRefill - markTime) \in Int
          /\ Rate * (now - lastRefill) \in Int
          /\ Cost * spent \in Int
      BY DEF Token!TypeOK
    <3> QED
      BY <1>2, <3>1, <3>2, RefilledBounds
      DEF Token!Deny, Token!TypeOK, Token!SpendingAccounted, Token!observer
  <2>3. Token!RefillAccounted'
    BY <1>2, RefilledBounds
    DEF Token!Deny, Token!TypeOK, Token!RefillAccounted, Token!observer, Token!AtMost
  <2> QED
    BY <2>1, <2>2, <2>3
<1>3. CASE Token!Reset
  BY <1>3, RefillAdds
  DEF Token!Reset, Token!TypeOK, Token!SpendingAccounted, Token!RefillAccounted,
      Token!AtMost
<1>4. CASE Token!Tick
  BY <1>4
  DEF Token!Tick, Token!TypeOK, Token!SpendingAccounted, Token!RefillAccounted,
      Token!AtMost, Token!bucket, Token!observer
<1>5. CASE Token!Observe
  BY <1>5
  DEF Token!Observe, Token!TypeOK, Token!SpendingAccounted, Token!RefillAccounted,
      Token!AtMost, Token!bucket
<1>6. CASE UNCHANGED Token!vars
  BY <1>6
  DEF Token!vars, Token!bucket, Token!observer, Token!TypeOK, Token!SpendingAccounted,
      Token!RefillAccounted, Token!AtMost
<1> QED
  BY <1>1, <1>2, <1>3, <1>4, <1>5, <1>6 DEF Token!Next, Token!AllowRequest

(* In every interval allowRequest() admits at most what capacity_ and the  *)
(* refill during the interval pay for.                                     *)
LEMMA TokenBound == Token!BucketInv => Token!AdmissionBound
<1> SUFFICES ASSUME Token!BucketInv
             PROVE  Token!AdmissionBound
  OBVIOUS
<1> USE BucketAssumption, ClockAssumption DEF Token!BucketInv, Token!TypeOK
<1>1. Rate * (now - markTime) \in Nat
  BY RefillNonNegative
<1>2. CASE spent = 0
  BY <1>1, <1>2 DEF Token!AdmissionBound
<1>3. CASE spent > 0
  <2>1. Rate * (now - markTime)
          = Rate * (lastRefill - markTime) + Rate * (now - lastRefill)
    BY RefillAdds
  <2>2. Rate * (now - lastRefill) \in Nat
    BY RefillNonNegative
  <2>3. /\ Rate * (lastRefill - markTime) \in Int
        /\ Cost * spent \in Int
    OBVIOUS
  <2> QED
    BY <1>3, <2>1, <2>2, <2>3 DEF Token!AdmissionBound, Token!SpendingAccounted
<1> QED
  BY <1>2, <1>3

(* Denied calls lose no refill, however often the bucket is polled. *)
LEMMA TokenRefill == Token!BucketInv => Token!PollingKeepsRefill
  BY RefilledBounds DEF Token!PollingKeepsRefill
-----------------------------------------------------------------------------
LEMMA LeakyInit == Leaky!Init => Leaky!TypeOK
  BY BucketAssumption, ClockAssumption DEF Leaky!Init, Leaky!TypeOK

(* A leak never raises the level and never drains below empty. *)
LEMMA LeakedRange == Leaky!TypeOK => Leaky!Leaked \in 0..Capacity
<1> SUFFICES ASSUME Leaky!TypeOK
             PROVE  Leaky!Leaked \in 0..Capacity
  OBVIOUS
<1>1. now - lastLeak \in Nat
  BY DEF Leaky!TypeOK
<1>2. \A d \in Nat : Rate * d \in Nat
  BY BucketAssumption, ClockAssumption
<1>3. Rate * (now - lastLeak) \in Nat
  BY <1>1, <1>2
<1> QED
  BY <1>3, BucketAssumption, ClockAssumption
  DEF Leaky!TypeOK, Leaky!Leaked, Leaky!AtLeastZero

LEMMA LeakyStep == Leaky!TypeOK /\ [Leaky!Next]_(Leaky!vars) => Leaky!TypeOK'
<1> SUFFICES ASSUME Leaky!TypeOK, [Leaky!Next]_(Leaky!vars)
             PROVE  Leaky!TypeOK'
  OBVIOUS
<1> USE BucketAssumption, ClockAssumption DEF Leaky!TypeOK
<1>1. CASE Leaky!Admit
  BY <1>1, LeakedRange DEF Leaky!Admit
<1>2. CASE Leaky!Deny
  BY <1>2, LeakedRange DEF Leaky!Deny, Leaky!observer
<1>3. CASE Leaky!Reset
  BY <1>3 DEF Leaky!Reset
<1>4. CASE Leaky!Tick
  BY <1>4 DEF Leaky!Tick, Leaky!bucket, Leaky!observer
<1>5. CASE Leaky!Observe
  BY <1>5 DEF Leaky!Observe, Leaky!bucket
<1>6. CASE UNCHANGED Leaky!vars
  BY <1>6 DEF Leaky!vars, Leaky!bucket, Leaky!observer
<1> QED
  BY <1>1, <1>2, <1>3, <1>4, <1>5, <1>6 DEF Leaky!Next, Leaky!AllowRequest

(* Draining the level is refilling the room. *)
LEMMA LeakIsRefill == Leaky!TypeOK => Leaky!TB!Refilled = Capacity - Leaky!Leaked
<1> SUFFICES ASSUME Leaky!TypeOK
             PROVE  Leaky!TB!Refilled = Capacity - Leaky!Leaked
  OBVIOUS
<1>1. Rate * (now - lastLeak) \in Int
  BY BucketAssumption, ClockAssumption DEF Leaky!TypeOK
<1> QED
  BY <1>1, BucketAssumption, ClockAssumption
  DEF Leaky!TypeOK, Leaky!Leaked, Leaky!AtLeastZero, Leaky!TB!Refilled, Leaky!TB!AtMost

LEMMA LeakyInitImplements == Leaky!Init => Leaky!TB!Init
  BY BucketAssumption, ClockAssumption DEF Leaky!Init, Leaky!TB!Init

LEMMA LeakyStepImplements ==
    Leaky!TypeOK /\ [Leaky!Next]_(Leaky!vars) => [Leaky!TB!Next]_(Leaky!TB!vars)
<1> SUFFICES ASSUME Leaky!TypeOK, [Leaky!Next]_(Leaky!vars)
             PROVE  [Leaky!TB!Next]_(Leaky!TB!vars)
  OBVIOUS
<1>0. Leaky!Leaked \in Int /\ Leaky!TB!Refilled = Capacity - Leaky!Leaked
  BY LeakedRange, LeakIsRefill
<1> USE BucketAssumption, ClockAssumption DEF Leaky!TypeOK
<1>1. CASE Leaky!Admit
  <2>1. Leaky!TB!Admit
    BY <1>0, <1>1 DEF Leaky!Admit, Leaky!TB!Admit
  <2> QED
    BY <2>1 DEF Leaky!TB!Next, Leaky!TB!AllowRequest
<1>2. CASE Leaky!Deny
  <2>1. Leaky!TB!Deny
    BY <1>0, <1>2 DEF Leaky!Deny, Leaky!observer, Leaky!TB!Deny, Leaky!TB!observer
  <2> QED
    BY <2>1 DEF Leaky!TB!Next, Leaky!TB!AllowRequest
<1>3. CASE Leaky!Reset
  <2>1. Leaky!TB!Reset
    BY <1>3 DEF Leaky!Reset, Leaky!TB!Reset
  <2> QED
    BY <2>1 DEF Leaky!TB!Next
<1>4. CASE Leaky!Tick
  <2>1. Leaky!TB!Tick
    BY <1>4
    DEF Leaky!Tick, Leaky!bucket, Leaky!observer, Leaky!TB!Tick, Leaky!TB!bucket,
        Leaky!TB!observer
  <2> QED
    BY <2>1 DEF Leaky!TB!Next
<1>5. CASE Leaky!Observe
  <2>1. Leaky!TB!Observe
    BY <1>5 DEF Leaky!Observe, Leaky!bucket, Leaky!TB!Observe, Leaky!TB!bucket
  <2> QED
    BY <2>1 DEF Leaky!TB!Next
<1>6. CASE UNCHANGED Leaky!vars
  BY <1>6
  DEF Leaky!vars, Leaky!bucket, Leaky!observer, Leaky!TB!vars, Leaky!TB!bucket,
      Leaky!TB!observer
<1> QED
  BY <1>1, <1>2, <1>3, <1>4, <1>5, <1>6 DEF Leaky!Next, Leaky!AllowRequest


-----------------------------------------------------------------------------
LEMMA FixedInit == Fixed!Init => Fixed!FixedWindowInv
  BY WindowAssumption, ClockAssumption
  DEF Fixed!Init, Fixed!FixedWindowInv, Fixed!TypeOK, Fixed!CounterAccounts

LEMMA FixedStep ==
    Fixed!FixedWindowInv /\ [Fixed!Next]_(Fixed!vars) => Fixed!FixedWindowInv'
<1> SUFFICES ASSUME Fixed!FixedWindowInv, [Fixed!Next]_(Fixed!vars)
             PROVE  Fixed!FixedWindowInv'
  OBVIOUS
<1> USE WindowAssumption, ClockAssumption DEF Fixed!FixedWindowInv, Fixed!TypeOK,
    Fixed!CounterAccounts
<1>1. CASE Fixed!Admit
  <2>1. CASE Fixed!Expired
    BY <1>1, <2>1 DEF Fixed!Admit, Fixed!CurrentCount, Fixed!CurrentStart, Fixed!Expired
  <2>2. CASE ~Fixed!Expired
    BY <1>1, <2>2 DEF Fixed!Admit, Fixed!CurrentCount, Fixed!CurrentStart, Fixed!Expired
  <2> QED
    BY <2>1, <2>2
<1>2. CASE Fixed!Deny
  <2>1. CASE Fixed!Expired
    BY <1>2, <2>1
    DEF Fixed!Deny, Fixed!CurrentCount, Fixed!CurrentStart, Fixed!Expired,
        Fixed!observer
  <2>2. CASE ~Fixed!Expired
    BY <1>2, <2>2
    DEF Fixed!Deny, Fixed!CurrentCount, Fixed!CurrentStart, Fixed!Expired,
        Fixed!observer
  <2> QED
    BY <2>1, <2>2
<1>3. CASE Fixed!Reset
  BY <1>3 DEF Fixed!Reset
<1>4. CASE Fixed!Tick
  BY <1>4 DEF Fixed!Tick, Fixed!window, Fixed!observer
<1>5. CASE Fixed!Observe
  BY <1>5 DEF Fixed!Observe, Fixed!window
<1>6. CASE UNCHANGED Fixed!vars
  BY <1>6 DEF Fixed!vars, Fixed!window, Fixed!observer
<1> QED
  BY <1>1, <1>2, <1>3, <1>4, <1>5, <1>6 DEF Fixed!Next, Fixed!AllowRequest

(* At most 2 x limit in any interval shorter than the window: the worst    *)
(* case FixedWindowCounter.h describes is the worst there is.              *)
LEMMA FixedBurst == Fixed!FixedWindowInv => Fixed!BoundaryBurstBound
  BY WindowAssumption, ClockAssumption
  DEF Fixed!FixedWindowInv, Fixed!TypeOK, Fixed!CounterAccounts,
      Fixed!BoundaryBurstBound

(* A window never admits more than its limit. *)
LEMMA FixedWindow == Fixed!FixedWindowInv => Fixed!WindowBound
  BY WindowAssumption, ClockAssumption
  DEF Fixed!FixedWindowInv, Fixed!TypeOK, Fixed!CounterAccounts, Fixed!WindowBound

(* Denied calls do not keep a window closed. *)
LEMMA FixedReopens == Fixed!FixedWindowInv => Fixed!QuietWindowReopens
  BY WindowAssumption, ClockAssumption
  DEF Fixed!FixedWindowInv, Fixed!TypeOK, Fixed!CounterAccounts,
      Fixed!QuietWindowReopens, Fixed!CurrentCount, Fixed!Expired

-----------------------------------------------------------------------------
LEMMA SameCardinality ==
    ASSUME NEW S
    PROVE  /\ Log!Ideal!Cardinality(S) = Cardinality(S)
           /\ Sliding!Ideal!Cardinality(S) = Cardinality(S)
           /\ Log!Cardinality(S) = Cardinality(S)
  BY DEF Log!Ideal!Cardinality, Sliding!Ideal!Cardinality, Log!Cardinality, Cardinality

LEMMA LoadIs ==
    ASSUME NEW t, NEW d
    PROVE  /\ Log!Ideal!Load(t, d) = Count(admitted, t - d, t)
           /\ Sliding!Ideal!Load(t, d) = Count(admitted, t - d, t)
  BY SameCardinality
  DEF Log!Ideal!Load, Log!Ideal!Admissions, Log!Ideal!Instants, Sliding!Ideal!Load,
      Sliding!Ideal!Admissions, Sliding!Ideal!Instants, Count, Part, History, Instants

(* SlidingWindowCounter.  The quotient of windowsPassed fits an int: the   *)
(* clock does not run for INT_MAX windows.                                 *)
InRange == MaxTime \div Window <= IntMax

(* What a window of the grid, s, and its counts remember of the history f. *)
Grid(f, p, c, s) ==
    /\ Count(f, s - 1, s + Window - 1) = c
    /\ Count(f, s - Window - 1, s - 1) = p
    /\ \A b \in Int : Count(f, s + Window - 1, b) = 0

(* Nothing was admitted in the future, and never too much. *)
Past(f, t) ==
    /\ \A b \in Int : Count(f, t, b) = 0
    /\ \A u \in 0..t : Count(f, u - Window, u) <= 2 * Limit

CountsKept == windowStart >= 0 /\ Grid(admitted, prev, curr,
    windowStart) /\ Past(admitted, now)

SlidingInv == Sliding!TypeOK /\ CountsKept

(* The type of what maybeAdvanceWindow finds, whatever the conversion does.*)
Found(w) ==
    /\ w.prev \in 0..Limit
    /\ w.curr \in 0..Limit
    /\ w.start \in Int /\ w.start <= now
    /\ w.prev = 0 \/ now < w.start + Window

LEMMA AdvancedType ==
    ASSUME Sliding!TypeOK, NEW w \in Sliding!Advanced
    PROVE  Found(w)
<1> USE WindowAssumption, ClockAssumption, IntMaxAssumption DEF Sliding!TypeOK
<1>1. CASE now - windowStart < Window
  <2>1. w = [prev |-> prev, curr |-> curr, start |-> windowStart]
    BY <1>1 DEF Sliding!Advanced
  <2>2. w.prev = prev /\ w.curr = curr /\ w.start = windowStart
    BY <2>1
  <2> QED
    BY <1>1, <2>2 DEF Found
<1>2. CASE now - windowStart >= Window
  <2> DEFINE q == (now - windowStart) \div Window
  <2>1. PICK n \in Sliding!CastToInt(q) :
            w = [prev |-> Sliding!Carried(n), curr |-> 0, start |-> windowStart + n * Window]
    BY <1>2 DEF Sliding!Advanced
  <2>2. /\ w.prev = Sliding!Carried(n)
        /\ w.curr = 0
        /\ w.start = windowStart + n * Window
    BY <2>1
  <2>3. now - windowStart \in Nat
    BY <1>2
  <2>4. /\ q \in Nat /\ q >= 1
        /\ q * Window <= now - windowStart
        /\ now - windowStart < q * Window + Window
    BY <1>2, <2>3, Windows, WindowsPassed
  <2> HIDE DEF q
  <2>5. n \in Int /\ n <= q /\ (n = 1 => q = 1)
    BY <2>4 DEF Sliding!CastToInt
  <2>6. n * Window <= q * Window /\ n * Window \in Int /\ q * Window \in Int
    BY <2>4, <2>5, Times
  <2>7. w.start \in Int /\ w.start <= now
    BY <2>2, <2>4, <2>6
  <2>8. CASE n = 1
    <3>1. q * Window = Window /\ n * Window = Window
      BY <2>5, <2>8
    <3>2. w.prev = curr
      BY <2>2, <2>8 DEF Sliding!Carried
    <3> QED
      BY <2>2, <2>4, <2>7, <3>1, <3>2 DEF Found
  <2>9. CASE n # 1
    BY <2>2, <2>7, <2>9 DEF Found, Sliding!Carried
  <2> QED
    BY <2>8, <2>9
<1> QED
  BY <1>1, <1>2

(* The estimate of what is found. *)
LEMMA EstimateType ==
    ASSUME Sliding!TypeOK, NEW w, Found(w)
    PROVE  /\ Sliding!Estimate(w) \in Int
           /\ Sliding!Estimate(w) < Limit * Window => w.curr + 1 <= Limit
<1> USE WindowAssumption, ClockAssumption DEF Found, Sliding!TypeOK
<1> DEFINE room == Window - (now - w.start)
<1>1. room \in Int /\ (w.prev = 0 \/ room \in Nat)
  OBVIOUS
<1>2. w.prev \in Nat /\ w.curr \in Nat
  OBVIOUS
<1> HIDE DEF room
<1>3. w.prev * room \in Nat
  <2>1. \A k \in Nat : w.prev * k \in Nat
    BY <1>2
  <2>2. w.prev = 0 => w.prev * room = 0
    BY <1>1
  <2> QED
    BY <1>1, <2>1, <2>2
<1>4. Sliding!Estimate(w) = w.prev * room + w.curr * Window
  BY DEF Sliding!Estimate, room
<1>5. w.curr * Window \in Int /\ (w.curr >= Limit => w.curr * Window >= Limit * Window)
  BY <1>2, Times
<1>6. Limit * Window \in Int
  OBVIOUS
<1> QED
  BY <1>2, <1>3, <1>4, <1>5, <1>6

LEMMA SlidingType ==
    Sliding!TypeOK /\ [Sliding!Next]_(Sliding!vars) => Sliding!TypeOK'
<1> SUFFICES ASSUME Sliding!TypeOK, [Sliding!Next]_(Sliding!vars)
             PROVE  Sliding!TypeOK'
  OBVIOUS
<1> USE WindowAssumption, ClockAssumption DEF Sliding!Ideal!Instants
<1>1. ASSUME NEW w \in Sliding!Advanced, Sliding!Admit(w)
      PROVE  Sliding!TypeOK'
  <2>1. Found(w)
    BY AdvancedType
  <2>2. w.curr + 1 <= Limit
    BY <1>1, <2>1, EstimateType DEF Sliding!Admit
  <2>3. admitted' \in [Sliding!Ideal!Instants -> Nat]
    BY <1>1 DEF Sliding!Admit, Sliding!TypeOK
  <2>4. now' = now /\ curr' = w.curr + 1 /\ prev' = w.prev /\ windowStart' = w.start
    BY <1>1 DEF Sliding!Admit, Sliding!Keep
  <2>5. /\ prev' \in 0..Limit /\ curr' \in 0..Limit
        /\ windowStart' \in Int /\ windowStart' <= now'
    <3>1. w.curr \in 0..Limit /\ w.curr + 1 \in 0..Limit
      BY <2>1, <2>2 DEF Found
    <3> QED
      BY <2>1, <2>4, <3>1 DEF Found
  <2>6. now' \in 0..MaxTime
    BY <2>4 DEF Sliding!TypeOK
  <2> QED
    BY <2>3, <2>5, <2>6 DEF Sliding!TypeOK
<1>2. ASSUME NEW w \in Sliding!Advanced, Sliding!Deny(w)
      PROVE  Sliding!TypeOK'
  <2>1. Found(w)
    BY AdvancedType
  <2>2. /\ now' = now /\ curr' = w.curr /\ prev' = w.prev /\ windowStart' = w.start
        /\ admitted' = admitted
    BY <1>2 DEF Sliding!Deny, Sliding!Keep
  <2> QED
    BY <2>1, <2>2 DEF Found, Sliding!TypeOK
<1>3. CASE Sliding!Reset
  BY <1>3 DEF Sliding!Reset, Sliding!TypeOK
<1>4. CASE Sliding!Tick
  BY <1>4 DEF Sliding!Tick, Sliding!TypeOK
<1>5. CASE UNCHANGED Sliding!vars
  BY <1>5 DEF Sliding!vars, Sliding!TypeOK
<1> QED
  BY <1>1, <1>2, <1>3, <1>4, <1>5 DEF Sliding!Next, Sliding!AllowRequest

LEMMA SlidingTypeInit == Sliding!Init => Sliding!TypeOK
  BY WindowAssumption, ClockAssumption
  DEF Sliding!Init, Sliding!TypeOK, Sliding!Ideal!Instants

(* Calls made within INT_MAX windows find the very counts of the grid.     *)
LEMMA AdvancedCounts ==
    ASSUME InRange, SlidingInv, NEW w \in Sliding!Advanced
    PROVE  /\ 0 <= w.start /\ now < w.start + Window
           /\ Grid(admitted, w.prev, w.curr, w.start)
<1> USE WindowAssumption, ClockAssumption, IntMaxAssumption
    DEF SlidingInv, CountsKept, Sliding!TypeOK
<1>0. admitted \in [Instants -> Nat]
  BY DEF Instants, Sliding!Ideal!Instants
<1>1. CASE now - windowStart < Window
  <2>1. w = [prev |-> prev, curr |-> curr, start |-> windowStart]
    BY <1>1 DEF Sliding!Advanced
  <2>2. w.prev = prev /\ w.curr = curr /\ w.start = windowStart
    BY <2>1
  <2> QED
    BY <1>1, <2>2
<1>2. CASE now - windowStart >= Window
  <2> DEFINE q == (now - windowStart) \div Window
  <2>1. now - windowStart \in Nat /\ now - windowStart <= MaxTime
    BY <1>2
  <2>2. q <= IntMax
    <3>1. q <= MaxTime \div Window
      BY <2>1, WindowsGrow
    <3>2. q \in Nat /\ MaxTime \div Window \in Nat
      BY <2>1, Windows
    <3> QED
      BY <3>1, <3>2 DEF InRange
  <2>3. w = [prev |-> Sliding!Carried(q), curr |-> 0, start |-> windowStart + q * Window]
    BY <1>2, <2>2 DEF Sliding!Advanced, Sliding!CastToInt
  <2>4. /\ w.prev = Sliding!Carried(q)
        /\ w.curr = 0
        /\ w.start = windowStart + q * Window
    BY <2>3
  <2>5. /\ q \in Nat
        /\ now - windowStart < q * Window + Window
        /\ q * Window >= Window
        /\ q # 1 => q * Window >= 2 * Window
    BY <1>2, <2>1, Windows, WindowsPassed
  <2>6. q * Window \in Int
    BY <2>5
  <2> HIDE DEF q
  <2>7. 0 <= w.start /\ now < w.start + Window /\ w.start \in Int
    BY <2>4, <2>5, <2>6
  <2>8. w.start >= windowStart + Window
    BY <2>4, <2>5, <2>6
  <2>9. ASSUME NEW a \in Int, NEW b \in Int, windowStart + Window - 1 <= a, a <= b
        PROVE  Count(admitted, a, b) = 0
    <3>1. Count(admitted, a, b) <= Count(admitted, windowStart + Window - 1, b)
      BY <1>0, <2>9, CountPart
    <3>2. Count(admitted, windowStart + Window - 1, b) = 0
      BY DEF Grid
    <3> QED
      BY <1>0, <3>1, <3>2, CountType
  <2>10. Count(admitted, w.start - 1, w.start + Window - 1) = 0
    BY <2>7, <2>8, <2>9
  <2>11. \A b \in Int : Count(admitted, w.start + Window - 1, b) = 0
    <3> SUFFICES ASSUME NEW b \in Int
                 PROVE  Count(admitted, w.start + Window - 1, b) = 0
      OBVIOUS
    <3>1. CASE b >= w.start + Window - 1
      BY <2>7, <2>8, <2>9, <3>1
    <3>2. CASE b < w.start + Window - 1
      BY <1>0, <2>7, <3>2, CountEmpty
    <3> QED
      BY <2>7, <3>1, <3>2
  <2>12. Count(admitted, w.start - Window - 1, w.start - 1) = w.prev
    <3>1. CASE q = 1
      <4>1. q * Window = Window
        BY <3>1
      <4>2. w.start = windowStart + Window
        BY <2>4, <4>1
      <4>3. /\ w.start - Window - 1 = windowStart - 1
            /\ w.start - 1 = windowStart + Window - 1
        BY <4>2
      <4>4. w.prev = curr
        BY <2>4, <3>1 DEF Sliding!Carried
      <4> QED
        BY <4>3, <4>4 DEF Grid
    <3>2. CASE q # 1
      <4>1. w.prev = 0
        BY <2>4, <3>2 DEF Sliding!Carried
      <4>2. windowStart + Window - 1 <= w.start - Window - 1
        BY <2>4, <2>5, <2>6, <3>2
      <4> QED
        BY <2>7, <2>9, <4>1, <4>2
    <3> QED
      BY <3>1, <3>2
  <2> QED
    BY <2>4, <2>7, <2>10, <2>11, <2>12 DEF Grid
<1> QED
  BY <1>1, <1>2

(* What was admitted during the last window, and during the last two.      *)
LEMMA RollingCounts ==
    ASSUME NEW f \in [Instants -> Nat], NEW p \in Nat, NEW c \in Nat, NEW s \in Int,
           NEW t \in Nat, s <= t, t < s + Window, Grid(f, p, c, s), Past(f, t)
    PROVE  /\ Count(f, t - Window, t) <= p + c
           /\ Count(f, t - 2 * Window, t) >= p + c
<1> USE WindowAssumption
<1>1. Count(f, s - 1, t) = c
  <2>1. Count(f, s - 1, s + Window - 1) = Count(f, s - 1, t) + Count(f, t, s + Window - 1)
    BY CountAdds
  <2> QED
    BY <2>1, CountType DEF Grid, Past
<1>2. Count(f, t - Window, t) = Count(f, t - Window, s - 1) + c
  BY <1>1, CountAdds
<1>3. Count(f, t - Window, s - 1) <= p
  BY CountPart DEF Grid
<1>4. /\ Count(f, t - 2 * Window, t)
           = Count(f, t - 2 * Window, s - Window - 1) + Count(f, s - Window - 1, t)
      /\ Count(f, s - Window - 1, t) = p + c
  BY <1>1, CountAdds DEF Grid
<1> QED
  BY <1>2, <1>3, <1>4, CountType

LEMMA SlidingInit == Sliding!Init => SlidingInv
<1> SUFFICES ASSUME Sliding!Init PROVE SlidingInv
  OBVIOUS
<1>1. Sliding!TypeOK
  BY SlidingTypeInit
<1>2. admitted = NoAdmissions
  BY DEF Sliding!Init, NoAdmissions, Sliding!Ideal!Instants, Instants
<1>3. \A a, b : Count(admitted, a, b) = 0
  BY <1>2, CountNone
<1> QED
  BY <1>1, <1>3, WindowAssumption DEF SlidingInv, CountsKept, Grid, Past, Sliding!Init

(* One more admission at the present tick. *)
LEMMA GridAdmits ==
    ASSUME NEW f \in [Instants -> Nat], NEW p \in Nat, NEW c \in Nat, NEW s \in Int,
           NEW t \in Instants, s <= t, t < s + Window, Grid(f, p, c, s), Past(f, t),
           p + c + 1 <= 2 * Limit,
           NEW g, OneMore(f, g, t)
    PROVE  Grid(g, p, c + 1, s) /\ Past(g, t)
<1> USE WindowAssumption, ClockAssumption
<1>0. t \in Nat
  BY DEF Instants
<1>1. ASSUME NEW a \in Int, NEW b \in Int
      PROVE  /\ a < t /\ t <= b => Count(g, a, b) = Count(f, a, b) + 1
             /\ ~(a < t /\ t <= b) => Count(g, a, b) = Count(f, a, b)
  BY CountAdmit
<1>2. Grid(g, p, c + 1, s)
  BY <1>0, <1>1 DEF Grid
<1>3. \A b \in Int : Count(g, t, b) = 0
  BY <1>0, <1>1 DEF Past
<1>4. ASSUME NEW u \in 0..t
      PROVE  Count(g, u - Window, u) <= 2 * Limit
  <2>1. CASE u = t
    <3>1. Count(f, t - Window, t) <= p + c
      BY <1>0, RollingCounts
    <3>2. Count(g, t - Window, t) = Count(f, t - Window, t) + 1
      BY <1>0, <1>1
    <3>3. Count(f, t - Window, t) \in Nat
      BY CountType
    <3> QED
      BY <2>1, <3>1, <3>2, <3>3
  <2>2. CASE u # t
    <3>1. Count(g, u - Window, u) = Count(f, u - Window, u)
      BY <1>0, <1>1, <2>2
    <3> QED
      BY <3>1 DEF Past
  <2> QED
    BY <2>1, <2>2
<1> QED
  BY <1>2, <1>3, <1>4 DEF Past

(* A tick later nothing more was admitted. *)
LEMMA PastTicks ==
    ASSUME NEW f \in [Instants -> Nat], NEW t \in Nat, Past(f, t)
    PROVE  Past(f, t + 1)
<1> USE WindowAssumption
<1>1. ASSUME NEW b \in Int
      PROVE  Count(f, t + 1, b) = 0
  <2>1. CASE b <= t + 1
    BY <2>1, CountEmpty
  <2>2. CASE b > t + 1
    <3>1. Count(f, t + 1, b) <= Count(f, t, b)
      BY <2>2, CountPart
    <3> QED
      BY <3>1, CountType DEF Past
  <2> QED
    BY <2>1, <2>2
<1>2. Count(f, t + 1 - Window, t + 1) <= 2 * Limit
  <2>1. Count(f, t + 1 - Window, t + 1) <= Count(f, t - Window, t + 1)
    BY CountPart
  <2>2. Count(f, t - Window, t + 1) = Count(f, t - Window, t) + Count(f, t, t + 1)
    BY CountAdds
  <2>3. Count(f, t, t + 1) = 0 /\ Count(f, t - Window, t) <= 2 * Limit
    BY DEF Past
  <2> QED
    BY <2>1, <2>2, <2>3, CountType, WindowAssumption
<1> QED
  BY <1>1, <1>2 DEF Past

LEMMA SlidingStep ==
    ASSUME InRange, SlidingInv, [Sliding!Next]_(Sliding!vars)
    PROVE  SlidingInv'
<1> USE WindowAssumption, ClockAssumption
<1>0. /\ admitted \in [Instants -> Nat] /\ now \in Instants
      /\ Past(admitted, now)
  BY DEF Instants, Sliding!Ideal!Instants, SlidingInv, CountsKept, Sliding!TypeOK
<1>1. Sliding!TypeOK'
  BY SlidingType DEF SlidingInv
<1>2. ASSUME NEW w \in Sliding!Advanced, Sliding!Admit(w)
      PROVE  CountsKept'
  <2>1. Found(w)
    BY AdvancedType DEF SlidingInv
  <2>2. /\ 0 <= w.start /\ now < w.start + Window
        /\ Grid(admitted, w.prev, w.curr, w.start)
    BY AdvancedCounts
  <2>3. w.curr + 1 <= Limit
    BY <1>2, <2>1, EstimateType DEF Sliding!Admit, SlidingInv
  <2>4. /\ now' = now /\ curr' = w.curr + 1 /\ prev' = w.prev /\ windowStart' = w.start
        /\ admitted' = [admitted EXCEPT ![now] = @ + 1]
    BY <1>2 DEF Sliding!Admit, Sliding!Keep
  <2>5. /\ w.prev \in Nat /\ w.curr \in Nat /\ w.start \in Int /\ w.start <= now
        /\ w.prev + w.curr + 1 <= 2 * Limit
    BY <2>1, <2>3 DEF Found
  <2>6. Grid(admitted', prev', curr', windowStart') /\ Past(admitted', now')
    BY <1>0, <2>2, <2>4, <2>5, AdmitsOne, GridAdmits
  <2> QED
    BY <2>2, <2>4, <2>6 DEF CountsKept
<1>3. ASSUME NEW w \in Sliding!Advanced, Sliding!Deny(w)
      PROVE  CountsKept'
  <2>1. /\ 0 <= w.start
        /\ Grid(admitted, w.prev, w.curr, w.start)
    BY AdvancedCounts
  <2>2. /\ now' = now /\ curr' = w.curr /\ prev' = w.prev /\ windowStart' = w.start
        /\ admitted' = admitted
    BY <1>3 DEF Sliding!Deny, Sliding!Keep
  <2> QED
    BY <1>0, <2>1, <2>2 DEF CountsKept
<1>4. ASSUME Sliding!Reset PROVE CountsKept'
  <2>1. /\ admitted' = NoAdmissions /\ now' = now /\ windowStart' = now
        /\ prev' = 0 /\ curr' = 0
    BY <1>4 DEF Sliding!Reset, NoAdmissions, Sliding!Ideal!Instants, Instants
  <2>2. \A a, b : Count(admitted', a, b) = 0
    BY <2>1, CountNone
  <2> QED
    BY <1>0, <2>1, <2>2 DEF CountsKept, Grid, Past, Instants
<1>5. ASSUME Sliding!Tick PROVE CountsKept'
  <2>1. /\ now' = now + 1 /\ windowStart' = windowStart /\ prev' = prev /\ curr' = curr
        /\ admitted' = admitted
    BY <1>5 DEF Sliding!Tick
  <2>2. now \in Nat
    BY <1>0 DEF Instants
  <2>3. Past(admitted, now + 1)
    BY <1>0, <2>2, PastTicks
  <2> QED
    BY <2>1, <2>3 DEF SlidingInv, CountsKept
<1>6. ASSUME UNCHANGED Sliding!vars PROVE CountsKept'
  BY <1>6 DEF Sliding!vars, SlidingInv, CountsKept
<1>7. CountsKept'
  BY <1>2, <1>3, <1>4, <1>5, <1>6 DEF Sliding!Next, Sliding!AllowRequest
<1> QED
  BY <1>1, <1>7 DEF SlidingInv

(* No window ever holds more than twice the limit. *)
LEMMA SlidingTwice == SlidingInv => Sliding!AtMostTwiceLimit
  BY LoadIs DEF SlidingInv, CountsKept, Past, Sliding!AtMostTwiceLimit

(* What any call would find, in numbers. *)
LEMMA FoundCounts ==
    ASSUME InRange, SlidingInv, NEW w \in Sliding!Advanced
    PROVE  /\ w.prev \in 0..Limit /\ w.curr \in 0..Limit
           /\ now - w.start \in 0..Window
           /\ Sliding!Ideal!Load(now, Window) \in Nat
           /\ Sliding!Ideal!Load(now, 2 * Window) \in Nat
           /\ Sliding!Ideal!Load(now, Window) <= w.prev + w.curr
           /\ Sliding!Ideal!Load(now, 2 * Window) >= w.prev + w.curr
<1> USE WindowAssumption, ClockAssumption
<1>1. Found(w)
  BY AdvancedType DEF SlidingInv
<1>2. /\ now < w.start + Window
      /\ Grid(admitted, w.prev, w.curr, w.start)
  BY AdvancedCounts
<1>3. /\ admitted \in [Instants -> Nat] /\ now \in Nat
      /\ Past(admitted, now)
  BY DEF Instants, Sliding!Ideal!Instants, SlidingInv, CountsKept, Sliding!TypeOK
<1>4. w.prev \in Nat /\ w.curr \in Nat /\ w.start \in Int /\ w.start <= now
  BY <1>1 DEF Found
<1>5. /\ Count(admitted, now - Window, now) <= w.prev + w.curr
      /\ Count(admitted, now - 2 * Window, now) >= w.prev + w.curr
  BY <1>2, <1>3, <1>4, RollingCounts
<1>6. /\ Count(admitted, now - Window, now) \in Nat
      /\ Count(admitted, now - 2 * Window, now) \in Nat
  BY <1>3, CountType
<1>7. /\ Sliding!Ideal!Load(now, Window) = Count(admitted, now - Window, now)
      /\ Sliding!Ideal!Load(now, 2 * Window) = Count(admitted, now - 2 * Window, now)
  BY LoadIs
<1>8. now - w.start \in 0..Window
  BY <1>2, <1>3, <1>4
<1> QED
  BY <1>1, <1>5, <1>6, <1>7, <1>8 DEF Found

LEMMA SlidingUnderestimate == InRange /\ SlidingInv => Sliding!UnderestimateBound
<1> SUFFICES ASSUME InRange, SlidingInv, NEW w \in Sliding!Advanced
             PROVE  Sliding!Ideal!Load(now, Window) * Window
                      <= Sliding!Estimate(w) + Limit * (now - w.start)
  BY DEF Sliding!UnderestimateBound
<1> USE WindowAssumption
<1> DEFINE load == Sliding!Ideal!Load(now, Window)
           d    == now - w.start
<1>1. /\ w.prev \in 0..Limit /\ w.curr \in Nat /\ d \in 0..Window
      /\ load \in Nat /\ load <= w.prev + w.curr
  BY FoundCounts
<1>2. Sliding!Estimate(w) = w.prev * (Window - d) + w.curr * Window
  BY DEF Sliding!Estimate
<1> HIDE DEF load, d
<1>3. load * Window <= (w.prev + w.curr) * Window /\ load * Window \in Int
  BY <1>1, Times
<1>4. /\ w.prev * (Window - d) + w.curr * Window \in Int
      /\ (w.prev + w.curr) * Window <= w.prev * (Window - d) + w.curr * Window + Limit * d
      /\ (w.prev + w.curr) * Window \in Int /\ Limit * d \in Int
  BY <1>1, Weights
<1>5. load * Window <= Sliding!Estimate(w) + Limit * d
  BY <1>2, <1>3, <1>4
<1> QED
  BY <1>5 DEF load, d

LEMMA SlidingDenials == InRange /\ SlidingInv => Sliding!DenialsJustified
<1> SUFFICES ASSUME InRange, SlidingInv, NEW w \in Sliding!Advanced,
                    Sliding!Estimate(w) >= Limit * Window
             PROVE  Sliding!Ideal!Load(now, 2 * Window) >= Limit
  BY DEF Sliding!DenialsJustified
<1> USE WindowAssumption
<1> DEFINE load == Sliding!Ideal!Load(now, 2 * Window)
           d    == now - w.start
<1>1. /\ w.prev \in 0..Limit /\ w.curr \in Nat /\ d \in 0..Window
      /\ load \in Nat /\ load >= w.prev + w.curr
  BY FoundCounts
<1>2. Sliding!Estimate(w) = w.prev * (Window - d) + w.curr * Window
  BY DEF Sliding!Estimate
<1> HIDE DEF d
<1>3. /\ w.prev * (Window - d) + w.curr * Window \in Int
      /\ w.prev * (Window - d) + w.curr * Window <= (w.prev + w.curr) * Window
      /\ (w.prev + w.curr) * Window \in Int
  BY <1>1, Weights
<1>4. Limit * Window <= (w.prev + w.curr) * Window
  BY <1>2, <1>3
<1> HIDE DEF load
<1>5. w.prev + w.curr < Limit => (w.prev + w.curr + 1) * Window <= Limit * Window
  BY <1>1, Times
<1>6. (w.prev + w.curr + 1) * Window = (w.prev + w.curr) * Window + Window
  BY <1>1
<1>7. w.prev + w.curr >= Limit
  BY <1>1, <1>3, <1>4, <1>5, <1>6
<1>8. load >= Limit
  BY <1>1, <1>7
<1> QED
  BY <1>8 DEF load

-----------------------------------------------------------------------------
(* SlidingWindowLog.  For every instant c that is not older than the       *)
(* window, the log l splits into entries up to c and as many after c as    *)
(* the history f holds.                                                    *)
Split(l, f, t, c) ==
    \E m \in 0..Len(l) :
        /\ \A i \in 1..Len(l) : l[i] > c <=> i > m
        /\ Len(l) - m = Count(f, c, t)

LogKept(l, f, t) ==
    /\ \A b \in Int : Count(f, t, b) = 0
    /\ \A c \in Int : c >= t - Window => Split(l, f, t, c)

LogInv == Log!TypeOK /\ LogKept(log, admitted, now)

LEMMA EvictedIs ==
    ASSUME LogInv
    PROVE  /\ Log!Evicted \in Seq(0..now)
           /\ Len(Log!Evicted) = Log!Ideal!Load(now, Window)
           /\ LogKept(Log!Evicted, admitted, now)
<1> USE WindowAssumption, ClockAssumption
<1>1. now \in Nat /\ log \in Seq(0..now)
  BY DEF LogInv, Log!TypeOK
<1>2. PICK k \in 0..Len(log) :
        /\ \A i \in 1..Len(log) : log[i] > now - Window <=> i > k
        /\ Len(log) - k = Count(admitted, now - Window, now)
  <2>1. now - Window \in Int
    BY <1>1
  <2>2. Split(log, admitted, now, now - Window)
    BY <2>1 DEF LogInv, LogKept
  <2> QED
    BY <2>2 DEF Split
<1>3. \A i \in 1..Len(log) : log[i] \in 0..now
  BY <1>1
<1>4. Log!Stale = 1..k
  <2>1. ASSUME NEW i \in 1..Len(log)
        PROVE  (\A j \in 1..i : log[j] <= now - Window) <=> i <= k
    <3>1. \A j \in 1..i : log[j] <= now - Window <=> j <= k
      BY <1>1, <1>2, <1>3
    <3> QED
      BY <1>2, <3>1
  <2>2. Log!Stale = {i \in 1..Len(log) : i <= k}
    BY <1>1, <2>1 DEF Log!Stale
  <2> QED
    BY <1>1, <1>2, <2>2
<1>5. Cardinality(1..k) = k
  BY <1>2, FS_Interval
<1>6. Log!Evicted = SubSeq(log, k + 1, Len(log))
  BY <1>4, <1>5, SameCardinality DEF Log!Evicted
<1> DEFINE e == SubSeq(log, k + 1, Len(log))
<1>7. /\ e \in Seq(0..now)
      /\ Len(e) = Len(log) - k
      /\ \A i \in 1..Len(e) : e[i] = log[k + i]
  <2>1. \A i \in k + 1..Len(log) : log[i] \in 0..now
    BY <1>1, <1>2
  <2>2. k + 1 \in 1..Len(log) + 1 /\ Len(log) \in 0..Len(log)
    BY <1>1, <1>2
  <2>3. /\ e \in Seq(0..now)
        /\ Len(e) = IF k + 1 <= Len(log) THEN Len(log) - (k + 1) + 1 ELSE 0
        /\ \A i \in 1..Len(log) - (k + 1) + 1 : e[i] = log[(k + 1) + i - 1]
    BY ONLY <1>1, <2>1, <2>2, SubSeqProperties
  <2> HIDE DEF e
  <2>4. Len(e) = Len(log) - k
    BY <1>1, <1>2, <2>3
  <2>5. ASSUME NEW i \in 1..Len(e) PROVE e[i] = log[k + i]
    <3>1. i \in 1..Len(log) - (k + 1) + 1 /\ (k + 1) + i - 1 = k + i
      BY <1>1, <1>2, <2>4
    <3> QED
      BY <2>3, <3>1
  <2> QED
    BY <2>3, <2>4, <2>5
<1> HIDE DEF e
<1>8. ASSUME NEW c \in Int, c >= now - Window
      PROVE  Split(e, admitted, now, c)
  <2>1. PICK m \in 0..Len(log) :
          /\ \A i \in 1..Len(log) : log[i] > c <=> i > m
          /\ Len(log) - m = Count(admitted, c, now)
    BY <1>8 DEF LogInv, LogKept, Split
  <2>2. k <= m
    <3>1. k \in 1..Len(log) => log[k] <= now - Window
      BY <1>1, <1>2, <1>3
    <3>2. k \in 1..Len(log) => ~(log[k] > c)
      BY <1>1, <1>3, <1>8, <3>1
    <3> QED
      BY <1>2, <2>1, <3>2
  <2>3. m - k \in 0..Len(e) /\ Len(e) - (m - k) = Len(log) - m
    BY <1>1, <1>2, <1>7, <2>1, <2>2
  <2>4. \A i \in 1..Len(e) : e[i] > c <=> i > m - k
    <3> SUFFICES ASSUME NEW i \in 1..Len(e)
                 PROVE  e[i] > c <=> i > m - k
      OBVIOUS
    <3>1. k + i \in 1..Len(log)
      BY <1>1, <1>2, <1>7
    <3>2. log[k + i] > c <=> k + i > m
      BY <2>1, <3>1
    <3>3. e[i] = log[k + i]
      BY <1>7
    <3> QED
      BY <1>2, <2>1, <3>2, <3>3
  <2> QED
    BY <2>1, <2>3, <2>4 DEF Split
<1>9. Len(e) = Log!Ideal!Load(now, Window)
  BY <1>2, <1>7, LoadIs
<1> QED
  BY <1>6, <1>7, <1>8, <1>9 DEF LogInv, LogKept, e

(* One more call in the log and in the history. *)
LEMMA LogAdmits ==
    ASSUME NEW t \in Instants, NEW l \in Seq(0..t), NEW f \in [Instants -> Nat],
           LogKept(l, f, t), NEW g, OneMore(f, g, t)
    PROVE  LogKept(Append(l, t), g, t)
<1> USE WindowAssumption, ClockAssumption
<1>1. t \in Nat
  BY DEF Instants
<1> DEFINE n == Append(l, t)
<1>2. /\ Len(n) = Len(l) + 1 /\ Len(l) \in Nat
      /\ \A i \in 1..Len(l) : n[i] = l[i] /\ l[i] \in 0..t
      /\ n[Len(l) + 1] = t
  BY <1>1
<1> HIDE DEF n
<1>3. ASSUME NEW a \in Int, NEW b \in Int
      PROVE  /\ a < t /\ t <= b => Count(g, a, b) = Count(f, a, b) + 1
             /\ ~(a < t /\ t <= b) => Count(g, a, b) = Count(f, a, b)
  BY CountAdmit
<1>4. \A b \in Int : Count(g, t, b) = 0
  BY <1>1, <1>3 DEF LogKept
<1>5. ASSUME NEW c \in Int, c >= t - Window
      PROVE  Split(n, g, t, c)
  <2>1. CASE c < t
    <3>1. PICK m \in 0..Len(l) :
            /\ \A i \in 1..Len(l) : l[i] > c <=> i > m
            /\ Len(l) - m = Count(f, c, t)
      BY <1>5 DEF LogKept, Split
    <3>2. Count(g, c, t) = Count(f, c, t) + 1
      BY <1>1, <1>3, <2>1
    <3>3. m \in 0..Len(n) /\ Len(n) - m = Count(g, c, t)
      BY <1>2, <3>1, <3>2
    <3>4. \A i \in 1..Len(n) : n[i] > c <=> i > m
      BY <1>1, <1>2, <2>1, <3>1
    <3> QED
      BY <3>3, <3>4 DEF Split
  <2>2. CASE c >= t
    <3>1. Count(g, c, t) = 0
      BY <1>1, <2>2, <1>3, CountEmpty
    <3>2. ASSUME NEW i \in 1..Len(n)
          PROVE  n[i] > c <=> i > Len(n)
      <4>1. n[i] \in 0..t
        <5>1. i \in 1..Len(l) \/ i = Len(l) + 1
          BY <1>2
        <5> QED
          BY <1>1, <1>2, <5>1
      <4>2. ~(n[i] > c) /\ ~(i > Len(n))
        BY <1>1, <1>2, <2>2, <4>1
      <4> QED
        BY <4>2
    <3>3. Len(n) \in 0..Len(n) /\ Len(n) - Len(n) = 0
      BY <1>2
    <3> QED
      BY <3>1, <3>2, <3>3 DEF Split
  <2> QED
    BY <1>1, <2>1, <2>2
<1> QED
  BY <1>4, <1>5 DEF LogKept, n

LEMMA LogTicks ==
    ASSUME NEW t \in Nat, NEW l, NEW f \in [Instants -> Nat], LogKept(l, f, t)
    PROVE  LogKept(l, f, t + 1)
<1> USE WindowAssumption, ClockAssumption
<1>1. ASSUME NEW b \in Int
      PROVE  Count(f, t + 1, b) = 0
  <2>1. CASE b <= t + 1
    BY <2>1, CountEmpty
  <2>2. CASE b > t + 1
    <3>1. Count(f, t + 1, b) <= Count(f, t, b)
      BY <2>2, CountPart
    <3> QED
      BY <3>1, CountType DEF LogKept
  <2> QED
    BY <2>1, <2>2
<1>2. ASSUME NEW c \in Int, c >= t + 1 - Window
      PROVE  Split(l, f, t + 1, c)
  <2>1. Split(l, f, t, c)
    BY <1>2 DEF LogKept
  <2>2. Count(f, c, t + 1) = Count(f, c, t)
    <3>1. CASE c <= t
      <4>1. Count(f, c, t + 1) = Count(f, c, t) + Count(f, t, t + 1)
        BY <3>1, CountAdds
      <4>2. Count(f, t, t + 1) = 0
        BY DEF LogKept
      <4> QED
        BY <4>1, <4>2, CountType
    <3>2. CASE c > t
      BY <3>2, CountEmpty
    <3> QED
      BY <3>1, <3>2
  <2> QED
    BY <2>1, <2>2 DEF Split
<1> QED
  BY <1>1, <1>2 DEF LogKept

LEMMA LogEmpty ==
    ASSUME NEW t \in Nat
    PROVE  LogKept(<<>>, NoAdmissions, t)
<1>1. \A a, b : Count(NoAdmissions, a, b) = 0
  BY CountNone
<1>2. \A c \in Int : Split(<<>>, NoAdmissions, t, c)
  BY <1>1 DEF Split
<1> QED
  BY <1>1, <1>2 DEF LogKept

LEMMA LogInit == Log!Init => LogInv
<1> SUFFICES ASSUME Log!Init PROVE LogInv
  OBVIOUS
<1>1. admitted = NoAdmissions /\ log = <<>> /\ now = 0
  BY DEF Log!Init, NoAdmissions, Log!Ideal!Instants, Instants
<1>2. Log!TypeOK
  BY WindowAssumption, ClockAssumption DEF Log!Init, Log!TypeOK, Log!Ideal!Instants
<1> QED
  BY <1>1, <1>2, LogEmpty DEF LogInv

LEMMA LogStep == LogInv /\ [Log!Next]_(Log!vars) => LogInv'
<1> SUFFICES ASSUME LogInv, [Log!Next]_(Log!vars)
             PROVE  LogInv'
  OBVIOUS
<1> USE WindowAssumption, ClockAssumption
<1>0. /\ admitted \in [Instants -> Nat] /\ now \in Instants /\ now \in Nat
      /\ LogKept(log, admitted, now)
  BY DEF Instants, Log!Ideal!Instants, LogInv, Log!TypeOK
<1>1. ASSUME Log!Admit PROVE LogInv'
  <2>1. /\ now' = now /\ log' = Append(Log!Evicted, now) /\ answer' = <<now, "allow">>
        /\ admitted' = [admitted EXCEPT ![now] = @ + 1]
        /\ Len(Log!Evicted) < Limit
    BY <1>1 DEF Log!Admit
  <2>2. /\ Log!Evicted \in Seq(0..now)
        /\ LogKept(Log!Evicted, admitted, now)
    BY EvictedIs
  <2>3. LogKept(log', admitted', now')
    BY <1>0, <2>1, <2>2, AdmitsOne, LogAdmits
  <2>4. admitted' \in [Instants -> Nat]
    BY <1>0, <2>1
  <2>5. log' \in Seq(0..now') /\ Len(log') <= Limit
    BY <1>0, <2>1, <2>2
  <2>6. now' \in 0..MaxTime /\ answer' \in (0..now') \X {"none", "allow", "deny"}
    BY <1>0, <2>1 DEF Instants
  <2> QED
    BY <2>3, <2>4, <2>5, <2>6 DEF LogInv, Log!TypeOK, Log!Ideal!Instants, Instants
<1>2. ASSUME Log!Deny PROVE LogInv'
  <2>1. /\ now' = now /\ log' = Log!Evicted /\ answer' = <<now, "deny">>
        /\ admitted' = admitted
    BY <1>2 DEF Log!Deny
  <2>2. /\ Log!Evicted \in Seq(0..now)
        /\ LogKept(Log!Evicted, admitted, now)
    BY EvictedIs
  <2>3. Len(Log!Evicted) <= Limit
    <3>1. PICK k \in 0..Len(log) : Len(log) - k = Count(admitted, now - Window, now)
      BY <1>0 DEF LogKept, Split
    <3>2. Len(Log!Evicted) = Len(log) - k
      BY <3>1, EvictedIs, LoadIs
    <3>3. Len(log) \in Nat /\ Len(log) <= Limit
      BY DEF LogInv, Log!TypeOK
    <3> QED
      BY <3>1, <3>2, <3>3
  <2>4. now' \in 0..MaxTime /\ answer' \in (0..now') \X {"none", "allow", "deny"}
    BY <1>0, <2>1 DEF Instants
  <2> QED
    BY <1>0, <2>1, <2>2, <2>3, <2>4 DEF LogInv, Log!TypeOK, Log!Ideal!Instants, Instants
<1>3. ASSUME Log!Reset PROVE LogInv'
  <2>1. /\ now' = now /\ log' = <<>> /\ answer' = <<now, "none">>
        /\ admitted' = NoAdmissions
    BY <1>3 DEF Log!Reset, NoAdmissions, Log!Ideal!Instants, Instants
  <2>2. LogKept(log', admitted', now')
    BY <1>0, <2>1, LogEmpty
  <2>3. admitted' \in [Instants -> Nat]
    BY <2>1, CountNone
  <2>4. now' \in 0..MaxTime /\ answer' \in (0..now') \X {"none", "allow", "deny"}
    BY <1>0, <2>1 DEF Instants
  <2> QED
    BY <2>1, <2>2, <2>3, <2>4 DEF LogInv, Log!TypeOK, Log!Ideal!Instants, Instants
<1>4. ASSUME Log!Tick PROVE LogInv'
  <2>1. /\ now < MaxTime /\ now' = now + 1 /\ log' = log /\ answer' = answer
        /\ admitted' = admitted
    BY <1>4 DEF Log!Tick
  <2>2. LogKept(log', admitted', now')
    BY <1>0, <2>1, LogTicks
  <2>3. now' \in 0..MaxTime
    BY <1>0, <2>1
  <2>4. /\ log \in Seq(0..now) /\ Len(log) <= Limit
        /\ answer \in (0..now) \X {"none", "allow", "deny"}
    BY DEF LogInv, Log!TypeOK
  <2>5. (0..now) \subseteq (0..now')
    BY <1>0, <2>1
  <2>6. log' \in Seq(0..now')
    BY <2>1, <2>4, <2>5, SeqMonotonic
  <2>7. answer' \in (0..now') \X {"none", "allow", "deny"}
    BY <2>1, <2>4, <2>5
  <2> QED
    BY <1>0, <2>1, <2>2, <2>3, <2>4, <2>6, <2>7
    DEF LogInv, Log!TypeOK, Log!Ideal!Instants, Instants
<1>5. ASSUME UNCHANGED Log!vars PROVE LogInv'
  BY <1>5 DEF Log!vars, LogInv, Log!TypeOK
<1> QED
  BY <1>1, <1>2, <1>3, <1>4, <1>5 DEF Log!Next, Log!AllowRequest

(* Call for call, the log gives the answer of the ideal rolling limiter.   *)
LEMMA LogImplements ==
    LogInv /\ [Log!Next]_(Log!vars) => [Log!Ideal!Next]_<<now, admitted, answer>>
<1> SUFFICES ASSUME LogInv, [Log!Next]_(Log!vars)
             PROVE  [Log!Ideal!Next]_<<now, admitted, answer>>
  OBVIOUS
<1>0. Len(Log!Evicted) = Log!Ideal!Load(now, Window)
  BY EvictedIs
<1>1. CASE Log!Admit
  <2>1. Log!Ideal!Admit
    BY <1>0, <1>1 DEF Log!Admit, Log!Ideal!Admit
  <2> QED
    BY <2>1 DEF Log!Ideal!Next
<1>2. CASE Log!Deny
  <2>1. Log!Ideal!Deny
    BY <1>0, <1>2 DEF Log!Deny, Log!Ideal!Deny
  <2> QED
    BY <2>1 DEF Log!Ideal!Next
<1>3. CASE Log!Reset
  <2>1. Log!Ideal!Reset
    BY <1>3 DEF Log!Reset, Log!Ideal!Reset
  <2> QED
    BY <2>1 DEF Log!Ideal!Next
<1>4. CASE Log!Tick
  <2>1. Log!Ideal!Tick
    BY <1>4 DEF Log!Tick, Log!Ideal!Tick
  <2> QED
    BY <2>1 DEF Log!Ideal!Next
<1>5. CASE UNCHANGED Log!vars
  BY <1>5 DEF Log!vars
<1> QED
  BY <1>1, <1>2, <1>3, <1>4, <1>5 DEF Log!Next, Log!AllowRequest

LEMMA LogInitImplements == Log!Init => Log!Ideal!Init
  BY DEF Log!Init, Log!Ideal!Init

-----------------------------------------------------------------------------
(* The strategy: the invariant of the object that was made.                *)
StrategyInv ==
    /\ algorithm \in Algorithms
    /\ algorithm = "TokenBucket" => Token!BucketInv
    /\ algorithm = "LeakyBucket" => Leaky!TypeOK
    /\ algorithm = "FixedWindowCounter" => Fixed!FixedWindowInv
    /\ algorithm = "SlidingWindowLog" => LogInv
    /\ algorithm = "SlidingWindowCounter" => Sliding!TypeOK

CounterKept == algorithm = "SlidingWindowCounter" => SlidingInv

(* A step of the strategy is a step of that object. *)
LEMMA OneObject ==
    ASSUME [Next]_vars
    PROVE  /\ algorithm' = algorithm
           /\ algorithm = "TokenBucket" => [Token!Next]_(Token!vars)
           /\ algorithm = "LeakyBucket" => [Leaky!Next]_(Leaky!vars)
           /\ algorithm = "FixedWindowCounter" => [Fixed!Next]_(Fixed!vars)
           /\ algorithm = "SlidingWindowLog" => [Log!Next]_(Log!vars)
           /\ algorithm = "SlidingWindowCounter" => [Sliding!Next]_(Sliding!vars)
<1>1. CASE UNCHANGED vars
  BY <1>1
  DEF vars, tokenFields, leakyFields, bucketMarks, slidingMarks, Token!vars,
      Token!bucket, Token!observer, Leaky!vars, Leaky!bucket, Leaky!observer, Fixed!vars,
      Fixed!window, Fixed!observer, Log!vars, Sliding!vars
<1>2. CASE Next
  BY <1>2 DEF Next, UseToken, UseLeaky, UseFixed, UseLog, UseSliding
<1> QED
  BY <1>1, <1>2

LEMMA StrategyInit == Init => StrategyInv /\ CounterKept
  BY TokenInit, LeakyInit, FixedInit, LogInit, SlidingInit
  DEF Init, StrategyInv, CounterKept, SlidingInv

LEMMA StrategyStep == StrategyInv /\ [Next]_vars => StrategyInv'
<1> SUFFICES ASSUME StrategyInv, [Next]_vars
             PROVE  StrategyInv'
  OBVIOUS
<1>1. algorithm' = algorithm
  BY OneObject
<1>2. ASSUME algorithm = "TokenBucket" PROVE Token!BucketInv'
  BY <1>2, OneObject, TokenStep DEF StrategyInv
<1>3. ASSUME algorithm = "LeakyBucket" PROVE Leaky!TypeOK'
  BY <1>3, OneObject, LeakyStep DEF StrategyInv
<1>4. ASSUME algorithm = "FixedWindowCounter" PROVE Fixed!FixedWindowInv'
  BY <1>4, OneObject, FixedStep DEF StrategyInv
<1>5. ASSUME algorithm = "SlidingWindowLog" PROVE LogInv'
  BY <1>5, OneObject, LogStep DEF StrategyInv
<1>6. ASSUME algorithm = "SlidingWindowCounter" PROVE Sliding!TypeOK'
  BY <1>6, OneObject, SlidingType DEF StrategyInv
<1> QED
  BY <1>1, <1>2, <1>3, <1>4, <1>5, <1>6 DEF StrategyInv

LEMMA CounterStep == InRange /\ CounterKept /\ [Next]_vars => CounterKept'
  BY OneObject, SlidingStep DEF CounterKept

LEMMA SpecStrategyInv == Spec => []StrategyInv
  BY StrategyInit, StrategyStep, PTL DEF Spec

LEMMA SpecCounterKept == ASSUME InRange PROVE Spec => []CounterKept
  BY StrategyInit, CounterStep, PTL DEF Spec

(* Type correctness of whichever object createStrategy made.               *)
THEOREM TypeCorrect == Spec => []TypeOK
<1>1. StrategyInv => TypeOK
  BY DEF StrategyInv, TypeOK, Token!BucketInv, Fixed!FixedWindowInv, LogInv
<1> QED
  BY <1>1, SpecStrategyInv, PTL

(* TokenBucket::allowRequest: however calls, idle time and resets follow   *)
(* each other, no interval admits more than capacity and refill pay for.   *)
THEOREM Admitted == Spec => []AdmissionBound
<1>1. StrategyInv => AdmissionBound
  BY TokenBound DEF StrategyInv, AdmissionBound
<1> QED
  BY <1>1, SpecStrategyInv, PTL

(* FixedWindowCounter::allowRequest: a window holds to its limit, and less *)
(* than a window's time, across the boundary, to twice that.               *)
THEOREM Bursts == Spec => []BurstBound
<1>1. StrategyInv => BurstBound
  BY FixedBurst, FixedWindow DEF StrategyInv, BurstBound
<1> QED
  BY <1>1, SpecStrategyInv, PTL

(* SlidingWindowCounter::allowRequest: the estimate misses at most limit   *)
(* times f of the rolling count, and no window holds twice the limit, as   *)
(* long as windowsPassed fits an int.                                      *)
THEOREM Estimated == ASSUME InRange PROVE Spec => []EstimateBound
<1>1. CounterKept => EstimateBound
  BY SlidingTwice, SlidingUnderestimate DEF CounterKept, EstimateBound
<1> QED
  BY <1>1, SpecCounterKept, PTL

(* Nobody is denied for nothing: polling loses no refill, a quiet window   *)
(* reopens, and an estimate at the limit is made of that many calls of the *)
(* last two windows.                                                       *)
THEOREM Justified == ASSUME InRange PROVE Spec => []DenialsJustified
<1>1. StrategyInv /\ CounterKept => DenialsJustified
  BY TokenRefill, FixedReopens, SlidingDenials
  DEF StrategyInv, CounterKept, DenialsJustified
<1> QED
  BY <1>1, SpecStrategyInv, SpecCounterKept, PTL

(* LeakyBucket::allowRequest: every step of the leaky bucket is one of the *)
(* token bucket that holds what the queue has left free.                   *)
THEOREM LeakyIsToken == Spec => ImplementsTokenBucket
<1>1. Init => Leaky!TB!Init
  BY LeakyInitImplements DEF Init
<1>2. StrategyInv /\ [Next]_vars
        => [algorithm = "LeakyBucket" => [Leaky!TB!Next]_(Leaky!TB!vars)]_vars
  BY OneObject, LeakyStepImplements DEF StrategyInv
<1> QED
  BY <1>1, <1>2, SpecStrategyInv, PTL DEF Spec, ImplementsTokenBucket

(* SlidingWindowLog.h:13, "perfect accuracy": the log, which forgets, and  *)
(* the limiter that never forgets give the same answer to every call.      *)
THEOREM LogIsRollingWindow == Spec => ImplementsRollingWindow
<1>1. Init => Log!Ideal!Init
  BY LogInitImplements DEF Init
<1>2. StrategyInv /\ [Next]_vars
        => [algorithm = "SlidingWindowLog" => [Log!Ideal!Next]_<<now, admitted, answer>>]_vars
  BY OneObject, LogImplements DEF StrategyInv
<1> QED
  BY <1>1, <1>2, SpecStrategyInv, PTL DEF Spec, ImplementsRollingWindow
=============================================================================
