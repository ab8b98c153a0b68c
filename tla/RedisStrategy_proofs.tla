------------------------ MODULE RedisStrategy_proofs ------------------------
(***************************************************************************)
(* Proofs about the scripts of the five limiters in Redis, for all         *)
(* parameters, a clock of any length that may be set back at any time, and *)
(* keys that expire.  What is set back is never given back: real - now     *)
(* only grows, so that a time that the server has measured is at most the  *)
(* one that has really passed.                                             *)
(***************************************************************************)
EXTENDS RedisStrategy, FiniteSetTheorems, TLAPS
-----------------------------------------------------------------------------
(* How many requests a history of admissions holds in a period, and the    *)
(* arithmetic of refills and windows, are as in the proofs about the local *)
(* algorithms.                                                             *)
Local == INSTANCE LocalStrategy_proofs
       WITH IntMax <- 2, lastRefill <- last, lastLeak <- last, windowStart <- start

Instants       == 0..MaxTime
History(f)     == Local!History(f)
Part(f, a, b)  == Local!Part(f, a, b)
Count(f, a, b) == Local!Count(f, a, b)

OneMore(f, g, t) ==
    /\ g \in [Instants -> Nat]
    /\ \A i \in Instants : g[i] = IF i = t THEN f[t] + 1 ELSE f[i]

NoAdmissions == [t \in Instants |-> 0]

(* What the local algorithms assume of their parameters. *)
LEMMA Parameters ==
    /\ MaxTime \in Nat
    /\ Capacity \in Nat \ {0} /\ Rate \in Nat /\ Cost \in Nat \ {0}
    /\ Limit \in Nat \ {0} /\ Window \in Nat \ {0}
    /\ 2 \in Nat /\ 2 > 1
  BY ClockAssumption, BucketAssumption, WindowAssumption

(* A refill over two adjacent periods is the refill over their union. *)
LEMMA RefillAdds ==
    ASSUME NEW r \in Nat, NEW a \in Int, NEW b \in Int, NEW c \in Int
    PROVE  /\ r * (c - a) = r * (b - a) + r * (c - b)
           /\ r * (c - a) \in Int
           /\ r * (a - a) = 0
  BY Local!RefillAdds, Parameters

(* The clock never runs backwards, so a refill is never negative. *)
LEMMA RefillNonNegative ==
    ASSUME NEW r \in Nat, NEW a \in Int, NEW b \in Int, a <= b
    PROVE  r * (b - a) \in Nat
  BY Local!RefillNonNegative, Parameters

LEMMA CountType ==
    ASSUME NEW f \in [Instants -> Nat], NEW a, NEW b
    PROVE  IsFiniteSet(Part(f, a, b)) /\ Count(f, a, b) \in Nat
  BY Local!CountType, Parameters
  DEF Instants, Local!Instants, Count, Part, IsFiniteSet, Local!IsFiniteSet

LEMMA CountAdds ==
    ASSUME NEW f \in [Instants -> Nat], NEW a \in Int, NEW b \in Int, NEW c \in Int,
           a <= b, b <= c
    PROVE  Count(f, a, c) = Count(f, a, b) + Count(f, b, c)
  BY Local!CountAdds, Parameters DEF Instants, Local!Instants, Count

LEMMA AdmitsOne ==
    ASSUME NEW f \in [Instants -> Nat], NEW t \in Instants
    PROVE  OneMore(f, [f EXCEPT ![t] = @ + 1], t)
  BY Local!AdmitsOne, Parameters
  DEF Instants, Local!Instants, OneMore, Local!OneMore

LEMMA CountAdmit ==
    ASSUME NEW f \in [Instants -> Nat], NEW t \in Instants, NEW a \in Int,
           NEW b \in Int,
           NEW g, OneMore(f, g, t)
    PROVE  /\ g \in [Instants -> Nat]
           /\ a < t /\ t <= b => Count(g, a, b) = Count(f, a, b) + 1
           /\ ~(a < t /\ t <= b) => Count(g, a, b) = Count(f, a, b)
<1>1. Local!OneMore(f, g, t) /\ Instants = Local!Instants
  BY DEF OneMore, Local!OneMore, Instants, Local!Instants
<1> QED
  BY <1>1, Local!CountAdmit, Parameters DEF Count

LEMMA CountNone ==
    ASSUME NEW a, NEW b
    PROVE  NoAdmissions \in [Instants -> Nat] /\ Count(NoAdmissions, a, b) = 0
  BY Local!CountNone, Parameters
  DEF Instants, Local!Instants, Count, NoAdmissions, Local!NoAdmissions

LEMMA CountEmpty ==
    ASSUME NEW f \in [Instants -> Nat], NEW a \in Int, NEW b \in Int, b <= a
    PROVE  Count(f, a, b) = 0
  BY Local!CountEmpty, Parameters DEF Instants, Local!Instants, Count

(* A part of a period holds no more than the period. *)
LEMMA CountPart ==
    ASSUME NEW f \in [Instants -> Nat], NEW a \in Int, NEW b \in Int,
           NEW c \in Int, NEW d \in Int,
           a <= b, b <= c, c <= d
    PROVE  Count(f, b, c) <= Count(f, a, d)
  BY Local!CountPart, Parameters DEF Instants, Local!Instants, Count

(* Whole windows in a period. *)
LEMMA Windows ==
    ASSUME NEW x \in Nat
    PROVE  /\ x \div Window \in Nat
           /\ (x \div Window) * Window <= x
           /\ x < (x \div Window) * Window + Window
  BY Local!Windows, Parameters

LEMMA Times ==
    ASSUME NEW a \in Int, NEW b \in Int, NEW k \in Nat, a <= b
    PROVE  a * k \in Int /\ b * k \in Int /\ a * k <= b * k
  BY Local!Times, Parameters

(* A period of at least one window holds one, and of two only if it is     *)
(* twice as long.                                                          *)
LEMMA WindowsPassed ==
    ASSUME NEW x \in Nat, x >= Window
    PROVE  /\ x \div Window >= 1
           /\ (x \div Window) * Window >= Window
           /\ x \div Window # 1 => (x \div Window) * Window >= 2 * Window
  BY Local!WindowsPassed, Parameters

(* The arithmetic of the estimate: p and c calls, d ticks into a window of *)
(* W, weighted against a limit L.                                          *)
LEMMA Weights ==
    ASSUME NEW L \in Nat, NEW W \in Nat, NEW p \in 0..L, NEW c \in Nat,
           NEW d \in 0..W
    PROVE  /\ p * (W - d) + c * W \in Int
           /\ (p + c) * W <= p * (W - d) + c * W + L * d
           /\ p * (W - d) + c * W <= (p + c) * W
           /\ (p + c) * W \in Int /\ L * d \in Int
  BY Local!Weights, Parameters

-----------------------------------------------------------------------------
(* When a period that the server's clock began at s began in real time,    *)
(* if it has begun, as far as the clock can tell now.                      *)
Began(s, n, r) == r - (IF n > s THEN n - s ELSE 0)

(* The clock cannot tell of a period that begins later. *)
LEMMA BeganIs ==
    ASSUME NEW s \in Int, NEW n \in Int, NEW r \in Int
    PROVE  /\ Began(s, n, r) \in Int /\ Began(s, n, r) <= r
           /\ n >= s => Began(s, n, r) = r - (n - s)
  BY DEF Began

(* Time never moves the beginning back. *)
LEMMA BeganMoves ==
    ASSUME NEW s \in Int, NEW n \in Int, NEW r \in Int, NEW m \in Int
    PROVE  /\ Began(s, n, r) \in Int /\ Began(s, n, r) <= r
           /\ Began(n, n, r) = r
           /\ n >= s => Began(s, n, r) = r - (n - s)
           /\ m < n => Began(s, n, r) <= Began(s, m, r)
           /\ Began(s, n, r) <= Began(s, n + 1, r + 1)
  BY DEF Began

(* The clock moves on, stays or is set back. *)
TimePasses ==
    /\ now' \in Int /\ now' >= 0 /\ now' <= real' /\ real' \in real..MaxTime
    /\ real - now <= real' - now'
    /\ steady' = steady /\ (steady => now' = real')

(* A tick, a correction and a step that takes no time are such moves. *)
LEMMA ClockMoves ==
    ASSUME ClockTypeOK, steady => now = real,
           ClockTick \/ SetBack \/ UNCHANGED time
    PROVE  /\ TimePasses /\ ClockTypeOK' /\ (steady' => now' = real')
           /\ \A s \in Int : Began(s, now, real) <= Began(s, now', real')
<1>1. /\ real \in Int /\ real >= 0 /\ real <= MaxTime /\ MaxTime \in Int
      /\ now \in Int /\ now >= 0 /\ now <= real /\ steady \in BOOLEAN
  BY ClockAssumption DEF ClockTypeOK
<1>2. CASE ClockTick
  <2>1. real < MaxTime /\ real' = real + 1 /\ now' = now + 1 /\ steady' = steady
    BY <1>2 DEF ClockTick
  <2>2. TimePasses
    BY <1>1, <2>1 DEF TimePasses
  <2>3. ClockTypeOK'
    BY <1>1, <2>1 DEF ClockTypeOK
  <2> QED
    BY <1>1, <2>1, <2>2, <2>3, BeganMoves
<1>3. CASE SetBack
  <2>1. ~steady /\ real' = real /\ steady' = steady /\ now' \in 0..(now - 1)
    BY <1>3 DEF SetBack
  <2>2. now' \in Int /\ now' >= 0 /\ now' < now
    BY <1>1, <2>1
  <2>3. \A n, m, r \in Int : m < n /\ n <= r => m <= r /\ r - n <= r - m
    OBVIOUS
  <2>4. now' <= real /\ real - now <= real - now'
    BY <1>1, <2>2, <2>3
  <2>8. real \in real..MaxTime
    BY <1>1
  <2>5. TimePasses
    BY <2>1, <2>2, <2>4, <2>8 DEF TimePasses
  <2>6. ClockTypeOK'
    BY <1>1, <2>1, <2>2, <2>4 DEF ClockTypeOK
  <2>7. \A s \in Int : Began(s, now, real) <= Began(s, now', real')
    BY <1>1, <2>1, <2>2, BeganMoves
  <2> QED
    BY <2>1, <2>5, <2>6, <2>7
<1>4. CASE UNCHANGED time
  <2>1. real' = real /\ now' = now /\ steady' = steady
    BY <1>4 DEF time
  <2>2. \A s \in Int : Began(s, now, real) <= Began(s, now, real)
    BY <1>1, BeganMoves
  <2>3. TimePasses /\ ClockTypeOK'
    BY <1>1, <2>1 DEF TimePasses, ClockTypeOK
  <2> QED
    BY <2>1, <2>2, <2>3
<1> QED
  BY <1>2, <1>3, <1>4

(* EXPIRE is never shorter than what it is computed from. *)
LEMMA LongEnough ==
    ASSUME NEW a \in Nat \ {0}, NEW b \in Nat \ {0}
    PROVE  /\ CeilSeconds(a, b) \in Nat \ {0}
           /\ b * CeilSeconds(a, b) >= a
           /\ CeilSeconds(a, 1) >= a
<1> USE SecondAssumption
<1>1. ASSUME NEW d \in Nat \ {0}
      PROVE  /\ (a + d - 1) \div d \in Nat \ {0}
             /\ ((a + d - 1) \div d) * d >= a
  <2> DEFINE x == a + d - 1
             q == x \div d
  <2>1. x \in Nat /\ x >= d
    OBVIOUS
  <2>2. q \in Int /\ q * d <= x /\ x < q * d + d
    BY <2>1
  <2> HIDE DEF q
  <2>3. q * d >= a
    BY <2>2
  <2>4. q > 0
    <3>1. q <= 0 => q * d <= 0 * d
      BY <2>2, Times
    <3> QED
      BY <2>2, <2>3, <3>1
  <2> QED
    BY <2>2, <2>3, <2>4 DEF q
<1>2. ASSUME NEW c \in Nat \ {0}
      PROVE  CeilSeconds(a, c) \in Nat \ {0} /\ c * CeilSeconds(a, c) >= a
  <2> DEFINE d == c * Second
             q == (a + d - 1) \div d
  <2>1. d \in Nat \ {0}
    OBVIOUS
  <2>2. q \in Nat \ {0} /\ q * d >= a
    BY <1>1, <2>1
  <2>3. CeilSeconds(a, c) = q * Second
    BY DEF CeilSeconds
  <2> HIDE DEF q
  <2>4. q * Second \in Nat \ {0}
    BY <2>2
  <2>5. c * (q * Second) = q * (c * Second)
    BY <2>2
  <2> QED
    BY <2>2, <2>3, <2>4, <2>5
<1>3. 1 \in Nat \ {0}
  OBVIOUS
<1>4. CeilSeconds(a, 1) \in Nat /\ 1 * CeilSeconds(a, 1) >= a
  BY <1>2, <1>3
<1> QED
  BY <1>2, <1>4
-----------------------------------------------------------------------------
(* The two buckets.  What is free in a leaky bucket is what a token bucket *)
(* holds, and its scripts do the same with it: the account is kept of the  *)
(* room in whichever was made.                                             *)
Room == IF algorithm = "LeakyBucket" THEN Capacity - queue ELSE tokens

Bucket == INSTANCE RedisTokenBucket WITH tokens <- Room

(* Whatever was set back is at most a debt; what was spent is paid for,    *)
(* also by what the bucket loses when its keys expire.                     *)
BucketBounds(t, n, r, l, s, a, m) ==
    /\ n - l <= r - a
    /\ t >= Bucket!AtMost(Capacity, Rate * (Began(l, n, r) - a)) - Rate * (Began(l, n, r) - l)
    /\ s > 0 => /\ m <= a
                /\ Cost * s <= Capacity + Rate * (a - m)
                /\ Cost * s + t <= Capacity + Rate * (l + (r - n) - m)

BucketKept ==
    /\ Bucket!TypeOK
    /\ BucketBounds(Room, now, real, last, spent, lastAdmit, markTime)
    /\ deadline = Never => Rate = 0
    /\ deadline = 0 /\ spent > 0 => Cost * spent <= Rate * (real - markTime)
    /\ deadline > 0 => Rate > 0 /\ deadline = last + CeilSeconds(2 * Capacity, Rate)
    /\ steady => /\ now = real /\ Room >= 0
                 /\ deadline = 0 => Room + Rate * (now - last) >= Capacity

(* A refill is a difference of two amounts, the later the larger. *)
LEMMA Refills ==
    ASSUME NEW a \in Int, NEW b \in Int
    PROVE  /\ Rate * a \in Int /\ Rate * (a - b) = Rate * a - Rate * b
           /\ a <= b => Rate * a <= Rate * b
  BY RefillNonNegative, BucketAssumption

(* The instances of the scripts read the one clock. *)
LEMMA BucketClock ==
    /\ Bucket!ClockTypeOK <=> ClockTypeOK
    /\ \A d : Bucket!Alive(d) <=> Alive(d)
    /\ \A a, b : Bucket!CeilSeconds(a, b) = CeilSeconds(a, b)
    /\ Bucket!Never = Never
  BY DEF Bucket!ClockTypeOK, ClockTypeOK, Bucket!Alive, Alive, Bucket!CeilSeconds,
         CeilSeconds, Bucket!Never, Never

(* The types, in the form that arithmetic needs. *)
LEMMA BucketTypes ==
    ASSUME Bucket!TypeOK
    PROVE  /\ now \in Int /\ last \in Int /\ real \in Int /\ lastAdmit \in Int /\ markTime \in Int
           /\ now >= 0 /\ now <= real /\ lastAdmit <= real /\ last <= real /\ markTime <= real
           /\ Room \in Int /\ Room <= Capacity /\ spent \in Nat
           /\ deadline \in Int /\ deadline >= Never
  BY BucketClock DEF Bucket!TypeOK, ClockTypeOK

(* A longer time refills no less. *)
LEMMA RefillGrows ==
    ASSUME NEW a \in Int, NEW b \in Int, NEW c \in Int, a <= b
    PROVE  /\ Rate * (a - c) \in Int /\ Rate * (b - c) \in Int
           /\ Rate * (a - c) <= Rate * (b - c)
           /\ c <= a => Rate * (a - c) >= 0
<1>1. a - c \in Int /\ b - c \in Int /\ a - c <= b - c
  OBVIOUS
<1>2. c <= a => Rate * (a - c) \in Nat
  BY RefillNonNegative, BucketAssumption
<1>3. /\ Rate * (a - c) \in Int /\ Rate * (b - c) \in Int
      /\ Rate * (a - c) <= Rate * (b - c)
  <2> DEFINE x == a - c
             y == b - c
  <2> HIDE DEF x, y
  <2>1. x \in Int /\ y \in Int /\ x <= y
          => Rate * x \in Int /\ Rate * y \in Int /\ Rate * x <= Rate * y
    BY Refills
  <2> QED
    BY <1>1, <2>1 DEF x, y
<1> QED
  BY <1>2, <1>3

(* Keys that have expired were last written so long ago that the bucket    *)
(* would be full, twice over.                                              *)
LEMMA BucketExpired ==
    ASSUME BucketKept, deadline # 0, ~Alive(deadline)
    PROVE  /\ Rate * (now - last) >= 2 * Capacity
           /\ Rate * (real - lastAdmit) >= 2 * Capacity
           /\ Rate > 0
<1> USE BucketAssumption DEF BucketKept, BucketBounds
<1>0. /\ now \in Int /\ last \in Int /\ real \in Int /\ lastAdmit \in Int
      /\ deadline \in Int /\ deadline >= Never
  BY BucketTypes
<1>1. deadline > 0 /\ now >= deadline
  BY <1>0 DEF Alive, Never
<1> DEFINE c == CeilSeconds(2 * Capacity, Rate)
<1>2. Rate > 0 /\ deadline = last + c
  BY <1>0, <1>1
<1>3. c \in Nat /\ Rate * c >= 2 * Capacity
  BY <1>2, LongEnough
<1> HIDE DEF c
<1>4. /\ c \in Int /\ now - last \in Int /\ real - lastAdmit \in Int
      /\ c <= now - last /\ c <= real - lastAdmit
  BY <1>0, <1>1, <1>2, <1>3
<1>5. Rate * c <= Rate * (now - last) /\ Rate * c <= Rate * (real - lastAdmit)
  BY <1>4, Refills
<1>6. Rate * c \in Int /\ Rate * (now - last) \in Int /\ Rate * (real - lastAdmit) \in Int
  BY <1>4, Refills
<1> QED
  BY <1>2, <1>3, <1>5, <1>6

(* What a refill leaves. *)
LEMMA BucketRefilled ==
    ASSUME BucketKept
    PROVE  /\ Bucket!Refilled \in Int /\ Bucket!Refilled <= Capacity
           /\ Bucket!Refilled >= Bucket!AtMost(Capacity, Rate * (real - lastAdmit))
                                  - Rate * (real - now)
           /\ spent > 0 => Cost * spent + Bucket!Refilled <= Capacity + Rate * (real - markTime)
           /\ steady => /\ Bucket!Refilled >= 0
                        /\ Bucket!Refilled = Bucket!AtMost(Capacity, Room + Rate * (now - last))
<1> USE BucketAssumption
<1>1. /\ now \in Int /\ last \in Int /\ real \in Int /\ lastAdmit \in Int /\ markTime \in Int
      /\ now <= real /\ lastAdmit <= real /\ last <= real
      /\ Room \in Int /\ Room <= Capacity /\ spent \in Nat
  BY BucketTypes DEF BucketKept
<1>2. /\ Rate * now \in Int /\ Rate * last \in Int /\ Rate * real \in Int
      /\ Rate * lastAdmit \in Int /\ Rate * markTime \in Int
      /\ Rate * (now - last) = Rate * now - Rate * last
      /\ Rate * (lastAdmit - last) = Rate * lastAdmit - Rate * last
      /\ Rate * (last - now) = Rate * last - Rate * now
      /\ Rate * (markTime - real) = Rate * markTime - Rate * real
      /\ Rate * (real - now) = Rate * real - Rate * now
      /\ Rate * (real - last) = Rate * real - Rate * last
      /\ Rate * (real - lastAdmit) = Rate * real - Rate * lastAdmit
      /\ Rate * (real - markTime) = Rate * real - Rate * markTime
      /\ Rate * (lastAdmit - markTime) = Rate * lastAdmit - Rate * markTime
      /\ Rate * now <= Rate * real
  BY <1>1, Refills
<1>3. Cost * spent \in Int
  BY <1>1
<1>0. /\ Room >= Bucket!AtMost(Capacity, Rate * (Began(last, now, real) - lastAdmit))
                      - Rate * (Began(last, now, real) - last)
      /\ spent > 0 =>
           /\ Cost * spent <= Capacity + Rate * (lastAdmit - markTime)
           /\ Cost * spent + Room <= Capacity + Rate * (last + (real - now) - markTime)
      /\ deadline = 0 /\ spent > 0 => Cost * spent <= Rate * (real - markTime)
      /\ steady => /\ now = real /\ Room >= 0
                   /\ deadline = 0 => Room + Rate * (now - last) >= Capacity
  BY DEF BucketKept, BucketBounds
<1>4. CASE Alive(deadline)
  <2>1. Bucket!Refilled = Bucket!AtMost(Capacity, Room + Rate * (now - last))
    BY <1>4, BucketClock DEF Bucket!Refilled, Bucket!Live, Bucket!Elapsed
  <2>2. Bucket!Refilled >= Bucket!AtMost(Capacity, Rate * (real - lastAdmit))
                            - Rate * (real - now)
    <3>1. CASE now > last
      <4>1. Began(last, now, real) = real - (now - last)
        BY <3>1 DEF Began
      <4>2. Rate * (Began(last, now, real) - lastAdmit)
              = Rate * real - Rate * now + Rate * last - Rate * lastAdmit
        <5>1. Began(last, now, real) - lastAdmit = (real - now) - (lastAdmit - last)
          BY <1>1, <4>1
        <5>2. Rate * ((real - now) - (lastAdmit - last))
                = Rate * (real - now) - Rate * (lastAdmit - last)
          BY <1>1, Refills
        <5> QED
          BY <1>2, <5>1, <5>2
      <4>3. Rate * (Began(last, now, real) - last) = Rate * real - Rate * now
        <5>1. Began(last, now, real) - last = real - now
          BY <1>1, <4>1
        <5> QED
          BY <1>2, <5>1
      <4>4. Rate * last <= Rate * now
        BY <1>1, <3>1, Refills
      <4> QED
        BY <1>1, <1>2, <1>0, <2>1, <4>2, <4>3, <4>4 DEF Bucket!AtMost
    <3>2. CASE now <= last
      <4>1. Began(last, now, real) = real
        BY <1>1, <3>2 DEF Began
      <4>2. Room >= Bucket!AtMost(Capacity, Rate * (real - lastAdmit)) - Rate * (real - last)
        BY <1>0, <4>1
      <4> QED
        BY <1>1, <1>2, <1>0, <2>1, <4>2 DEF Bucket!AtMost
    <3> QED
      BY <1>1, <3>1, <3>2
  <2>3. ASSUME spent > 0
        PROVE  Cost * spent + Bucket!Refilled <= Capacity + Rate * (real - markTime)
    <3>1. Cost * spent + Room <= Capacity + Rate * (last + (real - now) - markTime)
      BY <1>0, <2>3
    <3>2. Rate * (last + (real - now) - markTime)
            = Rate * last + Rate * real - Rate * now - Rate * markTime
      <4>1. last + (real - now) - markTime = (last - now) - (markTime - real)
        BY <1>1
      <4>2. Rate * ((last - now) - (markTime - real))
              = Rate * (last - now) - Rate * (markTime - real)
        BY <1>1, Refills
      <4> QED
        BY <1>2, <4>1, <4>2
    <3> QED
      BY <1>1, <1>2, <1>3, <2>1, <3>1, <3>2 DEF Bucket!AtMost
  <2>4. ASSUME steady
        PROVE  Bucket!Refilled >= 0
    <3>1. Rate * last <= Rate * now
      BY <1>1, <1>0, <2>4, Refills
    <3>2. Room >= 0
      BY <1>0, <2>4
    <3> QED
      BY <3>2, <1>1, <1>2, <1>0, <2>1, <3>1 DEF Bucket!AtMost
  <2>5. Bucket!Refilled \in Int /\ Bucket!Refilled <= Capacity
    BY <1>1, <1>2, <2>1 DEF Bucket!AtMost
  <2> QED
    BY <2>1, <2>2, <2>3, <2>4, <2>5
<1>5. CASE ~Alive(deadline)
  <2>1. Bucket!Refilled = Capacity
    <3>1. Rate * 0 = 0
      OBVIOUS
    <3> QED
      BY <1>5, <3>1, BucketClock
      DEF Bucket!Refilled, Bucket!Live, Bucket!Elapsed, Bucket!AtMost
  <2>2. Bucket!Refilled >= Bucket!AtMost(Capacity, Rate * (real - lastAdmit))
                            - Rate * (real - now)
    BY <1>1, <1>2, <2>1 DEF Bucket!AtMost
  <2>3. ASSUME spent > 0
        PROVE  Cost * spent <= Rate * (real - markTime)
    <3>1. CASE deadline = 0
      BY <1>0, <2>3, <3>1
    <3>2. CASE deadline # 0
      <4>1. Rate * (real - lastAdmit) >= 2 * Capacity
        BY <1>5, <3>2, BucketExpired
      <4>2. Cost * spent <= Capacity + Rate * (lastAdmit - markTime)
        BY <1>0, <2>3
      <4> QED
        BY <1>1, <1>2, <1>3, <4>1, <4>2
    <3> QED
      BY <3>1, <3>2
  <2>4. steady => Room + Rate * (now - last) >= Capacity
    <3>1. deadline # 0 => Rate * (now - last) >= 2 * Capacity
      BY <1>5, BucketExpired
    <3>2. Rate * (now - last) \in Int
      BY <1>1, Refills
    <3> QED
      BY <1>1, <1>0, <3>1, <3>2
  <2> QED
    BY <1>1, <1>2, <1>3, <2>1, <2>2, <2>3, <2>4 DEF Bucket!AtMost
<1> QED
  BY <1>4, <1>5

(* The later a period is taken to have begun, the more of it is a debt. *)
LEMMA BeganLater ==
    ASSUME NEW l \in Int, NEW a \in Int, NEW o \in Int, NEW q \in Int, o <= q
    PROVE  Bucket!AtMost(Capacity, Rate * (q - a)) - Rate * (q - l)
             <= Bucket!AtMost(Capacity, Rate * (o - a)) - Rate * (o - l)
<1>1. /\ Rate * q \in Int /\ Rate * o \in Int /\ Rate * a \in Int /\ Rate * l \in Int
      /\ Rate * (q - a) = Rate * q - Rate * a /\ Rate * (q - l) = Rate * q - Rate * l
      /\ Rate * (o - a) = Rate * o - Rate * a /\ Rate * (o - l) = Rate * o - Rate * l
      /\ Rate * o <= Rate * q
  BY Refills
<1> QED
  BY <1>1, BucketAssumption DEF Bucket!AtMost

(* The clock moves on, or is set back: m is its new time, q the real one.  *)
LEMMA BucketBoundsMove ==
    ASSUME NEW t \in Int, NEW n \in Int, NEW r \in Int, NEW l \in Int,
           NEW s \in Nat,
           NEW a \in Int, NEW k \in Int, NEW m \in Int, NEW q \in Int,
           r - n <= q - m, r <= q, Began(l, n, r) <= Began(l, m, q),
           BucketBounds(t, n, r, l, s, a, k)
    PROVE  BucketBounds(t, m, q, l, s, a, k)
<1> USE BucketAssumption
<1>1. m - l <= q - a
  BY DEF BucketBounds
<1>2. Began(l, n, r) \in Int /\ Began(l, m, q) \in Int
  BY BeganMoves
<1>3. t >= Bucket!AtMost(Capacity, Rate * (Began(l, m, q) - a)) - Rate * (Began(l, m, q) - l)
  <2> DEFINE f(o) == Bucket!AtMost(Capacity, Rate * (o - a)) - Rate * (o - l)
  <2>1. f(Began(l, m, q)) <= f(Began(l, n, r))
    BY <1>2, BeganLater
  <2>2. t >= f(Began(l, n, r))
    BY DEF BucketBounds
  <2>3. \A o \in Int : f(o) \in Int
    BY Refills DEF Bucket!AtMost
  <2> HIDE DEF f
  <2>4. t >= f(Began(l, m, q))
    BY <1>2, <2>1, <2>2, <2>3
  <2> QED
    BY <2>4 DEF f
<1>4. ASSUME s > 0
      PROVE  Cost * s + t <= Capacity + Rate * (l + (q - m) - k)
  <2>1. Cost * s + t <= Capacity + Rate * (l + (r - n) - k)
    BY <1>4 DEF BucketBounds
  <2>2. /\ Rate * (l + (r - n) - k) <= Rate * (l + (q - m) - k)
        /\ Rate * (l + (r - n) - k) \in Int /\ Rate * (l + (q - m) - k) \in Int
    <3> DEFINE x == l + (r - n) - k
               y == l + (q - m) - k
    <3>1. x \in Int /\ y \in Int /\ x <= y
      OBVIOUS
    <3> HIDE DEF x, y
    <3>2. Rate * x <= Rate * y /\ Rate * x \in Int /\ Rate * y \in Int
      BY <3>1, Refills
    <3> QED
      BY <3>2 DEF x, y
  <2>3. Cost * s \in Int
    OBVIOUS
  <2> QED
    BY <2>1, <2>2, <2>3
<1>5. s > 0 => k <= a /\ Cost * s <= Capacity + Rate * (a - k)
  BY DEF BucketBounds
<1> QED
  BY <1>1, <1>3, <1>4, <1>5 DEF BucketBounds

(* What was written just now. *)
LEMMA BucketBoundsWritten ==
    ASSUME NEW t \in Int, NEW n \in Int, NEW r \in Int, NEW s \in Nat,
           NEW a \in Int, NEW k \in Int, n <= r, a <= r,
           t >= Bucket!AtMost(Capacity, Rate * (r - a)) - Rate * (r - n),
           s > 0 => /\ k <= a
                    /\ Cost * s <= Capacity + Rate * (a - k)
                    /\ Cost * s + t <= Capacity + Rate * (r - k)
    PROVE  BucketBounds(t, n, r, n, s, a, k)
<1>1. Began(n, n, r) = r
  BY BeganMoves
<1>2. n + (r - n) - k = r - k
  OBVIOUS
<1> QED
  BY <1>1, <1>2 DEF BucketBounds

(* Nothing is spent yet. *)
LEMMA BucketInit ==
    ASSUME Bucket!Init
    PROVE  BucketKept
<1> USE BucketAssumption, ClockAssumption
<1>1. /\ now = 0 /\ real = 0 /\ steady \in BOOLEAN
      /\ Room = Capacity /\ last = 0 /\ deadline = 0
      /\ markTime = 0 /\ spent = 0 /\ lastAdmit = 0
  BY DEF Bucket!Init, Bucket!ClockInit
<1>2. Bucket!TypeOK
  BY <1>1 DEF Bucket!TypeOK, Bucket!ClockTypeOK, Bucket!Never
<1>3. Rate * 0 = 0
  OBVIOUS
<1>4. BucketBounds(Room, now, real, last, spent, lastAdmit, markTime)
  BY <1>1, <1>3 DEF BucketBounds, Began, Bucket!AtMost
<1> QED
  BY <1>1, <1>2, <1>3, <1>4 DEF BucketKept, Never

(* A script writes the level that it leaves. *)
LEMMA BucketWritten ==
    ASSUME BucketKept, NEW n \in Int, n <= Capacity, Bucket!Write(n),
           now' = now, real' = real, steady' = steady,
           spent' \in Nat, lastAdmit' \in 0..real, markTime' \in 0..real,
           n >= Bucket!AtMost(Capacity, Rate * (real - lastAdmit')) - Rate * (real - now),
           spent' > 0 => /\ markTime' <= lastAdmit'
                         /\ Cost * spent' <= Capacity + Rate * (lastAdmit' - markTime')
                         /\ Cost * spent' + n <= Capacity + Rate * (real - markTime'),
           steady => n >= 0
    PROVE  BucketKept'
<1> USE BucketAssumption
<1>1. /\ now \in Int /\ real \in Int /\ now >= 0 /\ now <= real
      /\ steady => now = real
      /\ ClockTypeOK
  BY BucketTypes, BucketClock DEF BucketKept, Bucket!TypeOK
<1>2. /\ Room' = n /\ last' = now
      /\ deadline' = IF Rate > 0 THEN now + CeilSeconds(2 * Capacity, Rate) ELSE Never
  BY BucketClock DEF Bucket!Write, Bucket!Expiry
<1>3. Rate > 0 => CeilSeconds(2 * Capacity, Rate) \in Nat \ {0}
  BY LongEnough
<1>4. /\ deadline' \in Int /\ deadline' # 0 /\ deadline' >= Never
      /\ deadline' = Never => Rate = 0
      /\ deadline' > 0 => Rate > 0 /\ deadline' = last' + CeilSeconds(2 * Capacity, Rate)
  BY <1>1, <1>2, <1>3 DEF Never
<1>5. ClockTypeOK'
  BY <1>1 DEF ClockTypeOK
<1>6. Bucket!TypeOK'
  <2>1. Bucket!ClockTypeOK'
    BY <1>5 DEF Bucket!ClockTypeOK, ClockTypeOK
  <2>2. last' \in 0..real'
    BY <1>1, <1>2
  <2>3. deadline' \in Int /\ deadline' >= Bucket!Never
    BY <1>4, BucketClock
  <2> QED
    BY <1>2, <2>1, <2>2, <2>3 DEF Bucket!TypeOK
<1>7. BucketBounds(Room', now', real', last', spent', lastAdmit', markTime')
  <2>1. lastAdmit' \in Int /\ markTime' \in Int /\ lastAdmit' <= real
    BY <1>1
  <2>2. BucketBounds(n, now, real, now, spent', lastAdmit', markTime')
    BY <1>1, <2>1, BucketBoundsWritten
  <2> QED
    BY <1>2, <2>2
<1>8. steady' => now' = real' /\ Room' >= 0
  BY <1>1, <1>2
<1>9. CeilSeconds(2 * Capacity, Rate)' = CeilSeconds(2 * Capacity, Rate)
  BY DEF CeilSeconds
<1> HIDE DEF BucketBounds
<1> QED
  BY <1>4, <1>6, <1>7, <1>8 DEF BucketKept

(* Every script, deletion and move of the clock keeps the account. *)
LEMMA BucketStep ==
    ASSUME BucketKept, [Bucket!Next]_(Bucket!vars)
    PROVE  BucketKept'
<1> USE BucketAssumption
<1>1. /\ now \in Int /\ last \in Int /\ real \in Int /\ lastAdmit \in Int /\ markTime \in Int
      /\ now >= 0 /\ now <= real /\ lastAdmit <= real /\ last <= real /\ markTime <= real
      /\ Room \in Int /\ Room <= Capacity /\ spent \in Nat
      /\ deadline \in Int /\ deadline >= Never
  BY BucketTypes DEF BucketKept
<1>2. /\ lastAdmit \in 0..real /\ markTime \in 0..real /\ last \in 0..real
      /\ real \in 0..MaxTime /\ steady \in BOOLEAN
  BY DEF BucketKept, Bucket!TypeOK, Bucket!ClockTypeOK
<1>3. /\ Bucket!Refilled \in Int /\ Bucket!Refilled <= Capacity
      /\ Bucket!Refilled >= Bucket!AtMost(Capacity, Rate * (real - lastAdmit))
                             - Rate * (real - now)
      /\ spent > 0 => Cost * spent + Bucket!Refilled <= Capacity + Rate * (real - markTime)
      /\ steady => Bucket!Refilled >= 0
  BY BucketRefilled
<1>4. /\ Rate * (real - real) = 0 /\ Rate * (real - now) \in Int /\ Rate * (real - now) >= 0
      /\ Rate * (real - markTime) \in Int /\ Rate * (real - markTime) >= 0
  BY <1>1, RefillAdds, RefillNonNegative
<1>5. /\ spent > 0 => /\ markTime <= lastAdmit
                      /\ Cost * spent <= Capacity + Rate * (lastAdmit - markTime)
      /\ steady => now = real
  BY DEF BucketKept, BucketBounds
<1> HIDE DEF BucketKept
<1>10. ASSUME Bucket!Admit
       PROVE  BucketKept'
  <2>1. /\ Bucket!Refilled >= Cost /\ Bucket!Write(Bucket!Refilled - Cost)
        /\ spent' = spent + 1 /\ lastAdmit' = real /\ markTime' = markTime
        /\ now' = now /\ real' = real /\ steady' = steady
    BY <1>10 DEF Bucket!Admit, Bucket!time
  <2> DEFINE n == Bucket!Refilled - Cost
  <2>2. /\ n \in Int /\ n <= Capacity /\ n >= 0
    BY <1>3, <2>1
  <2>3. n >= Bucket!AtMost(Capacity, Rate * (real - lastAdmit')) - Rate * (real - now)
    BY <1>4, <2>1, <2>2 DEF Bucket!AtMost
  <2>4. /\ spent' \in Nat /\ markTime' <= lastAdmit'
        /\ Cost * spent' = Cost * spent + Cost
        /\ Cost * spent \in Int
    BY <1>1, <2>1
  <2>5. Cost * spent' + n <= Capacity + Rate * (real - markTime')
    <3>1. CASE spent = 0
      BY <1>1, <1>3, <1>4, <2>1, <2>4, <3>1
    <3>2. CASE spent > 0
      BY <1>1, <1>3, <1>4, <2>1, <2>4, <3>2
    <3> QED
      BY <1>1, <3>1, <3>2
  <2>6. Cost * spent' <= Capacity + Rate * (lastAdmit' - markTime')
    BY <1>4, <2>1, <2>2, <2>4, <2>5
  <2>7. real \in 0..real
    BY <1>1
  <2>8. Bucket!Write(n)
    BY <2>1
  <2> HIDE DEF n
  <2> QED
    BY <1>2, <2>1, <2>2, <2>3, <2>4, <2>5, <2>6, <2>7, <2>8, BucketWritten
<1>11. ASSUME Bucket!Deny
       PROVE  BucketKept'
  <2>1. /\ Bucket!Write(Bucket!Refilled)
        /\ spent' = spent /\ lastAdmit' = lastAdmit /\ markTime' = markTime
        /\ now' = now /\ real' = real /\ steady' = steady
    BY <1>11 DEF Bucket!Deny, Bucket!time, Bucket!observer
  <2> QED
    BY <1>1, <1>2, <1>3, <1>5, <2>1, BucketWritten
<1>12. ASSUME Bucket!Reset
       PROVE  BucketKept'
  <2>1. /\ Bucket!Write(Capacity)
        /\ spent' = 0 /\ lastAdmit' = real /\ markTime' = real
        /\ now' = now /\ real' = real /\ steady' = steady
    BY <1>12 DEF Bucket!Reset, Bucket!time
  <2>2. Capacity >= Bucket!AtMost(Capacity, Rate * (real - lastAdmit')) - Rate * (real - now)
    BY <1>4, <2>1 DEF Bucket!AtMost
  <2>3. real \in 0..real /\ ~(spent' > 0) /\ spent' \in Nat
    BY <1>1, <2>1
  <2> QED
    BY <1>1, <2>1, <2>2, <2>3, BucketWritten
<1>13. ASSUME TimePasses, Began(last, now, real) <= Began(last, now', real'),
              Room' = Room, last' = last, spent' = spent,
              lastAdmit' = lastAdmit, markTime' = markTime,
              deadline' = deadline \/ (deadline' = 0 /\ ~Alive(deadline))
       PROVE  BucketKept'
  <2>0. /\ now' \in Int /\ now' >= 0 /\ now' <= real' /\ real' \in real..MaxTime
        /\ real - now <= real' - now'
        /\ steady' = steady /\ (steady => now' = real')
    BY <1>13 DEF TimePasses
  <2>1. real' \in Int /\ real <= real'
    BY <1>1, <1>2, <2>0
  <2>2. BucketBounds(Room, now', real', last, spent, lastAdmit, markTime)
    BY <1>1, <1>13, <2>0, <2>1, BucketBoundsMove DEF BucketKept
  <2>3. BucketBounds(Room', now', real', last', spent', lastAdmit', markTime')
    BY <1>13, <2>0, <2>2
  <2>4. Bucket!TypeOK'
    BY <1>1, <1>2, <1>13, <2>0, <2>1
    DEF Bucket!TypeOK, Bucket!ClockTypeOK, Bucket!Never, Never
  <2>5. CASE deadline' = deadline
    <3>1. /\ Rate * (real - markTime) <= Rate * (real' - markTime)
          /\ Rate * (real - markTime) \in Int /\ Rate * (real' - markTime) \in Int
      BY <1>1, <2>1, RefillGrows
    <3>2. Cost * spent \in Int
      BY <1>1
    <3>3. deadline' = 0 /\ spent' > 0 => Cost * spent' <= Rate * (real' - markTime')
      BY <1>13, <2>0, <2>5, <3>1, <3>2 DEF BucketKept
    <3>4. ASSUME steady
          PROVE  /\ Room' >= 0
                 /\ deadline' = 0 => Room' + Rate * (now' - last') >= Capacity
      <4>1. now' = real' /\ now = real
        BY <1>5, <2>0, <3>4
      <4>2. /\ Rate * (now - last) <= Rate * (now' - last)
            /\ Rate * (now - last) \in Int /\ Rate * (now' - last) \in Int
        BY <1>1, <1>13, <2>0, <2>1, <4>1, RefillGrows
      <4>3. /\ Room >= 0
            /\ deadline = 0 => Room + Rate * (now - last) >= Capacity
        BY <3>4 DEF BucketKept
      <4>4. deadline = 0 => Room + Rate * (now' - last) >= Capacity
        BY <1>1, <4>2, <4>3
      <4> QED
        BY <1>13, <2>5, <4>3, <4>4
    <3>5. /\ deadline' = Never => Rate = 0
          /\ deadline' > 0 => Rate > 0 /\ deadline' = last' + CeilSeconds(2 * Capacity, Rate)
      BY <1>13, <2>0, <2>5 DEF BucketKept
    <3> HIDE DEF BucketBounds
    <3> QED
      BY <1>13, <2>0, <2>3, <2>4, <3>3, <3>4, <3>5 DEF BucketKept
  <2>6. CASE deadline' = 0 /\ deadline # 0 /\ ~Alive(deadline)
    <3>1. /\ Rate * (now - last) >= 2 * Capacity
          /\ Rate * (real - lastAdmit) >= 2 * Capacity
          /\ Rate > 0
      BY <2>6, BucketExpired
    <3>2. /\ Rate * (real' - markTime) = Rate * (real' - real)
                                          + Rate * (real - lastAdmit) + Rate * (lastAdmit - markTime)
          /\ Rate * (real' - real) \in Int /\ Rate * (real' - real) >= 0
          /\ Rate * (real - lastAdmit) \in Int /\ Rate * (lastAdmit - markTime) \in Int
      <4>1. Rate * (real' - markTime) = Rate * (lastAdmit - markTime) + Rate * (real' - lastAdmit)
        BY <1>1, <2>1, RefillAdds
      <4>2. Rate * (real' - lastAdmit) = Rate * (real - lastAdmit) + Rate * (real' - real)
        BY <1>1, <2>1, RefillAdds
      <4>3. Rate * (real' - real) \in Nat
        BY <1>1, <2>1, RefillNonNegative, BucketAssumption
      <4>4. Rate * (real - lastAdmit) \in Int /\ Rate * (lastAdmit - markTime) \in Int
        BY <1>1, RefillAdds
      <4> QED
        BY <4>1, <4>2, <4>3, <4>4
    <3>3. Cost * spent \in Int
      BY <1>1
    <3>4. spent > 0 => Cost * spent <= Rate * (real' - markTime)
      BY <1>5, <3>1, <3>2, <3>3
    <3>5. ASSUME steady
          PROVE  Room' >= 0 /\ Room' + Rate * (now' - last') >= Capacity
      <4>1. now' = real' /\ now = real
        BY <1>5, <2>0, <3>5
      <4>2. /\ Rate * (now - last) <= Rate * (now' - last)
            /\ Rate * (now - last) \in Int /\ Rate * (now' - last) \in Int
        BY <1>1, <1>13, <2>0, <2>1, <4>1, RefillGrows
      <4>3. Room >= 0
        BY <3>5 DEF BucketKept
      <4>4. Room + Rate * (now' - last) >= Capacity
        BY <1>1, <3>1, <4>2, <4>3
      <4> QED
        BY <1>13, <4>3, <4>4
    <3> HIDE DEF BucketBounds
    <3>6. deadline' # Never /\ ~(deadline' > 0)
      BY <2>6 DEF Never
    <3> QED
      BY <1>13, <2>0, <2>3, <2>4, <2>6, <3>4, <3>5, <3>6 DEF BucketKept
  <2> QED
    BY <1>13, <2>0, <2>5, <2>6
<1>20. ClockTypeOK
  BY <1>1, <1>2 DEF ClockTypeOK
<1>14. ASSUME Bucket!Tick
       PROVE  BucketKept'
  <2>1. /\ Room' = Room /\ last' = last /\ spent' = spent
        /\ lastAdmit' = lastAdmit /\ markTime' = markTime /\ deadline' = deadline
    BY <1>14 DEF Bucket!Tick, Bucket!keys, Bucket!observer
  <2>2. ClockTick \/ SetBack
    BY <1>14 DEF Bucket!Tick, Bucket!ClockTick, Bucket!SetBack, ClockTick, SetBack
  <2>3. TimePasses /\ Began(last, now, real) <= Began(last, now', real')
    BY <1>1, <1>5, <1>20, <2>2, ClockMoves
  <2> QED
    BY <1>13, <2>1, <2>3
<1>15. ASSUME Bucket!Expire
       PROVE  BucketKept'
  <2>1. /\ Room' = Room /\ last' = last /\ spent' = spent
        /\ lastAdmit' = lastAdmit /\ markTime' = markTime
        /\ UNCHANGED time
        /\ deadline' = 0 /\ ~Alive(deadline)
    BY <1>15, BucketClock
    DEF Bucket!Expire, Bucket!Deleted, Bucket!observer, Bucket!time, time
  <2>2. TimePasses /\ Began(last, now, real) <= Began(last, now', real')
    BY <1>1, <1>5, <1>20, <2>1, ClockMoves
  <2> QED
    BY <1>13, <2>1, <2>2
<1>16. ASSUME Bucket!Observe
       PROVE  BucketKept'
  <2>1. /\ UNCHANGED <<Room, last, lastAdmit, deadline, now, real, steady>>
        /\ markTime' = real /\ spent' = 0
    BY <1>16 DEF Bucket!Observe, Bucket!keys, Bucket!time
  <2>2. Bucket!TypeOK'
    BY <1>1, <1>2, <2>1 DEF BucketKept, Bucket!TypeOK, Bucket!ClockTypeOK
  <2>3. BucketBounds(Room, now, real, last, 0, lastAdmit, real)
    BY <1>1 DEF BucketKept, BucketBounds
  <2>4. BucketBounds(Room', now', real', last', spent', lastAdmit', markTime')
    BY <2>1, <2>3
  <2> HIDE DEF BucketBounds
  <2> QED
    BY <2>1, <2>2, <2>4 DEF BucketKept
<1>17. ASSUME UNCHANGED Bucket!vars
       PROVE  BucketKept'
  <2>1. /\ UNCHANGED <<Room, last, lastAdmit, deadline, now, real, steady, markTime, spent>>
    BY <1>17 DEF Bucket!vars, Bucket!keys, Bucket!time, Bucket!observer
  <2>2. Bucket!TypeOK'
    BY <2>1 DEF BucketKept, Bucket!TypeOK, Bucket!ClockTypeOK
  <2>3. BucketBounds(Room', now', real', last', spent', lastAdmit', markTime')
    BY <2>1 DEF BucketKept
  <2> HIDE DEF BucketBounds
  <2> QED
    BY <2>1, <2>2, <2>3 DEF BucketKept
<1> QED
  BY <1>10, <1>11, <1>12, <1>14, <1>15, <1>16, <1>17 DEF Bucket!Next, Bucket!AllowRequest

(* What the account means for admissions and for debts. *)
LEMMA BucketKeeps ==
    ASSUME BucketKept
    PROVE  Bucket!AdmissionBound /\ Bucket!DebtIsBounded
<1> USE BucketAssumption
<1>1. /\ lastAdmit \in Int /\ real \in Int /\ markTime \in Int /\ spent \in Nat
      /\ lastAdmit <= real /\ markTime <= real
  BY BucketTypes DEF BucketKept
<1>2. spent > 0 => Cost * spent <= Capacity + Rate * (lastAdmit - markTime)
  BY DEF BucketKept, BucketBounds
<1>3. /\ Rate * (lastAdmit - markTime) \in Int /\ Rate * (real - markTime) \in Int
      /\ Rate * (lastAdmit - markTime) <= Rate * (real - markTime)
      /\ Rate * (real - markTime) \in Nat
  BY <1>1, RefillGrows, RefillNonNegative
<1>4. Cost * 0 = 0 /\ Cost * spent \in Int
  BY <1>1
<1>5. Cost * spent <= Capacity + Rate * (real - markTime)
  <2>1. CASE spent = 0
    BY <1>3, <1>4, <2>1
  <2>2. CASE spent > 0
    BY <1>2, <1>3, <1>4, <2>2
  <2> QED
    BY <1>1, <2>1, <2>2
<1> QED
  BY <1>5, BucketRefilled DEF Bucket!AdmissionBound, Bucket!DebtIsBounded

(* The keys of a token bucket are those of the bucket by its room. *)
LEMMA TokenIsBucket ==
    ASSUME algorithm = "TokenBucket"
    PROVE  /\ Token!TypeOK <=> Bucket!TypeOK
           /\ Token!Refilled = Bucket!Refilled
           /\ Token!AdmissionBound <=> Bucket!AdmissionBound
           /\ Token!DebtIsBounded <=> Bucket!DebtIsBounded
<1>1. Room = tokens
  BY DEF Room
<1>2. Token!Refilled = Bucket!Refilled
  BY <1>1
  DEF Token!Refilled, Bucket!Refilled, Token!Live, Bucket!Live, Token!Alive,
      Bucket!Alive, Token!Never, Bucket!Never, Token!AtMost, Bucket!AtMost,
      Token!Elapsed, Bucket!Elapsed
<1>3. Token!TypeOK <=> Bucket!TypeOK
  BY <1>1
  DEF Token!TypeOK, Bucket!TypeOK, Token!ClockTypeOK, Bucket!ClockTypeOK,
      Token!Never, Bucket!Never
<1>4. Token!AdmissionBound <=> Bucket!AdmissionBound
  BY DEF Token!AdmissionBound, Bucket!AdmissionBound
<1>5. Token!DebtIsBounded <=> Bucket!DebtIsBounded
  BY <1>2 DEF Token!DebtIsBounded, Bucket!DebtIsBounded, Token!AtMost, Bucket!AtMost
<1> QED
  BY <1>2, <1>3, <1>4, <1>5

(* And so are its steps. *)
LEMMA TokenSteps ==
    ASSUME algorithm = "TokenBucket", algorithm' = algorithm, [Token!Next]_(Token!vars)
    PROVE  [Bucket!Next]_(Bucket!vars)
<1> DEFINE same == UNCHANGED Bucket!vars
<1>1. Room = tokens /\ Room' = tokens'
  BY DEF Room
<1>2. Token!Refilled = Bucket!Refilled
  BY TokenIsBucket
<1>3. ASSUME NEW n, NEW m, n = m, Token!Write(n)
      PROVE  Bucket!Write(m)
  BY <1>1, <1>2, <1>3
  DEF Token!Write, Bucket!Write, Token!Expiry, Bucket!Expiry, Token!CeilSeconds,
      Bucket!CeilSeconds, Token!Never, Bucket!Never
<1>4. Token!Admit => Bucket!Admit
  BY <1>2, <1>3 DEF Token!Admit, Bucket!Admit, Token!time, Bucket!time
<1>5. Token!Deny => Bucket!Deny
  BY <1>2, <1>3
  DEF Token!Deny, Bucket!Deny, Token!time, Bucket!time, Token!observer, Bucket!observer
<1>6. Token!Reset => Bucket!Reset
  BY <1>3 DEF Token!Reset, Bucket!Reset, Token!time, Bucket!time
<1>7. Token!Tick => Bucket!Tick
  BY <1>1
  DEF Token!Tick, Bucket!Tick, Token!ClockTick, Bucket!ClockTick, Token!SetBack,
      Bucket!SetBack, Token!keys, Bucket!keys, Token!observer, Bucket!observer
<1>8. Token!Expire => Bucket!Expire
  BY <1>1
  DEF Token!Expire, Bucket!Expire, Token!Deleted, Bucket!Deleted, Token!Alive, Bucket!Alive,
      Token!Never, Bucket!Never, Token!time, Bucket!time, Token!observer, Bucket!observer
<1>9. Token!Observe => Bucket!Observe
  BY <1>1 DEF Token!Observe, Bucket!Observe, Token!keys, Bucket!keys, Token!time, Bucket!time
<1>10. UNCHANGED Token!vars => same
  BY <1>1
  DEF Token!vars, Bucket!vars, Token!keys, Bucket!keys, Token!time, Bucket!time, Token!observer,
      Bucket!observer
<1> HIDE DEF same
<1>11. Token!Next \/ UNCHANGED Token!vars => Bucket!Next \/ same
  BY <1>4, <1>5, <1>6, <1>7, <1>8, <1>9, <1>10
  DEF Token!Next, Token!AllowRequest, Bucket!Next, Bucket!AllowRequest
<1> QED
  BY <1>11 DEF same

(* With a steady clock every step is one of the local bucket, or none. *)
LEMMA TokenLocal ==
    ASSUME BucketKept, algorithm = "TokenBucket", steady, [Token!Next]_(Token!vars)
    PROVE  [Token!Local!Next]_(Token!Local!vars)
<1> DEFINE same == UNCHANGED Token!Local!vars
<1>1. now = real /\ real \in 0..MaxTime
  BY DEF BucketKept, Bucket!TypeOK, Bucket!ClockTypeOK
<1>2. Token!Refilled = Token!Local!Refilled
  <2>1. Room = tokens
    BY DEF Room
  <2>2. Bucket!Refilled = Bucket!AtMost(Capacity, Room + Rate * (now - last))
    BY BucketRefilled
  <2> QED
    BY <2>1, <2>2, TokenIsBucket DEF Token!Local!Refilled, Token!Local!AtMost, Bucket!AtMost
<1>3. Token!Admit => Token!Local!Admit
  BY <1>1, <1>2 DEF Token!Admit, Token!Local!Admit, Token!Write, Token!time
<1>4. Token!Deny => Token!Local!Deny
  BY <1>1, <1>2
  DEF Token!Deny, Token!Local!Deny, Token!Write, Token!time, Token!observer,
      Token!Local!observer
<1>5. Token!Reset => Token!Local!Reset
  BY <1>1 DEF Token!Reset, Token!Local!Reset, Token!Write, Token!time
<1>6. Token!Tick => Token!Local!Tick
  BY <1>1
  DEF Token!Tick, Token!ClockTick, Token!SetBack, Token!Local!Tick, Token!keys,
      Token!observer, Token!Local!bucket, Token!Local!observer
<1>7. Token!Expire => same
  BY DEF Token!Expire, Token!observer, Token!time, Token!Local!vars, Token!Local!bucket,
         Token!Local!observer
<1>8. Token!Observe => Token!Local!Observe
  BY <1>1
  DEF Token!Observe, Token!Local!Observe, Token!keys, Token!time, Token!Local!bucket
<1>9. UNCHANGED Token!vars => same
  BY DEF Token!vars, Token!keys, Token!observer, Token!time, Token!Local!vars,
         Token!Local!bucket, Token!Local!observer
<1> HIDE DEF same
<1>10. Token!Local!Next \/ same
  BY <1>3, <1>4, <1>5, <1>6, <1>7, <1>8, <1>9
  DEF Token!Next, Token!AllowRequest, Token!Local!Next, Token!Local!AllowRequest
<1> QED
  BY <1>10 DEF same

-----------------------------------------------------------------------------
(* A bucket without refill: its keys never expire, so nothing is given     *)
(* back but by a reset.                                                    *)
DryKept ==
    /\ Dry!TypeOK
    /\ tokens >= 0
    /\ deadline \in {0, Never}
    /\ deadline = 0 => spent = 0 /\ tokens = Capacity
    /\ Cost * spent + tokens <= Capacity
    /\ steady => now = real

(* Nothing is refilled, and nothing expires. *)
LEMMA DryReads ==
    ASSUME DryKept
    PROVE  /\ tokens \in 0..Capacity /\ spent \in Nat
           /\ Dry!Refilled = tokens /\ Dry!Expiry = Never
           /\ deadline = 0 => ~Dry!Alive(deadline)
           /\ deadline = Never => Dry!Alive(deadline)
<1> USE BucketAssumption
<1>1. /\ tokens \in 0..Capacity /\ spent \in Nat /\ now \in Int /\ last \in Int /\ now >= 0
      /\ deadline \in {0, Never}
      /\ deadline = 0 => tokens = Capacity
  BY DEF DryKept, Dry!TypeOK, Dry!ClockTypeOK
<1>2. 0 * (now - last) = 0 /\ 0 * 0 = 0
  BY <1>1
<1>3. Dry!Refilled = tokens
  BY <1>1, <1>2
  DEF Dry!Refilled, Dry!AtMost, Dry!Elapsed, Dry!Live, Dry!Alive, Dry!Never, Never
<1> QED
  BY <1>1, <1>3 DEF Dry!Expiry, Dry!Alive, Dry!Never, Never

(* Nothing is spent yet. *)
LEMMA DryInit ==
    ASSUME Dry!Init
    PROVE  DryKept
<1> USE BucketAssumption, ClockAssumption
<1>1. Cost * 0 = 0
  OBVIOUS
<1> QED
  BY <1>1
  DEF Dry!Init, Dry!ClockInit, DryKept, Dry!TypeOK, Dry!ClockTypeOK, Dry!Never, Never

(* Every step keeps what was spent and what is left. *)
LEMMA DryStep ==
    ASSUME DryKept, [Dry!Next]_(Dry!vars)
    PROVE  DryKept'
<1> USE BucketAssumption
<1>1. /\ tokens \in 0..Capacity /\ spent \in Nat
      /\ Dry!Refilled = tokens /\ Dry!Expiry = Never
      /\ deadline = 0 => ~Dry!Alive(deadline)
      /\ deadline = Never => Dry!Alive(deadline)
  BY DryReads
<1>2. /\ real \in 0..MaxTime /\ now \in 0..real /\ steady \in BOOLEAN /\ last \in 0..real
      /\ markTime \in 0..real /\ lastAdmit \in 0..real
      /\ deadline \in {0, Never} /\ (deadline = 0 => spent = 0 /\ tokens = Capacity)
      /\ Cost * spent + tokens <= Capacity
      /\ steady => now = real
  BY DEF DryKept, Dry!TypeOK, Dry!ClockTypeOK
<1>3. Cost * 0 = 0 /\ Cost * (spent + 1) = Cost * spent + Cost /\ Cost * spent \in Int
  BY <1>1
<1> HIDE DEF DryKept
<1> DEFINE typed ==
      /\ real' \in 0..MaxTime /\ now' \in 0..real' /\ steady' \in BOOLEAN /\ last' \in 0..real'
      /\ markTime' \in 0..real' /\ lastAdmit' \in 0..real'
      /\ deadline' \in {0, Never} /\ (deadline' = 0 => spent' = 0 /\ tokens' = Capacity)
      /\ tokens' \in 0..Capacity /\ spent' \in Nat
      /\ Cost * spent' + tokens' <= Capacity
      /\ steady' => now' = real'
<1>4. ASSUME typed
      PROVE  DryKept'
  <2>1. tokens' \in Int /\ tokens' >= 0 /\ tokens' <= Capacity
    BY <1>4
  <2>2. deadline' \in Int /\ deadline' >= -1
    BY <1>4 DEF Never
  <2>3. Dry!TypeOK'
    BY <1>4, <2>1, <2>2 DEF Dry!TypeOK, Dry!ClockTypeOK, Dry!Never
  <2> QED
    BY <1>4, <2>1, <2>3 DEF DryKept
<1> HIDE DEF typed
<1>5. ASSUME Dry!Admit
      PROVE  typed
  <2>1. /\ tokens >= Cost /\ tokens' = tokens - Cost /\ last' = now /\ deadline' = Never
        /\ spent' = spent + 1 /\ lastAdmit' = real /\ markTime' = markTime
        /\ now' = now /\ real' = real /\ steady' = steady
    BY <1>1, <1>5 DEF Dry!Admit, Dry!Write, Dry!time
  <2>2. Cost * spent' + tokens' <= Capacity
    BY <1>1, <1>2, <1>3, <2>1
  <2>3. real \in 0..real /\ now \in 0..real /\ tokens' \in 0..Capacity /\ spent' \in Nat
    BY <1>1, <1>2, <2>1
  <2> QED
    BY <1>2, <2>1, <2>2, <2>3 DEF typed, Never
<1>6. ASSUME Dry!Deny
      PROVE  typed
  BY <1>1, <1>2, <1>6 DEF Dry!Deny, Dry!Write, Dry!time, Dry!observer, typed, Never
<1>7. ASSUME Dry!Reset
      PROVE  typed
  BY <1>1, <1>2, <1>3, <1>7 DEF Dry!Reset, Dry!Write, Dry!time, typed, Never
<1>8. ASSUME Dry!Tick
      PROVE  typed
  <2>1. UNCHANGED <<tokens, last, deadline, spent, lastAdmit, markTime>>
    BY <1>8 DEF Dry!Tick, Dry!keys, Dry!observer
  <2>2. /\ real' \in 0..MaxTime /\ now' \in 0..real' /\ steady' = steady /\ real' >= real
        /\ steady => now' = real'
    <3>1. ClockTypeOK
      BY <1>2 DEF ClockTypeOK
    <3>2. ClockTick \/ SetBack
      BY <1>8 DEF Dry!Tick, Dry!ClockTick, Dry!SetBack, ClockTick, SetBack
    <3>3. TimePasses /\ ClockTypeOK'
      BY <1>2, <3>1, <3>2, ClockMoves
    <3> QED
      BY <1>2, <3>3 DEF TimePasses, ClockTypeOK
  <2>3. last \in 0..real' /\ markTime \in 0..real' /\ lastAdmit \in 0..real'
    BY <1>2, <2>2
  <2> QED
    BY <1>1, <1>2, <2>1, <2>2, <2>3 DEF typed
<1>9. ASSUME Dry!Expire
      PROVE  typed
  <2>1. deadline = 0 /\ deadline' = 0
    BY <1>1, <1>2, <1>9 DEF Dry!Expire, Dry!Deleted
  <2> QED
    BY <1>1, <1>2, <1>9, <2>1 DEF Dry!Expire, Dry!observer, Dry!time, typed
<1>10. ASSUME Dry!Observe
       PROVE  typed
  BY <1>1, <1>2, <1>3, <1>10 DEF Dry!Observe, Dry!keys, Dry!time, typed
<1>11. ASSUME UNCHANGED Dry!vars
       PROVE  typed
  BY <1>1, <1>2, <1>11 DEF Dry!vars, Dry!keys, Dry!time, Dry!observer, typed
<1> QED
  BY <1>4, <1>5, <1>6, <1>7, <1>8, <1>9, <1>10, <1>11 DEF Dry!Next, Dry!AllowRequest

(* So a bucket without refill gives out its capacity once. *)
LEMMA DryKeeps ==
    ASSUME DryKept
    PROVE  Dry!AdmissionBound
<1> USE BucketAssumption
<1>1. /\ tokens \in Int /\ tokens >= 0 /\ spent \in Nat /\ Cost * spent + tokens <= Capacity
      /\ real \in Int /\ markTime \in Int
  BY DEF DryKept, Dry!TypeOK, Dry!ClockTypeOK
<1>2. 0 * (real - markTime) = 0 /\ Cost * spent \in Int
  BY <1>1
<1> QED
  BY <1>1, <1>2 DEF Dry!AdmissionBound

(* A steady clock: the scripts are the local bucket. *)
LEMMA DryLocal ==
    ASSUME DryKept, steady, [Dry!Next]_(Dry!vars)
    PROVE  [Dry!Local!Next]_(Dry!Local!vars)
<1> USE BucketAssumption
<1> DEFINE same == UNCHANGED Dry!Local!vars
<1>1. now = real /\ real \in 0..MaxTime /\ last \in 0..real
  BY DEF DryKept, Dry!TypeOK, Dry!ClockTypeOK
<1>2. Dry!Refilled = Dry!Local!Refilled
  <2>1. tokens \in 0..Capacity /\ Dry!Refilled = tokens
    BY DryReads
  <2>2. 0 * (now - last) = 0
    BY <1>1
  <2> QED
    BY <2>1, <2>2 DEF Dry!Local!Refilled, Dry!Local!AtMost
<1>3. Dry!Admit => Dry!Local!Admit
  BY <1>1, <1>2 DEF Dry!Admit, Dry!Local!Admit, Dry!Write, Dry!time
<1>4. Dry!Deny => Dry!Local!Deny
  BY <1>1, <1>2
  DEF Dry!Deny, Dry!Local!Deny, Dry!Write, Dry!time, Dry!observer, Dry!Local!observer
<1>5. Dry!Reset => Dry!Local!Reset
  BY <1>1 DEF Dry!Reset, Dry!Local!Reset, Dry!Write, Dry!time
<1>6. Dry!Tick => Dry!Local!Tick
  BY <1>1
  DEF Dry!Tick, Dry!ClockTick, Dry!SetBack, Dry!Local!Tick, Dry!keys, Dry!observer,
      Dry!Local!bucket, Dry!Local!observer
<1>7. Dry!Expire => same
  BY DEF Dry!Expire, Dry!observer, Dry!time, Dry!Local!vars, Dry!Local!bucket,
         Dry!Local!observer
<1>8. Dry!Observe => Dry!Local!Observe
  BY <1>1 DEF Dry!Observe, Dry!Local!Observe, Dry!keys, Dry!time, Dry!Local!bucket
<1>9. UNCHANGED Dry!vars => same
  BY DEF Dry!vars, Dry!keys, Dry!observer, Dry!time, Dry!Local!vars, Dry!Local!bucket,
         Dry!Local!observer
<1> HIDE DEF same
<1>10. Dry!Local!Next \/ same
  BY <1>3, <1>4, <1>5, <1>6, <1>7, <1>8, <1>9
  DEF Dry!Next, Dry!AllowRequest, Dry!Local!Next, Dry!Local!AllowRequest
<1> QED
  BY <1>10 DEF same

-----------------------------------------------------------------------------
(* Leaky bucket.  The queue is what the token bucket has not left, so only *)
(* the types are needed beside the account of its room.                    *)
LeakyKept == Leaky!TypeOK /\ (steady => now = real)

(* What a script reads of the queue, and the token bucket of what is free. *)
LEMMA LeakyReads ==
    ASSUME LeakyKept
    PROVE  /\ Leaky!Leaked \in Nat
           /\ Leaky!TB!Refilled = Capacity - Leaky!Leaked
<1> USE BucketAssumption
<1>1. queue \in Nat /\ now \in Int /\ last \in Int
  BY DEF LeakyKept, Leaky!TypeOK, Leaky!ClockTypeOK
<1>2. Rate * (now - last) \in Int /\ Rate * 0 = 0
  BY <1>1
<1> DEFINE l == Rate * (now - last)
<1>3. Leaky!Leaked = IF Leaky!Alive(deadline) THEN IF queue - l >= 0 THEN queue - l ELSE 0
                                              ELSE 0
  BY DEF Leaky!Leaked, Leaky!AtLeastZero
<1>4. Leaky!TB!Refilled = IF Leaky!Alive(deadline)
        THEN IF Capacity <= (Capacity - queue) + l THEN Capacity ELSE (Capacity - queue) + l
        ELSE Capacity
  <2>1. Leaky!TB!Live <=> Leaky!Alive(deadline)
    BY DEF Leaky!TB!Live, Leaky!TB!Alive, Leaky!Alive, Leaky!TB!Never, Leaky!Never
  <2> QED
    BY <1>2, <2>1 DEF Leaky!TB!Refilled, Leaky!TB!AtMost, Leaky!TB!Elapsed
<1> HIDE DEF l
<1>5. l \in Int
  BY <1>2 DEF l
<1> QED
  BY <1>1, <1>3, <1>4, <1>5

(* The queue is empty at first. *)
LEMMA LeakyInit ==
    ASSUME Leaky!Init
    PROVE  LeakyKept
  BY ClockAssumption
  DEF Leaky!Init, Leaky!ClockInit, LeakyKept, Leaky!TypeOK, Leaky!ClockTypeOK,
      Leaky!Never

(* Every step keeps the types. *)
LEMMA LeakyStep ==
    ASSUME LeakyKept, [Leaky!Next]_(Leaky!vars)
    PROVE  LeakyKept'
<1> USE BucketAssumption
<1>1. /\ ClockTypeOK /\ (steady => now = real)
      /\ now \in Int /\ real \in Int /\ now >= 0 /\ now <= real
      /\ now \in 0..real /\ real \in 0..real
      /\ queue \in Nat /\ last \in 0..real /\ deadline \in Int /\ deadline >= -1
      /\ markTime \in 0..real /\ spent \in Nat /\ lastAdmit \in 0..real
  BY DEF LeakyKept, Leaky!TypeOK, Leaky!ClockTypeOK, ClockTypeOK, Leaky!Never
<1>2. Leaky!Leaked \in Nat
  BY LeakyReads
<1>3. Rate > 0 => CeilSeconds(2 * Capacity, Rate) \in Nat
  BY LongEnough
<1> HIDE DEF LeakyKept
<1>4. ASSUME ClockTypeOK', steady' => now' = real',
             queue' \in Nat, last' \in 0..real', deadline' \in Int, deadline' >= -1,
             markTime' \in 0..real', spent' \in Nat, lastAdmit' \in 0..real'
      PROVE  LeakyKept'
  BY <1>4 DEF LeakyKept, Leaky!TypeOK, Leaky!ClockTypeOK, ClockTypeOK, Leaky!Never
<1>5. ASSUME NEW n \in Nat, Leaky!Write(n)
      PROVE  queue' \in Nat /\ last' = now /\ deadline' \in Int /\ deadline' >= -1
  <2>1. /\ queue' = n /\ last' = now
        /\ deadline' = IF Rate > 0 THEN now + CeilSeconds(2 * Capacity, Rate) ELSE -1
    BY <1>5 DEF Leaky!Write, Leaky!Never, Leaky!CeilSeconds, CeilSeconds
  <2> QED
    BY <1>1, <1>3, <2>1
<1>6. UNCHANGED <<now, real, steady>> => ClockTypeOK' /\ (steady' => now' = real')
  BY <1>1 DEF ClockTypeOK
<1>7. ASSUME Leaky!Admit
      PROVE  LeakyKept'
  <2>1. /\ Leaky!Write(Leaky!Leaked + Cost) /\ spent' = spent + 1 /\ lastAdmit' = real
        /\ markTime' = markTime /\ UNCHANGED <<now, real, steady>>
    BY <1>7 DEF Leaky!Admit, Leaky!time
  <2>2. Leaky!Leaked + Cost \in Nat /\ spent + 1 \in Nat
    BY <1>1, <1>2
  <2> QED
    BY <1>1, <1>4, <1>5, <1>6, <2>1, <2>2
<1>8. ASSUME Leaky!Deny
      PROVE  LeakyKept'
  <2>1. /\ Leaky!Write(Leaky!Leaked) /\ spent' = spent /\ lastAdmit' = lastAdmit
        /\ markTime' = markTime /\ UNCHANGED <<now, real, steady>>
    BY <1>8 DEF Leaky!Deny, Leaky!time, Leaky!observer
  <2> QED
    BY <1>1, <1>2, <1>4, <1>5, <1>6, <2>1
<1>9. ASSUME Leaky!Reset
      PROVE  LeakyKept'
  <2>1. /\ Leaky!Write(0) /\ spent' = 0 /\ lastAdmit' = real
        /\ markTime' = real /\ UNCHANGED <<now, real, steady>>
    BY <1>9 DEF Leaky!Reset, Leaky!time
  <2> QED
    BY <1>1, <1>4, <1>5, <1>6, <2>1
<1>10. ASSUME Leaky!Tick
       PROVE  LeakyKept'
  <2>1. /\ UNCHANGED <<queue, last, deadline, spent, lastAdmit, markTime>>
        /\ ClockTick \/ SetBack
    BY <1>10
    DEF Leaky!Tick, Leaky!keys, Leaky!observer, Leaky!ClockTick, Leaky!SetBack,
        ClockTick, SetBack
  <2>2. TimePasses /\ ClockTypeOK' /\ (steady' => now' = real')
    BY <1>1, <2>1, ClockMoves
  <2>3. last \in 0..real' /\ markTime \in 0..real' /\ lastAdmit \in 0..real'
    BY <1>1, <2>2 DEF TimePasses, ClockTypeOK
  <2> QED
    BY <1>1, <1>4, <2>1, <2>2, <2>3
<1>11. ASSUME Leaky!Expire
       PROVE  LeakyKept'
  <2>1. /\ UNCHANGED <<queue, last, spent, lastAdmit, markTime, now, real, steady>>
        /\ deadline' = 0
    BY <1>11 DEF Leaky!Expire, Leaky!observer, Leaky!time, Leaky!Deleted
  <2> QED
    BY <1>1, <1>4, <1>6, <2>1
<1>12. ASSUME Leaky!Observe
       PROVE  LeakyKept'
  <2>1. /\ UNCHANGED <<queue, last, deadline, lastAdmit, now, real, steady>>
        /\ markTime' = real /\ spent' = 0
    BY <1>12 DEF Leaky!Observe, Leaky!keys, Leaky!time
  <2> QED
    BY <1>1, <1>4, <1>6, <2>1
<1>13. ASSUME UNCHANGED Leaky!vars
       PROVE  LeakyKept'
  <2>1. UNCHANGED <<queue, last, deadline, spent, lastAdmit, markTime, now, real, steady>>
    BY <1>13 DEF Leaky!vars, Leaky!keys, Leaky!time, Leaky!observer
  <2> QED
    BY <1>1, <1>4, <1>6, <2>1
<1> QED
  BY <1>7, <1>8, <1>9, <1>10, <1>11, <1>12, <1>13 DEF Leaky!Next, Leaky!AllowRequest

(* Whatever the clock does, free room is tokens. *)
LEMMA LeakyToken ==
    ASSUME LeakyKept, [Leaky!Next]_(Leaky!vars)
    PROVE  [Leaky!TB!Next]_(Leaky!TB!vars)
<1> USE BucketAssumption
<1> DEFINE same == UNCHANGED Leaky!TB!vars
<1>1. Leaky!Leaked \in Nat /\ Leaky!TB!Refilled = Capacity - Leaky!Leaked
  BY LeakyReads
<1>2. ASSUME NEW n \in Nat, Leaky!Write(n)
      PROVE  Leaky!TB!Write(Capacity - n)
  BY <1>2
  DEF Leaky!Write, Leaky!TB!Write, Leaky!TB!Expiry, Leaky!Never, Leaky!TB!Never,
      Leaky!CeilSeconds, Leaky!TB!CeilSeconds
<1>3. ASSUME Leaky!Admit
      PROVE  Leaky!TB!Admit
  <2>1. /\ Leaky!Leaked + Cost <= Capacity /\ Leaky!Write(Leaky!Leaked + Cost)
        /\ spent' = spent + 1 /\ lastAdmit' = real
        /\ UNCHANGED <<Leaky!TB!time, markTime>>
    BY <1>3 DEF Leaky!Admit, Leaky!time, Leaky!TB!time
  <2>2. /\ Leaky!Leaked + Cost \in Nat /\ Leaky!TB!Refilled >= Cost
        /\ Capacity - (Leaky!Leaked + Cost) = Leaky!TB!Refilled - Cost
    BY <1>1, <2>1
  <2>3. Leaky!TB!Write(Leaky!TB!Refilled - Cost)
    BY <1>2, <2>1, <2>2
  <2> QED
    BY <2>1, <2>2, <2>3 DEF Leaky!TB!Admit
<1>4. ASSUME Leaky!Deny
      PROVE  Leaky!TB!Deny
  <2>1. /\ Leaky!Leaked + Cost > Capacity /\ Leaky!Write(Leaky!Leaked)
        /\ UNCHANGED <<Leaky!TB!time, Leaky!TB!observer>>
    BY <1>4 DEF Leaky!Deny, Leaky!time, Leaky!TB!time, Leaky!observer, Leaky!TB!observer
  <2>2. Leaky!TB!Refilled < Cost
    BY <1>1, <2>1
  <2>3. Leaky!TB!Write(Leaky!TB!Refilled)
    BY <1>1, <1>2, <2>1
  <2> QED
    BY <2>1, <2>2, <2>3 DEF Leaky!TB!Deny
<1>5. ASSUME Leaky!Reset
      PROVE  Leaky!TB!Reset
  <2>1. Leaky!TB!Write(Capacity - 0) /\ Capacity - 0 = Capacity
    BY <1>2, <1>5 DEF Leaky!Reset
  <2> QED
    BY <1>5, <2>1 DEF Leaky!Reset, Leaky!TB!Reset, Leaky!time, Leaky!TB!time
<1>6. Leaky!Tick => Leaky!TB!Tick
  BY DEF Leaky!Tick, Leaky!TB!Tick, Leaky!ClockTick, Leaky!TB!ClockTick, Leaky!SetBack,
         Leaky!TB!SetBack, Leaky!keys, Leaky!TB!keys, Leaky!observer, Leaky!TB!observer
<1>7. Leaky!Expire => Leaky!TB!Expire
  BY DEF Leaky!Expire, Leaky!TB!Expire, Leaky!Deleted, Leaky!TB!Deleted, Leaky!Alive,
         Leaky!TB!Alive, Leaky!Never, Leaky!TB!Never, Leaky!time, Leaky!TB!time,
         Leaky!observer, Leaky!TB!observer
<1>8. Leaky!Observe => Leaky!TB!Observe
  BY DEF Leaky!Observe, Leaky!TB!Observe, Leaky!keys, Leaky!TB!keys, Leaky!time,
         Leaky!TB!time
<1>9. UNCHANGED Leaky!vars => same
  BY DEF Leaky!vars, Leaky!TB!vars, Leaky!keys, Leaky!TB!keys, Leaky!time, Leaky!TB!time,
         Leaky!observer, Leaky!TB!observer
<1> HIDE DEF same
<1>10. Leaky!TB!Next \/ same
  BY <1>3, <1>4, <1>5, <1>6, <1>7, <1>8, <1>9
  DEF Leaky!Next, Leaky!AllowRequest, Leaky!TB!Next, Leaky!TB!AllowRequest
<1> QED
  BY <1>10 DEF same

(* What is free in a leaky bucket is the room, and its steps are those of  *)
(* the bucket by its room.                                                 *)
LEMMA LeakyIsBucket ==
    ASSUME algorithm = "LeakyBucket"
    PROVE  /\ Leaky!TB!Refilled = Bucket!Refilled
           /\ Leaky!TB!AdmissionBound <=> Bucket!AdmissionBound
           /\ Leaky!TB!DebtIsBounded <=> Bucket!DebtIsBounded
<1>1. Room = Capacity - queue
  BY DEF Room
<1>2. Leaky!TB!Refilled = Bucket!Refilled
  BY <1>1
  DEF Leaky!TB!Refilled, Bucket!Refilled, Leaky!TB!Live, Bucket!Live, Leaky!TB!Alive,
      Bucket!Alive, Leaky!TB!Never, Bucket!Never, Leaky!TB!AtMost, Bucket!AtMost,
      Leaky!TB!Elapsed, Bucket!Elapsed
<1>3. Leaky!TB!AdmissionBound <=> Bucket!AdmissionBound
  BY DEF Leaky!TB!AdmissionBound, Bucket!AdmissionBound
<1>4. Leaky!TB!DebtIsBounded <=> Bucket!DebtIsBounded
  BY <1>2
  DEF Leaky!TB!DebtIsBounded, Bucket!DebtIsBounded, Leaky!TB!AtMost, Bucket!AtMost
<1> QED
  BY <1>2, <1>3, <1>4

LEMMA LeakySteps ==
    ASSUME LeakyKept, algorithm = "LeakyBucket", algorithm' = algorithm,
           [Leaky!Next]_(Leaky!vars)
    PROVE  [Bucket!Next]_(Bucket!vars)
<1> DEFINE same == UNCHANGED Bucket!vars
<1>0. Leaky!TB!Next \/ UNCHANGED Leaky!TB!vars
  BY LeakyToken
<1>1. Capacity - queue = Room /\ (Capacity - queue)' = Room'
  BY DEF Room
<1>2. Leaky!TB!Refilled = Bucket!Refilled
  BY LeakyIsBucket
<1>3. ASSUME NEW n, NEW m, n = m, Leaky!TB!Write(n)
      PROVE  Bucket!Write(m)
  BY <1>1, <1>2, <1>3
  DEF Leaky!TB!Write, Bucket!Write, Leaky!TB!Expiry, Bucket!Expiry, Leaky!TB!CeilSeconds,
      Bucket!CeilSeconds, Leaky!TB!Never, Bucket!Never
<1>4. Leaky!TB!Admit => Bucket!Admit
  BY <1>2, <1>3 DEF Leaky!TB!Admit, Bucket!Admit, Leaky!TB!time, Bucket!time
<1>5. Leaky!TB!Deny => Bucket!Deny
  BY <1>2, <1>3
  DEF Leaky!TB!Deny, Bucket!Deny, Leaky!TB!time, Bucket!time, Leaky!TB!observer, Bucket!observer
<1>6. Leaky!TB!Reset => Bucket!Reset
  BY <1>3 DEF Leaky!TB!Reset, Bucket!Reset, Leaky!TB!time, Bucket!time
<1>7. Leaky!TB!Tick => Bucket!Tick
  BY <1>1
  DEF Leaky!TB!Tick, Bucket!Tick, Leaky!TB!ClockTick, Bucket!ClockTick, Leaky!TB!SetBack,
      Bucket!SetBack, Leaky!TB!keys, Bucket!keys, Leaky!TB!observer, Bucket!observer
<1>8. Leaky!TB!Expire => Bucket!Expire
  BY <1>1
  DEF Leaky!TB!Expire, Bucket!Expire, Leaky!TB!Deleted, Bucket!Deleted, Leaky!TB!Alive, Bucket!Alive,
      Leaky!TB!Never, Bucket!Never, Leaky!TB!time, Bucket!time, Leaky!TB!observer, Bucket!observer
<1>9. Leaky!TB!Observe => Bucket!Observe
  BY <1>1 DEF Leaky!TB!Observe, Bucket!Observe, Leaky!TB!keys, Bucket!keys, Leaky!TB!time, Bucket!time
<1>10. UNCHANGED Leaky!TB!vars => same
  BY <1>1
  DEF Leaky!TB!vars, Bucket!vars, Leaky!TB!keys, Bucket!keys, Leaky!TB!time, Bucket!time, Leaky!TB!observer,
      Bucket!observer
<1> HIDE DEF same
<1>11. Leaky!TB!Next \/ UNCHANGED Leaky!TB!vars => Bucket!Next \/ same
  BY <1>4, <1>5, <1>6, <1>7, <1>8, <1>9, <1>10
  DEF Leaky!TB!Next, Leaky!TB!AllowRequest, Bucket!Next, Bucket!AllowRequest
<1> QED
  BY <1>0, <1>11 DEF same

-----------------------------------------------------------------------------
(* Fixed window counter.  The window in the keys was really opened at some *)
(* instant o, from which on the counter counts: at the earliest when its   *)
(* start says and at the latest as long ago as the clock can tell.         *)
FixedLife == 2 * CeilSeconds(Window, 1)

Opened(o, s, n, r, d, w) ==
    /\ o \in Int /\ s <= o /\ o <= r /\ n - s <= r - o
    /\ d = 0 => o + Window <= r
    /\ d > 0 => n - d <= r - o - FixedLife
    /\ w => o = s /\ n = r
Counted(o, c, m, p) ==
    /\ o <= m => p <= c
    /\ o > m => p >= c
    /\ m < o /\ o < m + Window => p <= Limit + c
    /\ p > 0 => m < o + Window

FixedKept ==
    /\ Fixed!TypeOK
    /\ \E o \in Int : /\ Opened(o, start, now, real, deadline, steady)
                      /\ Counted(o, counter, markTime, spent)

(* Moves of the clock do not change when the window was opened. *)
LEMMA OpenedMoves ==
    ASSUME NEW o \in Int, NEW s \in Int, NEW n \in Int, NEW r \in Int,
           NEW m \in Int,
           NEW q \in Int, NEW d \in Nat, NEW w, FixedLife \in Int, Window \in Int,
           Opened(o, s, n, r, d, w), r - n <= q - m, r <= q, w => m = q
    PROVE  /\ Opened(o, s, m, q, d, w)
           /\ o + Window <= r => Opened(o, s, m, q, 0, w)
<1>1. /\ s <= o /\ o <= q /\ m - s <= q - o
      /\ w => o = s
  BY DEF Opened
<1>2. d = 0 => o + Window <= q
  BY DEF Opened
<1>3. d > 0 => m - d <= q - o - FixedLife
  BY DEF Opened
<1>4. o + Window <= r => o + Window <= q
  OBVIOUS
<1> QED
  BY <1>1, <1>2, <1>3, <1>4 DEF Opened

(* The types, in the form that arithmetic needs. *)
LEMMA FixedTypes ==
    ASSUME FixedKept
    PROVE  /\ ClockTypeOK /\ (steady => now = real)
           /\ now \in Int /\ real \in Int /\ now >= 0 /\ now <= real
           /\ start \in Int /\ counter \in Int /\ counter >= 0 /\ counter <= Limit
           /\ markTime \in Int /\ markTime <= real /\ markTime >= 0 /\ spent \in Nat
           /\ deadline \in Nat /\ start >= -Window /\ start <= real
           /\ Limit \in Int /\ Limit > 0 /\ Window \in Int /\ Window > 0
           /\ FixedLife \in Int /\ FixedLife >= 2 * Window /\ FixedLife > 0
  BY WindowAssumption, LongEnough
  DEF FixedKept, Fixed!TypeOK, Fixed!ClockTypeOK, ClockTypeOK, Opened, FixedLife

(* A window that is found over is really over. *)
LEMMA FixedOver ==
    ASSUME FixedKept, NEW o \in Int,
           Opened(o, start, now, real, deadline, steady)
    PROVE  /\ ~Alive(deadline) => o + Window <= real
           /\ Fixed!Expired => o + Window <= real
           /\ Fixed!Expired <=> ~Alive(deadline) \/ now - start >= Window
           /\ steady => (Fixed!Expired <=> now - start >= Window)
<1>1. /\ now \in Int /\ real \in Int /\ start \in Int /\ deadline \in Nat
      /\ Window \in Int /\ Window > 0
      /\ FixedLife \in Int /\ FixedLife >= 2 * Window
  BY FixedTypes
<1>2. ~Alive(deadline) => o + Window <= real
  BY <1>1 DEF Alive, Never, Opened
<1>3. now - start >= Window => o + Window <= real
  BY <1>1 DEF Opened
<1>4. Fixed!Expired <=> ~Alive(deadline) \/ now - start >= Window
  BY DEF Fixed!Expired, Fixed!Alive, Alive, Fixed!Never, Never
<1>5. steady => (o = start /\ now = real)
  BY DEF Opened
<1>6. steady /\ o + Window <= real => now - start >= Window
  BY <1>1, <1>5
<1> QED
  BY <1>2, <1>3, <1>4, <1>6

(* No window was opened yet, since the start is a window old. *)
LEMMA FixedInit ==
    ASSUME Fixed!Init
    PROVE  FixedKept
<1>1. /\ now = 0 /\ real = 0 /\ steady \in BOOLEAN /\ counter = 0 /\ start = -Window
      /\ deadline = 0 /\ markTime = 0 /\ spent = 0
  BY DEF Fixed!Init, Fixed!ClockInit
<1>2. Limit \in Nat /\ Window \in Nat \ {0} /\ MaxTime \in Nat
  BY WindowAssumption, ClockAssumption
<1>3. Fixed!TypeOK
  BY <1>1, <1>2 DEF Fixed!TypeOK, Fixed!ClockTypeOK
<1>4. /\ Opened(-Window, start, now, real, deadline, steady)
      /\ Counted(-Window, counter, markTime, spent)
  BY <1>1, <1>2 DEF Opened, Counted
<1> QED
  BY <1>2, <1>3, <1>4 DEF FixedKept

(* A script writes the window and its counter. *)
LEMMA FixedWritten ==
    ASSUME FixedKept, NEW o \in Int, UNCHANGED time,
           Opened(o, start', now, real, now + FixedLife, steady),
           Counted(o, counter', markTime', spent'),
           counter' \in 0..Limit, start' \in {-Window} \cup 0..real,
           markTime' \in 0..real, spent' \in Nat,
           deadline' = Fixed!Expiry
    PROVE  FixedKept'
<1>1. /\ ClockTypeOK /\ now \in Int /\ real \in Int /\ now >= 0 /\ now <= real
      /\ start \in Int /\ FixedLife \in Int /\ FixedLife > 0
  BY FixedTypes
<1>2. now' = now /\ real' = real /\ steady' = steady
  BY DEF time
<1>3. deadline' = now + FixedLife
  BY DEF Fixed!Expiry, Fixed!CeilSeconds, CeilSeconds, FixedLife
<1>4. Fixed!TypeOK'
  BY <1>1, <1>2, <1>3 DEF Fixed!TypeOK, Fixed!ClockTypeOK, ClockTypeOK
<1>5. Opened(o, start', now', real', deadline', steady')
  BY <1>1, <1>2, <1>3 DEF Opened
<1> QED
  BY <1>4, <1>5 DEF FixedKept

(* Every step keeps an instant at which the window was opened. *)
LEMMA FixedStep ==
    ASSUME FixedKept, [Fixed!Next]_(Fixed!vars)
    PROVE  FixedKept'
<1>1. /\ ClockTypeOK /\ (steady => now = real)
      /\ now \in Int /\ real \in Int /\ now >= 0 /\ now <= real
      /\ start \in Int /\ counter \in Int /\ counter >= 0 /\ counter <= Limit
      /\ markTime \in Int /\ markTime <= real /\ markTime >= 0 /\ spent \in Nat
      /\ deadline \in Nat /\ start >= -Window /\ start <= real
      /\ Limit \in Int /\ Limit > 0 /\ Window \in Int /\ Window > 0
      /\ FixedLife \in Int /\ FixedLife >= 2 * Window /\ FixedLife > 0
  BY FixedTypes
<1>2. /\ start \in {-Window} \cup 0..real /\ counter \in 0..Limit /\ markTime \in 0..real
      /\ now \in 0..real /\ real \in 0..real
  BY <1>1 DEF FixedKept, Fixed!TypeOK
<1>3. PICK o \in Int : /\ Opened(o, start, now, real, deadline, steady)
                       /\ Counted(o, counter, markTime, spent)
  BY DEF FixedKept
<1>4. /\ start <= o /\ o <= real /\ now - start <= real - o
      /\ steady => o = start
  BY <1>3 DEF Opened
<1>5. /\ o <= markTime => spent <= counter
      /\ o > markTime => spent >= counter
      /\ markTime < o /\ o < markTime + Window => spent <= Limit + counter
      /\ spent > 0 => markTime < o + Window
  BY <1>3 DEF Counted
<1>6. /\ ~Alive(deadline) => o + Window <= real
      /\ Fixed!Expired => o + Window <= real
      /\ Fixed!Expired <=> ~Alive(deadline) \/ now - start >= Window
  BY <1>3, FixedOver
<1>7. \A q \in Int : start <= q /\ q <= real /\ now - start <= real - q /\ (steady => q = start)
        => Opened(q, start, now, real, now + FixedLife, steady)
  BY <1>1 DEF Opened
<1>8. Opened(real, now, now, real, now + FixedLife, steady)
  BY <1>1 DEF Opened
<1>10. ASSUME Fixed!Admit
       PROVE  FixedKept'
  <2>1. /\ Fixed!CurrentCount < Limit /\ counter' = Fixed!CurrentCount + 1
        /\ start' = Fixed!CurrentStart /\ deadline' = Fixed!Expiry
        /\ spent' = spent + 1 /\ markTime' = markTime /\ UNCHANGED time
    BY <1>10 DEF Fixed!Admit, Fixed!Write, Fixed!time, time
  <2>2. CASE Fixed!Expired
    <3>1. counter' = 1 /\ start' = now /\ o + Window <= real
      BY <1>6, <2>1, <2>2 DEF Fixed!CurrentCount, Fixed!CurrentStart
    <3>2. Counted(real, 1, markTime, spent + 1)
      BY <1>1, <1>4, <1>5, <3>1 DEF Counted
    <3>3. 1 \in 0..Limit /\ spent + 1 \in Nat /\ now \in {-Window} \cup 0..real
      BY <1>1, <1>2
    <3> QED
      BY <1>1, <1>2, <1>8, <2>1, <3>1, <3>2, <3>3, FixedWritten
  <2>3. CASE ~Fixed!Expired
    <3>1. /\ counter < Limit /\ counter' = counter + 1 /\ start' = start
          /\ now - start < Window
      BY <1>1, <1>6, <2>1, <2>3 DEF Fixed!CurrentCount, Fixed!CurrentStart
    <3>2. counter + 1 \in 0..Limit /\ spent + 1 \in Nat
      BY <1>1, <3>1
    <3>3. CASE spent > 0 \/ markTime < o + Window
      <4>1. Counted(o, counter + 1, markTime, spent + 1)
        BY <1>1, <1>5, <3>3 DEF Counted
      <4>2. Opened(o, start, now, real, now + FixedLife, steady)
        BY <1>3, <1>4, <1>7
      <4> QED
        BY <1>2, <2>1, <3>1, <3>2, <4>1, <4>2, FixedWritten
    (* The window was stretched, and nothing was counted since the mark. *)
    <3>4. CASE spent = 0 /\ markTime >= o + Window
      <4> DEFINE b == Began(start, now, real)
                 q == IF markTime <= b THEN markTime ELSE b
      <4>1. /\ b \in Int /\ b <= real /\ b > real - Window /\ start <= b
            /\ now - start <= real - b
            /\ now >= start => b = real - (now - start)
        BY <1>1, <3>1 DEF Began
      <4> HIDE DEF b
      <4>2. /\ q \in Int /\ q <= markTime /\ markTime < q + Window
            /\ start <= q /\ q <= real /\ now - start <= real - q
        BY <1>1, <1>4, <3>4, <4>1
      <4>3. ~steady
        BY <1>1, <1>4, <3>1, <3>4
      <4> HIDE DEF q
      <4>4. Counted(q, counter + 1, markTime, spent + 1)
        BY <1>1, <3>4, <4>2 DEF Counted
      <4>5. Opened(q, start, now, real, now + FixedLife, steady)
        BY <1>7, <4>2, <4>3
      <4> QED
        BY <1>2, <2>1, <3>1, <3>2, <4>2, <4>4, <4>5, FixedWritten
    <3> QED
      BY <1>1, <3>3, <3>4
  <2> QED
    BY <2>2, <2>3
<1>11. ASSUME Fixed!Deny
       PROVE  FixedKept'
  <2>1. /\ Fixed!CurrentCount >= Limit /\ counter' = Fixed!CurrentCount
        /\ start' = Fixed!CurrentStart /\ deadline' = Fixed!Expiry
        /\ spent' = spent /\ markTime' = markTime /\ UNCHANGED time
    BY <1>11 DEF Fixed!Deny, Fixed!Write, Fixed!time, Fixed!observer, time
  <2>2. counter' = counter /\ start' = start
    BY <1>1, <2>1 DEF Fixed!CurrentCount, Fixed!CurrentStart
  <2>3. Opened(o, start, now, real, now + FixedLife, steady)
    BY <1>3, <1>4, <1>7
  <2> QED
    BY <1>1, <1>2, <1>3, <2>1, <2>2, <2>3, FixedWritten
<1>12. ASSUME Fixed!Reset
       PROVE  FixedKept'
  <2>1. /\ counter' = 0 /\ start' = now /\ deadline' = Fixed!Expiry
        /\ spent' = 0 /\ markTime' = real /\ UNCHANGED time
    BY <1>12 DEF Fixed!Reset, Fixed!time, time
  <2>2. Counted(real, 0, real, 0)
    BY <1>1 DEF Counted
  <2>3. 0 \in 0..Limit /\ 0 \in Nat /\ now \in {-Window} \cup 0..real
    BY <1>1, <1>2
  <2> QED
    BY <1>1, <1>2, <1>8, <2>1, <2>2, <2>3, FixedWritten
<1>13. ASSUME TimePasses, ClockTypeOK', counter' = counter, start' = start,
              markTime' = markTime, spent' = spent,
              deadline' = deadline \/ (deadline' = 0 /\ ~Alive(deadline))
       PROVE  FixedKept'
  <2>0. /\ now' \in Int /\ now' >= 0 /\ now' <= real' /\ real' \in real..MaxTime
        /\ real - now <= real' - now'
        /\ steady' = steady /\ (steady => now' = real')
    BY <1>13 DEF TimePasses
  <2>1. real' \in Int /\ real <= real'
    BY <1>1, <2>0
  <2>2. start \in {-Window} \cup 0..real' /\ markTime \in 0..real'
    BY <1>1, <1>2, <2>0, <2>1
  <2>3. Fixed!TypeOK'
    BY <1>1, <1>2, <1>13, <2>2 DEF Fixed!TypeOK, Fixed!ClockTypeOK, ClockTypeOK
  <2>5. CASE deadline' = deadline
    <3>1. Opened(o, start, now', real', deadline, steady)
      BY <1>1, <1>3, <2>0, <2>1, OpenedMoves
    <3> QED
      BY <1>3, <1>13, <2>0, <2>3, <2>5, <3>1 DEF FixedKept
  <2>6. CASE deadline' = 0 /\ ~Alive(deadline)
    <3>1. Opened(o, start, now', real', 0, steady)
      BY <1>1, <1>3, <1>6, <2>0, <2>1, <2>6, OpenedMoves
    <3> QED
      BY <1>3, <1>13, <2>0, <2>3, <2>6, <3>1 DEF FixedKept
  <2> QED
    BY <1>13, <2>5, <2>6
<1>14. ASSUME Fixed!Tick
       PROVE  FixedKept'
  <2>1. /\ counter' = counter /\ start' = start /\ deadline' = deadline
        /\ markTime' = markTime /\ spent' = spent /\ (ClockTick \/ SetBack)
    BY <1>14
    DEF Fixed!Tick, Fixed!keys, Fixed!observer, Fixed!ClockTick, Fixed!SetBack,
        ClockTick, SetBack
  <2>2. TimePasses /\ ClockTypeOK'
    BY <1>1, <2>1, ClockMoves
  <2> QED
    BY <1>13, <2>1, <2>2
<1>15. ASSUME Fixed!Expire
       PROVE  FixedKept'
  <2>1. /\ counter' = counter /\ start' = start /\ deadline' = 0 /\ ~Alive(deadline)
        /\ markTime' = markTime /\ spent' = spent /\ UNCHANGED time
    BY <1>15
    DEF Fixed!Expire, Fixed!Deleted, Fixed!Alive, Alive, Fixed!Never, Never,
        Fixed!observer, Fixed!time, time
  <2>2. TimePasses /\ ClockTypeOK'
    BY <1>1, <2>1, ClockMoves
  <2> QED
    BY <1>13, <2>1, <2>2
<1>16. ASSUME Fixed!Observe
       PROVE  FixedKept'
  <2>1. /\ UNCHANGED <<now, real, steady, counter, start, deadline>>
        /\ markTime' = real /\ spent' = 0
    BY <1>16 DEF Fixed!Observe, Fixed!keys, Fixed!time
  <2>2. Counted(o, counter, real, 0)
    BY <1>1, <1>4 DEF Counted
  <2>3. Fixed!TypeOK'
    BY <1>1, <1>2, <2>1 DEF Fixed!TypeOK, Fixed!ClockTypeOK, ClockTypeOK
  <2> QED
    BY <1>3, <2>1, <2>2, <2>3 DEF FixedKept
<1>17. ASSUME UNCHANGED Fixed!vars
       PROVE  FixedKept'
  <2>1. UNCHANGED <<now, real, steady, counter, start, deadline, markTime, spent>>
    BY <1>17 DEF Fixed!vars, Fixed!keys, Fixed!time, Fixed!observer
  <2>2. Fixed!TypeOK'
    BY <1>1, <1>2, <2>1 DEF Fixed!TypeOK, Fixed!ClockTypeOK, ClockTypeOK
  <2> QED
    BY <1>3, <2>1, <2>2 DEF FixedKept
<1> QED
  BY <1>10, <1>11, <1>12, <1>14, <1>15, <1>16, <1>17 DEF Fixed!Next, Fixed!AllowRequest

(* So a boundary lets through twice the limit at most, and a window ends. *)
LEMMA FixedKeeps ==
    ASSUME FixedKept
    PROVE  Fixed!BoundaryBurstBound /\ Fixed!QuietWindowReopens
<1>1. /\ now \in Int /\ real \in Int /\ start \in Int
      /\ counter \in Int /\ counter >= 0 /\ counter <= Limit
      /\ markTime \in Int /\ markTime <= real /\ spent \in Nat
      /\ Limit \in Int /\ Limit > 0 /\ Window \in Int /\ Window > 0
  BY FixedTypes
<1>2. PICK o \in Int : /\ Opened(o, start, now, real, deadline, steady)
                       /\ Counted(o, counter, markTime, spent)
  BY DEF FixedKept
<1>3. /\ start <= o /\ o <= real
      /\ o <= markTime => spent <= counter
      /\ o > markTime => spent >= counter
      /\ markTime < o /\ o < markTime + Window => spent <= Limit + counter
  BY <1>2 DEF Opened, Counted
<1>4. Fixed!BoundaryBurstBound
  BY <1>1, <1>3 DEF Fixed!BoundaryBurstBound
<1>5. Fixed!QuietWindowReopens
  <2> SUFFICES ASSUME spent = 0, now >= markTime + Window
               PROVE  Fixed!CurrentCount < Limit
    BY DEF Fixed!QuietWindowReopens
  <2>1. CASE Fixed!Expired
    BY <1>1, <2>1 DEF Fixed!CurrentCount
  <2>2. CASE ~Fixed!Expired
    <3>1. now - start < Window
      BY <1>1, <2>2 DEF Fixed!Expired
    <3>2. counter = 0
      BY <1>1, <1>3, <3>1
    <3> QED
      BY <1>1, <2>2, <3>2 DEF Fixed!CurrentCount
  <2> QED
    BY <2>1, <2>2
<1> QED
  BY <1>4, <1>5

(* A steady clock: the scripts are the local counter. *)
LEMMA FixedLocal ==
    ASSUME FixedKept, steady, [Fixed!Next]_(Fixed!vars)
    PROVE  [Fixed!Local!Next]_(Fixed!Local!vars)
<1> DEFINE same == UNCHANGED Fixed!Local!vars
<1>1. now = real /\ real \in 0..MaxTime
  BY FixedTypes DEF ClockTypeOK
<1>2. PICK o \in Int : Opened(o, start, now, real, deadline, steady)
  BY DEF FixedKept
<1>3. Fixed!Expired <=> Fixed!Local!Expired
  BY <1>2, FixedOver DEF Fixed!Local!Expired
<1>4. /\ Fixed!CurrentCount = Fixed!Local!CurrentCount
      /\ Fixed!CurrentStart = Fixed!Local!CurrentStart
  BY <1>3
  DEF Fixed!CurrentCount, Fixed!Local!CurrentCount, Fixed!CurrentStart,
      Fixed!Local!CurrentStart
<1>5. Fixed!Admit => Fixed!Local!Admit
  BY <1>4 DEF Fixed!Admit, Fixed!Local!Admit, Fixed!Write, Fixed!time
<1>6. Fixed!Deny => Fixed!Local!Deny
  BY <1>4
  DEF Fixed!Deny, Fixed!Local!Deny, Fixed!Write, Fixed!time, Fixed!observer,
      Fixed!Local!observer
<1>7. Fixed!Reset => Fixed!Local!Reset
  BY <1>1 DEF Fixed!Reset, Fixed!Local!Reset, Fixed!time
<1>8. Fixed!Tick => Fixed!Local!Tick
  BY <1>1
  DEF Fixed!Tick, Fixed!ClockTick, Fixed!SetBack, Fixed!Local!Tick, Fixed!keys,
      Fixed!observer, Fixed!Local!window, Fixed!Local!observer
<1>9. Fixed!Expire => same
  BY DEF Fixed!Expire, Fixed!observer, Fixed!time, Fixed!Local!vars, Fixed!Local!window,
         Fixed!Local!observer
<1>10. Fixed!Observe => Fixed!Local!Observe
  BY <1>1
  DEF Fixed!Observe, Fixed!Local!Observe, Fixed!keys, Fixed!time, Fixed!Local!window
<1>11. UNCHANGED Fixed!vars => same
  BY DEF Fixed!vars, Fixed!keys, Fixed!observer, Fixed!time, Fixed!Local!vars,
         Fixed!Local!window, Fixed!Local!observer
<1> HIDE DEF same
<1>12. Fixed!Local!Next \/ same
  BY <1>5, <1>6, <1>7, <1>8, <1>9, <1>10, <1>11
  DEF Fixed!Next, Fixed!AllowRequest, Fixed!Local!Next, Fixed!Local!AllowRequest
<1> QED
  BY <1>12 DEF same

-----------------------------------------------------------------------------
(* The history f: nothing was admitted after t, and no window up to t held *)
(* more than k.                                                            *)
Within(f, t, k) ==
    /\ \A b \in Int : Count(f, t, b) = 0
    /\ \A u \in 0..t : Count(f, u - Window, u) <= k

(* Later than t nothing was admitted: a later part holds no more. *)
LEMMA CountLater ==
    ASSUME NEW f \in [Instants -> Nat], NEW t \in Int, NEW u \in Int, NEW k,
           Within(f, t, k),
           NEW a \in Int, NEW b \in Int, t <= u, a <= b
    PROVE  /\ Count(f, b, u) <= Count(f, a, t)
           /\ a <= t => Count(f, a, u) = Count(f, a, t)
<1>1. Count(f, t, u) = 0
  BY DEF Within
<1>2. Count(f, a, t) \in Nat /\ Count(f, b, t) \in Nat /\ Count(f, b, u) \in Nat
  BY CountType
<1>3. CASE b <= t
  <2>1. Count(f, b, u) = Count(f, b, t) + Count(f, t, u)
    BY <1>3, CountAdds
  <2>2. Count(f, b, t) <= Count(f, a, t)
    BY <1>3, CountPart
  <2> QED
    BY <1>1, <1>2, <2>1, <2>2, CountAdds
<1>4. CASE b > t
  <2>1. b <= u => Count(f, b, u) <= Count(f, t, u)
    BY <1>4, CountPart
  <2>2. b > u => Count(f, b, u) = 0
    BY CountEmpty
  <2>3. a <= t => Count(f, a, u) = Count(f, a, t) + Count(f, t, u)
    BY CountAdds
  <2> QED
    BY <1>1, <1>2, <1>4, <2>1, <2>2, <2>3
<1> QED
  BY <1>3, <1>4

(* A tick later no window holds more. *)
LEMMA WithinTicks ==
    ASSUME NEW f \in [Instants -> Nat], NEW t \in Nat, NEW k \in Nat, Within(f, t,
           k)
    PROVE  Within(f, t + 1, k)
<1> USE WindowAssumption
<1>1. ASSUME NEW b \in Int
      PROVE  Count(f, t + 1, b) = 0
  <2>1. CASE b <= t + 1
    BY <2>1, CountEmpty
  <2>2. CASE b > t + 1
    <3>1. Count(f, t + 1, b) <= Count(f, t, b)
      BY <2>2, CountPart
    <3> QED
      BY <3>1, CountType DEF Within
  <2> QED
    BY <2>1, <2>2
<1>2. Count(f, t + 1 - Window, t + 1) <= k
  <2>1. Count(f, t + 1 - Window, t + 1) <= Count(f, t - Window, t + 1)
    BY CountPart
  <2>2. Count(f, t - Window, t + 1) = Count(f, t - Window, t) + Count(f, t, t + 1)
    BY CountAdds
  <2>3. Count(f, t, t + 1) = 0 /\ Count(f, t - Window, t) <= k
    BY DEF Within
  <2> QED
    BY <2>1, <2>2, <2>3, CountType
<1> QED
  BY <1>1, <1>2 DEF Within

(* Nor after one more call, if the last window had room for it. *)
LEMMA WithinAdmits ==
    ASSUME NEW f \in [Instants -> Nat], NEW t \in Instants, NEW k \in Nat,
           Within(f, t, k), Count(f, t - Window, t) + 1 <= k,
           NEW g, OneMore(f, g, t)
    PROVE  Within(g, t, k)
<1> USE WindowAssumption, ClockAssumption
<1>0. t \in Nat
  BY DEF Instants
<1>1. ASSUME NEW a \in Int, NEW b \in Int
      PROVE  /\ a < t /\ t <= b => Count(g, a, b) = Count(f, a, b) + 1
             /\ ~(a < t /\ t <= b) => Count(g, a, b) = Count(f, a, b)
  BY CountAdmit
<1>2. \A b \in Int : Count(g, t, b) = 0
  BY <1>0, <1>1 DEF Within
<1>3. ASSUME NEW u \in 0..t
      PROVE  Count(g, u - Window, u) <= k
  <2>1. CASE u = t
    BY <1>0, <1>1, <2>1
  <2>2. CASE u # t
    <3>1. Count(g, u - Window, u) = Count(f, u - Window, u)
      BY <1>0, <1>1, <2>2
    <3> QED
      BY <3>1 DEF Within
  <2> QED
    BY <2>1, <2>2
<1> QED
  BY <1>2, <1>3 DEF Within

(* An empty history is within any bound. *)
LEMMA WithinNone ==
    ASSUME NEW t, NEW k \in Nat
    PROVE  Within(NoAdmissions, t, k)
  BY CountNone DEF Within

(* The instances count as the module does. *)
LEMMA SameCardinality ==
    ASSUME NEW S
    PROVE  /\ Log!Ideal!Cardinality(S) = Cardinality(S)
           /\ Sliding!Ideal!Cardinality(S) = Cardinality(S)
           /\ Log!Cardinality(S) = Cardinality(S)
  BY DEF Log!Ideal!Cardinality, Sliding!Ideal!Cardinality, Log!Cardinality, Cardinality

(* What the rolling limiters count. *)
LEMMA LoadIs ==
    ASSUME NEW t, NEW d
    PROVE  /\ Log!Ideal!Load(t, d) = Count(admitted, t - d, t)
           /\ Sliding!Ideal!Load(t, d) = Count(admitted, t - d, t)
  BY SameCardinality
  DEF Log!Ideal!Load, Log!Ideal!Admissions, Log!Ideal!Instants, Sliding!Ideal!Load,
      Sliding!Ideal!Admissions, Sliding!Ideal!Instants, Count, Part, History,
      Local!Count, Local!Part, Local!History, Instants, Local!Instants,
      Local!Cardinality, Cardinality

-----------------------------------------------------------------------------
(* Sliding window log.  Its entries bear the server's times; at says when  *)
(* they were really made, for no later than the clock can tell.            *)
Dated(at, l, n, r, d, w) ==
    \A e \in l : /\ at[e] \in Int /\ e[1] <= at[e] /\ at[e] <= r
                 /\ n - e[1] <= r - at[e]
                 /\ d > 0 => n - d <= r - at[e] - 2 * Window
                 /\ w => at[e] = e[1]

Younger(at, l, c) == {e \in l : at[e] > c}
Tallied(at, l, f, r) ==
    \A c \in Int : r - Window <= c /\ c <= r => Count(f, c, r) = Cardinality(Younger(at, l, c))

(* However long ago: no entry stands for a call that was not let through.  *)
Backed(at, l, f, r) ==
    \A c \in Int : c <= r => Cardinality(Younger(at, l, c)) <= Count(f, c, r)

LogKept ==
    /\ Log!TypeOK /\ (steady => now = real)
    /\ IsFiniteSet(log)
    /\ \A e \in log : e[2] <= seq
    /\ Within(admitted, real, Limit)
    /\ deadline = 0 => Count(admitted, real - Window, real) = 0
    /\ \E at \in [log -> Int] :
         /\ Dated(at, log, now, real, deadline, steady)
         /\ deadline > 0 => Tallied(at, log, admitted, real)
         /\ Backed(at, log, admitted, real)

(* The types, in the form that arithmetic needs. *)
LEMMA LogTypes ==
    ASSUME LogKept
    PROVE  /\ ClockTypeOK /\ (steady => now = real) /\ real \in Instants
           /\ now \in Nat /\ real \in Nat /\ now <= real
           /\ deadline \in Nat /\ seq \in Nat
           /\ \A e \in log : e \in Nat \X Nat
           /\ IsFiniteSet(log) /\ Cardinality(log) <= Limit
           /\ admitted \in [Instants -> Nat]
           /\ Limit \in Nat /\ Limit > 0 /\ Window \in Nat /\ Window > 0
           /\ Log!Alive(deadline) <=> now < deadline
<1>1. Limit \in Nat /\ Limit > 0 /\ Window \in Nat /\ Window > 0
  BY WindowAssumption
<1>2. Log!TypeOK /\ (steady => now = real) /\ IsFiniteSet(log)
  BY DEF LogKept
<1>3. /\ ClockTypeOK /\ real \in Instants /\ now \in Nat /\ real \in Nat /\ now <= real
  BY <1>2, ClockAssumption DEF Log!TypeOK, Log!ClockTypeOK, ClockTypeOK, Instants
<1>4. deadline \in Nat /\ seq \in Nat /\ \A e \in log : e \in Nat \X Nat
  BY <1>2 DEF Log!TypeOK
<1>5. Log!Alive(deadline) <=> now < deadline
  BY <1>3, <1>4 DEF Log!Alive, Log!Never
<1>6. admitted \in [Instants -> Nat]
  BY <1>2 DEF Log!TypeOK, Log!Ideal!Instants, Instants
<1>7. Cardinality(log) <= Limit
  BY <1>2, SameCardinality DEF Log!TypeOK
<1> QED
  BY <1>1, <1>2, <1>3, <1>4, <1>5, <1>6, <1>7

(* Fewer entries are backed by the same calls. *)
LEMMA BackedFewer ==
    ASSUME NEW at, NEW l, IsFiniteSet(l), NEW k \in SUBSET l, NEW r \in Int,
           NEW f \in [Instants -> Nat], Backed(at, l, f, r)
    PROVE  Backed(at, k, f, r)
<1> SUFFICES ASSUME NEW c \in Int, c <= r
             PROVE  Cardinality(Younger(at, k, c)) <= Count(f, c, r)
  BY DEF Backed
<1>1. Younger(at, l, c) \in SUBSET l /\ Younger(at, k, c) \in SUBSET Younger(at, l, c)
  BY DEF Younger
<1>2. IsFiniteSet(Younger(at, l, c))
  BY <1>1, FS_Subset
<1>3. /\ Cardinality(Younger(at, k, c)) <= Cardinality(Younger(at, l, c))
      /\ Cardinality(Younger(at, k, c)) \in Nat /\ Cardinality(Younger(at, l, c)) \in Nat
  BY <1>1, <1>2, FS_Subset, FS_CardinalityType
<1>4. Cardinality(Younger(at, l, c)) <= Count(f, c, r)
  BY DEF Backed
<1> QED
  BY <1>3, <1>4, CountType

LEMMA BackedNone ==
    ASSUME NEW at, NEW r \in Int
    PROVE  Backed(at, {}, NoAdmissions, r)
<1>1. \A c : Younger(at, {}, c) = {}
  BY DEF Younger
<1>2. Cardinality({}) = 0
  BY FS_EmptySet
<1>3. \A c : Count(NoAdmissions, c, r) = 0
  BY CountNone
<1> QED
  BY <1>1, <1>2, <1>3 DEF Backed

(* And as many more as calls were let through. *)
LEMMA BackedAdmits ==
    ASSUME NEW f \in [Instants -> Nat], NEW r \in Instants, NEW g, OneMore(f, g, r),
           NEW l, IsFiniteSet(l), NEW at, NEW e, e \notin l,
           NEW at2, \A x \in l : at2[x] = at[x], at2[e] = r,
           \A x \in l : at[x] \in Int /\ at[x] <= r,
           Backed(at, l, f, r)
    PROVE  Backed(at2, l \cup {e}, g, r)
<1>1. r \in Int
  BY ClockAssumption DEF Instants
<1> SUFFICES ASSUME NEW c \in Int, c <= r
             PROVE  Cardinality(Younger(at2, l \cup {e}, c)) <= Count(g, c, r)
  BY DEF Backed
<1>2. g \in [Instants -> Nat]
  BY DEF OneMore
<1>3. CASE c = r
  <2>1. Younger(at2, l \cup {e}, c) = {}
    BY <1>1, <1>3 DEF Younger
  <2>2. Count(g, c, r) = 0
    BY <1>1, <1>2, <1>3, CountEmpty
  <2> QED
    BY <2>1, <2>2, FS_EmptySet
<1>4. CASE c < r
  <2>1. /\ Younger(at2, l \cup {e}, c) = Younger(at, l, c) \cup {e}
        /\ e \notin Younger(at, l, c)
    BY <1>1, <1>4 DEF Younger
  <2>2. IsFiniteSet(Younger(at, l, c))
    BY FS_Subset DEF Younger
  <2>3. Count(g, c, r) = Count(f, c, r) + 1
    BY <1>1, <1>4, CountAdmit
  <2>4. Cardinality(Younger(at, l, c)) <= Count(f, c, r)
    BY <1>4 DEF Backed
  <2>5. Cardinality(Younger(at2, l \cup {e}, c)) = Cardinality(Younger(at, l, c)) + 1
    BY <2>1, <2>2, FS_AddElement
  <2>6. Cardinality(Younger(at, l, c)) \in Nat /\ Count(f, c, r) \in Nat
    BY <2>2, FS_CardinalityType, CountType
  <2> QED
    BY <2>3, <2>4, <2>5, <2>6
<1> QED
  BY <1>1, <1>3, <1>4

(* The entries that a script keeps are the calls of the last window. *)
LEMMA LogCurrent ==
    ASSUME LogKept
    PROVE  /\ Log!Current \in SUBSET log /\ IsFiniteSet(Log!Current)
           /\ ~Log!Alive(deadline) => Log!Current = {}
           /\ \E at \in [log -> Int] : /\ Dated(at, log, now, real, deadline, steady)
                                       /\ Tallied(at, Log!Current, admitted, real)
                                       /\ Backed(at, Log!Current, admitted, real)
<1>1. /\ now \in Nat /\ real \in Nat /\ now <= real /\ deadline \in Nat
      /\ \A e \in log : e \in Nat \X Nat
      /\ IsFiniteSet(log) /\ admitted \in [Instants -> Nat]
      /\ Window \in Nat /\ Window > 0
      /\ Log!Alive(deadline) <=> now < deadline
  BY LogTypes
<1>2. PICK at \in [log -> Int] :
        /\ Dated(at, log, now, real, deadline, steady)
        /\ deadline > 0 => Tallied(at, log, admitted, real)
        /\ Backed(at, log, admitted, real)
  BY DEF LogKept
<1>3. \A e \in log : e \in Log!Current <=> now < deadline /\ e[1] > now - Window
  BY <1>1 DEF Log!Current
<1>4. Log!Current \in SUBSET log
  BY DEF Log!Current
<1>5. IsFiniteSet(Log!Current)
  BY <1>1, <1>4, FS_Subset
<1>6. Cardinality({}) = 0
  BY FS_EmptySet
<1>9. Backed(at, Log!Current, admitted, real)
  BY <1>1, <1>2, <1>4, BackedFewer
<1>7. CASE deadline = 0
  <2>1. Log!Current = {}
    BY <1>1, <1>3, <1>4, <1>7
  <2>2. ASSUME NEW c \in Int, real - Window <= c, c <= real
        PROVE  Count(admitted, c, real) = 0
    <3>1. Count(admitted, c, real) <= Count(admitted, real - Window, real)
      BY <1>1, <2>2, CountPart
    <3>2. Count(admitted, real - Window, real) = 0
      BY <1>7 DEF LogKept
    <3> QED
      BY <1>1, <3>1, <3>2, CountType
  <2>3. \A c : Younger(at, {}, c) = {}
    BY DEF Younger
  <2>4. Tallied(at, {}, admitted, real)
    BY <1>6, <2>2, <2>3 DEF Tallied
  <2> QED
    BY <1>2, <1>4, <1>5, <1>9, <2>1, <2>4
<1>8. CASE deadline # 0
  <2>1. ASSUME NEW c \in Int, real - Window <= c, c <= real, NEW e \in log, at[e] > c
        PROVE  e \in Log!Current
    <3>1. /\ at[e] \in Int /\ e[1] \in Int
          /\ now - e[1] <= real - at[e]
          /\ now - deadline <= real - at[e] - 2 * Window
      BY <1>1, <1>2, <1>8 DEF Dated
    <3>2. now < deadline /\ e[1] > now - Window
      BY <1>1, <2>1, <3>1
    <3> QED
      BY <1>3, <3>2
  <2>2. ASSUME NEW c \in Int, real - Window <= c, c <= real
        PROVE  Younger(at, Log!Current, c) = Younger(at, log, c)
    BY <1>4, <2>1, <2>2 DEF Younger
  <2>3. Tallied(at, Log!Current, admitted, real)
    BY <1>1, <1>2, <1>8, <2>2 DEF Tallied
  <2>4. ~Log!Alive(deadline) => Log!Current = {}
    BY <1>1, <1>3, <1>4
  <2> QED
    BY <1>2, <1>4, <1>5, <1>9, <2>3, <2>4
<1> QED
  BY <1>7, <1>8

(* So they bound what the rolling limiter counts. *)
LEMMA LogLoad ==
    ASSUME LogKept
    PROVE  /\ Count(admitted, real - Window, real) <= Cardinality(Log!Current)
           /\ steady => Count(admitted, real - Window, real) = Cardinality(Log!Current)
           /\ Cardinality(Log!Current) \in Nat /\ Count(admitted, real - Window, real) \in Nat
           /\ Cardinality(Log!Current) <= Count(admitted, now - Window, real)
<1>1. /\ now \in Nat /\ real \in Nat /\ (steady => now = real)
      /\ Window \in Nat /\ admitted \in [Instants -> Nat] /\ now <= real
      /\ \A e \in log : e \in Nat \X Nat
  BY LogTypes
<1>2. Log!Current \in SUBSET log /\ IsFiniteSet(Log!Current)
  BY LogCurrent
<1>3. PICK at \in [log -> Int] : /\ Dated(at, log, now, real, deadline, steady)
                                 /\ Tallied(at, Log!Current, admitted, real)
                                 /\ Backed(at, Log!Current, admitted, real)
  BY LogCurrent
<1> DEFINE y == Younger(at, Log!Current, real - Window)
<1>4. Count(admitted, real - Window, real) = Cardinality(y)
  BY <1>1, <1>3 DEF Tallied
<1>5. y \in SUBSET Log!Current
  BY DEF Younger
<1>6. Cardinality(y) <= Cardinality(Log!Current) /\ Cardinality(Log!Current) \in Nat
  BY <1>2, <1>5, FS_Subset, FS_CardinalityType
<1>7. ASSUME steady
      PROVE  y = Log!Current
  <2>1. \A e \in Log!Current : e \in log /\ e[1] > now - Window
    BY DEF Log!Current
  <2>2. \A e \in Log!Current : at[e] > real - Window
    BY <1>1, <1>3, <1>7, <2>1 DEF Dated
  <2> QED
    BY <2>2 DEF Younger
<1>8. Cardinality(Log!Current) <= Count(admitted, now - Window, real)
  <2>1. \A e \in Log!Current : e \in log /\ e[1] \in Int /\ e[1] > now - Window
    BY <1>1, <1>2 DEF Log!Current
  <2>2. \A e \in Log!Current : at[e] > now - Window
    BY <1>1, <1>3, <2>1 DEF Dated
  <2>3. Younger(at, Log!Current, now - Window) = Log!Current
    BY <2>2 DEF Younger
  <2>4. now - Window \in Int /\ now - Window <= real
    BY <1>1
  <2> QED
    BY <1>3, <2>3, <2>4 DEF Backed
<1> QED
  BY <1>1, <1>4, <1>6, <1>7, <1>8, CountType

(* No call was made yet. *)
LEMMA LogInit ==
    ASSUME Log!Init
    PROVE  LogKept
<1>1. /\ now = 0 /\ real = 0 /\ steady \in BOOLEAN /\ log = {} /\ seq = 0 /\ deadline = 0
      /\ answer = <<0, "none">> /\ admitted = NoAdmissions
  BY DEF Log!Init, Log!ClockInit, NoAdmissions, Log!Ideal!Instants, Instants
<1>2. IsFiniteSet({}) /\ Cardinality({}) = 0
  BY FS_EmptySet
<1>3. NoAdmissions \in [Instants -> Nat] /\ \A a, b : Count(NoAdmissions, a, b) = 0
  BY CountNone
<1>4. Limit \in Nat /\ MaxTime \in Nat
  BY WindowAssumption, ClockAssumption
<1>5. Log!TypeOK
  <2>1. Log!Cardinality(log) = 0
    BY <1>1, <1>2, SameCardinality
  <2>2. Log!ClockTypeOK
    BY <1>1, <1>4 DEF Log!ClockTypeOK
  <2>3. answer \in (0..real) \X {"none", "allow", "deny"}
    BY <1>1
  <2>4. admitted \in [Log!Ideal!Instants -> Nat]
    BY <1>1, <1>3 DEF Log!Ideal!Instants, Instants
  <2> QED
    BY <1>1, <1>4, <2>1, <2>2, <2>3, <2>4 DEF Log!TypeOK
<1>6. Within(admitted, real, Limit)
  BY <1>1, <1>4, WithinNone
<1>7. \E at \in [log -> Int] :
        /\ Dated(at, log, now, real, deadline, steady)
        /\ deadline > 0 => Tallied(at, log, admitted, real)
        /\ Backed(at, log, admitted, real)
  <2>1. [e \in log |-> 0] \in [log -> Int]
    OBVIOUS
  <2>2. ~(deadline > 0)
    BY <1>1
  <2>3. Backed([e \in log |-> 0], log, admitted, real)
    BY <1>1, <1>4, BackedNone
  <2> QED
    BY <1>1, <2>1, <2>2, <2>3 DEF Dated
<1>8. IsFiniteSet(log) /\ (\A e \in log : e[2] <= seq)
  BY <1>1, <1>2
<1>9. /\ steady => now = real
      /\ deadline = 0 => Count(admitted, real - Window, real) = 0
  BY <1>1, <1>3
<1> QED
  BY ONLY <1>5, <1>6, <1>7, <1>8, <1>9 DEF LogKept

(* The keys have a later deadline than any that bears on their entries. *)
LEMMA DatedRenewed ==
    ASSUME NEW l, NEW at, \A e \in l : e \in Nat \X Nat,
           NEW n \in Nat, NEW r \in Nat, NEW d, NEW w, NEW k \in SUBSET l,
           Dated(at, l, n, r, d, w)
    PROVE  Dated(at, k, n, r, n + CeilSeconds(2 * Window, 1), w)
<1> DEFINE c == CeilSeconds(2 * Window, 1)
<1>1. c \in Nat /\ c >= 2 * Window /\ Window \in Nat
  BY LongEnough, WindowAssumption
<1> HIDE DEF c
<1>2. ASSUME NEW e \in k
      PROVE  /\ at[e] \in Int /\ e[1] <= at[e] /\ at[e] <= r /\ n - e[1] <= r - at[e]
             /\ n - (n + c) <= r - at[e] - 2 * Window
             /\ w => at[e] = e[1]
  <2>1. /\ at[e] \in Int /\ e[1] <= at[e] /\ at[e] <= r /\ n - e[1] <= r - at[e]
        /\ w => at[e] = e[1]
    BY <1>2 DEF Dated
  <2> QED
    BY <1>1, <2>1
<1>3. Dated(at, k, n, r, n + c, w)
  BY <1>2 DEF Dated
<1> QED
  BY <1>3 DEF c

(* The clock moves on, or is set back: m is its new time, q the real one.  *)
LEMMA DatedMoves ==
    ASSUME NEW at, NEW l, \A e \in l : e[1] \in Int,
           NEW n \in Int, NEW r \in Int, NEW m \in Int, NEW q \in Int,
           NEW d \in Nat, NEW w, r - n <= q - m, r <= q,
           Dated(at, l, n, r, d, w)
    PROVE  Dated(at, l, m, q, d, w) /\ Dated(at, l, m, q, 0, w)
<1>1. Window \in Int
  BY WindowAssumption
<1>2. ASSUME NEW e \in l
      PROVE  /\ at[e] \in Int /\ e[1] <= at[e] /\ at[e] <= q /\ m - e[1] <= q - at[e]
             /\ d > 0 => m - d <= q - at[e] - 2 * Window
             /\ w => at[e] = e[1]
  <2>1. /\ at[e] \in Int /\ e[1] \in Int /\ e[1] <= at[e] /\ at[e] <= r
        /\ n - e[1] <= r - at[e]
        /\ d > 0 => n - d <= r - at[e] - 2 * Window
        /\ w => at[e] = e[1]
    BY DEF Dated
  <2> QED
    BY <1>1, <2>1
<1> QED
  BY <1>2 DEF Dated

(* One more entry, made now. *)
LEMMA DatedAdmits ==
    ASSUME NEW n \in Nat, NEW r \in Nat, n <= r, NEW w, w => n = r,
           NEW l, NEW at, NEW e, e[1] = n,
           NEW at2, \A x \in l : at2[x] = at[x], at2[e] = r,
           Dated(at, l, n, r, n + CeilSeconds(2 * Window, 1), w)
    PROVE  Dated(at2, l \cup {e}, n, r, n + CeilSeconds(2 * Window, 1), w)
<1> DEFINE c == CeilSeconds(2 * Window, 1)
<1>1. c \in Nat /\ c >= 2 * Window /\ Window \in Nat
  BY LongEnough, WindowAssumption
<1> HIDE DEF c
<1>2. Dated(at, l, n, r, n + c, w)
  BY DEF c
<1>3. /\ e[1] <= at2[e] /\ at2[e] <= r /\ at2[e] \in Int
      /\ n - e[1] <= r - at2[e] /\ n - (n + c) <= r - at2[e] - 2 * Window
      /\ w => at2[e] = e[1]
  BY <1>1
<1>4. Dated(at2, l \cup {e}, n, r, n + c, w)
  BY <1>2, <1>3 DEF Dated
<1> QED
  BY <1>4 DEF c

(* The entries still tally when one call more was let through. *)
LEMMA TalliedAdmits ==
    ASSUME NEW f \in [Instants -> Nat], NEW r \in Instants, NEW g, OneMore(f, g, r),
           NEW l, IsFiniteSet(l), NEW at, NEW e, e \notin l,
           NEW at2, \A x \in l : at2[x] = at[x], at2[e] = r,
           \A x \in l : at[x] \in Int /\ at[x] <= r,
           Tallied(at, l, f, r)
    PROVE  Tallied(at2, l \cup {e}, g, r)
<1>1. r \in Int /\ Window \in Int
  BY ClockAssumption, WindowAssumption DEF Instants
<1> SUFFICES ASSUME NEW c \in Int, r - Window <= c, c <= r
             PROVE  Count(g, c, r) = Cardinality(Younger(at2, l \cup {e}, c))
  BY DEF Tallied
<1>2. g \in [Instants -> Nat]
  BY DEF OneMore
<1>3. CASE c = r
  <2>1. Younger(at2, l \cup {e}, c) = {}
    BY <1>1, <1>3 DEF Younger
  <2>2. Count(g, c, r) = 0
    BY <1>1, <1>2, <1>3, CountEmpty
  <2> QED
    BY <2>1, <2>2, FS_EmptySet
<1>4. CASE c < r
  <2>1. /\ Younger(at2, l \cup {e}, c) = Younger(at, l, c) \cup {e}
        /\ e \notin Younger(at, l, c)
    BY <1>1, <1>4 DEF Younger
  <2>2. IsFiniteSet(Younger(at, l, c))
    BY FS_Subset DEF Younger
  <2>3. Count(g, c, r) = Count(f, c, r) + 1
    BY <1>1, <1>4, CountAdmit
  <2>4. Count(f, c, r) = Cardinality(Younger(at, l, c))
    BY DEF Tallied
  <2> QED
    BY <2>1, <2>2, <2>3, <2>4, FS_AddElement
<1> QED
  BY <1>1, <1>3, <1>4

(* Every step keeps instants at which the entries were made. *)
LEMMA LogStep ==
    ASSUME LogKept, [Log!Next]_(Log!vars)
    PROVE  LogKept'
<1>1. /\ ClockTypeOK /\ (steady => now = real) /\ real \in Instants
      /\ now \in Nat /\ real \in Nat /\ now <= real
      /\ deadline \in Nat /\ seq \in Nat
      /\ \A e \in log : e \in Nat \X Nat
      /\ IsFiniteSet(log) /\ Cardinality(log) <= Limit
      /\ admitted \in [Instants -> Nat]
      /\ Limit \in Nat /\ Limit > 0 /\ Window \in Nat /\ Window > 0
      /\ Log!Alive(deadline) <=> now < deadline
  BY LogTypes
<1>2. /\ \A e \in log : e[2] <= seq
      /\ Within(admitted, real, Limit)
      /\ deadline = 0 => Count(admitted, real - Window, real) = 0
      /\ answer \in (0..real) \X {"none", "allow", "deny"}
  BY DEF LogKept, Log!TypeOK
<1>3. /\ Log!Current \in SUBSET log /\ IsFiniteSet(Log!Current)
      /\ ~Log!Alive(deadline) => Log!Current = {}
      /\ \E at \in [log -> Int] : /\ Dated(at, log, now, real, deadline, steady)
                                  /\ Tallied(at, Log!Current, admitted, real)
                                  /\ Backed(at, Log!Current, admitted, real)
  BY LogCurrent
<1>4. /\ Count(admitted, real - Window, real) <= Cardinality(Log!Current)
      /\ Cardinality(Log!Current) \in Nat /\ Count(admitted, real - Window, real) \in Nat
  BY LogLoad
<1>5. Cardinality(Log!Current) <= Cardinality(log) /\ Cardinality(log) \in Nat
  BY <1>1, <1>3, FS_Subset, FS_CardinalityType
<1>6. /\ CeilSeconds(2 * Window, 1) \in Nat /\ CeilSeconds(2 * Window, 1) > 0
  BY <1>1, LongEnough
<1>7. Log!Renew => deadline' = now + CeilSeconds(2 * Window, 1)
  BY DEF Log!Renew, Log!CeilSeconds, CeilSeconds
(* What there is to show of a new state. *)
<1>8. ASSUME ClockTypeOK', \A e \in log' : e \in Nat \X Nat,
             Cardinality(log') <= Limit, seq' \in Nat, deadline' \in Nat,
             answer' \in (0..real') \X {"none", "allow", "deny"},
             admitted' \in [Instants -> Nat]
      PROVE  Log!TypeOK'
  <2>1. Log!Cardinality(log') <= Limit
    BY <1>8, SameCardinality DEF Log!Cardinality, Cardinality
  <2> QED
    BY <1>8, <2>1
    DEF Log!TypeOK, Log!ClockTypeOK, ClockTypeOK, Log!Ideal!Instants, Instants
<1>10. ASSUME Log!Admit
       PROVE  LogKept'
  <2> DEFINE e0 == <<now, Log!Number>>
             l  == Log!Current \cup {e0}
  <2>1. /\ Log!Cardinality(Log!Current) < Limit /\ log' = l /\ seq' = Log!Number
        /\ deadline' = now + CeilSeconds(2 * Window, 1)
        /\ answer' = <<real, "allow">> /\ admitted' = [admitted EXCEPT ![real] = @ + 1]
        /\ now' = now /\ real' = real /\ steady' = steady
    BY <1>7, <1>10 DEF Log!Admit, Log!time
  <2>2. Cardinality(Log!Current) < Limit
    BY <2>1, SameCardinality
  <2>3. Log!Number \in Nat /\ \A e \in Log!Current : e[2] < Log!Number
    <3>1. CASE Log!Alive(deadline)
      BY <1>1, <1>2, <1>3, <3>1 DEF Log!Number
    <3>2. CASE ~Log!Alive(deadline)
      BY <1>1, <1>3, <3>2 DEF Log!Number
    <3> QED
      BY <3>1, <3>2
  <2>4. /\ e0[1] = now /\ e0[2] = Log!Number /\ e0 \in Nat \X Nat
        /\ e0 \notin Log!Current
    BY <1>1, <2>3
  <2> HIDE DEF e0
  <2>5. IsFiniteSet(l) /\ Cardinality(l) = Cardinality(Log!Current) + 1
    BY <1>3, <2>4, FS_AddElement
  <2>6. OneMore(admitted, admitted', real)
    BY <1>1, <2>1, AdmitsOne
  <2>7. Within(admitted', real, Limit)
    <3>1. Count(admitted, real - Window, real) + 1 <= Limit
      BY <1>1, <1>4, <2>2
    <3> QED
      BY <1>1, <1>2, <2>6, <3>1, WithinAdmits
  <2>8. \E at \in [l -> Int] :
          /\ Dated(at, l, now, real, now + CeilSeconds(2 * Window, 1), steady)
          /\ Tallied(at, l, admitted', real)
          /\ Backed(at, l, admitted', real)
    <3>1. PICK at \in [log -> Int] : /\ Dated(at, log, now, real, deadline, steady)
                                     /\ Tallied(at, Log!Current, admitted, real)
                                     /\ Backed(at, Log!Current, admitted, real)
      BY <1>3
    <3> DEFINE at2 == [e \in l |-> IF e = e0 THEN real ELSE at[e]]
    <3>2. /\ \A e \in Log!Current : at2[e] = at[e]
          /\ at2[e0] = real
      BY <2>4
    <3>3. at2 \in [l -> Int]
      BY <1>1, <1>3
    <3> HIDE DEF at2
    <3>4. Dated(at, Log!Current, now, real, now + CeilSeconds(2 * Window, 1), steady)
      BY <1>1, <1>3, <3>1, DatedRenewed
    <3>5. Dated(at2, l, now, real, now + CeilSeconds(2 * Window, 1), steady)
      BY <1>1, <2>4, <3>2, <3>4, DatedAdmits
    <3>6. \A e \in Log!Current : at[e] \in Int /\ at[e] <= real
      BY <3>4 DEF Dated
    <3>7. Tallied(at2, l, admitted', real)
      BY <1>1, <1>3, <2>4, <2>6, <3>1, <3>2, <3>6, TalliedAdmits
    <3>8. Backed(at2, l, admitted', real)
      BY <1>1, <1>3, <2>4, <2>6, <3>1, <3>2, <3>6, BackedAdmits
    <3> QED
      BY <3>3, <3>5, <3>7, <3>8
  <2>9. Log!TypeOK'
    <3>1. ClockTypeOK'
      BY <1>1, <2>1 DEF ClockTypeOK
    <3>2. \A e \in l : e \in Nat \X Nat
      BY <1>1, <1>3, <2>4
    <3>3. Cardinality(l) <= Limit
      BY <1>1, <1>4, <2>2, <2>5
    <3>4. answer' \in (0..real') \X {"none", "allow", "deny"}
      BY <1>1, <2>1
    <3>5. admitted' \in [Instants -> Nat]
      BY <2>6 DEF OneMore
    <3> HIDE DEF l
    <3> QED
      BY <1>1, <1>6, <1>8, <2>1, <2>3, <3>1, <3>2, <3>3, <3>4, <3>5
  <2>10. \A e \in l : e[2] <= Log!Number
    BY <1>1, <1>3, <2>3, <2>4
  <2>11. deadline' > 0 /\ deadline' # 0
    BY <1>1, <1>6, <2>1
  <2> HIDE DEF l
  <2> QED
    BY <1>1, <2>1, <2>5, <2>7, <2>8, <2>9, <2>10, <2>11 DEF LogKept
<1>11. ASSUME Log!Deny
       PROVE  LogKept'
  <2>1. /\ log' = Log!Current /\ seq' = seq
        /\ deadline' = now + CeilSeconds(2 * Window, 1)
        /\ answer' = <<real, "deny">> /\ admitted' = admitted
        /\ now' = now /\ real' = real /\ steady' = steady
    BY <1>7, <1>11 DEF Log!Deny, Log!time
  <2>2. \E at \in [Log!Current -> Int] :
          /\ Dated(at, Log!Current, now, real, now + CeilSeconds(2 * Window, 1), steady)
          /\ Tallied(at, Log!Current, admitted, real)
          /\ Backed(at, Log!Current, admitted, real)
    <3>1. PICK at \in [log -> Int] : /\ Dated(at, log, now, real, deadline, steady)
                                     /\ Tallied(at, Log!Current, admitted, real)
                                     /\ Backed(at, Log!Current, admitted, real)
      BY <1>3
    <3> DEFINE at2 == [e \in Log!Current |-> at[e]]
    <3>2. at2 \in [Log!Current -> Int] /\ \A e \in Log!Current : at2[e] = at[e]
      BY <1>3
    <3> HIDE DEF at2
    <3>3. Dated(at, Log!Current, now, real, now + CeilSeconds(2 * Window, 1), steady)
      BY <1>1, <1>3, <3>1, DatedRenewed
    <3>4. Dated(at2, Log!Current, now, real, now + CeilSeconds(2 * Window, 1), steady)
      BY <3>2, <3>3 DEF Dated
    <3>5. \A c : Younger(at2, Log!Current, c) = Younger(at, Log!Current, c)
      BY <3>2 DEF Younger
    <3>6. Tallied(at2, Log!Current, admitted, real)
      BY <3>1, <3>5 DEF Tallied
    <3>7. Backed(at2, Log!Current, admitted, real)
      BY <3>1, <3>5 DEF Backed
    <3> QED
      BY <3>2, <3>4, <3>6, <3>7
  <2>3. Log!TypeOK'
    <3>1. ClockTypeOK'
      BY <1>1, <2>1 DEF ClockTypeOK
    <3>2. \A e \in Log!Current : e \in Nat \X Nat
      BY <1>1, <1>3
    <3>3. Cardinality(Log!Current) <= Limit
      BY <1>1, <1>4, <1>5
    <3>4. answer' \in (0..real') \X {"none", "allow", "deny"}
      BY <1>1, <2>1
    <3> QED
      BY <1>1, <1>6, <1>8, <2>1, <3>1, <3>2, <3>3, <3>4
  <2>4. \A e \in Log!Current : e[2] <= seq
    BY <1>2, <1>3
  <2>5. deadline' > 0 /\ deadline' # 0
    BY <1>1, <1>6, <2>1
  <2> QED
    BY <1>1, <1>2, <1>3, <2>1, <2>2, <2>3, <2>4, <2>5 DEF LogKept
<1>12. ASSUME Log!Reset
       PROVE  LogKept'
  <2>1. /\ log' = {} /\ seq' = 0 /\ deadline' = 0
        /\ answer' = <<real, "none">> /\ admitted' = NoAdmissions
        /\ now' = now /\ real' = real /\ steady' = steady
    BY <1>12 DEF Log!Reset, Log!time, NoAdmissions, Log!Ideal!Instants, Instants
  <2>2. IsFiniteSet({}) /\ Cardinality({}) = 0
    BY FS_EmptySet
  <2>3. NoAdmissions \in [Instants -> Nat] /\ \A a, b : Count(NoAdmissions, a, b) = 0
    BY CountNone
  <2>4. Within(NoAdmissions, real, Limit)
    BY <1>1, WithinNone
  <2>5. Log!TypeOK'
    <3>1. ClockTypeOK'
      BY <1>1, <2>1 DEF ClockTypeOK
    <3>2. answer' \in (0..real') \X {"none", "allow", "deny"}
      BY <1>1, <2>1
    <3> QED
      BY <1>1, <1>8, <2>1, <2>2, <2>3, <3>1, <3>2
  <2>6. [e \in {} |-> 0] \in [{} -> Int] /\ Dated([e \in {} |-> 0], {}, now, real, 0, steady)
    BY DEF Dated
  <2>7. ~(0 > 0)
    OBVIOUS
  <2>9. Backed([e \in {} |-> 0], {}, NoAdmissions, real)
    BY <1>1, BackedNone
  <2>8. \E at \in [log' -> Int] : /\ Dated(at, log', now', real', deadline', steady')
                                  /\ deadline' > 0 => Tallied(at, log', admitted', real')
                                  /\ Backed(at, log', admitted', real')
    BY <2>1, <2>6, <2>7, <2>9
  <2> QED
    BY <1>1, <2>1, <2>2, <2>3, <2>4, <2>5, <2>8 DEF LogKept
<1>13. ASSUME TimePasses, ClockTypeOK', log' = log, seq' = seq, answer' = answer,
              admitted' = admitted, real' = real \/ real' = real + 1,
              deadline' = deadline \/ (deadline' = 0 /\ ~Log!Alive(deadline))
       PROVE  LogKept'
  <2>0. real' \in Nat /\ real <= real' /\ real' <= real + 1
    BY <1>1, <1>13
  <2>1. /\ now' \in Int /\ now' >= 0 /\ now' <= real' /\ real' \in Nat
        /\ real - now <= real' - now' /\ real <= real'
        /\ steady' = steady /\ (steady => now' = real')
    BY <1>13, <2>0 DEF TimePasses
  <2>2. Within(admitted, real', Limit)
    <3>1. CASE real' = real
      BY <1>2, <3>1
    <3>2. CASE real' = real + 1
      BY <1>1, <1>2, <3>2, WithinTicks
    <3> QED
      BY <1>13, <3>1, <3>2
  (* Nothing is forgotten but calls that grow old. *)
  <2>3. ASSUME NEW c \in Int, real' - Window <= c, c <= real
        PROVE  Count(admitted, c, real') = Count(admitted, c, real)
    <3>1. Count(admitted, c, real') = Count(admitted, c, real) + Count(admitted, real, real')
      BY <1>1, <2>1, <2>3, CountAdds
    <3>2. Count(admitted, real, real') = 0
      BY <1>2, <2>1 DEF Within
    <3> QED
      BY <1>1, <2>3, <3>1, <3>2, CountType
  <2>4. /\ real' - Window \in Int /\ real' - Window >= real - Window
        /\ real' - Window <= real
    <3>1. \A a, b, w \in Int : a <= b /\ b <= a + 1 /\ w > 0 =>
            b - w \in Int /\ b - w >= a - w /\ b - w <= a
      OBVIOUS
    <3>2. real \in Int /\ real' \in Int /\ Window \in Int /\ Window > 0
      BY <1>1, <2>0
    <3> QED
      BY <2>0, <3>1, <3>2
  <2>5. Count(admitted, real - Window, real) = 0 => Count(admitted, real' - Window, real') = 0
    <3>1. Count(admitted, real' - Window, real') = Count(admitted, real' - Window, real)
      BY <2>3, <2>4
    <3>2. Count(admitted, real' - Window, real) <= Count(admitted, real - Window, real)
      BY <1>1, <2>4, CountPart
    <3> QED
      BY <1>1, <3>1, <3>2, CountType
  <2>6. deadline' = 0 => Count(admitted, real - Window, real) = 0
    <3>1. ~Log!Alive(deadline) => Cardinality(Log!Current) = 0
      BY <1>3, FS_EmptySet
    <3> QED
      BY <1>2, <1>4, <1>13, <3>1
  <2>7. Log!TypeOK'
    <3>1. answer \in (0..real') \X {"none", "allow", "deny"}
      BY <1>1, <1>2, <2>1
    <3> QED
      BY <1>1, <1>8, <1>13, <3>1
  <2>8. \E at \in [log -> Int] :
          /\ Dated(at, log, now', real', deadline', steady)
          /\ deadline' > 0 => Tallied(at, log, admitted, real')
          /\ Backed(at, log, admitted, real')
    <3>1. PICK at \in [log -> Int] : /\ Dated(at, log, now, real, deadline, steady)
                                     /\ deadline > 0 => Tallied(at, log, admitted, real)
                                     /\ Backed(at, log, admitted, real)
      BY DEF LogKept
    <3>2. Dated(at, log, now', real', deadline', steady)
      <4>1. \A e \in log : e[1] \in Int
        BY <1>1
      <4>2. now \in Int /\ real \in Int /\ now' \in Int /\ real' \in Int
        BY <1>1, <2>1
      <4>3. real - now <= real' - now' /\ real <= real' /\ deadline \in Nat
        BY <1>1, <2>1
      <4>4. Dated(at, log, now, real, deadline, steady)
        BY <3>1
      <4>5. /\ Dated(at, log, now', real', deadline, steady)
            /\ Dated(at, log, now', real', 0, steady)
        BY ONLY <4>1, <4>2, <4>3, <4>4, DatedMoves
      <4> QED
        BY <1>13, <4>5
    <3>3. ASSUME deadline' > 0
          PROVE  Tallied(at, log, admitted, real')
      <4> SUFFICES ASSUME NEW c \in Int, real' - Window <= c, c <= real'
                   PROVE  Count(admitted, c, real') = Cardinality(Younger(at, log,
                       c))
        BY DEF Tallied
      <4>1. Tallied(at, log, admitted, real)
        BY <1>13, <3>1, <3>3
      <4>2. CASE c <= real
        BY <1>1, <2>3, <2>4, <4>1, <4>2 DEF Tallied
      <4>3. CASE c > real
        <5>1. Younger(at, log, c) = {}
          BY <1>1, <3>1, <4>3 DEF Younger, Dated
        <5>2. c = real'
          BY <1>1, <1>13, <2>1, <4>3
        <5> QED
          BY <1>1, <2>1, <5>1, <5>2, CountEmpty, FS_EmptySet
      <4> QED
        BY <1>1, <4>2, <4>3
    <3>4. Backed(at, log, admitted, real')
      <4> SUFFICES ASSUME NEW c \in Int, c <= real'
                   PROVE  Cardinality(Younger(at, log, c)) <= Count(admitted, c, real')
        BY DEF Backed
      <4>1. CASE c <= real
        <5>1. Cardinality(Younger(at, log, c)) <= Count(admitted, c, real)
          BY <3>1, <4>1 DEF Backed
        <5>2. Count(admitted, c, real') = Count(admitted, c, real)
          BY <1>1, <1>2, <2>1, <4>1, CountLater
        <5> QED
          BY <5>1, <5>2
      <4>2. CASE c > real
        <5>1. Younger(at, log, c) = {}
          BY <1>1, <3>1, <4>2 DEF Younger, Dated
        <5>2. Count(admitted, c, real') \in Nat
          BY <1>1, CountType
        <5> QED
          BY <5>1, <5>2, FS_EmptySet
      <4> QED
        BY <1>1, <4>1, <4>2
    <3> QED
      BY <3>1, <3>2, <3>3, <3>4
  <2> QED
    BY <1>1, <1>2, <1>13, <2>1, <2>2, <2>5, <2>6, <2>7, <2>8 DEF LogKept
<1>14. ASSUME Log!Tick
       PROVE  LogKept'
  <2>1. /\ log' = log /\ seq' = seq /\ deadline' = deadline
        /\ answer' = answer /\ admitted' = admitted /\ (ClockTick \/ SetBack)
    BY <1>14
    DEF Log!Tick, Log!keys, Log!observer, Log!ClockTick, Log!SetBack, ClockTick, SetBack
  <2>2. TimePasses /\ ClockTypeOK'
    BY <1>1, <2>1, ClockMoves
  <2>3. real' = real \/ real' = real + 1
    BY <2>1 DEF ClockTick, SetBack
  <2> QED
    BY <1>13, <2>1, <2>2, <2>3
<1>15. ASSUME Log!Expire \/ UNCHANGED Log!vars
       PROVE  LogKept'
  <2>1. /\ log' = log /\ seq' = seq /\ answer' = answer /\ admitted' = admitted
        /\ UNCHANGED time
        /\ deadline' = deadline \/ (deadline' = 0 /\ ~Log!Alive(deadline))
    BY <1>15
    DEF Log!Expire, Log!Deleted, Log!vars, Log!keys, Log!observer, Log!time, time
  <2>2. TimePasses /\ ClockTypeOK'
    BY <1>1, <2>1, ClockMoves
  <2>3. real' = real
    BY <2>1 DEF time
  <2> QED
    BY <1>13, <2>1, <2>2, <2>3
<1> QED
  BY <1>10, <1>11, <1>12, <1>14, <1>15 DEF Log!Next, Log!AllowRequest

(* So no window of real time is over the limit, and what fills the log are *)
(* calls of the last window by the server's clock. *)
LEMMA LogKeeps ==
    ASSUME LogKept
    PROVE  Log!EveryWindowWithinLimit /\ Log!DenialsJustified
<1>1. Log!EveryWindowWithinLimit
  BY LoadIs DEF LogKept, Within, Log!EveryWindowWithinLimit
<1>2. /\ now \in Nat /\ real \in Nat /\ Window \in Nat /\ Limit \in Nat
      /\ admitted \in [Instants -> Nat]
  BY LogTypes
<1>3. /\ Cardinality(Log!Current) <= Count(admitted, now - Window, real)
      /\ Cardinality(Log!Current) \in Nat
  BY LogLoad
<1>4. real - (Window + (real - now)) = now - Window
  BY <1>2
<1>5. Log!Ideal!Load(real, Window + (real - now)) = Count(admitted, now - Window, real)
  BY <1>4, LoadIs
<1>6. Count(admitted, now - Window, real) \in Nat
  BY <1>2, CountType
<1> QED
  BY <1>1, <1>2, <1>3, <1>5, <1>6, SameCardinality DEF Log!DenialsJustified

(* A steady clock: the scripts are the rolling limiter. *)
LEMMA LogIdeal ==
    ASSUME LogKept, steady, [Log!Next]_(Log!vars)
    PROVE  [Log!Ideal!Next]_<<real, admitted, answer>>
<1> DEFINE same == UNCHANGED <<real, admitted, answer>>
<1>1. /\ Log!Ideal!Load(real, Window) = Log!Cardinality(Log!Current)
  BY LogLoad, LoadIs, SameCardinality
<1>2. Log!Admit => Log!Ideal!Admit
  BY <1>1 DEF Log!Admit, Log!Ideal!Admit, Log!time
<1>3. Log!Deny => Log!Ideal!Deny
  BY <1>1 DEF Log!Deny, Log!Ideal!Deny, Log!time
<1>4. Log!Reset => Log!Ideal!Reset
  BY DEF Log!Reset, Log!Ideal!Reset, Log!time
<1>5. Log!Tick => Log!Ideal!Tick
  BY DEF Log!Tick, Log!ClockTick, Log!SetBack, Log!Ideal!Tick, Log!observer
<1>6. Log!Expire \/ UNCHANGED Log!vars => same
  BY DEF Log!Expire, Log!observer, Log!time, Log!vars
<1> HIDE DEF same
<1>7. Log!Ideal!Next \/ same
  BY <1>2, <1>3, <1>4, <1>5, <1>6 DEF Log!Next, Log!AllowRequest, Log!Ideal!Next
<1> QED
  BY <1>7 DEF same

-----------------------------------------------------------------------------
(* Sliding window counter.  The window in the keys began at b in real      *)
(* time, or earlier: no call since then, or since a window before, escapes *)
(* the counts c and p.                                                     *)
Covered(f, p, c, b, r) ==
    /\ Count(f, b - 1, r) <= c
    /\ Count(f, b - Window - 1, r) <= p + c
    /\ Count(f, b + Window - 1, r) = 0

(* The counts are of calls that were let through, since s. *)
Genuine(f, p, c, s, r) ==
    /\ Count(f, s - 1, r) >= c
    /\ Count(f, s - Window - 1, r) >= p + c

Lifetime == 3 * CeilSeconds(Window, 1)

SlidingKept ==
    /\ Sliding!TypeOK /\ (steady => now = real)
    /\ Within(admitted, real, 2 * Limit)
    /\ deadline = 0 => Count(admitted, real - 3 * Window, real) = 0
    /\ deadline > 0 =>
         /\ Count(admitted, real - now + deadline - Lifetime, real) = 0
         /\ start >= 0
         /\ Covered(admitted, prev, curr, Began(start, now, real), real)
         /\ Genuine(admitted, prev, curr, start, real)
         /\ steady => start <= now

(* The types, in the form that arithmetic needs. *)
LEMMA SlidingTypes ==
    ASSUME SlidingKept
    PROVE  /\ ClockTypeOK /\ (steady => now = real) /\ real \in Instants
           /\ now \in Nat /\ real \in Nat /\ now <= real
           /\ deadline \in Nat /\ prev \in 0..Limit /\ curr \in 0..Limit
           /\ start \in {-Window} \cup 0..real /\ start \in Int
           /\ admitted \in [Instants -> Nat]
           /\ Limit \in Nat /\ Limit > 0 /\ Window \in Nat /\ Window > 0
           /\ Lifetime \in Nat /\ Lifetime >= 3 * Window
           /\ Sliding!Alive(deadline) <=> now < deadline
<1>1. Limit \in Nat /\ Limit > 0 /\ Window \in Nat /\ Window > 0
  BY WindowAssumption
<1>2. Sliding!TypeOK /\ (steady => now = real)
  BY DEF SlidingKept
<1>3. /\ ClockTypeOK /\ real \in Instants /\ now \in Nat /\ real \in Nat /\ now <= real
  BY <1>2, ClockAssumption
  DEF Sliding!TypeOK, Sliding!ClockTypeOK, ClockTypeOK, Instants
<1>4. /\ deadline \in Nat /\ prev \in 0..Limit /\ curr \in 0..Limit
      /\ start \in {-Window} \cup 0..real
  BY <1>2 DEF Sliding!TypeOK
<1>5. start \in Int
  BY <1>1, <1>3, <1>4
<1>6. Sliding!Alive(deadline) <=> now < deadline
  BY <1>3, <1>4 DEF Sliding!Alive, Sliding!Never
<1>7. admitted \in [Instants -> Nat]
  BY <1>2 DEF Sliding!TypeOK, Sliding!Ideal!Instants, Instants
<1>8. Lifetime \in Nat /\ Lifetime >= 3 * Window
  <2>1. CeilSeconds(Window, 1) \in Nat /\ CeilSeconds(Window, 1) >= Window
    BY <1>1, LongEnough
  <2> QED
    BY <1>1, <2>1 DEF Lifetime
<1> QED
  BY <1>1, <1>2, <1>3, <1>4, <1>5, <1>6, <1>7, <1>8

(* Keys that have expired say nothing of calls that still matter. *)
LEMMA SlidingExpired ==
    ASSUME SlidingKept, ~Sliding!Alive(deadline)
    PROVE  Count(admitted, real - 3 * Window, real) = 0
<1>1. /\ now \in Nat /\ real \in Nat /\ deadline \in Nat /\ now >= deadline
      /\ admitted \in [Instants -> Nat] /\ Window \in Nat
      /\ Lifetime \in Nat /\ Lifetime >= 3 * Window
  BY SlidingTypes
<1>2. CASE deadline = 0
  BY <1>2 DEF SlidingKept
<1>3. CASE deadline > 0
  <2> DEFINE a == real - now + deadline - Lifetime
  <2>1. Count(admitted, a, real) = 0
    BY <1>3 DEF SlidingKept
  <2>2. /\ a \in Int /\ real - 3 * Window \in Int
        /\ a <= real - 3 * Window /\ real - 3 * Window <= real
    BY <1>1
  <2> HIDE DEF a
  <2>3. Count(admitted, real - 3 * Window, real) <= Count(admitted, a, real)
    BY <1>1, <2>2, CountPart
  <2> QED
    BY <1>1, <2>1, <2>3, CountType
<1> QED
  BY <1>1, <1>2, <1>3

(* What a script finds, whether it goes on, moves on or starts anew. *)
LEMMA SlidingFound ==
    ASSUME SlidingKept
    PROVE  /\ Sliding!Found.prev \in 0..Limit /\ Sliding!Found.curr \in 0..Limit
           /\ Sliding!Found.start \in 0..real /\ now - Sliding!Found.start < Window
           /\ Covered(admitted, Sliding!Found.prev, Sliding!Found.curr,
                      Began(Sliding!Found.start, now, real), real)
           /\ Genuine(admitted, Sliding!Found.prev, Sliding!Found.curr,
                      Sliding!Found.start, real)
           /\ steady => Sliding!Found.start <= now
<1>1. /\ now \in Nat /\ real \in Nat /\ now <= real /\ deadline \in Nat
      /\ prev \in 0..Limit /\ curr \in 0..Limit
      /\ start \in {-Window} \cup 0..real /\ start \in Int
      /\ admitted \in [Instants -> Nat]
      /\ Limit \in Nat /\ Window \in Nat /\ Window > 0
      /\ Sliding!Alive(deadline) <=> now < deadline
  BY SlidingTypes
<1>2. \A a, b : Count(admitted, a, b) \in Nat
  BY <1>1, CountType
<1>3. CASE ~Sliding!Alive(deadline)
  <2>1. Sliding!Found = [prev |-> 0, curr |-> 0, start |-> now]
    BY <1>3 DEF Sliding!Found
  <2>2. Sliding!Found.prev = 0 /\ Sliding!Found.curr = 0 /\ Sliding!Found.start = now
    BY <2>1
  <2>3. Began(now, now, real) = real
    BY <1>1, BeganMoves
  <2>4. ASSUME NEW a \in Int, real - 3 * Window <= a, a <= real
        PROVE  Count(admitted, a, real) = 0
    <3>1. Count(admitted, a, real) <= Count(admitted, real - 3 * Window, real)
      BY <1>1, <2>4, CountPart
    <3> QED
      BY <1>2, <1>3, <3>1, SlidingExpired
  <2>5. /\ Count(admitted, real - 1, real) = 0
        /\ Count(admitted, real - Window - 1, real) = 0
    BY <1>1, <2>4
  <2>6. Count(admitted, real + Window - 1, real) = 0
    BY <1>1, CountEmpty
  <2>7. Covered(admitted, 0, 0, real, real)
    BY <2>5, <2>6 DEF Covered
  <2>8. Genuine(admitted, 0, 0, now, real)
    BY <1>2 DEF Genuine
  <2> QED
    BY <1>1, <2>2, <2>3, <2>7, <2>8
<1> DEFINE b == Began(start, now, real)
<1>4. CASE Sliding!Alive(deadline) /\ now - start < Window
  <2>1. Sliding!Found = [prev |-> prev, curr |-> curr, start |-> start]
    BY <1>4 DEF Sliding!Found
  <2>2. Sliding!Found.prev = prev /\ Sliding!Found.curr = curr /\ Sliding!Found.start = start
    BY <2>1
  <2>3. deadline > 0
    BY <1>1, <1>4
  <2>4. /\ start >= 0 /\ Covered(admitted, prev, curr, b, real)
        /\ Genuine(admitted, prev, curr, start, real)
        /\ steady => start <= now
    BY <2>3 DEF SlidingKept
  <2>5. start \in 0..real
    BY <1>1, <2>4
  <2> QED
    BY <1>1, <1>4, <2>2, <2>4, <2>5
<1>5. CASE Sliding!Alive(deadline) /\ ~(now - start < Window)
  <2> DEFINE q == Sliding!Passed
             s == start + q * Window
             e == real - (now - s)
  <2>1. Sliding!Found = [prev |-> Sliding!Carried, curr |-> 0, start |-> s]
    BY <1>5 DEF Sliding!Found
  <2>2. /\ Sliding!Found.prev = Sliding!Carried /\ Sliding!Found.curr = 0
        /\ Sliding!Found.start = s
    BY <2>1
  <2>3. deadline > 0
    BY <1>1, <1>5
  <2>4. /\ start >= 0 /\ Covered(admitted, prev, curr, b, real)
        /\ Genuine(admitted, prev, curr, start, real)
        /\ steady => start <= now
    BY <2>3 DEF SlidingKept
  <2>5. now - start \in Nat /\ now - start >= Window
    BY <1>1, <1>5
  <2>6. /\ q \in Nat /\ q * Window \in Int /\ q * Window <= now - start
        /\ now - start < q * Window + Window
        /\ q * Window >= Window
        /\ q # 1 => q * Window >= 2 * Window
        /\ q = 1 => q * Window = Window
    BY <1>1, <2>5, Windows, WindowsPassed DEF Sliding!Passed
  <2>7. Sliding!Carried = IF q = 1 THEN curr ELSE 0
    BY DEF Sliding!Carried
  <2> HIDE DEF q
  <2>8. s \in 0..real /\ s <= now /\ now - s < Window
    BY <1>1, <2>4, <2>6
  <2>9. /\ b = real - (now - start) /\ b \in Int
        /\ Began(s, now, real) = e
    <3>1. now \in Int /\ real \in Int /\ now >= start /\ s \in Int /\ now >= s
      BY <1>1, <2>5, <2>6, <2>8
    <3> QED
      BY <1>1, <3>1, BeganIs
  <2>10. /\ e \in Int /\ e = b + q * Window /\ e <= real /\ e > real - Window
    BY <1>1, <2>6, <2>8, <2>9
  <2> HIDE DEF b, s, e
  <2>11. Count(admitted, b - 1, real) <= curr /\ Count(admitted, b + Window - 1, real) = 0
    BY <2>4 DEF Covered, b
  <2>12. ASSUME NEW a \in Int, b + Window - 1 <= a
         PROVE  Count(admitted, a, real) = 0
    <3>1. CASE a <= real
      <4>1. Count(admitted, a, real) <= Count(admitted, b + Window - 1, real)
        BY <1>1, <2>9, <2>12, <3>1, CountPart
      <4> QED
        BY <1>2, <2>11, <4>1
    <3>2. CASE a > real
      BY <1>1, <3>2, CountEmpty
    <3> QED
      BY <1>1, <3>1, <3>2
  <2>13. Count(admitted, e - 1, real) = 0 /\ Count(admitted, e + Window - 1, real) = 0
    BY <1>1, <2>6, <2>9, <2>10, <2>12
  <2>14. CASE q = 1
    <3>1. /\ Sliding!Carried = curr /\ e - Window - 1 = b - 1
          /\ s - Window - 1 = start - 1
      BY <1>1, <2>6, <2>7, <2>9, <2>10, <2>14 DEF s
    <3>2. Covered(admitted, curr, 0, e, real)
      BY <1>1, <2>11, <2>13, <3>1 DEF Covered
    <3>3. Genuine(admitted, curr, 0, s, real)
      <4>1. Count(admitted, start - 1, real) >= curr
        BY <2>4 DEF Genuine
      <4> QED
        BY <1>1, <1>2, <3>1, <4>1 DEF Genuine
    <3> QED
      BY <1>1, <2>2, <2>8, <2>9, <3>1, <3>2, <3>3
  <2>15. CASE q # 1
    <3>1. Sliding!Carried = 0 /\ b + Window - 1 <= e - Window - 1
      BY <1>1, <2>6, <2>7, <2>9, <2>10, <2>15
    <3>2. Count(admitted, e - Window - 1, real) = 0
      BY <1>1, <2>10, <2>12, <3>1
    <3>3. Covered(admitted, 0, 0, e, real)
      BY <2>13, <3>2 DEF Covered
    <3>4. Genuine(admitted, 0, 0, s, real)
      BY <1>2 DEF Genuine
    <3> QED
      BY <1>1, <2>2, <2>8, <2>9, <3>1, <3>3, <3>4
  <2> QED
    BY <2>14, <2>15
<1> QED
  BY <1>3, <1>4, <1>5

(* Both bounds in numbers. *)
LEMMA SlidingLoad ==
    ASSUME SlidingKept
    PROVE  /\ Count(admitted, real - Window, real) \in Nat
           /\ Count(admitted, real - Window, real) <= Sliding!Found.prev + Sliding!Found.curr
           /\ Count(admitted, now - 2 * Window, real)
                >= Sliding!Found.prev + Sliding!Found.curr
<1> DEFINE p == Sliding!Found.prev
           c == Sliding!Found.curr
           s == Sliding!Found.start
           b == Began(s, now, real)
<1>1. /\ now \in Nat /\ real \in Nat /\ (steady => now = real)
      /\ admitted \in [Instants -> Nat] /\ Limit \in Nat /\ Window \in Nat
  BY SlidingTypes
<1>2. /\ p \in 0..Limit /\ c \in 0..Limit /\ s \in 0..real /\ now - s < Window
      /\ Covered(admitted, p, c, b, real)
      /\ Genuine(admitted, p, c, s, real)
  BY SlidingFound
<1>3. s \in Int /\ p + c \in Int
  BY <1>1, <1>2
<1> HIDE DEF p, c, s
<1>4. b \in Int /\ b <= real
  <2>1. now \in Int /\ real \in Int /\ s \in Int
    BY <1>1, <1>3
  <2> QED
    BY <2>1, BeganIs
<1> HIDE DEF b
<1>5. Count(admitted, b - Window - 1, real) <= p + c
  BY <1>2 DEF Covered
<1>6. Count(admitted, real - Window, real) <= Count(admitted, b - Window - 1, real)
  BY <1>1, <1>4, CountPart
<1>7. \A x, y : Count(admitted, x, y) \in Nat
  BY <1>1, CountType
<1>8. Count(admitted, now - 2 * Window, real) >= p + c
  <2>1. Count(admitted, s - Window - 1, real) >= p + c
    BY <1>2 DEF Genuine
  <2>2. /\ now - 2 * Window \in Int /\ s - Window - 1 \in Int
        /\ now - 2 * Window <= s - Window - 1 /\ s - Window - 1 <= real
    BY <1>1, <1>2, <1>3
  <2>3. Count(admitted, s - Window - 1, real) <= Count(admitted, now - 2 * Window, real)
    BY <1>1, <2>2, CountPart
  <2> QED
    BY <1>3, <1>7, <2>1, <2>3
<1>9. Count(admitted, real - Window, real) <= p + c
  BY <1>3, <1>5, <1>6, <1>7
<1> QED
  BY <1>7, <1>8, <1>9 DEF p, c

(* The estimate, between the counts and what the weights take off. *)
LEMMA SlidingEstimate ==
    ASSUME SlidingKept
    PROVE  /\ Sliding!Estimate \in Int
           /\ Sliding!Estimate < Limit * Window => Sliding!Found.curr < Limit
           /\ (Sliding!Found.prev + Sliding!Found.curr) * Window
                <= Sliding!Estimate
                   + Limit * (IF now > Sliding!Found.start THEN now - Sliding!Found.start ELSE 0)
           /\ Sliding!Estimate
                <= (Sliding!Found.prev + Sliding!Found.curr) * (Window + Sliding!Ahead)
<1> DEFINE p == Sliding!Found.prev
           c == Sliding!Found.curr
           d == now - Sliding!Found.start
           w == Window - d
<1>1. now \in Nat /\ real \in Nat /\ Limit \in Nat /\ Window \in Nat /\ Window > 0
  BY SlidingTypes
<1>2. /\ p \in 0..Limit /\ p \in Nat /\ c \in Nat /\ d \in Int /\ d < Window
  BY <1>1, SlidingFound
<1>3. Sliding!Estimate = p * w + c * Window
  BY DEF Sliding!Estimate
<1>4. /\ IF now > Sliding!Found.start THEN d > 0 ELSE d <= 0
      /\ Sliding!Ahead = IF d < 0 THEN -d ELSE 0
  <2>1. Sliding!Found.start \in Int
    BY <1>1, SlidingFound
  <2> QED
    BY <1>1, <2>1 DEF Sliding!Ahead
<1> HIDE DEF p, c, d
<1>5. w \in Int /\ w > 0
  BY <1>1, <1>2
<1>6. p * w \in Nat /\ c * Window \in Nat /\ Limit * Window \in Nat
  BY <1>1, <1>2, <1>5
<1>7. Sliding!Estimate < Limit * Window => c < Limit
  <2>1. c >= Limit => Limit * Window <= c * Window
    BY <1>1, <1>2, Times
  <2> QED
    BY <1>1, <1>2, <1>3, <1>6, <2>1
<1>8. ASSUME d >= 0
      PROVE  /\ (p + c) * Window <= Sliding!Estimate + Limit * d
             /\ Sliding!Estimate <= (p + c) * Window
  <2>1. d \in 0..Window
    BY <1>1, <1>2, <1>8
  <2> QED
    BY <1>1, <1>2, <1>3, <2>1, Weights
<1>9. ASSUME d <= 0
      PROVE  (p + c) * Window <= Sliding!Estimate + Limit * 0
  <2>1. Window <= w
    BY <1>1, <1>2, <1>9
  <2>2. Window * p <= w * p
    BY <1>1, <1>2, <1>5, <2>1, Times
  <2>3. (p + c) * Window = Window * p + c * Window /\ w * p = p * w /\ Window * p \in Int
    BY <1>1, <1>2, <1>5
  <2>4. Limit * 0 = 0
    BY <1>1
  <2> HIDE DEF w
  <2> QED
    BY <1>3, <1>6, <2>2, <2>3, <2>4
<1>10. Sliding!Estimate <= (p + c) * (Window + Sliding!Ahead)
  <2>1. CASE d >= 0
    <3>1. Window + Sliding!Ahead = Window
      BY <1>1, <1>2, <1>4, <2>1
    <3> QED
      BY <1>8, <2>1, <3>1
  <2>2. CASE d < 0
    <3>1. Window + Sliding!Ahead = w /\ Window <= w
      BY <1>1, <1>2, <1>4, <2>2
    <3>2. Window * c <= w * c
      BY <1>1, <1>2, <1>5, <3>1, Times
    <3>3. (p + c) * w = p * w + w * c /\ c * Window = Window * c
      BY <1>1, <1>2, <1>5
    <3>4. w * c \in Int /\ Window * c \in Int
      BY <1>1, <1>2, <1>5
    <3> HIDE DEF w
    <3> QED
      BY <1>3, <1>6, <3>1, <3>2, <3>3, <3>4
  <2> QED
    BY <1>2, <2>1, <2>2
<1> QED
  BY <1>2, <1>3, <1>4, <1>6, <1>7, <1>8, <1>9, <1>10 DEF p, c, d

(* What there is to show of a new state. *)
LEMMA SlidingNew ==
    ASSUME Limit \in Nat, Window \in Nat, ClockTypeOK', prev' \in 0..Limit,
           curr' \in 0..Limit,
           start' \in {-Window} \cup 0..real', deadline' \in Nat,
           admitted' \in [Instants -> Nat]
    PROVE  Sliding!TypeOK'
  BY DEF Sliding!TypeOK, Sliding!ClockTypeOK, ClockTypeOK, Sliding!Ideal!Instants,
         Instants

(* No call was made yet. *)
LEMMA SlidingInit ==
    ASSUME Sliding!Init
    PROVE  SlidingKept
<1>1. /\ now = 0 /\ real = 0 /\ steady \in BOOLEAN /\ prev = 0 /\ curr = 0
      /\ start = -Window /\ deadline = 0 /\ admitted = NoAdmissions
  BY DEF Sliding!Init, Sliding!ClockInit, NoAdmissions, Sliding!Ideal!Instants, Instants
<1>2. NoAdmissions \in [Instants -> Nat] /\ \A a, b : Count(NoAdmissions, a, b) = 0
  BY CountNone
<1>3. Limit \in Nat /\ MaxTime \in Nat
  BY WindowAssumption, ClockAssumption
<1>4. Sliding!TypeOK
  <2>1. Sliding!ClockTypeOK
    BY <1>1, <1>3 DEF Sliding!ClockTypeOK
  <2>2. admitted \in [Sliding!Ideal!Instants -> Nat]
    BY <1>1, <1>2 DEF Sliding!Ideal!Instants, Instants
  <2> QED
    BY <1>1, <1>3, <2>1, <2>2 DEF Sliding!TypeOK
<1>5. Within(admitted, real, 2 * Limit)
  BY <1>1, <1>3, WithinNone
<1>6. ~(deadline > 0) /\ (steady => now = real)
  BY <1>1
<1>7. Count(admitted, real - 3 * Window, real) = 0
  BY <1>1, <1>2
<1> QED
  BY <1>4, <1>5, <1>6, <1>7 DEF SlidingKept

(* Keys that a script has just written, for a history g. *)
LEMMA SlidingWritten ==
    ASSUME SlidingKept, deadline' = now + Lifetime,
           now' = now, real' = real, steady' = steady,
           prev' \in 0..Limit, curr' \in 0..Limit, start' \in 0..real,
           admitted' \in [Instants -> Nat], Within(admitted', real, 2 * Limit),
           Covered(admitted', prev', curr', Began(start', now, real), real),
           Genuine(admitted', prev', curr', start', real),
           steady => start' <= now
    PROVE  SlidingKept'
<1>1. /\ ClockTypeOK /\ (steady => now = real)
      /\ now \in Nat /\ real \in Nat /\ now <= real
      /\ Limit \in Nat /\ Window \in Nat /\ Window > 0
      /\ Lifetime \in Nat /\ Lifetime >= 3 * Window
  BY SlidingTypes
<1>2. /\ deadline' \in Nat /\ deadline' > 0 /\ deadline' # 0 /\ start' >= 0
      /\ real - now + deadline' - Lifetime = real
  BY <1>1
<1>3. Sliding!TypeOK'
  <2>1. ClockTypeOK'
    BY <1>1 DEF ClockTypeOK
  <2> QED
    BY <1>1, <1>2, <2>1, SlidingNew
<1>4. Count(admitted', real, real) = 0
  BY <1>1, CountEmpty
<1>5. Count(admitted', real' - now' + deadline' - Lifetime, real') = 0
  BY <1>2, <1>4
<1> QED
  BY <1>1, <1>2, <1>3, <1>5 DEF SlidingKept

(* One more call, now. *)
LEMMA SlidingAdmits ==
    ASSUME SlidingKept, Sliding!Admit
    PROVE  SlidingKept'
<1> DEFINE p == Sliding!Found.prev
           c == Sliding!Found.curr
           s == Sliding!Found.start
           b == Began(s, now, real)
<1>1. /\ now \in Nat /\ real \in Nat /\ real \in Instants /\ now <= real
      /\ admitted \in [Instants -> Nat]
      /\ Limit \in Nat /\ Limit > 0 /\ Window \in Nat /\ Window > 0
  BY SlidingTypes
<1>2. /\ Sliding!Estimate < Limit * Window
      /\ prev' = p /\ curr' = c + 1 /\ start' = s
      /\ deadline' = now + Lifetime
      /\ admitted' = [admitted EXCEPT ![real] = @ + 1]
      /\ now' = now /\ real' = real /\ steady' = steady
  BY DEF Sliding!Admit, Sliding!Write, Sliding!Expiry, Sliding!time, Sliding!CeilSeconds,
         CeilSeconds, Lifetime
<1>3. /\ p \in 0..Limit /\ c \in 0..Limit /\ s \in 0..real /\ now - s < Window
      /\ Covered(admitted, p, c, b, real)
      /\ Genuine(admitted, p, c, s, real)
  BY SlidingFound
<1>4. c < Limit
  BY <1>2, SlidingEstimate
<1>16. steady => s <= now
  BY SlidingFound
<1>5. Count(admitted, real - Window, real) <= p + c
      /\ Count(admitted, real - Window, real) \in Nat
  BY SlidingLoad
<1>6. p \in Nat /\ c \in Nat /\ p <= Limit /\ s \in Nat /\ s <= real
  BY <1>1, <1>3
<1>7. b \in Int /\ b <= real /\ b > real - Window
  BY <1>1, <1>3, <1>6 DEF Began
<1> HIDE DEF p, c, s, b
<1>8. OneMore(admitted, admitted', real)
  BY <1>1, <1>2, AdmitsOne
<1>9. ASSUME NEW x \in Int
      PROVE  /\ x < real => Count(admitted', x, real) = Count(admitted, x, real) + 1
             /\ x >= real => Count(admitted', x, real) = Count(admitted, x, real)
             /\ Count(admitted, x, real) \in Nat
  BY <1>1, <1>8, CountAdmit, CountType
<1>10. Within(admitted', real, 2 * Limit)
  <2>1. Count(admitted, real - Window, real) + 1 <= 2 * Limit
    BY <1>1, <1>4, <1>5, <1>6
  <2>2. Within(admitted, real, 2 * Limit) /\ 2 * Limit \in Nat
    BY <1>1 DEF SlidingKept
  <2> QED
    BY <1>1, <1>8, <2>1, <2>2, WithinAdmits
<1>11. Covered(admitted', p, c + 1, b, real)
  <2>1. /\ b - 1 \in Int /\ b - Window - 1 \in Int /\ b + Window - 1 \in Int
        /\ b - 1 < real /\ b - Window - 1 < real /\ b + Window - 1 >= real
    BY <1>1, <1>7
  <2>2. /\ Count(admitted, b - 1, real) <= c
        /\ Count(admitted, b - Window - 1, real) <= p + c
        /\ Count(admitted, b + Window - 1, real) = 0
    BY <1>3 DEF Covered
  <2>3. /\ Count(admitted', b - 1, real) = Count(admitted, b - 1, real) + 1
        /\ Count(admitted', b - Window - 1, real) = Count(admitted, b - Window - 1, real) + 1
        /\ Count(admitted', b + Window - 1, real) = 0
        /\ Count(admitted, b - 1, real) \in Nat
        /\ Count(admitted, b - Window - 1, real) \in Nat
    BY <1>9, <2>1, <2>2
  <2>4. /\ Count(admitted', b - 1, real) <= c + 1
        /\ Count(admitted', b - Window - 1, real) <= p + (c + 1)
    BY <1>6, <2>2, <2>3
  <2> QED
    BY <2>3, <2>4 DEF Covered
<1>12. Genuine(admitted', p, c + 1, s, real)
  <2>1. /\ s - 1 \in Int /\ s - Window - 1 \in Int
        /\ s - 1 < real /\ s - Window - 1 < real
    BY <1>1, <1>6
  <2>2. /\ Count(admitted, s - 1, real) >= c
        /\ Count(admitted, s - Window - 1, real) >= p + c
    BY <1>3 DEF Genuine
  <2>3. /\ Count(admitted', s - 1, real) = Count(admitted, s - 1, real) + 1
        /\ Count(admitted', s - Window - 1, real) = Count(admitted, s - Window - 1, real) + 1
        /\ Count(admitted, s - 1, real) \in Nat
        /\ Count(admitted, s - Window - 1, real) \in Nat
    BY <1>9, <2>1
  <2>4. /\ Count(admitted', s - 1, real) >= c + 1
        /\ Count(admitted', s - Window - 1, real) >= p + (c + 1)
    BY <1>6, <2>2, <2>3
  <2> QED
    BY <2>4 DEF Genuine
<1>13. prev' \in 0..Limit /\ curr' \in 0..Limit /\ start' \in 0..real
  BY <1>1, <1>2, <1>3, <1>4, <1>6
<1>14. admitted' \in [Instants -> Nat]
  BY <1>8 DEF OneMore
<1>15. /\ Covered(admitted', prev', curr', Began(start', now, real), real)
       /\ Genuine(admitted', prev', curr', start', real)
       /\ steady => start' <= now
  BY <1>2, <1>3, <1>11, <1>12, <1>16 DEF b
<1> QED
  BY <1>2, <1>10, <1>13, <1>14, <1>15, SlidingWritten

(* A call that was denied leaves what the script found. *)
LEMMA SlidingDenies ==
    ASSUME SlidingKept, Sliding!Deny
    PROVE  SlidingKept'
<1>1. /\ prev' = Sliding!Found.prev /\ curr' = Sliding!Found.curr
      /\ start' = Sliding!Found.start
      /\ deadline' = now + Lifetime /\ admitted' = admitted
      /\ now' = now /\ real' = real /\ steady' = steady
  BY DEF Sliding!Deny, Sliding!Write, Sliding!Expiry, Sliding!time, Sliding!CeilSeconds,
         CeilSeconds, Lifetime
<1>2. Within(admitted, real, 2 * Limit) /\ admitted \in [Instants -> Nat]
  BY SlidingTypes DEF SlidingKept
<1> QED
  BY <1>1, <1>2, SlidingFound, SlidingWritten

(* A reset forgets all calls. *)
LEMMA SlidingResets ==
    ASSUME SlidingKept, Sliding!Reset
    PROVE  SlidingKept'
<1>1. /\ prev' = 0 /\ curr' = 0 /\ start' = now
      /\ deadline' = now + Lifetime /\ admitted' = NoAdmissions
      /\ now' = now /\ real' = real /\ steady' = steady
  BY DEF Sliding!Reset, Sliding!Expiry, Sliding!time, Sliding!CeilSeconds, CeilSeconds,
         Lifetime, NoAdmissions, Sliding!Ideal!Instants, Instants
<1>2. NoAdmissions \in [Instants -> Nat] /\ \A a, b : Count(NoAdmissions, a, b) = 0
  BY CountNone
<1>3. now \in Nat /\ real \in Nat /\ now <= real /\ Limit \in Nat
  BY SlidingTypes
<1>4. Within(admitted', real, 2 * Limit)
  BY <1>1, <1>3, WithinNone
<1>5. /\ Covered(admitted', prev', curr', Began(start', now, real), real)
      /\ Genuine(admitted', prev', curr', start', real)
  BY <1>1, <1>2 DEF Covered, Genuine
<1>6. /\ prev' \in 0..Limit /\ curr' \in 0..Limit /\ start' \in 0..real
      /\ admitted' \in [Instants -> Nat] /\ start' <= now
  BY <1>1, <1>2, <1>3
<1> QED
  BY <1>1, <1>4, <1>5, <1>6, SlidingWritten

(* Time passes; calls only grow older.  The keys may be deleted. *)
LEMMA SlidingPasses ==
    ASSUME SlidingKept, TimePasses, ClockTypeOK',
           \A s \in Int : Began(s, now, real) <= Began(s, now', real'),
           prev' = prev, curr' = curr, start' = start, admitted' = admitted,
           real' = real \/ real' = real + 1,
           deadline' = deadline \/ (deadline' = 0 /\ ~Sliding!Alive(deadline))
    PROVE  SlidingKept'
<1>1. /\ ClockTypeOK /\ (steady => now = real) /\ real \in Instants
      /\ now \in Nat /\ real \in Nat /\ now <= real
      /\ deadline \in Nat /\ prev \in 0..Limit /\ curr \in 0..Limit
      /\ start \in {-Window} \cup 0..real /\ start \in Int
      /\ admitted \in [Instants -> Nat]
      /\ Limit \in Nat /\ Limit > 0 /\ Window \in Nat /\ Window > 0
      /\ Lifetime \in Nat /\ Lifetime >= 3 * Window
  BY SlidingTypes
<1>2. real' \in Nat /\ real <= real' /\ real' <= real + 1
  BY <1>1
<1>3. /\ now' \in Int /\ now' >= 0 /\ now' <= real'
      /\ real - now <= real' - now'
      /\ steady' = steady /\ (steady => now' = real')
  BY <1>2 DEF TimePasses
<1>4. Within(admitted, real, 2 * Limit) /\ 2 * Limit \in Nat
  BY <1>1 DEF SlidingKept
<1>5. Within(admitted, real', 2 * Limit)
  <2>1. CASE real' = real
    BY <1>4, <2>1
  <2>2. CASE real' = real + 1
    BY <1>1, <1>4, <2>2, WithinTicks
  <2> QED
    BY <2>1, <2>2
<1>6. ASSUME NEW a \in Int, NEW b \in Int, a <= b
      PROVE  /\ Count(admitted, b, real') <= Count(admitted, a, real)
             /\ a <= real => Count(admitted, a, real') = Count(admitted, a, real)
             /\ Count(admitted, a, real) \in Nat /\ Count(admitted, b, real') \in Nat
  BY <1>1, <1>2, <1>4, <1>6, CountLater, CountType
<1>7. Sliding!TypeOK'
  <2>1. deadline' \in Nat /\ start' \in {-Window} \cup 0..real'
    BY <1>1, <1>2
  <2> QED
    BY <1>1, <2>1, SlidingNew
<1>8. ASSUME deadline' = 0
      PROVE  Count(admitted, real' - 3 * Window, real') = 0
  <2>1. Count(admitted, real - 3 * Window, real) = 0
    <3>1. CASE deadline = 0
      BY <3>1 DEF SlidingKept
    <3>2. CASE deadline # 0
      BY <1>8, <3>2, SlidingExpired
    <3> QED
      BY <3>1, <3>2
  <2>2. /\ real - 3 * Window \in Int /\ real' - 3 * Window \in Int
        /\ real - 3 * Window <= real' - 3 * Window
    <3>1. \A a, b, w \in Int : a <= b => a - w \in Int /\ b - w \in Int /\ a - w <= b - w
      OBVIOUS
    <3>2. 3 * Window \in Int /\ real \in Int /\ real' \in Int /\ real <= real'
      BY <1>1, <1>2
    <3> QED
      BY ONLY <3>1, <3>2
  <2> QED
    BY <1>6, <2>1, <2>2
<1>9. ASSUME deadline' > 0
      PROVE  /\ Count(admitted, real' - now' + deadline' - Lifetime, real') = 0
             /\ start >= 0
             /\ Covered(admitted, prev, curr, Began(start, now', real'), real')
             /\ Genuine(admitted, prev, curr, start, real')
             /\ steady => start <= now'
  <2>1. deadline' = deadline /\ deadline > 0
    BY <1>9
  <2>2. /\ Count(admitted, real - now + deadline - Lifetime, real) = 0
        /\ start >= 0
        /\ Covered(admitted, prev, curr, Began(start, now, real), real)
        /\ Genuine(admitted, prev, curr, start, real)
        /\ steady => start <= now
    BY <2>1 DEF SlidingKept
  <2>3. Count(admitted, real' - now' + deadline' - Lifetime, real') = 0
    <3>1. /\ real - now + deadline - Lifetime \in Int
          /\ real' - now' + deadline - Lifetime \in Int
          /\ real - now + deadline - Lifetime <= real' - now' + deadline - Lifetime
      <4>1. \A m, n, q, r, d, e \in Int : r - n <= q - m =>
              /\ r - n + d - e \in Int /\ q - m + d - e \in Int
              /\ r - n + d - e <= q - m + d - e
        OBVIOUS
      <4>2. now \in Int /\ real \in Int /\ deadline \in Int /\ Lifetime \in Int
        BY <1>1
      <4>3. now' \in Int /\ real' \in Int /\ real - now <= real' - now'
        BY <1>2, <1>3
      <4> QED
        BY ONLY <4>1, <4>2, <4>3
    <3> QED
      BY <1>6, <2>1, <2>2, <3>1
  <2>4. Covered(admitted, prev, curr, Began(start, now', real'), real')
    <3> DEFINE b == Began(start, now, real)
               e == Began(start, now', real')
    <3>1. b \in Int /\ e \in Int /\ b <= e
      <4>1. now \in Int /\ real \in Int /\ start \in Int
        BY <1>1
      <4>2. now' \in Int /\ real' \in Int
        BY <1>2, <1>3
      <4>3. b \in Int
        BY <4>1, BeganIs
      <4>4. e \in Int
        BY <4>1, <4>2, BeganIs
      <4> QED
        BY <4>1, <4>3, <4>4
    <3>2. /\ Count(admitted, b - 1, real) <= curr
          /\ Count(admitted, b - Window - 1, real) <= prev + curr
          /\ Count(admitted, b + Window - 1, real) = 0
      BY <2>2 DEF Covered
    <3> HIDE DEF b, e
    <3>3. /\ b - 1 \in Int /\ e - 1 \in Int /\ b - 1 <= e - 1
          /\ b - Window - 1 \in Int /\ e - Window - 1 \in Int
          /\ b - Window - 1 <= e - Window - 1
          /\ b + Window - 1 \in Int /\ e + Window - 1 \in Int
          /\ b + Window - 1 <= e + Window - 1
      BY <1>1, <3>1
    <3>4. /\ Count(admitted, e - 1, real') <= Count(admitted, b - 1, real)
          /\ Count(admitted, e - 1, real') \in Nat /\ Count(admitted, b - 1, real) \in Nat
      BY <1>6, <3>3
    <3>5. /\ Count(admitted, e - Window - 1, real') <= Count(admitted, b - Window - 1, real)
          /\ Count(admitted, e - Window - 1, real') \in Nat
          /\ Count(admitted, b - Window - 1, real) \in Nat
      BY <1>6, <3>3
    <3>6. /\ Count(admitted, e + Window - 1, real') <= Count(admitted, b + Window - 1, real)
          /\ Count(admitted, e + Window - 1, real') \in Nat
      BY <1>6, <3>3
    <3>7. curr \in Int /\ prev + curr \in Int
      BY <1>1
    <3>8. /\ Count(admitted, e - 1, real') <= curr
          /\ Count(admitted, e - Window - 1, real') <= prev + curr
          /\ Count(admitted, e + Window - 1, real') = 0
      BY <3>2, <3>4, <3>5, <3>6, <3>7
    <3>9. Covered(admitted, prev, curr, e, real')
      BY <3>8 DEF Covered
    <3> QED
      BY <3>9 DEF e
  <2>5. (steady => start <= now') /\ Genuine(admitted, prev, curr, start, real')
    <3>1. start <= real /\ (steady => start <= now')
      BY <1>1, <1>2, <1>3, <2>2
    <3>2. /\ start - 1 \in Int /\ start - Window - 1 \in Int
          /\ start - 1 <= real /\ start - Window - 1 <= real
          /\ start - 1 <= start - 1 /\ start - Window - 1 <= start - Window - 1
      BY <1>1, <3>1
    <3>3. /\ Count(admitted, start - 1, real') = Count(admitted, start - 1, real)
          /\ Count(admitted, start - Window - 1, real')
               = Count(admitted, start - Window - 1, real)
      BY <1>6, <3>2
    <3> QED
      BY <2>2, <3>1, <3>3 DEF Genuine
  <2> QED
    BY <2>2, <2>3, <2>4, <2>5
<1> QED
  BY <1>1, <1>3, <1>5, <1>7, <1>8, <1>9 DEF SlidingKept

(* Every step keeps the counts. *)
LEMMA SlidingStep ==
    ASSUME SlidingKept, [Sliding!Next]_(Sliding!vars)
    PROVE  SlidingKept'
<1>1. ClockTypeOK /\ (steady => now = real)
  BY SlidingTypes
<1>2. ASSUME Sliding!Tick
      PROVE  SlidingKept'
  <2>1. /\ prev' = prev /\ curr' = curr /\ start' = start /\ deadline' = deadline
        /\ admitted' = admitted /\ (ClockTick \/ SetBack)
    BY <1>2
    DEF Sliding!Tick, Sliding!keys, Sliding!ClockTick, Sliding!SetBack, ClockTick,
        SetBack
  <2>2. /\ TimePasses /\ ClockTypeOK'
        /\ \A s \in Int : Began(s, now, real) <= Began(s, now', real')
    BY <1>1, <2>1, ClockMoves
  <2>3. real' = real \/ real' = real + 1
    BY <2>1 DEF ClockTick, SetBack
  <2> QED
    BY <2>1, <2>2, <2>3, SlidingPasses
<1>3. ASSUME Sliding!Expire \/ UNCHANGED Sliding!vars
      PROVE  SlidingKept'
  <2>1. /\ prev' = prev /\ curr' = curr /\ start' = start /\ admitted' = admitted
        /\ UNCHANGED time
        /\ deadline' = deadline \/ (deadline' = 0 /\ ~Sliding!Alive(deadline))
    BY <1>3
    DEF Sliding!Expire, Sliding!Deleted, Sliding!vars, Sliding!keys, Sliding!time, time
  <2>2. /\ TimePasses /\ ClockTypeOK'
        /\ \A s \in Int : Began(s, now, real) <= Began(s, now', real')
    BY <1>1, <2>1, ClockMoves
  <2>3. real' = real
    BY <2>1 DEF time
  <2> QED
    BY <2>1, <2>2, <2>3, SlidingPasses
<1> QED
  BY <1>2, <1>3, SlidingAdmits, SlidingDenies, SlidingResets
  DEF Sliding!Next, Sliding!AllowRequest

(* What the counts mean for windows of real time. *)
LEMMA SlidingKeeps ==
    ASSUME SlidingKept
    PROVE  /\ Sliding!UnderestimateBound /\ Sliding!AtMostTwiceLimit
           /\ Sliding!DenialsJustified
<1> DEFINE p == Sliding!Found.prev
           c == Sliding!Found.curr
           d == IF now > Sliding!Found.start THEN now - Sliding!Found.start ELSE 0
           load  == Sliding!Ideal!Load(real, Window)
           loads == Sliding!Ideal!Load(real, 2 * Window + (real - now))
           w == Window + Sliding!Ahead
<1>1. /\ now \in Nat /\ real \in Nat /\ Limit \in Nat /\ Window \in Nat /\ Window > 0
      /\ admitted \in [Instants -> Nat]
  BY SlidingTypes
<1>2. p \in 0..Limit /\ c \in 0..Limit /\ Sliding!Found.start \in 0..real
  BY SlidingFound
<1>3. p + c \in Nat /\ d \in Int
  BY <1>1, <1>2
<1>4. /\ load \in Nat /\ load <= p + c
      /\ loads >= p + c
      /\ loads \in Nat
  <2>1. real - (2 * Window + (real - now)) = now - 2 * Window
    BY <1>1
  <2>2. loads = Count(admitted, now - 2 * Window, real)
    BY <2>1, LoadIs
  <2> QED
    BY <1>1, <2>2, SlidingLoad, LoadIs, CountType
<1>5. /\ Sliding!Estimate \in Int
      /\ (p + c) * Window <= Sliding!Estimate + Limit * d
      /\ Sliding!Estimate <= (p + c) * w
  BY SlidingEstimate
<1>6. Sliding!AtMostTwiceLimit
  BY LoadIs DEF SlidingKept, Within, Sliding!AtMostTwiceLimit
<1>7. (Sliding!UnderestimateBound) <=> load * Window <= Sliding!Estimate + Limit * d
  BY DEF Sliding!UnderestimateBound
<1>8. Sliding!DenialsJustified <=>
        (Sliding!Estimate >= Limit * Window => loads * w >= Limit * Window)
  BY DEF Sliding!DenialsJustified
<1>13. w \in Nat
  BY <1>1, <1>2 DEF Sliding!Ahead
<1> HIDE DEF p, c, d, load, loads, w
<1>9. load * Window <= (p + c) * Window /\ load * Window \in Int /\ (p + c) * Window \in Int
  BY <1>1, <1>3, <1>4, Times
<1>10. Limit * d \in Int /\ Limit * Window \in Int
  BY <1>1, <1>3
<1>11. load * Window <= Sliding!Estimate + Limit * d
  BY <1>5, <1>9, <1>10
<1>12. ASSUME Sliding!Estimate >= Limit * Window
       PROVE  loads * w >= Limit * Window
  <2>1. (p + c) * w <= loads * w /\ (p + c) * w \in Int /\ loads * w \in Int
    BY <1>3, <1>4, <1>13, Times
  <2> QED
    BY <1>5, <1>10, <1>12, <2>1
<1> QED
  BY <1>6, <1>7, <1>8, <1>11, <1>12

(* What a call finds is what the local object would, whose grid is that of *)
(* the keys, or begins now if they are gone. *)
LEMMA SlidingAdvanced ==
    ASSUME SlidingKept, steady
    PROVE  /\ Sliding!Local!Advanced = {Sliding!Found}
           /\ Sliding!Local!Estimate(Sliding!Found) = Sliding!Estimate
<1> DEFINE p == IF Sliding!Alive(deadline) THEN prev ELSE 0
           c == IF Sliding!Alive(deadline) THEN curr ELSE 0
           s == IF Sliding!Alive(deadline) THEN start ELSE now
<1>1. /\ now \in Nat /\ real \in Nat /\ now <= MaxTime /\ MaxTime \in Nat
      /\ deadline \in Nat /\ start \in Int
      /\ Limit \in Nat /\ Window \in Nat /\ Window > 0
      /\ Sliding!Alive(deadline) <=> now < deadline
  BY SlidingTypes, ClockAssumption DEF ClockTypeOK
<1>2. Sliding!Alive(deadline) => start >= 0
  BY <1>1 DEF SlidingKept
<1>3. Sliding!Local!Advanced =
        IF now - s < Window
        THEN {[prev |-> p, curr |-> c, start |-> s]}
        ELSE {[prev |-> Sliding!Local!Carried(n), curr |-> 0, start |-> s + n * Window] :
                n \in Sliding!Local!CastToInt((now - s) \div Window)}
  BY DEF Sliding!Local!Advanced
<1>4. \A n : Sliding!Local!Carried(n) = IF n = 1 THEN c ELSE 0
  BY DEF Sliding!Local!Carried
<1>5. CASE ~Sliding!Alive(deadline)
  <2>1. p = 0 /\ c = 0 /\ s = now /\ now - s < Window
    BY <1>1, <1>5
  <2>2. Sliding!Found = [prev |-> 0, curr |-> 0, start |-> now]
    BY <1>5 DEF Sliding!Found
  <2> HIDE DEF p, c, s
  <2> QED
    BY <1>3, <2>1, <2>2 DEF Sliding!Estimate, Sliding!Local!Estimate
<1>6. CASE Sliding!Alive(deadline) /\ now - start < Window
  <2>1. p = prev /\ c = curr /\ s = start
    BY <1>6
  <2>2. Sliding!Found = [prev |-> prev, curr |-> curr, start |-> start]
    BY <1>6 DEF Sliding!Found
  <2> HIDE DEF p, c, s
  <2> QED
    BY <1>3, <1>6, <2>1, <2>2 DEF Sliding!Estimate, Sliding!Local!Estimate
<1>7. CASE Sliding!Alive(deadline) /\ ~(now - start < Window)
  <2> DEFINE q == (now - start) \div Window
  <2>1. p = prev /\ c = curr /\ s = start
    BY <1>7
  <2>2. q = Sliding!Passed
    BY DEF Sliding!Passed
  <2>3. q \in Nat /\ q <= MaxTime
    <3>1. now - start \in Nat /\ now - start >= Window /\ now - start <= MaxTime
      BY <1>1, <1>2, <1>7
    <3>2. q \in Nat /\ q * Window <= now - start
      BY <3>1, Windows
    <3>3. q * 1 <= q * Window
      BY <1>1, <3>2
    <3> HIDE DEF q
    <3> QED
      BY <1>1, <3>1, <3>2, <3>3
  <2> HIDE DEF q
  <2>4. Sliding!Local!CastToInt(q) = {q}
    BY <2>3 DEF Sliding!Local!CastToInt
  <2>5. Sliding!Found = [prev |-> IF q = 1 THEN c ELSE 0, curr |-> 0,
                         start |-> s + q * Window]
    BY <1>7, <2>1, <2>2 DEF Sliding!Found, Sliding!Carried
  <2>6. (now - s) \div Window = q
    BY <2>1 DEF q
  <2>7. ~(now - s < Window)
    BY <1>7, <2>1
  <2> HIDE DEF p, c, s
  <2>8. Sliding!Local!Advanced = {Sliding!Found}
    BY <1>3, <1>4, <2>4, <2>5, <2>6, <2>7
  <2> QED
    BY <2>8 DEF Sliding!Estimate, Sliding!Local!Estimate
<1> QED
  BY <1>5, <1>6, <1>7

(* With a steady clock the scripts are the local object, but for a tick at *)
(* which the keys are gone and nothing was admitted for three windows. *)
LEMMA SlidingLocal ==
    ASSUME SlidingKept, steady, [Sliding!Next]_(Sliding!vars)
    PROVE  [Sliding!Local!Next \/ Sliding!Regrid]_(Sliding!Local!vars)
<1> DEFINE same == UNCHANGED Sliding!Local!vars
           p == IF Sliding!Alive(deadline) THEN prev ELSE 0
           c == IF Sliding!Alive(deadline) THEN curr ELSE 0
           s == IF Sliding!Alive(deadline) THEN start ELSE now
<1>1. /\ now = real /\ now \in Nat /\ real \in Nat /\ real <= MaxTime /\ deadline \in Nat
      /\ admitted \in [Instants -> Nat]
      /\ Window \in Nat /\ Window > 0 /\ Lifetime \in Nat /\ Lifetime >= 3 * Window
      /\ Sliding!Alive(deadline) <=> now < deadline
  BY SlidingTypes DEF ClockTypeOK
<1>2. /\ Sliding!Local!Advanced = {Sliding!Found}
      /\ Sliding!Local!Estimate(Sliding!Found) = Sliding!Estimate
  BY SlidingAdvanced
(* Keys that were just written live. *)
<1>3. ASSUME now' = now, deadline' = now + Lifetime
      PROVE  p' = prev' /\ c' = curr' /\ s' = start'
  <2>1. Sliding!Alive(deadline)'
    BY <1>1, <1>3 DEF Sliding!Alive
  <2> QED
    BY <2>1
<1>4. Sliding!Expiry = now + Lifetime
  BY DEF Sliding!Expiry, Lifetime, Sliding!CeilSeconds, CeilSeconds
<1>5. ASSUME Sliding!Admit
      PROVE  Sliding!Local!Next
  <2>1. /\ Sliding!Estimate < Limit * Window
        /\ prev' = Sliding!Found.prev /\ curr' = Sliding!Found.curr + 1
        /\ start' = Sliding!Found.start /\ deadline' = now + Lifetime
        /\ admitted' = [admitted EXCEPT ![real] = @ + 1] /\ now' = now
    BY <1>4, <1>5 DEF Sliding!Admit, Sliding!Write, Sliding!time
  <2>2. /\ p' = Sliding!Found.prev /\ c' = Sliding!Found.curr + 1
        /\ s' = Sliding!Found.start
    BY <1>3, <2>1
  <2>3. Sliding!Local!Admit(Sliding!Found)
    BY <1>1, <1>2, <2>1, <2>2 DEF Sliding!Local!Admit, Sliding!Local!Keep
  <2> QED
    BY <1>2, <2>3 DEF Sliding!Local!Next, Sliding!Local!AllowRequest
<1>6. ASSUME Sliding!Deny
      PROVE  Sliding!Local!Next
  <2>1. /\ Sliding!Estimate >= Limit * Window
        /\ prev' = Sliding!Found.prev /\ curr' = Sliding!Found.curr
        /\ start' = Sliding!Found.start /\ deadline' = now + Lifetime
        /\ admitted' = admitted /\ now' = now
    BY <1>4, <1>6 DEF Sliding!Deny, Sliding!Write, Sliding!time
  <2>2. /\ p' = Sliding!Found.prev /\ c' = Sliding!Found.curr
        /\ s' = Sliding!Found.start
    BY <1>3, <2>1
  <2>3. Sliding!Local!Deny(Sliding!Found)
    BY <1>2, <2>1, <2>2 DEF Sliding!Local!Deny, Sliding!Local!Keep
  <2> QED
    BY <1>2, <2>3 DEF Sliding!Local!Next, Sliding!Local!AllowRequest
<1>7. ASSUME Sliding!Reset
      PROVE  Sliding!Local!Next
  <2>1. /\ prev' = 0 /\ curr' = 0 /\ start' = now /\ deadline' = now + Lifetime
        /\ admitted' = [t \in 0..MaxTime |-> 0] /\ now' = now
    BY <1>4, <1>7 DEF Sliding!Reset, Sliding!time, Sliding!Ideal!Instants
  <2>2. p' = 0 /\ c' = 0 /\ s' = now
    BY <1>3, <2>1
  <2>3. Sliding!Local!Reset
    BY <2>1, <2>2 DEF Sliding!Local!Reset, Sliding!Local!Ideal!Instants
  <2> QED
    BY <2>3 DEF Sliding!Local!Next
<1>8. ASSUME Sliding!Tick
      PROVE  Sliding!Local!Next \/ Sliding!Regrid
  <2>1. /\ prev' = prev /\ curr' = curr /\ start' = start /\ deadline' = deadline
        /\ admitted' = admitted
        /\ Sliding!ClockTick /\ now' = now + 1 /\ real' = real + 1 /\ now < MaxTime
    BY <1>1, <1>8 DEF Sliding!Tick, Sliding!keys, Sliding!ClockTick, Sliding!SetBack
  <2>2. Sliding!Alive(deadline)' <=> now + 1 < deadline
    BY <1>1, <2>1 DEF Sliding!Alive, Sliding!Never
  <2>3. CASE now + 1 < deadline
    <3>1. Sliding!Alive(deadline)
      BY <1>1, <2>3
    <3>2. p' = p /\ c' = c /\ s' = s
      BY <2>1, <2>2, <2>3, <3>1
    <3>3. Sliding!Local!Tick
      BY <2>1, <3>2 DEF Sliding!Local!Tick
    <3> QED
      BY <3>3 DEF Sliding!Local!Next
  <2>4. CASE ~(now + 1 < deadline)
    <3>1. Count(admitted, real + 1 - 3 * Window, real + 1) = 0
      <4>1. PICK a \in Int : a <= real + 1 - 3 * Window /\ Count(admitted, a, real) = 0
        <5>1. CASE Sliding!Alive(deadline)
          <6>1. deadline > 0 /\ real - now + deadline - Lifetime = real + 1 - Lifetime
            BY <1>1, <2>4, <5>1
          <6>2. Count(admitted, real + 1 - Lifetime, real) = 0
            BY <6>1 DEF SlidingKept
          <6>3. /\ real + 1 - Lifetime \in Int
                /\ real + 1 - Lifetime <= real + 1 - 3 * Window
            BY <1>1
          <6> QED
            BY <6>2, <6>3
        <5>2. CASE ~Sliding!Alive(deadline)
          <6>1. real - 3 * Window \in Int /\ real - 3 * Window <= real + 1 - 3 * Window
            BY <1>1
          <6> QED
            BY <5>2, <6>1, SlidingExpired
        <5> QED
          BY <5>1, <5>2
      <4>2. Within(admitted, real, 2 * Limit)
        BY DEF SlidingKept
      <4>3. /\ real \in Int /\ real + 1 \in Int /\ real <= real + 1
            /\ real + 1 - 3 * Window \in Int
        BY <1>1
      <4>4. Count(admitted, real + 1 - 3 * Window, real + 1) <= Count(admitted, a, real)
        BY ONLY <1>1, <4>1, <4>2, <4>3, CountLater
      <4>5. Count(admitted, real + 1 - 3 * Window, real + 1) \in Nat
        BY <1>1, CountType
      <4> QED
        BY <4>1, <4>4, <4>5
    <3>2. (Sliding!Ideal!Load(real, 3 * Window))' = Count(admitted', real' - 3 * Window, real')
      BY SameCardinality
      DEF Sliding!Ideal!Load, Sliding!Ideal!Admissions, Sliding!Ideal!Instants, Count,
          Part, History, Local!Count, Local!Part, Local!History, Instants,
          Local!Instants, Local!Cardinality, Cardinality
    <3>3. (Sliding!Ideal!Load(real, 3 * Window))' = 0
      <4>1. admitted' = admitted /\ real' = real + 1
        BY <2>1
      <4>2. Count(admitted', real' - 3 * Window, real') = 0
        BY <1>1, <3>1, <4>1
      <4> QED
        BY <3>2, <4>2
    <3>4. ~Sliding!Alive(deadline)'
      BY <2>2, <2>4
    <3> QED
      BY <2>1, <3>3, <3>4 DEF Sliding!Regrid
  <2> QED
    BY <2>3, <2>4
<1>9. ASSUME Sliding!Expire
      PROVE  same
  <2>1. /\ ~Sliding!Alive(deadline) /\ deadline' = 0 /\ now' = now /\ admitted' = admitted
    BY <1>9 DEF Sliding!Expire, Sliding!Deleted, Sliding!time
  <2>2. ~Sliding!Alive(deadline)'
    BY <1>1, <2>1 DEF Sliding!Alive, Sliding!Never
  <2>3. p' = p /\ c' = c /\ s' = s
    BY <2>1, <2>2
  <2> QED
    BY <2>1, <2>3 DEF Sliding!Local!vars
<1>10. ASSUME UNCHANGED Sliding!vars
       PROVE  same
  <2>1. UNCHANGED <<prev, curr, start, deadline, now, admitted>>
    BY <1>10 DEF Sliding!vars, Sliding!keys, Sliding!time
  <2>2. Sliding!Alive(deadline)' <=> Sliding!Alive(deadline)
    BY <2>1 DEF Sliding!Alive
  <2>3. p' = p /\ c' = c /\ s' = s
    BY <2>1, <2>2
  <2> QED
    BY <2>1, <2>3 DEF Sliding!Local!vars
<1> HIDE DEF same, p, c, s
<1>11. (Sliding!Local!Next \/ Sliding!Regrid) \/ same
  BY <1>5, <1>6, <1>7, <1>8, <1>9, <1>10 DEF Sliding!Next, Sliding!AllowRequest
<1> QED
  BY <1>11 DEF same

-----------------------------------------------------------------------------
(* The strategy that was made: its invariant is kept by its own scripts,   *)
(* and nothing else uses its keys.                                         *)
RedisInv ==
    /\ algorithm \in Algorithms
    /\ algorithm \in {"TokenBucket", "LeakyBucket"} => BucketKept
    /\ algorithm = "TokenBucket, refill 0" => DryKept
    /\ algorithm = "LeakyBucket" => LeakyKept
    /\ algorithm = "FixedWindowCounter" => FixedKept
    /\ algorithm = "SlidingWindowLog" => LogKept
    /\ algorithm = "SlidingWindowCounter" => SlidingKept

(* A step of the system is one of the strategy that was made. *)
LEMMA OneStrategy ==
    ASSUME [Next]_vars
    PROVE  /\ algorithm' = algorithm
           /\ algorithm = "TokenBucket" => [Token!Next]_(Token!vars)
           /\ algorithm = "TokenBucket, refill 0" => [Dry!Next]_(Dry!vars)
           /\ algorithm = "LeakyBucket" => [Leaky!Next]_(Leaky!vars)
           /\ algorithm = "FixedWindowCounter" => [Fixed!Next]_(Fixed!vars)
           /\ algorithm = "SlidingWindowLog" => [Log!Next]_(Log!vars)
           /\ algorithm = "SlidingWindowCounter" => [Sliding!Next]_(Sliding!vars)
<1>1. CASE UseToken
  BY <1>1 DEF UseToken
<1>2. CASE UseLeaky
  BY <1>2 DEF UseLeaky
<1>3. CASE UseFixed
  BY <1>3 DEF UseFixed
<1>4. CASE UseLog
  BY <1>4 DEF UseLog
<1>5. CASE UseSliding
  BY <1>5 DEF UseSliding
<1>6. CASE UNCHANGED vars
  <2>1. /\ UNCHANGED <<time, algorithm, tokens, queue, last, counter, start, log, seq>>
        /\ UNCHANGED <<prev, curr, deadline, bucketMarks, slidingMarks>>
    BY <1>6 DEF vars
  <2>2. UNCHANGED Token!vars
    BY <2>1 DEF Token!vars, Token!keys, Token!observer, Token!time, time, bucketMarks
  <2>3. UNCHANGED Dry!vars
    BY <2>1 DEF Dry!vars, Dry!keys, Dry!observer, Dry!time, time, bucketMarks
  <2>4. UNCHANGED Leaky!vars
    BY <2>1 DEF Leaky!vars, Leaky!keys, Leaky!observer, Leaky!time, time, bucketMarks
  <2>5. UNCHANGED Fixed!vars
    BY <2>1 DEF Fixed!vars, Fixed!keys, Fixed!observer, Fixed!time, time, bucketMarks
  <2>6. UNCHANGED Log!vars
    BY <2>1 DEF Log!vars, Log!keys, Log!observer, Log!time, time, slidingMarks
  <2>7. UNCHANGED Sliding!vars
    BY <2>1 DEF Sliding!vars, Sliding!keys, Sliding!time, time, slidingMarks
  <2> QED
    BY <2>1, <2>2, <2>3, <2>4, <2>5, <2>6, <2>7
<1> QED
  BY <1>1, <1>2, <1>3, <1>4, <1>5, <1>6 DEF Next

(* Without refill the keys and their start are those of any token bucket.  *)
LEMMA DryAsToken == /\ Dry!TypeOK <=> Token!TypeOK
                    /\ Dry!Init <=> Token!Init
  BY DEF Dry!TypeOK, Token!TypeOK, Dry!ClockTypeOK, Token!ClockTypeOK, Dry!Never,
         Token!Never, Dry!Init, Token!Init, Dry!ClockInit, Token!ClockInit

(* All are there from the start. *)
LEMMA RedisInit == Init => RedisInv
<1> SUFFICES ASSUME Init
             PROVE  RedisInv
  OBVIOUS
<1>1. Token!Init /\ Leaky!Init
  BY DEF Init
<1>2. Room = Capacity
  BY <1>1, BucketAssumption DEF Room, Token!Init, Leaky!Init
<1>3. Bucket!Init
  BY <1>1, <1>2 DEF Bucket!Init, Token!Init, Bucket!ClockInit, Token!ClockInit
<1> QED
  BY <1>3, BucketInit, DryInit, LeakyInit, FixedInit, LogInit, SlidingInit, DryAsToken
  DEF Init, RedisInv

(* Each strategy keeps its own. *)
LEMMA RedisStep == RedisInv /\ [Next]_vars => RedisInv'
<1> SUFFICES ASSUME RedisInv, [Next]_vars
             PROVE  RedisInv'
  OBVIOUS
<1>1. algorithm' = algorithm
  BY OneStrategy
<1>2. ASSUME algorithm \in {"TokenBucket", "LeakyBucket"}
      PROVE  BucketKept'
  <2>1. BucketKept
    BY <1>2 DEF RedisInv
  <2>2. CASE algorithm = "TokenBucket"
    BY <1>1, <2>1, <2>2, OneStrategy, TokenSteps, BucketStep
  <2>3. CASE algorithm = "LeakyBucket"
    BY <1>1, <2>1, <2>3, OneStrategy, LeakySteps, BucketStep DEF RedisInv
  <2> QED
    BY <1>2, <2>2, <2>3
<1>3. ASSUME algorithm = "TokenBucket, refill 0"
      PROVE  DryKept'
  BY <1>3, OneStrategy, DryStep DEF RedisInv
<1>4. ASSUME algorithm = "LeakyBucket"
      PROVE  LeakyKept'
  BY <1>4, OneStrategy, LeakyStep DEF RedisInv
<1>5. ASSUME algorithm = "FixedWindowCounter"
      PROVE  FixedKept'
  BY <1>5, OneStrategy, FixedStep DEF RedisInv
<1>6. ASSUME algorithm = "SlidingWindowLog"
      PROVE  LogKept'
  BY <1>6, OneStrategy, LogStep DEF RedisInv
<1>7. ASSUME algorithm = "SlidingWindowCounter"
      PROVE  SlidingKept'
  BY <1>7, OneStrategy, SlidingStep DEF RedisInv
<1> QED
  BY <1>1, <1>2, <1>3, <1>4, <1>5, <1>6, <1>7 DEF RedisInv

(* The inductive invariant. *)
LEMMA SpecRedisInv == Spec => []RedisInv
  BY RedisInit, RedisStep, PTL DEF Spec

(* Type correctness of the keys of whichever strategy was made.            *)
THEOREM TypeCorrect == Spec => []TypeOK
<1>1. RedisInv => TypeOK
  BY DryAsToken, TokenIsBucket
  DEF RedisInv, TypeOK, BucketKept, DryKept, LeakyKept, FixedKept, LogKept, SlidingKept
<1> QED
  BY <1>1, SpecRedisInv, PTL

(* The scripts let nothing through that real time has not paid for, though *)
(* the server's clock may be set back and keys may expire between any two  *)
(* of them; the sliding counter misses at most limit times f.              *)
THEOREM Admitted == Spec => []AdmissionBound
<1>1. RedisInv => AdmissionBound
  BY BucketKeeps, TokenIsBucket, LeakyIsBucket, DryKeeps, FixedKeeps, LogKeeps, SlidingKeeps
  DEF RedisInv, AdmissionBound
<1> QED
  BY <1>1, SpecRedisInv, PTL

(* Setting the clock back never denies for ever.  Both buckets are in debt *)
(* by no more than the refill of the time set back; a fixed window reopens *)
(* when it and that time are over; what fills a log, or weighs on a        *)
(* sliding counter, was let through within as much more of real time than  *)
(* the window, or two of them.                                             *)
THEOREM Justified == Spec => []DenialsJustified
<1>1. RedisInv => DenialsJustified
  BY BucketKeeps, TokenIsBucket, LeakyIsBucket, FixedKeeps, LogKeeps, SlidingKeeps
  DEF RedisInv, DenialsJustified
<1> QED
  BY <1>1, SpecRedisInv, PTL

(* While the clock is not set back, every script is a step of the local    *)
(* object of its algorithm: the expiry of the keys never shows, but for    *)
(* the sliding window counter, whose grid begins anew after three windows  *)
(* in which nothing was admitted.  The leaky bucket is the token bucket of *)
(* what is left free, whatever the clock.                                  *)
THEOREM LikeLocal == Spec => ImplementsLocal
<1>1. Init => Token!Local!Init /\ Log!Ideal!Init /\ Sliding!Local!Init
  <2> SUFFICES ASSUME Init
               PROVE  Token!Local!Init /\ Log!Ideal!Init /\ Sliding!Local!Init
    OBVIOUS
  <2>1. Token!Local!Init /\ Log!Ideal!Init
    BY DEF Init, Token!Init, Token!ClockInit, Token!Local!Init, Log!Init, Log!ClockInit,
           Log!Ideal!Init
  <2>2. /\ now = 0 /\ prev = 0 /\ curr = 0 /\ deadline = 0
        /\ admitted = [t \in 0..MaxTime |-> 0]
    BY DEF Init, Sliding!Init, Sliding!ClockInit, Sliding!Ideal!Instants
  <2>3. ~Sliding!Alive(deadline)
    BY <2>2 DEF Sliding!Alive, Sliding!Never
  <2> QED
    BY <2>1, <2>2, <2>3 DEF Sliding!Local!Init, Sliding!Local!Ideal!Instants
<1> DEFINE
      A1 == algorithm = "TokenBucket" /\ steady => [Token!Local!Next]_(Token!Local!vars)
      A2 == algorithm = "TokenBucket, refill 0" /\ steady => [Dry!Local!Next]_(Dry!Local!vars)
      A3 == algorithm = "FixedWindowCounter" /\ steady => [Fixed!Local!Next]_(Fixed!Local!vars)
      A4 == algorithm = "SlidingWindowLog" /\ steady =>
              [Log!Ideal!Next]_<<real, admitted, answer>>
      A5 == algorithm = "LeakyBucket" => [Leaky!TB!Next]_(Leaky!TB!vars)
      A6 == algorithm = "SlidingWindowCounter" /\ steady =>
              [Sliding!Local!Next \/ Sliding!Regrid]_(Sliding!Local!vars)
<1>2. RedisInv /\ [Next]_vars => A1 /\ A2 /\ A3 /\ A4 /\ A5 /\ A6
  <2> SUFFICES ASSUME RedisInv, [Next]_vars
               PROVE  A1 /\ A2 /\ A3 /\ A4 /\ A5 /\ A6
    OBVIOUS
  <2>1. A1
    BY OneStrategy, TokenLocal DEF RedisInv
  <2>2. A2
    BY OneStrategy, DryLocal DEF RedisInv
  <2>3. A3
    BY OneStrategy, FixedLocal DEF RedisInv
  <2>4. A4
    BY OneStrategy, LogIdeal DEF RedisInv
  <2>5. A5
    BY OneStrategy, LeakyToken DEF RedisInv
  <2>6. A6
    BY OneStrategy, SlidingLocal DEF RedisInv
  <2> HIDE DEF A1, A2, A3, A4, A5, A6
  <2> QED
    BY <2>1, <2>2, <2>3, <2>4, <2>5, <2>6
<1>3. RedisInv /\ [Next]_vars => /\ [A1]_vars /\ [A2]_vars /\ [A3]_vars
                                 /\ [A4]_vars /\ [A5]_vars /\ [A6]_vars
  <2> HIDE DEF A1, A2, A3, A4, A5, A6
  <2> QED
    BY <1>2
<1> QED
  BY <1>1, <1>3, SpecRedisInv, PTL DEF Spec, ImplementsLocal
=============================================================================
