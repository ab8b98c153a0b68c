----------------------- MODULE RestController_proofs -----------------------
(***************************************************************************)
(* Proofs about RestController, for any workers, requests and policies and *)
(* any number of calls, failures and crashes: a policy that was created is *)
(* in force and in the file, the counters and the audit rows agree, and    *)
(* the controller with its file, its lock and its sorted list implements   *)
(* PolicyBook.  The first part is about the order of policies.             *)
(***************************************************************************)
EXTENDS RestController, FiniteSetTheorems, SequenceTheorems, WellFoundedInduction, TLAPS

(* A list of policies as a save and a load give it back. *)
Reloaded(list) == [i \in 1..Len(list) |-> Saved(list[i])]

(* A list that a stable sort leaves alone. *)
InOrder(list) == \A i, j \in 1..Len(list) : i < j => list[i].priority >= list[j].priority

Has(list, p) == \E i \in 1..Len(list) : list[i] = p
-----------------------------------------------------------------------------
LEMMA PolicyParts ==
    \A p \in Policies :
        /\ p.priority \in Int /\ p.matches \subseteq Requests
        /\ p.params \in Nat /\ p.valid \in BOOLEAN
  BY DEF Policies

LEMMA ListParts ==
    ASSUME NEW list \in Seq(Policies)
    PROVE  /\ Len(list) \in Nat /\ 1..Len(list) \subseteq Nat
           /\ IsFiniteSet(1..Len(list)) /\ Cardinality(1..Len(list)) = Len(list)
           /\ \A i \in 1..Len(list) : list[i] \in Policies /\ list[i].priority \in Int
<1>1. Len(list) \in Nat
  BY LenProperties
<1>2. IsFiniteSet(1..Len(list)) /\ Cardinality(1..Len(list)) = Len(list)
  BY <1>1, FS_Interval
<1>3. \A i \in 1..Len(list) : list[i] \in Policies
  BY ElementOfSeq
<1> QED
  BY <1>1, <1>2, <1>3, PolicyParts

(* In any list of policies, i is sorted before j or j before i ... *)
LEMMA UpToOrder ==
    ASSUME NEW list \in Seq(Policies), NEW i \in 1..Len(list), NEW j \in 1..Len(list)
    PROVE  /\ i \in UpTo(list, i)
           /\ i \in UpTo(list, j) \/ j \in UpTo(list, i)
           /\ i \in UpTo(list, j) /\ j \in UpTo(list, i) => i = j
           /\ i \in UpTo(list, j) => UpTo(list, i) \subseteq UpTo(list, j)
<1>1. \A k \in 1..Len(list) : k \in Nat /\ list[k].priority \in Int
  BY ListParts
<1> QED
  BY <1>1 DEF UpTo

LEMMA PlaceType ==
    ASSUME NEW list \in Seq(Policies), NEW i \in 1..Len(list)
    PROVE  /\ IsFiniteSet(UpTo(list, i))
           /\ Place(list, i) \in 1..Len(list)
<1>1. IsFiniteSet(1..Len(list)) /\ Cardinality(1..Len(list)) = Len(list)
  BY ListParts
<1>2. UpTo(list, i) \in SUBSET (1..Len(list))
  BY DEF UpTo
<1>3. IsFiniteSet(UpTo(list, i)) /\ Cardinality(UpTo(list, i)) <= Len(list)
  BY <1>1, <1>2, FS_Subset
<1>4. Cardinality(UpTo(list, i)) \in Nat /\ Cardinality(UpTo(list, i)) # 0
  BY <1>3, UpToOrder, FS_CardinalityType, FS_EmptySet
<1> QED
  BY <1>3, <1>4 DEF Place

(* ... and has the lower place: no two policies share one ... *)
LEMMA PlaceOrder ==
    ASSUME NEW list \in Seq(Policies), NEW i \in 1..Len(list), NEW j \in 1..Len(list),
           i \in UpTo(list, j), i # j
    PROVE  Place(list, i) < Place(list, j)
<1>1. /\ IsFiniteSet(UpTo(list, j)) /\ UpTo(list, i) \in SUBSET UpTo(list, j)
      /\ UpTo(list, i) # UpTo(list, j)
  BY UpToOrder, PlaceType
<1>2. Place(list, i) <= Place(list, j) /\ Place(list, i) # Place(list, j)
  BY <1>1, FS_Subset DEF Place
<1> QED
  BY <1>2, PlaceType

(* ... and every place is taken. *)
LEMMA PlacedIs ==
    ASSUME NEW list \in Seq(Policies)
    PROVE  /\ \A n \in 1..Len(list) :
                Placed(list, n) \in 1..Len(list) /\ Place(list, Placed(list, n)) = n
           /\ \A i \in 1..Len(list) : Placed(list, Place(list, i)) = i
<1> DEFINE indices == 1..Len(list)
           f == [i \in indices |-> Place(list, i)]
<1>1. \A i \in indices, j \in indices : Place(list, i) = Place(list, j) => i = j
  BY UpToOrder, PlaceOrder, PlaceType
<1>2. f \in Injection(indices, indices)
  BY <1>1, PlaceType DEF Injection, IsInjective
<1>3. IsFiniteSet(indices)
  BY FS_Interval
<1>4. f \in Surjection(indices, indices)
  BY <1>2, <1>3, FS_Injection
<1>5. \A n \in indices : \E i \in indices : Place(list, i) = n
  BY <1>4 DEF Surjection
<1>6. \A n \in indices : Placed(list, n) \in indices /\ Place(list, Placed(list, n)) = n
  BY <1>5 DEF Placed
<1> QED
  BY <1>1, <1>6, PlaceType

LEMMA SortedIs ==
    ASSUME NEW S, S \subseteq Policies, NEW list \in Seq(S)
    PROVE  /\ Sorted(list) \in Seq(S)
           /\ Len(Sorted(list)) = Len(list)
           /\ \A n \in 1..Len(list) : Sorted(list)[n] = list[Placed(list, n)]
           /\ \A i \in 1..Len(list) : Sorted(list)[Place(list, i)] = list[i]
<1>1. list \in Seq(Policies) /\ Len(list) \in Nat
  OBVIOUS
<1>2. \A n \in 1..Len(list) : list[Placed(list, n)] \in S
  BY <1>1, PlacedIs
<1>3. Sorted(list) \in [1..Len(list) -> S]
  BY <1>2 DEF Sorted
<1>4. Sorted(list) \in Seq(S) /\ Len(Sorted(list)) = Len(list)
  BY <1>1, <1>3
<1>5. \A n \in 1..Len(list) : Sorted(list)[n] = list[Placed(list, n)]
  BY DEF Sorted
<1> QED
  BY <1>1, <1>4, <1>5, PlacedIs, PlaceType

(* A sorted list is in order, and a list in order is sorted. *)
LEMMA SortedInOrder ==
    ASSUME NEW list \in Seq(Policies)
    PROVE  InOrder(Sorted(list))
<1> SUFFICES ASSUME NEW m \in 1..Len(list), NEW n \in 1..Len(list), m < n
             PROVE  list[Placed(list, m)].priority >= list[Placed(list, n)].priority
  BY SortedIs DEF InOrder
<1> DEFINE i == Placed(list, m)
           j == Placed(list, n)
<1>1. /\ i \in 1..Len(list) /\ j \in 1..Len(list)
      /\ Place(list, i) = m /\ Place(list, j) = n
  BY PlacedIs
<1>2. m \in Nat /\ n \in Nat
  BY ListParts
<1> HIDE DEF i, j
<1>3. j \notin UpTo(list, i)
  BY <1>1, <1>2, PlaceOrder
<1>4. i \in UpTo(list, j)
  BY <1>1, <1>3, UpToOrder
<1>5. list[i].priority \in Int /\ list[j].priority \in Int
  BY <1>1, ListParts
<1>6. list[i].priority >= list[j].priority
  BY <1>4, <1>5 DEF UpTo
<1> QED
  BY <1>6 DEF i, j

LEMMA InOrderSorted ==
    ASSUME NEW list \in Seq(Policies), InOrder(list)
    PROVE  Sorted(list) = list
<1>1. ASSUME NEW i \in 1..Len(list)
      PROVE  Place(list, i) = i
  <2>1. ASSUME NEW j \in 1..Len(list)
        PROVE  j \in UpTo(list, i) <=> j <= i
    BY ListParts DEF InOrder, UpTo
  <2>2. UpTo(list, i) = 1..i
    BY <2>1, ListParts DEF UpTo
  <2>3. i \in Int /\ i > 0
    OBVIOUS
  <2> QED
    BY <2>2, <2>3, FS_Interval DEF Place
<1>2. \A n \in 1..Len(list) : Placed(list, n) = n
  BY <1>1, PlacedIs
<1>3. \A n \in 1..Len(list) : Sorted(list)[n] = list[n]
  BY <1>2, SortedIs
<1> QED
  BY <1>3, SortedIs, SeqEqual

-----------------------------------------------------------------------------
LEMMA LeastIs ==
    ASSUME NEW places \in SUBSET Nat, places # {}
    PROVE  Least(places) \in places /\ \A j \in places : Least(places) <= j
<1> DEFINE R == StrictSubsetOrdering(Nat)
           below == {1..n : n \in places}
<1>1. below \subseteq FiniteSubsetsOf(Nat) /\ below # {}
  <2>1. \A n \in places : 1..n \in SUBSET Nat /\ IsFiniteSet(1..n)
    BY FS_Interval
  <2>2. \A n \in places : 1..n \in FiniteSubsetsOf(Nat)
    BY <2>1 DEF FiniteSubsetsOf
  <2> QED
    BY <2>2
<1>2. PICK b \in below : \A c \in below : ~(<<c, b>> \in R)
  BY <1>1, WFMin, FS_StrictSubsetOrderingWellFounded
<1>3. PICK x \in places : b = 1..x
  BY <1>2
<1>4. ASSUME NEW y \in places
      PROVE  x <= y
  <2>1. 1..y \in below /\ 1..x \subseteq Nat /\ 1..y \subseteq Nat
    OBVIOUS
  <2>2. ~(1..y \subseteq 1..x /\ 1..y # 1..x)
    BY <1>2, <1>3, <2>1 DEF StrictSubsetOrdering
  <2>3. CASE y < x
    <3>1. 1..y \subseteq 1..x /\ x \in 1..x /\ x \notin 1..y
      BY <2>3
    <3> QED
      BY <2>2, <3>1
  <2> QED
    BY <2>3
<1> QED
  BY <1>4 DEF Least

(* The policy that decides is the first that matches. *)
LEMMA ResolveIs ==
    ASSUME NEW list \in Seq(Policies), NEW r
    PROVE  /\ (\A i \in 1..Len(list) : r \notin list[i].matches) => Resolve(list, r) = NoPolicy
           /\ \A m \in 1..Len(list) :
                /\ r \in list[m].matches
                /\ \A j \in 1..Len(list) : r \in list[j].matches => m <= j
                => Resolve(list, r) = list[m]
           /\ (\E i \in 1..Len(list) : r \in list[i].matches) =>
                \E m \in 1..Len(list) :
                    /\ r \in list[m].matches
                    /\ \A j \in 1..Len(list) : r \in list[j].matches => m <= j
<1>1. Matching(list, r) \in SUBSET Nat
  BY ListParts DEF Matching
<1>2. ASSUME \A i \in 1..Len(list) : r \notin list[i].matches
      PROVE  Resolve(list, r) = NoPolicy
  BY <1>2 DEF Resolve, Matching
<1>3. ASSUME NEW m \in 1..Len(list), r \in list[m].matches,
             \A j \in 1..Len(list) : r \in list[j].matches => m <= j
      PROVE  Resolve(list, r) = list[m]
  <2>1. m \in Matching(list, r) /\ \A j \in Matching(list, r) : m <= j
    BY <1>3 DEF Matching
  <2>2. Least(Matching(list, r)) = m
    BY <1>1, <2>1, LeastIs
  <2> QED
    BY <2>1, <2>2 DEF Resolve
<1>4. ASSUME \E i \in 1..Len(list) : r \in list[i].matches
      PROVE  \E m \in 1..Len(list) :
                 /\ r \in list[m].matches
                 /\ \A j \in 1..Len(list) : r \in list[j].matches => m <= j
  <2>1. Matching(list, r) # {}
    BY <1>4 DEF Matching
  <2>2. /\ Least(Matching(list, r)) \in Matching(list, r)
        /\ \A j \in Matching(list, r) : Least(Matching(list, r)) <= j
    BY <1>1, <2>1, LeastIs
  <2> QED
    BY <2>2 DEF Matching
<1> QED
  BY <1>2, <1>3, <1>4

LEMMA NoPolicyIsNone == \A p \in Policies : p # NoPolicy
  BY DEF Policies, NoPolicy

(* Among sorted policies, one that comes before all others that match. *)
LEMMA ResolveSorted ==
    ASSUME NEW list \in Seq(Policies), NEW r, NEW i \in 1..Len(list), r \in list[i].matches,
           \A j \in 1..Len(list) : r \in list[j].matches => i \in UpTo(list, j)
    PROVE  Resolve(Sorted(list), r) = list[i]
<1> DEFINE m == Place(list, i)
<1>1. Sorted(list) \in Seq(Policies) /\ Len(Sorted(list)) = Len(list)
  BY SortedIs
<1>2. m \in 1..Len(list) /\ Sorted(list)[m] = list[i]
  BY SortedIs, PlaceType
<1>3. ASSUME NEW n \in 1..Len(list), r \in Sorted(list)[n].matches
      PROVE  m <= n
  <2>1. /\ Placed(list, n) \in 1..Len(list) /\ Place(list, Placed(list, n)) = n
        /\ r \in list[Placed(list, n)].matches
    BY <1>3, SortedIs, PlacedIs
  <2>2. i = Placed(list, n) \/ m < n
    BY <2>1, PlaceOrder
  <2> QED
    BY <1>2, <2>1, <2>2
<1> HIDE DEF m
<1> QED
  BY <1>1, <1>2, <1>3, ResolveIs

LEMMA ResolveNone ==
    ASSUME NEW list \in Seq(Policies), NEW r
    PROVE  /\ Resolve(list, r) = NoPolicy <=> \A i \in 1..Len(list) : r \notin list[i].matches
           /\ (\A i \in 1..Len(list) : r \notin list[i].matches) =>
                Resolve(Sorted(list), r) = NoPolicy
<1>1. Resolve(list, r) = NoPolicy <=> \A i \in 1..Len(list) : r \notin list[i].matches
  BY ResolveIs, ListParts, NoPolicyIsNone
<1>2. ASSUME \A i \in 1..Len(list) : r \notin list[i].matches
      PROVE  Resolve(Sorted(list), r) = NoPolicy
  <2>1. Sorted(list) \in Seq(Policies) /\ Len(Sorted(list)) = Len(list)
    BY SortedIs
  <2>2. \A n \in 1..Len(list) : r \notin Sorted(list)[n].matches
    BY <1>2, SortedIs, PlacedIs
  <2> QED
    BY <2>1, <2>2, ResolveIs
<1> QED
  BY <1>1, <1>2

(* A policy that is added decides what it matches and no policy of its     *)
(* priority or a higher one decides; all else is decided as before.        *)
LEMMA ResolveAdded ==
    ASSUME NEW list \in Seq(Policies), InOrder(list), NEW p \in Policies, NEW r
    PROVE  Resolve(Sorted(Append(list, p)), r) =
             IF /\ r \in p.matches
                /\ Resolve(list, r) # NoPolicy => p.priority > Resolve(list, r).priority
             THEN p ELSE Resolve(list, r)
<1> DEFINE more == Append(list, p)
           N == Len(list)
<1>1. /\ more \in Seq(Policies) /\ Len(more) = N + 1 /\ N \in Nat
      /\ more[N + 1] = p /\ \A i \in 1..N : more[i] = list[i]
  BY AppendProperties, ListParts
<1>2. \A i \in 1..N : list[i].priority \in Int
  BY ListParts
<1>3. p.priority \in Int
  BY PolicyParts
<1>4. \A i \in 1..N+1 : i \in 1..N \/ i = N + 1
  BY <1>1
<1> HIDE DEF more
<1>5. CASE \A i \in 1..N : r \notin list[i].matches
  <2>1. Resolve(list, r) = NoPolicy
    BY <1>5, ResolveNone
  <2>2. CASE r \in p.matches
    <3>1. N + 1 \in 1..Len(more) /\ r \in more[N + 1].matches
      BY <1>1, <2>2
    <3>2. \A j \in 1..Len(more) : r \in more[j].matches => N + 1 \in UpTo(more, j)
      BY <1>1, <1>4, <1>5, UpToOrder
    <3>3. Resolve(Sorted(more), r) = more[N + 1]
      BY <1>1, <3>1, <3>2, ResolveSorted
    <3> QED
      BY <1>1, <2>1, <2>2, <3>3 DEF more
  <2>3. CASE r \notin p.matches
    <3>1. \A i \in 1..Len(more) : r \notin more[i].matches
      BY <1>1, <1>4, <1>5, <2>3
    <3> QED
      BY <1>1, <2>1, <2>3, <3>1, ResolveNone DEF more
  <2> QED
    BY <2>2, <2>3
<1>6. CASE \E i \in 1..N : r \in list[i].matches
  <2>1. PICK m \in 1..N :
          r \in list[m].matches /\ \A j \in 1..N : r \in list[j].matches => m <= j
    BY <1>6, ResolveIs
  <2>2. Resolve(list, r) = list[m] /\ list[m] # NoPolicy
    BY <2>1, ResolveIs, ListParts, NoPolicyIsNone
  <2>3. ASSUME NEW j \in 1..N, r \in list[j].matches
        PROVE  /\ m \in UpTo(more, j)
               /\ list[m].priority >= list[j].priority
    <3>1. m <= j /\ list[m].priority >= list[j].priority
      BY <1>1, <1>2, <2>1, <2>3 DEF InOrder
    <3> QED
      BY <1>1, <1>2, <1>4, <3>1 DEF UpTo
  <2>4. CASE r \in p.matches /\ p.priority > list[m].priority
    <3>1. ASSUME NEW j \in 1..Len(more), r \in more[j].matches
          PROVE  N + 1 \in UpTo(more, j)
      <4>1. CASE j \in 1..N
        <5>1. p.priority > list[j].priority
          BY <1>1, <1>2, <1>3, <2>3, <2>4, <3>1, <4>1
        <5> QED
          BY <1>1, <4>1, <5>1 DEF UpTo
      <4>2. CASE j = N + 1
        BY <1>1, <4>2, UpToOrder
      <4> QED
        BY <1>1, <1>4, <4>1, <4>2
    <3>2. N + 1 \in 1..Len(more) /\ r \in more[N + 1].matches
      BY <1>1, <2>4
    <3>3. Resolve(Sorted(more), r) = more[N + 1]
      BY <1>1, <3>1, <3>2, ResolveSorted
    <3> QED
      BY <1>1, <2>2, <2>4, <3>3 DEF more
  <2>5. CASE ~(r \in p.matches /\ p.priority > list[m].priority)
    <3>1. ASSUME NEW j \in 1..Len(more), r \in more[j].matches
          PROVE  m \in UpTo(more, j)
      <4>1. CASE j \in 1..N
        BY <1>1, <2>3, <3>1, <4>1
      <4>2. CASE j = N + 1
        <5>1. list[m].priority >= p.priority /\ m <= N + 1
          BY <1>1, <1>2, <1>3, <2>5, <3>1, <4>2
        <5> QED
          BY <1>1, <1>2, <1>3, <4>2, <5>1 DEF UpTo
      <4> QED
        BY <1>1, <1>4, <4>1, <4>2
    <3>2. m \in 1..Len(more) /\ r \in more[m].matches
      BY <1>1, <2>1
    <3>3. Resolve(Sorted(more), r) = more[m]
      BY <1>1, <3>1, <3>2, ResolveSorted
    <3> QED
      BY <1>1, <2>2, <2>5, <3>3 DEF more
  <2> QED
    BY <2>4, <2>5
<1> QED
  BY <1>5, <1>6

-----------------------------------------------------------------------------
(* What a save and a load do to a policy they do once. *)
LEMMA RoundedOnce ==
    \A n \in Nat : Rounded(n) \in Nat /\ Rounded(Rounded(n)) = Rounded(n)
<1> SUFFICES ASSUME NEW n \in Nat
             PROVE  Rounded(n) \in Nat /\ Rounded(Rounded(n)) = Rounded(n)
  OBVIOUS
<1> DEFINE k == (n + 5) \div 10
<1>1. k \in Nat
  OBVIOUS
<1>2. (10 * k + 5) \div 10 = k
  BY <1>1
<1> HIDE DEF k
<1>3. n >= Digits => Rounded(n) = 10 * k
  BY DigitsAssumption DEF Rounded, k
<1>4. n < Digits => Rounded(n) = n
  BY DEF Rounded
<1>5. Rounded(10 * k) = 10 * k
  BY <1>1, <1>2 DEF Rounded
<1> QED
  BY <1>1, <1>3, <1>4, <1>5, DigitsAssumption

LEMMA SavedParts ==
    ASSUME NEW p \in Policies
    PROVE  /\ Saved(p) \in Policies
           /\ Saved(p).priority = p.priority /\ Saved(p).matches = p.matches
           /\ Saved(p).valid = p.valid
           /\ Saved(Saved(p)) = Saved(p)
<1>1. p \in Policies /\ Rounded(p.params) \in Nat
      /\ Rounded(Rounded(p.params)) = Rounded(p.params)
  BY RoundedOnce, PolicyParts
<1>2. /\ Saved(p) \in Policies /\ Saved(p).params = Rounded(p.params)
      /\ Saved(p).priority = p.priority /\ Saved(p).matches = p.matches
      /\ Saved(p).valid = p.valid
  BY <1>1 DEF Policies, Saved
<1>3. Saved(Saved(p)) = [Saved(p) EXCEPT !.params = Rounded(Rounded(p.params))]
  BY <1>2 DEF Saved
<1>4. Saved(Saved(p)) = Saved(p)
  BY <1>1, <1>2, <1>3 DEF Policies
<1> QED
  BY <1>2, <1>4

LEMMA ReloadedIs ==
    ASSUME NEW list \in Seq(Policies)
    PROVE  /\ Reloaded(list) \in Seq(Policies)
           /\ Len(Reloaded(list)) = Len(list)
           /\ \A i \in 1..Len(list) : Reloaded(list)[i] = Saved(list[i])
           /\ InOrder(list) => InOrder(Reloaded(list))
           /\ Reloaded(Reloaded(list)) = Reloaded(list)
<1>1. /\ Len(list) \in Nat
      /\ \A i \in 1..Len(list) : Saved(list[i]) \in Policies
                                 /\ Saved(Saved(list[i])) = Saved(list[i])
                                 /\ Saved(list[i]).priority = list[i].priority
  BY ListParts, SavedParts
<1>2. /\ Reloaded(list) \in [1..Len(list) -> Policies]
      /\ \A i \in 1..Len(list) : Reloaded(list)[i] = Saved(list[i])
  BY <1>1 DEF Reloaded
<1>3. Reloaded(list) \in Seq(Policies) /\ Len(Reloaded(list)) = Len(list)
  BY <1>1, <1>2
<1>4. InOrder(list) => InOrder(Reloaded(list))
  BY <1>1, <1>2, <1>3 DEF InOrder
<1>5. Reloaded(Reloaded(list)) = [i \in 1..Len(list) |-> Saved(Reloaded(list)[i])]
  BY <1>3 DEF Reloaded
<1>6. Reloaded(Reloaded(list)) = Reloaded(list)
  BY <1>1, <1>2, <1>5 DEF Reloaded
<1> QED
  BY <1>2, <1>3, <1>4, <1>6

(* Whoever decides a request still does after a save and a load. *)
LEMMA DeciderIs ==
    ASSUME NEW list \in Seq(Policies)
    PROVE  Decider(list) = [r \in Requests |-> Resolve(Reloaded(list), r)]
<1> SUFFICES ASSUME NEW r \in Requests
             PROVE  (IF Resolve(list, r) = NoPolicy THEN Resolve(list, r)
                       ELSE Saved(Resolve(list, r))) = Resolve(Reloaded(list), r)
  BY DEF Decider
<1>1. /\ Reloaded(list) \in Seq(Policies) /\ Len(Reloaded(list)) = Len(list)
      /\ \A i \in 1..Len(list) : /\ Reloaded(list)[i] = Saved(list[i])
                                 /\ Reloaded(list)[i].matches = list[i].matches
  BY ReloadedIs, SavedParts, ListParts
<1>2. CASE \A i \in 1..Len(list) : r \notin list[i].matches
  BY <1>1, <1>2, ResolveIs
<1>3. CASE \E i \in 1..Len(list) : r \in list[i].matches
  <2>1. PICK m \in 1..Len(list) :
          r \in list[m].matches /\ \A j \in 1..Len(list) : r \in list[j].matches => m <= j
    BY <1>3, ResolveIs
  <2>2. Resolve(list, r) = list[m] /\ list[m] # NoPolicy
    BY <2>1, ResolveIs, ListParts, NoPolicyIsNone
  <2>3. Resolve(Reloaded(list), r) = Reloaded(list)[m]
    BY <1>1, <2>1, ResolveIs
  <2> QED
    BY <1>1, <2>2, <2>3
<1> QED
  BY <1>2, <1>3

(* The policies that are dealt with: those seeded or posted, and what a    *)
(* save makes of them. *)
LEMMA KnownIs ==
    /\ Known \subseteq Policies /\ Postable \subseteq Known
    /\ \A p \in Known : Saved(p) \in Known
    /\ Seeded \in Seq(Known)
<1>1. \A i \in 1..Len(Seeded) : Seeded[i] \in Policies
  BY ListParts, RestControllerAssumption
<1>2. InBook \subseteq Policies
  BY <1>1, RestControllerAssumption DEF InBook
<1>3. Known \subseteq Policies
  BY <1>2, SavedParts DEF Known
<1>4. \A p \in Known : Saved(p) \in Known
  BY <1>2, SavedParts DEF Known
<1>5. Seeded \in Seq(Known)
  <2>1. Len(Seeded) \in Nat /\ Seeded \in [1..Len(Seeded) -> Known]
    BY RestControllerAssumption DEF Known, InBook
  <2> QED
    BY <2>1
<1> QED
  BY <1>3, <1>4, <1>5 DEF Known, InBook

LEMMA ListsAreKnown ==
    ASSUME NEW list \in Seq(Known), NEW p \in Postable
    PROVE  /\ list \in Seq(Policies)
           /\ Append(list, p) \in Seq(Known)
           /\ Sorted(Append(list, p)) \in Seq(Known)
           /\ Reloaded(list) \in Seq(Known)
<1>1. list \in Seq(Policies) /\ p \in Known
  BY KnownIs
<1>2. Append(list, p) \in Seq(Known)
  BY <1>1
<1>3. Sorted(Append(list, p)) \in Seq(Known)
  BY <1>2, KnownIs, SortedIs
<1>4. Reloaded(list) \in Seq(Known)
  <2>1. Len(list) \in Nat /\ \A i \in 1..Len(list) : Saved(list[i]) \in Known
    BY KnownIs
  <2>2. Reloaded(list) \in [1..Len(list) -> Known]
    BY <2>1 DEF Reloaded
  <2> QED
    BY <2>1, <2>2
<1> QED
  BY <1>1, <1>2, <1>3, <1>4

(* Adding a policy loses none. *)
LEMMA AddedHas ==
    ASSUME NEW list \in Seq(Known), NEW p \in Postable
    PROVE  /\ InOrder(Sorted(Append(list, p)))
           /\ Has(Sorted(Append(list, p)), p)
           /\ \A q : Has(list, q) => Has(Sorted(Append(list, p)), q)
           /\ \A q : Has(Reloaded(list), q) => Has(Reloaded(Sorted(Append(list, p))), q)
<1> DEFINE more == Append(list, p)
<1>1. /\ list \in Seq(Policies) /\ more \in Seq(Policies) /\ Sorted(more) \in Seq(Policies)
      /\ Len(list) \in Nat /\ Len(more) = Len(list) + 1
      /\ more[Len(list) + 1] = p /\ \A i \in 1..Len(list) : more[i] = list[i]
  BY ListsAreKnown, KnownIs
<1>2. InOrder(Sorted(more))
  BY <1>1, SortedInOrder
<1>3. ASSUME NEW i \in 1..Len(more)
      PROVE  \E n \in 1..Len(Sorted(more)) : Sorted(more)[n] = more[i]
  <2>1. Place(more, i) \in 1..Len(more)
    BY <1>1, PlaceType
  <2>2. Len(Sorted(more)) = Len(more) /\ Sorted(more)[Place(more, i)] = more[i]
    BY <1>1, SortedIs
  <2> QED
    BY <2>1, <2>2
<1> HIDE DEF more
<1>4. Has(Sorted(more), p) /\ \A i \in 1..Len(list) : Has(Sorted(more), list[i])
  <2>1. \A i \in 1..Len(more) : Has(Sorted(more), more[i])
    BY <1>3 DEF Has
  <2>2. Len(list) + 1 \in 1..Len(more) /\ \A i \in 1..Len(list) : i \in 1..Len(more)
    BY <1>1
  <2> QED
    BY <1>1, <2>1, <2>2
<1>5. \A q : Has(list, q) => Has(Sorted(more), q)
  BY <1>4 DEF Has
<1>6. ASSUME NEW q, Has(Reloaded(list), q)
      PROVE  Has(Reloaded(Sorted(more)), q)
  <2>1. PICK i \in 1..Len(list) : q = Saved(list[i])
    BY <1>1, <1>6, ReloadedIs DEF Has
  <2>2. PICK n \in 1..Len(Sorted(more)) : Sorted(more)[n] = list[i]
    BY <1>4 DEF Has
  <2> QED
    BY <1>1, <2>1, <2>2, ReloadedIs DEF Has
<1> QED
  BY <1>2, <1>4, <1>5, <1>6 DEF more

-----------------------------------------------------------------------------
(* The inductive invariant.  A worker with a policy to create holds the    *)
(* list it is to replace: its policy sorted into the list in force.        *)
Posting(w) ==
    /\ data[w].posted \in Postable
    /\ data[w].updated = Sorted(Append(policies, data[w].posted))

PostInv ==
    \A w \in Workers :
        /\ pc[w] \in {"write", "rename", "install"} => Posting(w)
        /\ pc[w] \in {"rename", "install"} => AllValid(data[w].updated)
        /\ pc[w] = "rename" => temporary = Reloaded(data[w].updated)
        /\ pc[w] = "install" => file = Reloaded(data[w].updated)

(* The file holds the policies in force, but for the digits it does not    *)
(* keep and between a rename and its installation.                         *)
FileInv ==
    /\ InOrder(policies) /\ InOrder(file)
    /\ up /\ (\A w \in Workers : pc[w] # "install") => Reloaded(file) = Reloaded(policies)

(* What was created is kept in the file as it is saved. *)
CreatedKept ==
    \A p \in created :
        /\ Has(file, Saved(p))
        /\ up => Has(Reloaded(policies), Saved(p))

(* A process that has ended has no call under way and has counted nothing. *)
EndedInv ==
    ~up => /\ \A w \in Workers : pc[w] = "idle"
           /\ counter = Zero /\ refused = 0 /\ mutation = Nobody

(* Metrics that were loaded are no more than the counters are now. *)
LoadedInv ==
    \A w \in Workers :
        /\ pc[w] \in {"denied", "errors"} => data[w].allowed <= counter.allowed
        /\ pc[w] = "errors" => data[w].denied <= counter.denied

BookInv == PostInv /\ FileInv /\ CreatedKept

(* The last conjunct of TypeOK, for one worker. *)
CallOK(w) ==
    /\ pc[w] \in {"write", "rename", "install"} <=> mutation = w
    /\ pc[w] = "resolve" => data[w] \in [request : Requests]
    /\ pc[w] = "decide" => data[w] \in [policy : Known]
    /\ pc[w] \in {"log", "count"} => data[w] \in [decision : Decisions]
    /\ pc[w] = "lock" => data[w] \in [posted : Postable]
    /\ pc[w] \in {"allowed", "denied", "errors"} => data[w] \in [DOMAIN Zero -> Nat]

Calls == pc \in [Workers -> Steps] /\ DOMAIN data = Workers /\ \A w \in Workers : CallOK(w)

Lists ==
    /\ policies \in Seq(Known) /\ file \in Seq(Known)
    /\ temporary = NoFile \/ temporary \in Seq(Known)
    /\ created \subseteq Postable

Counts ==
    /\ counter \in [DOMAIN Zero -> Nat]
    /\ rows \in [Decisions -> Nat] /\ before \in [Decisions -> Nat]
    /\ calls \in 0..MaxCalls /\ faults \in 0..MaxFaults
    /\ refused \in Nat

Typed ==
    /\ up \in BOOLEAN /\ auditUp \in BOOLEAN /\ mutation \in Workers \cup {Nobody}
    /\ Lists /\ Counts /\ Calls

RestInv ==
    /\ TypeOK
    /\ DOMAIN data = Workers
    /\ BookInv
    /\ EndedInv
    /\ LoadedInv
-----------------------------------------------------------------------------
LEMMA TypeParts == TypeOK /\ DOMAIN data = Workers <=> Typed
  BY DEF TypeOK, Typed, Lists, Counts, Calls, CallOK

LEMMA Fields ==
    /\ DOMAIN Zero = {"evaluations", "allowed", "denied", "errors"}
    /\ Zero \in [DOMAIN Zero -> Nat]
    /\ Zero.allowed = 0 /\ Zero.denied = 0 /\ Zero.errors = 0 /\ Zero.evaluations = 0
  BY DEF Zero

(* A step of one worker leaves the others where they are. *)
LEMMA GotoIs ==
    ASSUME Calls, NEW w \in Workers, NEW step \in Steps, NEW value, Goto(w, step, value)
    PROVE  /\ pc' \in [Workers -> Steps] /\ DOMAIN data' = Workers
           /\ pc'[w] = step /\ data'[w] = value
           /\ \A v \in Workers : v # w => pc'[v] = pc[v] /\ data'[v] = data[v]
  BY DEF Goto, Calls

LEMMA CallsKept ==
    ASSUME Calls, NEW w \in Workers, NEW step \in Steps, NEW value, Goto(w, step, value),
           \/ mutation' = mutation
           \/ mutation \in {w, Nobody} /\ mutation' \in {w, Nobody},
           CallOK(w)'
    PROVE  Calls'
<1>1. /\ pc' \in [Workers -> Steps] /\ DOMAIN data' = Workers
      /\ \A v \in Workers : v # w => pc'[v] = pc[v] /\ data'[v] = data[v]
  BY GotoIs
<1>2. ASSUME NEW v \in Workers, v # w
      PROVE  CallOK(v)'
  <2>1. mutation = v <=> mutation' = v
    BY <1>2, RestControllerAssumption
  <2>2. CallOK(v) /\ pc'[v] = pc[v] /\ data'[v] = data[v]
    BY <1>1, <1>2 DEF Calls
  <2> QED
    BY <2>1, <2>2 DEF CallOK
<1> QED
  BY <1>1, <1>2 DEF Calls

LEMMA CounterAdded ==
    ASSUME Counts, NEW field \in DOMAIN Zero, Add(field)
    PROVE  /\ counter' \in [DOMAIN Zero -> Nat]
           /\ counter'[field] = counter[field] + 1
           /\ \A other \in DOMAIN Zero : other # field => counter'[other] = counter[other]
           /\ \A other \in DOMAIN Zero : counter[other] <= counter'[other]
  BY DEF Add, Counts

-----------------------------------------------------------------------------
(* Type correctness of a step of a worker: first where its call stands,    *)
(* then what it has done to the lists and to the counts.                   *)
LEMMA StepCalls ==
    ASSUME RestInv, NEW w \in Workers, Begin(w) \/ Step(w)
    PROVE  Calls'
<1>1. Calls /\ CallOK(w) /\ PostInv
  BY TypeParts DEF Typed, RestInv, BookInv, Calls
<1>2. w # Nobody /\ Seeded \in Seq(Policies)
  BY RestControllerAssumption
<1>3. Counts /\ Lists
  BY TypeParts DEF Typed, RestInv
<1>4. ASSUME NEW step \in Steps, NEW value, Goto(w, step, value), mutation' = mutation,
             step \notin {"write", "rename", "install"},
             pc[w] \notin {"write", "rename", "install"},
             step = "resolve" => value \in [request : Requests],
             step = "decide" => value \in [policy : Known],
             step \in {"log", "count"} => value \in [decision : Decisions],
             step = "lock" => value \in [posted : Postable],
             step \in {"allowed", "denied", "errors"} => value \in [DOMAIN Zero -> Nat]
      PROVE  Calls'
  <2>1. pc'[w] = step /\ data'[w] = value
    BY <1>1, <1>4, GotoIs
  <2>2. CallOK(w)'
    BY <1>1, <1>4, <2>1 DEF CallOK
  <2> QED
    BY <1>1, <1>4, <2>2, CallsKept
<1>5. ASSUME Finish(w), mutation' = mutation, pc[w] \notin {"write", "rename", "install"}
      PROVE  Calls'
  BY <1>4, <1>5 DEF Finish, Steps
<1>6. ASSUME NEW step \in {"write", "rename", "install"}, NEW value, Goto(w, step, value),
             mutation' = w, mutation \in {w, Nobody}
      PROVE  Calls'
  <2>1. step \in Steps
    BY DEF Steps
  <2>2. pc'[w] = step /\ data'[w] = value
    BY <1>1, <1>6, <2>1, GotoIs
  <2>3. CallOK(w)'
    BY <1>6, <2>2 DEF CallOK
  <2> QED
    BY <1>1, <1>6, <2>1, <2>3, CallsKept
<1>7. ASSUME Finish(w), mutation' = Nobody, mutation = w
      PROVE  Calls'
  <2>1. "idle" \in Steps /\ Goto(w, "idle", NoData)
    BY <1>7 DEF Finish, Steps
  <2>2. pc'[w] = "idle" /\ data'[w] = NoData
    BY <1>1, <2>1, GotoIs
  <2>3. CallOK(w)'
    BY <1>2, <1>7, <2>2 DEF CallOK
  <2> QED
    BY <1>1, <1>7, <2>1, <2>3, CallsKept
<1>8. CASE BeginEvaluate(w)
  BY <1>4, <1>8 DEF BeginEvaluate, Arrive, book, Steps
<1>9. CASE Refuse(w)
  BY <1>5, <1>9 DEF Refuse, book
<1>10. CASE ResolvePolicy(w)
  <2>1. CASE Resolve(policies, data[w].request) = NoPolicy
    BY <1>5, <1>10, <2>1 DEF ResolvePolicy, book
  <2>2. CASE Resolve(policies, data[w].request) # NoPolicy
    <3>1. Resolve(policies, data[w].request) \in Known
      <4>1. policies \in Seq(Policies) /\ \A i \in 1..Len(policies) : policies[i] \in Known
        BY <1>3, KnownIs, ElementOfSeq DEF Lists
      <4>2. \E i \in 1..Len(policies) : data[w].request \in policies[i].matches
        BY <2>2, <4>1, ResolveIs
      <4>3. \E m \in 1..Len(policies) : Resolve(policies, data[w].request) = policies[m]
        BY <4>1, <4>2, ResolveIs
      <4> QED
        BY <4>1, <4>3
    <3> QED
      BY <1>4, <1>10, <2>2, <3>1 DEF ResolvePolicy, book, Steps
  <2> QED
    BY <2>1, <2>2
<1>11. CASE Decide(w)
  BY <1>4, <1>11 DEF Decide, book, Steps
<1>12. CASE DecideFails(w)
  BY <1>5, <1>12 DEF DecideFails, book
<1>13. CASE LogRequest(w)
  BY <1>1, <1>4, <1>13 DEF LogRequest, book, Steps, CallOK
<1>14. CASE LogFails(w)
  BY <1>5, <1>14 DEF LogFails, book
<1>15. CASE CountDecision(w)
  BY <1>5, <1>15 DEF CountDecision, book
<1>16. CASE BeginPost(w)
  BY <1>4, <1>16 DEF BeginPost, Arrive, book, Steps
<1>17. CASE CopyPolicies(w)
  BY <1>6, <1>17 DEF CopyPolicies
<1>18. CASE WriteTemporary(w)
  BY <1>1, <1>6, <1>18 DEF WriteTemporary, CallOK
<1>19. CASE RenameTemporary(w)
  BY <1>1, <1>6, <1>19 DEF RenameTemporary, CallOK
<1>20. CASE SaveFails(w)
  <2>1. mutation = w
    BY <1>1, <1>20 DEF SaveFails, CallOK
  <2> QED
    BY <1>7, <1>20, <2>1 DEF SaveFails
<1>21. CASE InstallPolicies(w)
  BY <1>1, <1>7, <1>21 DEF InstallPolicies, CallOK
<1>22. CASE BeginMetrics(w)
  <2>1. [Zero EXCEPT !.evaluations = counter.evaluations] \in [DOMAIN Zero -> Nat]
    BY <1>3, Fields DEF Counts
  <2> QED
    BY <1>4, <1>22, <2>1 DEF BeginMetrics, Arrive, book, Steps
<1>23. CASE LoadCounter(w)
  <2>1. counter.allowed \in Nat /\ counter.denied \in Nat /\ mutation' = mutation
    BY <1>3, <1>23, Fields DEF Counts, LoadCounter, book
  <2>2. data[w] \in [DOMAIN Zero -> Nat]
    BY <1>1, <1>23 DEF CallOK, LoadCounter
  <2>3. /\ [data[w] EXCEPT !.allowed = counter.allowed] \in [DOMAIN Zero -> Nat]
        /\ [data[w] EXCEPT !.denied = counter.denied] \in [DOMAIN Zero -> Nat]
    BY <2>1, <2>2
  <2>4. CASE pc[w] = "allowed" /\ Goto(w, "denied", [data[w] EXCEPT !.allowed = counter.allowed])
    BY <1>4, <2>1, <2>3, <2>4 DEF Steps
  <2>5. CASE pc[w] = "denied" /\ Goto(w, "errors", [data[w] EXCEPT !.denied = counter.denied])
    BY <1>4, <2>1, <2>3, <2>5 DEF Steps
  <2>6. CASE pc[w] = "errors" /\ Finish(w)
    BY <1>5, <2>1, <2>6
  <2> QED
    BY <1>23, <2>4, <2>5, <2>6 DEF LoadCounter
<1> QED
  BY <1>8, <1>9, <1>10, <1>11, <1>12, <1>13, <1>14, <1>15, <1>16, <1>17, <1>18, <1>19,
     <1>20, <1>21, <1>22, <1>23 DEF Begin, Step

LEMMA StepLists ==
    ASSUME RestInv, NEW w \in Workers, Begin(w) \/ Step(w)
    PROVE  Lists'
<1>1. Lists /\ CallOK(w) /\ PostInv
  BY TypeParts DEF Typed, RestInv, BookInv, Calls
<1>2. CASE UNCHANGED <<policies, file, temporary, created>>
  BY <1>1, <1>2 DEF Lists
<1>3. CASE WriteTemporary(w)
  <2>1. Posting(w) /\ policies \in Seq(Known)
    BY <1>1, <1>3 DEF WriteTemporary, PostInv, Lists
  <2>2. Reloaded(data[w].updated) \in Seq(Known)
    BY <2>1, ListsAreKnown DEF Posting
  <2>3. temporary' = Reloaded(data[w].updated)
    BY <1>3 DEF WriteTemporary, Reloaded
  <2> QED
    BY <1>1, <1>3, <2>2, <2>3 DEF Lists, WriteTemporary
<1>4. CASE RenameTemporary(w)
  <2>1. Posting(w) /\ policies \in Seq(Known) /\ temporary = Reloaded(data[w].updated)
    BY <1>1, <1>4 DEF RenameTemporary, PostInv, Lists
  <2>2. Reloaded(data[w].updated) \in Seq(Known)
    BY <2>1, ListsAreKnown DEF Posting
  <2> QED
    BY <1>1, <1>4, <2>1, <2>2 DEF Lists, RenameTemporary
<1>5. CASE SaveFails(w)
  BY <1>1, <1>5 DEF Lists, SaveFails
<1>6. CASE InstallPolicies(w)
  <2>1. Posting(w) /\ policies \in Seq(Known)
    BY <1>1, <1>6 DEF InstallPolicies, PostInv, Lists
  <2>2. data[w].updated \in Seq(Known)
    BY <2>1, ListsAreKnown DEF Posting
  <2>3. Sorted(data[w].updated) \in Seq(Known)
    BY <2>2, KnownIs, SortedIs
  <2> QED
    BY <1>1, <1>6, <2>1, <2>3 DEF Lists, InstallPolicies, Posting
<1> QED
  BY <1>2, <1>3, <1>4, <1>5, <1>6
  DEF Begin, Step, BeginEvaluate, Refuse, ResolvePolicy, Decide, DecideFails, LogRequest,
      LogFails, CountDecision, BeginPost, CopyPolicies, BeginMetrics, LoadCounter, book

LEMMA FaultIs ==
    ASSUME Counts, Fault
    PROVE  faults' \in 0..MaxFaults /\ calls' = calls /\ before' = before
  BY RestControllerAssumption DEF Counts, Fault

LEMMA ArriveIs ==
    ASSUME Counts, NEW w, Arrive(w)
    PROVE  calls' \in 0..MaxCalls /\ faults' = faults /\ before' = before /\ up' = up
  BY RestControllerAssumption DEF Counts, Arrive

LEMMA StepCounts ==
    ASSUME RestInv, NEW w \in Workers, Begin(w) \/ Step(w)
    PROVE  Counts' /\ up' = up /\ auditUp' \in BOOLEAN
<1>1. Counts /\ CallOK(w) /\ auditUp \in BOOLEAN
  BY TypeParts DEF Typed, RestInv, Calls
<1>2. /\ "evaluations" \in DOMAIN Zero /\ "allowed" \in DOMAIN Zero
      /\ "denied" \in DOMAIN Zero /\ "errors" \in DOMAIN Zero
  BY Fields
<1>3. CASE BeginEvaluate(w)
  BY <1>1, <1>2, <1>3, ArriveIs, CounterAdded DEF Counts, BeginEvaluate
<1>4. CASE Refuse(w) \/ ResolvePolicy(w)
  BY <1>1, <1>4 DEF Counts, Refuse, ResolvePolicy, bounds
<1>5. CASE Decide(w) \/ CopyPolicies(w) \/ WriteTemporary(w) \/ RenameTemporary(w)
           \/ InstallPolicies(w) \/ LoadCounter(w)
  BY <1>1, <1>5
  DEF Counts, Decide, CopyPolicies, WriteTemporary, RenameTemporary, InstallPolicies,
      LoadCounter, tally, bounds
<1>6. CASE DecideFails(w)
  BY <1>1, <1>2, <1>6, CounterAdded DEF Counts, DecideFails, bounds
<1>7. CASE LogRequest(w)
  <2>1. data[w].decision \in Decisions
    BY <1>1, <1>7 DEF LogRequest, CallOK
  <2>2. rows' \in [Decisions -> Nat]
    BY <1>1, <1>7, <2>1 DEF LogRequest, Counts
  <2> QED
    BY <1>1, <1>7, <2>2 DEF Counts, LogRequest, bounds
<1>8. CASE LogFails(w)
  <2>1. counter' \in [DOMAIN Zero -> Nat]
    BY <1>1, <1>2, <1>8, CounterAdded DEF LogFails
  <2>2. calls' \in 0..MaxCalls /\ faults' \in 0..MaxFaults /\ before' = before
    BY <1>1, <1>8, FaultIs DEF LogFails, bounds, Counts
  <2> QED
    BY <1>1, <1>8, <2>1, <2>2 DEF Counts, LogFails
<1>9. CASE CountDecision(w)
  <2>1. counter' \in [DOMAIN Zero -> Nat]
    BY <1>1, <1>2, <1>9, CounterAdded DEF CountDecision
  <2> QED
    BY <1>1, <1>9, <2>1 DEF Counts, CountDecision, bounds
<1>10. CASE BeginPost(w)
  BY <1>1, <1>10, ArriveIs DEF Counts, BeginPost, tally
<1>11. CASE SaveFails(w)
  <2>1. calls' \in 0..MaxCalls /\ faults' \in 0..MaxFaults /\ before' = before
    BY <1>1, <1>11, FaultIs DEF SaveFails, bounds, Counts
  <2> QED
    BY <1>1, <1>11, <2>1 DEF Counts, SaveFails, tally
<1>12. CASE BeginMetrics(w)
  BY <1>1, <1>12, ArriveIs DEF Counts, BeginMetrics, tally
<1> QED
  BY <1>3, <1>4, <1>5, <1>6, <1>7, <1>8, <1>9, <1>10, <1>11, <1>12 DEF Begin, Step

LEMMA TypeStep ==
    ASSUME RestInv, [Next]_vars
    PROVE  TypeOK' /\ DOMAIN data' = Workers
<1>1. Typed
  BY TypeParts DEF RestInv
<1>2. Typed'
  <2>1. ASSUME up, NEW w \in Workers, Begin(w) \/ Step(w)
        PROVE  Typed'
    <3>1. mutation' \in {mutation, w, Nobody}
      BY <2>1
      DEF Begin, Step, BeginEvaluate, Refuse, ResolvePolicy, Decide, DecideFails,
          LogRequest, LogFails, CountDecision, BeginPost, CopyPolicies, WriteTemporary,
          RenameTemporary, SaveFails, InstallPolicies, BeginMetrics, LoadCounter, book
    <3> QED
      BY <1>1, <2>1, <3>1, StepCalls, StepLists, StepCounts DEF Typed
  <2>2. CASE Crash
    <3>1. Calls'
      <4>1. \A v \in Workers : CallOK(v)'
        BY <2>2, RestControllerAssumption DEF Crash, CallOK
      <4> QED
        BY <2>2, <4>1 DEF Crash, Calls, Steps
    <3>2. Lists'
      BY <1>1, <2>2 DEF Typed, Crash, Lists
    <3>3. Counts'
      BY <1>1, <2>2, FaultIs, Fields DEF Typed, Crash, Counts
    <3> QED
      BY <1>1, <2>2, <3>1, <3>2, <3>3 DEF Typed, Crash
  <2>3. CASE Restart
    <3>1. Lists'
      BY <1>1, <2>3, KnownIs, SortedIs DEF Typed, Restart, Lists
    <3>2. Counts' /\ Calls'
      BY <1>1, <2>3 DEF Typed, Restart, Counts, Calls, CallOK
    <3> QED
      BY <1>1, <2>3, <3>1, <3>2 DEF Typed, Restart
  <2>4. CASE UNCHANGED vars
    BY <1>1, <2>4 DEF Typed, vars, book, tally, bounds, Lists, Counts, Calls, CallOK
  <2> QED
    BY <2>1, <2>2, <2>3, <2>4 DEF Next
<1> QED
  BY <1>2 DEF Typed, TypeOK, Lists, Counts, Calls, CallOK

-----------------------------------------------------------------------------
(* The policies, their file and the lock.  Most steps leave them alone ... *)
Posts == {"write", "rename", "install"}

LEMMA BookAside ==
    ASSUME BookInv, UNCHANGED <<up, policies, file, temporary, created>>,
           \A v \in Workers : pc'[v] \in Posts => pc'[v] = pc[v] /\ data'[v] = data[v],
           \A v \in Workers : pc[v] = "install" => pc'[v] = "install"
    PROVE  BookInv'
<1>1. PostInv'
  BY DEF BookInv, PostInv, Posting, Posts
<1>2. FileInv'
  BY DEF BookInv, FileInv
<1>3. CreatedKept'
  BY DEF BookInv, CreatedKept
<1> QED
  BY <1>1, <1>2, <1>3 DEF BookInv

(* ... and while one worker replaces them no other one does. *)
LEMMA Exclusion ==
    ASSUME Calls, NEW w \in Workers, mutation \in {w, Nobody}
    PROVE  \A v \in Workers : v # w => pc[v] \notin Posts
  BY RestControllerAssumption DEF Calls, CallOK, Posts

(* What a worker holds that replaces the list. *)
LEMMA PostingIs ==
    ASSUME Lists, NEW w \in Workers, Posting(w)
    PROVE  /\ policies \in Seq(Policies) /\ data[w].updated \in Seq(Policies)
           /\ data[w].posted \in Policies
           /\ InOrder(data[w].updated) /\ Sorted(data[w].updated) = data[w].updated
           /\ Has(data[w].updated, data[w].posted)
           /\ \A q : Has(Reloaded(policies), q) => Has(Reloaded(data[w].updated), q)
<1>1. /\ policies \in Seq(Known) /\ data[w].posted \in Postable
      /\ data[w].updated = Sorted(Append(policies, data[w].posted))
  BY DEF Lists, Posting
<1>2. /\ policies \in Seq(Policies) /\ data[w].updated \in Seq(Policies)
      /\ data[w].posted \in Policies
  BY <1>1, ListsAreKnown, KnownIs
<1>3. InOrder(data[w].updated)
  BY <1>1, AddedHas
<1> QED
  BY <1>1, <1>2, <1>3, AddedHas, InOrderSorted

LEMMA StepBook ==
    ASSUME RestInv, up, NEW w \in Workers, Begin(w) \/ Step(w)
    PROVE  BookInv'
<1>1. Calls /\ CallOK(w) /\ Lists /\ BookInv
  BY TypeParts DEF Typed, RestInv, Calls
<1>2. ASSUME NEW step \in Steps, NEW value, Goto(w, step, value),
             pc[w] \in Posts \/ mutation = Nobody
      PROVE  /\ pc'[w] = step /\ data'[w] = value
             /\ \A v \in Workers : v # w => pc[v] \notin Posts /\ pc'[v] \notin Posts
  <2>1. mutation \in {w, Nobody}
    BY <1>1, <1>2 DEF CallOK, Posts
  <2> QED
    BY <1>1, <1>2, <2>1, GotoIs, Exclusion
<1>3. ASSUME UNCHANGED <<up, policies, file, temporary, created>>,
             NEW step \in Steps, NEW value, Goto(w, step, value),
             pc[w] # "install", step \notin Posts
      PROVE  BookInv'
  BY <1>1, <1>3, GotoIs, BookAside DEF Posts
<1>4. CASE BeginEvaluate(w) \/ BeginPost(w) \/ BeginMetrics(w)
  BY <1>3, <1>4 DEF BeginEvaluate, BeginPost, BeginMetrics, Arrive, book, Steps, Posts
<1>5. CASE Refuse(w) \/ DecideFails(w) \/ LogFails(w) \/ CountDecision(w)
  BY <1>3, <1>5
  DEF Refuse, DecideFails, LogFails, CountDecision, book, Steps, Posts, Finish
<1>6. CASE ResolvePolicy(w)
  BY <1>3, <1>6 DEF ResolvePolicy, book, Steps, Posts, Finish
<1>7. CASE Decide(w) \/ LogRequest(w) \/ LoadCounter(w)
  BY <1>3, <1>7 DEF Decide, LogRequest, LoadCounter, book, Steps, Posts, Finish
<1>8. CASE CopyPolicies(w)
  <2> DEFINE held == [posted |-> data[w].posted,
                      updated |-> Sorted(Append(policies, data[w].posted))]
  <2>1. /\ pc'[w] = "write" /\ data'[w] = held
        /\ \A v \in Workers : v # w => pc[v] \notin Posts /\ pc'[v] \notin Posts
    BY <1>2, <1>8 DEF CopyPolicies, Steps
  <2>2. data[w].posted \in Postable
    BY <1>1, <1>8 DEF CopyPolicies, CallOK
  <2>3. PostInv'
    BY <1>8, <2>1, <2>2 DEF CopyPolicies, PostInv, Posting, Posts
  <2>4. FileInv'
    BY <1>1, <1>8, <2>1 DEF CopyPolicies, BookInv, FileInv, Posts
  <2>5. CreatedKept'
    BY <1>1, <1>8 DEF CopyPolicies, BookInv, CreatedKept
  <2> QED
    BY <2>3, <2>4, <2>5 DEF BookInv
<1>9. CASE WriteTemporary(w)
  <2>1. /\ pc'[w] = "rename" /\ data'[w] = data[w]
        /\ \A v \in Workers : v # w => pc[v] \notin Posts /\ pc'[v] \notin Posts
    BY <1>2, <1>9 DEF WriteTemporary, Steps, Posts
  <2>2. Posting(w) /\ AllValid(data[w].updated)
    BY <1>1, <1>9 DEF WriteTemporary, BookInv, PostInv
  <2>3. PostInv'
    BY <1>9, <2>1, <2>2 DEF WriteTemporary, PostInv, Posting, Posts, Reloaded
  <2>4. FileInv'
    BY <1>1, <1>9, <2>1 DEF WriteTemporary, BookInv, FileInv, Posts
  <2>5. CreatedKept'
    BY <1>1, <1>9 DEF WriteTemporary, BookInv, CreatedKept
  <2> QED
    BY <2>3, <2>4, <2>5 DEF BookInv
<1>10. CASE RenameTemporary(w)
  <2>1. /\ pc'[w] = "install" /\ data'[w] = data[w]
        /\ \A v \in Workers : v # w => pc[v] \notin Posts /\ pc'[v] \notin Posts
    BY <1>2, <1>10 DEF RenameTemporary, Steps, Posts
  <2>2. Posting(w) /\ AllValid(data[w].updated) /\ file' = Reloaded(data[w].updated)
    BY <1>1, <1>10 DEF RenameTemporary, BookInv, PostInv
  <2>3. PostInv'
    BY <1>10, <2>1, <2>2 DEF RenameTemporary, PostInv, Posting, Posts
  <2>4. FileInv'
    <3>1. InOrder(file')
      BY <1>1, <2>2, PostingIs, ReloadedIs
    <3> QED
      BY <1>1, <1>10, <2>1, <3>1 DEF RenameTemporary, BookInv, FileInv
  <2>5. CreatedKept'
    <3>1. \A p \in created : Has(file', Saved(p))
      BY <1>1, <2>2, PostingIs DEF BookInv, CreatedKept
    <3> QED
      BY <1>1, <1>10, <3>1 DEF RenameTemporary, BookInv, CreatedKept
  <2> QED
    BY <2>3, <2>4, <2>5 DEF BookInv
<1>11. CASE SaveFails(w)
  <2>1. /\ pc'[w] = "idle" /\ pc[w] \in Posts /\ pc[w] # "install"
        /\ \A v \in Workers : v # w => pc[v] \notin Posts /\ pc'[v] \notin Posts
    BY <1>2, <1>11 DEF SaveFails, Steps, Posts, Finish
  <2>2. PostInv'
    BY <2>1 DEF PostInv, Posts
  <2>3. FileInv'
    BY <1>1, <1>11, <2>1 DEF SaveFails, BookInv, FileInv, Posts
  <2>4. CreatedKept'
    BY <1>1, <1>11 DEF SaveFails, BookInv, CreatedKept
  <2> QED
    BY <2>2, <2>3, <2>4 DEF BookInv
<1>12. CASE InstallPolicies(w)
  <2>1. /\ pc'[w] = "idle"
        /\ \A v \in Workers : v # w => pc[v] \notin Posts /\ pc'[v] \notin Posts
    BY <1>2, <1>12 DEF InstallPolicies, Steps, Posts, Finish
  <2>2. Posting(w) /\ file = Reloaded(data[w].updated)
    BY <1>1, <1>12 DEF InstallPolicies, BookInv, PostInv
  <2>3. /\ policies' = data[w].updated /\ InOrder(policies')
        /\ Reloaded(file) = Reloaded(policies')
    BY <1>1, <1>12, <2>2, PostingIs, ReloadedIs DEF InstallPolicies
  <2>4. PostInv'
    BY <2>1 DEF PostInv, Posts
  <2>5. FileInv'
    BY <1>1, <1>12, <2>3 DEF InstallPolicies, BookInv, FileInv
  <2>6. Has(Reloaded(data[w].updated), Saved(data[w].posted))
    BY <1>1, <2>2, PostingIs, ReloadedIs DEF Has
  <2>7. \A p \in created' : Has(Reloaded(data[w].updated), Saved(p))
    BY <1>1, <1>12, <2>2, <2>6, PostingIs DEF InstallPolicies, BookInv, CreatedKept
  <2>8. CreatedKept'
    BY <1>12, <2>2, <2>3, <2>7 DEF InstallPolicies, CreatedKept
  <2> QED
    BY <2>4, <2>5, <2>8 DEF BookInv
<1> QED
  BY <1>4, <1>5, <1>6, <1>7, <1>8, <1>9, <1>10, <1>11, <1>12 DEF Begin, Step

LEMMA BookStep ==
    ASSUME RestInv, [Next]_vars
    PROVE  BookInv'
<1>1. Lists /\ BookInv
  BY TypeParts DEF Typed, RestInv
<1>2. \A p \in created : p \in Policies
  BY <1>1, KnownIs DEF Lists
<1>3. ASSUME up, NEW w \in Workers, Begin(w) \/ Step(w)
      PROVE  BookInv'
  BY <1>3, StepBook
<1>4. CASE Crash
  <2>1. PostInv'
    BY <1>4 DEF Crash, PostInv
  <2>2. FileInv'
    BY <1>1, <1>4 DEF Crash, BookInv, FileInv, InOrder
  <2>3. CreatedKept'
    BY <1>1, <1>4 DEF Crash, BookInv, CreatedKept
  <2> QED
    BY <2>1, <2>2, <2>3 DEF BookInv
<1>5. CASE Restart
  <2>1. file \in Seq(Policies) /\ InOrder(file)
    BY <1>1, KnownIs DEF Lists, BookInv, FileInv
  <2>2. policies' = file /\ file' = file /\ created' = created
    BY <1>5, <2>1, InOrderSorted DEF Restart
  <2>3. PostInv'
    BY <1>5 DEF Restart, RestInv, EndedInv, PostInv
  <2>4. FileInv'
    BY <2>1, <2>2 DEF FileInv
  <2>5. ASSUME NEW p \in created
        PROVE  Has(file, Saved(p)) /\ Has(Reloaded(file), Saved(p))
    <3>1. PICK i \in 1..Len(file) : file[i] = Saved(p)
      BY <1>1 DEF BookInv, CreatedKept, Has
    <3>2. Reloaded(file)[i] = Saved(p) /\ Len(Reloaded(file)) = Len(file)
      BY <1>2, <2>1, <3>1, ReloadedIs, SavedParts
    <3> QED
      BY <3>1, <3>2 DEF Has
  <2>6. CreatedKept'
    BY <2>2, <2>5 DEF CreatedKept
  <2> QED
    BY <2>3, <2>4, <2>6 DEF BookInv
<1>6. CASE UNCHANGED vars
  BY <1>1, <1>6, BookAside DEF vars, book
<1> QED
  BY <1>3, <1>4, <1>5, <1>6 DEF Next

-----------------------------------------------------------------------------
(* A process that has ended does nothing more. *)
LEMMA EndedStep ==
    ASSUME RestInv, [Next]_vars
    PROVE  EndedInv'
<1>1. CASE up /\ \E w \in Workers : Begin(w) \/ Step(w)
  BY <1>1, StepCounts DEF EndedInv
<1>2. CASE Crash
  BY <1>2 DEF Crash, EndedInv
<1>3. CASE Restart
  BY <1>3 DEF Restart, EndedInv
<1>4. CASE UNCHANGED vars
  BY <1>4 DEF vars, book, tally, bounds, EndedInv, RestInv
<1> QED
  BY <1>1, <1>2, <1>3, <1>4 DEF Next

(* No step of a worker takes anything from a counter. *)
LEMMA StepAdds ==
    ASSUME RestInv, NEW w \in Workers, Begin(w) \/ Step(w)
    PROVE  \A field \in DOMAIN Zero : counter[field] <= counter'[field]
<1>1. Counts /\ CallOK(w)
  BY TypeParts DEF Typed, RestInv, Calls
<1>2. /\ "evaluations" \in DOMAIN Zero /\ "allowed" \in DOMAIN Zero
      /\ "denied" \in DOMAIN Zero /\ "errors" \in DOMAIN Zero
  BY Fields
<1>3. ASSUME counter' = counter
      PROVE  \A field \in DOMAIN Zero : counter[field] <= counter'[field]
  <2>1. \A field \in DOMAIN Zero : counter[field] \in Nat
    BY <1>1 DEF Counts
  <2> QED
    BY <1>3, <2>1
<1>4. CASE BeginEvaluate(w)
  BY <1>1, <1>2, <1>4, CounterAdded DEF BeginEvaluate
<1>5. CASE DecideFails(w)
  BY <1>1, <1>2, <1>5, CounterAdded DEF DecideFails
<1>6. CASE LogFails(w)
  BY <1>1, <1>2, <1>6, CounterAdded DEF LogFails
<1>7. CASE CountDecision(w)
  BY <1>1, <1>2, <1>7, CounterAdded DEF CountDecision
<1>8. CASE Refuse(w) \/ ResolvePolicy(w) \/ LogRequest(w)
  BY <1>3, <1>8 DEF Refuse, ResolvePolicy, LogRequest
<1>9. CASE \/ Decide(w) \/ BeginPost(w) \/ CopyPolicies(w) \/ WriteTemporary(w)
           \/ RenameTemporary(w) \/ SaveFails(w) \/ InstallPolicies(w)
           \/ BeginMetrics(w) \/ LoadCounter(w)
  BY <1>3, <1>9
  DEF Decide, BeginPost, CopyPolicies, WriteTemporary, RenameTemporary, SaveFails,
      InstallPolicies, BeginMetrics, LoadCounter, tally
<1> QED
  BY <1>4, <1>5, <1>6, <1>7, <1>8, <1>9 DEF Begin, Step

LEMMA LoadedStep ==
    ASSUME RestInv, [Next]_vars
    PROVE  LoadedInv'
<1>1. Counts /\ Calls /\ LoadedInv
  BY TypeParts DEF Typed, RestInv
<1>2. \A v \in Workers : CallOK(v)
  BY <1>1 DEF Calls
<1>3. ASSUME NEW w \in Workers, Begin(w) \/ Step(w)
      PROVE  LoadedInv'
  <2>1. /\ counter.allowed \in Nat /\ counter'.allowed \in Nat
        /\ counter.denied \in Nat /\ counter'.denied \in Nat
        /\ counter.allowed <= counter'.allowed /\ counter.denied <= counter'.denied
    BY <1>1, <1>3, Fields, StepAdds, StepCounts DEF Counts
  <2>2. ASSUME NEW v \in Workers, pc'[v] = pc[v], data'[v] = data[v]
        PROVE  /\ pc'[v] \in {"denied", "errors"} => data'[v].allowed <= counter'.allowed
               /\ pc'[v] = "errors" => data'[v].denied <= counter'.denied
    <3>1. pc[v] \in {"denied", "errors"} => data[v].allowed \in Nat /\ data[v].denied \in Nat
      BY <1>2, Fields DEF CallOK
    <3> QED
      BY <1>1, <2>1, <2>2, <3>1 DEF LoadedInv
  <2>3. ASSUME NEW step \in Steps, NEW value, Goto(w, step, value),
               step \notin {"denied", "errors"}
        PROVE  LoadedInv'
    BY <1>1, <2>2, <2>3, GotoIs DEF LoadedInv
  <2>4. CASE LoadCounter(w)
    <3>1. data[w] \in [DOMAIN Zero -> Nat] /\ counter' = counter
      BY <1>2, <2>4 DEF LoadCounter, CallOK, tally
    <3>2. CASE pc[w] = "allowed" /\ Goto(w, "denied", [data[w] EXCEPT !.allowed = counter.allowed])
      <4>1. pc'[w] = "denied" /\ data'[w] = [data[w] EXCEPT !.allowed = counter.allowed]
        BY <1>1, <3>2, GotoIs DEF Steps
      <4>2. data'[w].allowed = counter.allowed
        BY <3>1, <4>1, Fields
      <4> QED
        BY <1>1, <2>1, <2>2, <3>1, <3>2, <4>1, <4>2, GotoIs DEF LoadedInv, Steps
    <3>3. CASE pc[w] = "denied" /\ Goto(w, "errors", [data[w] EXCEPT !.denied = counter.denied])
      <4>1. pc'[w] = "errors" /\ data'[w] = [data[w] EXCEPT !.denied = counter.denied]
        BY <1>1, <3>3, GotoIs DEF Steps
      <4>2. data'[w].denied = counter.denied /\ data'[w].allowed = data[w].allowed
        BY <3>1, <4>1, Fields
      <4>3. data[w].allowed <= counter.allowed
        BY <1>1, <3>3 DEF LoadedInv
      <4>4. data'[w].allowed <= counter'.allowed /\ data'[w].denied <= counter'.denied
        BY <2>1, <3>1, <4>2, <4>3
      <4>5. \A v \in Workers : v # w => pc'[v] = pc[v] /\ data'[v] = data[v]
        BY <1>1, <3>3, GotoIs DEF Steps
      <4> QED
        BY <2>2, <4>4, <4>5 DEF LoadedInv
    <3>4. CASE pc[w] = "errors" /\ Finish(w)
      BY <2>3, <3>4 DEF Finish, Steps
    <3> QED
      BY <2>4, <3>2, <3>3, <3>4 DEF LoadCounter
  <2>5. CASE BeginEvaluate(w) \/ BeginPost(w) \/ BeginMetrics(w)
    BY <2>3, <2>5 DEF BeginEvaluate, BeginPost, BeginMetrics, Steps
  <2>6. CASE Refuse(w) \/ ResolvePolicy(w) \/ Decide(w) \/ DecideFails(w) \/ LogRequest(w)
             \/ LogFails(w) \/ CountDecision(w)
    BY <2>3, <2>6
    DEF Refuse, ResolvePolicy, Decide, DecideFails, LogRequest, LogFails, CountDecision,
        Finish, Steps
  <2>7. CASE CopyPolicies(w) \/ WriteTemporary(w) \/ RenameTemporary(w) \/ SaveFails(w)
             \/ InstallPolicies(w)
    BY <2>3, <2>7
    DEF CopyPolicies, WriteTemporary, RenameTemporary, SaveFails, InstallPolicies,
        Finish, Steps
  <2> QED
    BY <1>3, <2>4, <2>5, <2>6, <2>7 DEF Begin, Step
<1>4. CASE Crash
  BY <1>4 DEF Crash, LoadedInv
<1>5. CASE Restart
  BY <1>1, <1>5 DEF Restart, LoadedInv
<1>6. CASE UNCHANGED vars
  BY <1>1, <1>6 DEF vars, tally, LoadedInv
<1> QED
  BY <1>3, <1>4, <1>5, <1>6 DEF Next

-----------------------------------------------------------------------------
THEOREM SpecRestInv == Spec => []RestInv
<1>1. Init => RestInv
  <2> SUFFICES ASSUME Init PROVE RestInv
    OBVIOUS
  <2>1. Seeded \in Seq(Known) /\ InOrder(Seeded)
    BY KnownIs, SortedInOrder, RestControllerAssumption
  <2>2. Lists
    BY <2>1 DEF Init, Lists
  <2>3. Counts
    BY Fields, RestControllerAssumption DEF Init, Counts, NoRows
  <2>4. Calls
    <3>1. \A w \in Workers : CallOK(w)
      BY RestControllerAssumption DEF Init, CallOK
    <3> QED
      BY <3>1 DEF Init, Calls, Steps
  <2>5. TypeOK /\ DOMAIN data = Workers
    BY <2>2, <2>3, <2>4, TypeParts DEF Init, Typed
  <2>6. BookInv
    BY <2>1 DEF Init, BookInv, PostInv, FileInv, CreatedKept
  <2>7. EndedInv /\ LoadedInv
    BY DEF Init, EndedInv, LoadedInv
  <2> QED
    BY <2>5, <2>6, <2>7 DEF RestInv
<1>2. RestInv /\ [Next]_vars => RestInv'
  BY TypeStep, BookStep, EndedStep, LoadedStep DEF RestInv
<1> QED
  BY <1>1, <1>2, PTL DEF Spec

(* The lists hold nothing but policies that were seeded or posted, the     *)
(* lock has the owner its calls say, and no counter leaves its type. *)
THEOREM TypeCorrect == Spec => []TypeOK
<1>1. RestInv => TypeOK
  BY DEF RestInv
<1> QED
  BY <1>1, SpecRestInv, PTL

(* A policy answered with 201 is in force and in the file ever after,      *)
(* whoever else posts and whatever fails or crashes (handlePolicies,       *)
(* saveToFile). *)
THEOREM CreatedStays == Spec => []CreatedInForce
<1>1. RestInv => CreatedInForce
  <2> SUFFICES ASSUME RestInv, NEW p \in created
               PROVE  /\ \E i \in 1..Len(InForce) : Saved(InForce[i]) = Saved(p)
                      /\ \E i \in 1..Len(file) : file[i] = Saved(p)
    BY DEF CreatedInForce
  <2>1. Lists /\ CreatedKept /\ p \in Policies
    BY TypeParts, KnownIs DEF Typed, Lists, RestInv, BookInv
  <2>2. policies \in Seq(Policies) /\ file \in Seq(Policies)
    BY <2>1, KnownIs DEF Lists
  <2>3. PICK i \in 1..Len(file) : file[i] = Saved(p)
    BY <2>1 DEF CreatedKept, Has
  <2>4. CASE up
    <3>1. \E n \in 1..Len(Reloaded(policies)) : Reloaded(policies)[n] = Saved(p)
      BY <2>1, <2>4 DEF CreatedKept, Has
    <3> QED
      BY <2>2, <2>3, <2>4, <3>1, ReloadedIs DEF InForce
  <2>5. CASE ~up
    BY <2>1, <2>3, <2>5, SavedParts DEF InForce
  <2> QED
    BY <2>4, <2>5
<1> QED
  BY <1>1, SpecRestInv, PTL

-----------------------------------------------------------------------------
(* A list that a policy has been sorted into gives it the requests that    *)
(* PolicyBook gives it. *)
LEMMA DeciderAdded ==
    ASSUME NEW list \in Seq(Policies), InOrder(list), NEW p \in Policies
    PROVE  Decider(Sorted(Append(list, p))) =
             [r \in Requests |->
                IF /\ r \in Saved(p).matches
                   /\ Decider(list)[r] # NoPolicy =>
                        Saved(p).priority > Decider(list)[r].priority
                THEN Saved(p) ELSE Decider(list)[r]]
<1> DEFINE more == Sorted(Append(list, p))
<1> SUFFICES ASSUME NEW r \in Requests
             PROVE  (IF Resolve(more, r) = NoPolicy THEN Resolve(more, r)
                       ELSE Saved(Resolve(more, r))) =
                    IF /\ r \in Saved(p).matches
                       /\ Decider(list)[r] # NoPolicy =>
                            Saved(p).priority > Decider(list)[r].priority
                    THEN Saved(p) ELSE Decider(list)[r]
  BY DEF Decider
<1> DEFINE q == Resolve(list, r)
<1>1. Resolve(more, r) =
        IF r \in p.matches /\ (q # NoPolicy => p.priority > q.priority) THEN p ELSE q
  BY ResolveAdded
<1>2. Decider(list)[r] = IF q = NoPolicy THEN q ELSE Saved(q)
  BY DEF Decider
<1>3. Saved(p).matches = p.matches /\ Saved(p).priority = p.priority /\ p # NoPolicy
  BY SavedParts, NoPolicyIsNone
<1>4. q # NoPolicy => Saved(q).priority = q.priority /\ Saved(q) # NoPolicy
  <2>1. q # NoPolicy => \E i \in 1..Len(list) : r \in list[i].matches
    BY ResolveIs
  <2>2. q # NoPolicy => \E m \in 1..Len(list) : q = list[m]
    BY <2>1, ResolveIs
  <2>3. q # NoPolicy => q \in Policies
    BY <2>2, ListParts
  <2> QED
    BY <2>3, SavedParts, NoPolicyIsNone
<1> HIDE DEF q, more
<1> QED
  BY <1>1, <1>2, <1>3, <1>4

LEMMA InstallCreates ==
    ASSUME RestInv, up, NEW w \in Workers, InstallPolicies(w)
    PROVE  Book!Next
<1> DEFINE p == data[w].posted
<1>1. Lists /\ CallOK(w) /\ BookInv
  BY TypeParts DEF Typed, RestInv, Calls
<1>2. Posting(w) /\ AllValid(data[w].updated)
  BY <1>1 DEF InstallPolicies, BookInv, PostInv
<1>3. /\ policies' = data[w].updated /\ created' = created \cup {p} /\ up' = up
  BY <1>1, <1>2, PostingIs DEF InstallPolicies
<1>4. Saved(p) \in {Saved(q) : q \in {x \in Postable : x.valid}}
  <2>1. p \in Postable /\ p.valid
    BY <1>1, <1>2, PostingIs DEF Posting, Has, AllValid
  <2> QED
    BY <2>1
<1>5. Decider(policies') =
        [r \in Requests |->
           IF /\ r \in Saved(p).matches
              /\ Decider(policies)[r] # NoPolicy =>
                   Saved(p).priority > Decider(policies)[r].priority
           THEN Saved(p) ELSE Decider(policies)[r]]
  BY <1>1, <1>2, <1>3, PostingIs, DeciderAdded DEF Posting, BookInv, FileInv
<1>6. Book!TakeOver(Saved(p))
  BY <1>3, <1>5 DEF Book!TakeOver, Book!Outranks, InForce
<1>7. Book!Create(Saved(p))
  BY <1>3, <1>6 DEF Book!Create
<1> QED
  BY <1>4, <1>7 DEF Book!Next

(* A crash between the rename and the installation puts the policy in      *)
(* force unacknowledged; any other changes no decider. *)
LEMMA CrashEnds ==
    ASSUME RestInv, Crash
    PROVE  Book!Next
<1>1. Lists /\ Calls /\ BookInv
  BY TypeParts DEF Typed, RestInv
<1>2. policies \in Seq(Policies) /\ file \in Seq(Policies)
  BY <1>1, KnownIs DEF Lists
<1>3. InForce = policies /\ InForce' = file /\ up /\ ~up' /\ created' = created
  BY DEF Crash, InForce
<1>4. CASE \A w \in Workers : pc[w] # "install"
  <2>1. Reloaded(file) = Reloaded(policies)
    BY <1>1, <1>3, <1>4 DEF BookInv, FileInv
  <2>2. Decider(file) = Decider(policies)
    BY <1>2, <2>1, DeciderIs
  <2> QED
    BY <1>3, <2>2 DEF Book!Next, Book!End
<1>5. CASE \E w \in Workers : pc[w] = "install"
  <2>1. PICK w \in Workers : pc[w] = "install"
    BY <1>5
  <2> DEFINE p == data[w].posted
  <2>2. Posting(w) /\ AllValid(data[w].updated) /\ file = Reloaded(data[w].updated)
    BY <1>1, <2>1 DEF BookInv, PostInv
  <2>3. Saved(p) \in {Saved(q) : q \in {x \in Postable : x.valid}}
    <3>1. p \in Postable /\ p.valid
      BY <1>1, <2>2, PostingIs DEF Posting, Has, AllValid
    <3> QED
      BY <3>1
  <2>4. Decider(file) = Decider(data[w].updated)
    BY <1>1, <2>2, PostingIs, ReloadedIs, DeciderIs
  <2>5. Decider(data[w].updated) =
          [r \in Requests |->
             IF /\ r \in Saved(p).matches
                /\ Decider(policies)[r] # NoPolicy =>
                     Saved(p).priority > Decider(policies)[r].priority
             THEN Saved(p) ELSE Decider(policies)[r]]
    BY <1>1, <2>2, PostingIs, DeciderAdded DEF Posting, BookInv, FileInv
  <2>6. Book!TakeOver(Saved(p))
    BY <1>3, <2>4, <2>5 DEF Book!TakeOver, Book!Outranks
  <2> QED
    BY <1>3, <2>3, <2>6 DEF Book!Next, Book!End
<1> QED
  BY <1>4, <1>5

LEMMA BookImplements ==
    ASSUME RestInv, [Next]_vars
    PROVE  [Book!Next]_(Book!vars)
<1>1. CASE UNCHANGED <<up, policies, file, created>>
  BY <1>1 DEF Book!vars, InForce
<1>2. ASSUME up, NEW w \in Workers, Begin(w) \/ Step(w)
      PROVE  [Book!Next]_(Book!vars)
  <2>1. CASE InstallPolicies(w)
    BY <1>2, <2>1, InstallCreates
  <2>2. CASE UNCHANGED <<policies, created>>
    BY <1>2, <2>2, StepCounts DEF Book!vars, InForce
  <2> QED
    BY <1>2, <2>1, <2>2
    DEF Begin, Step, BeginEvaluate, Refuse, ResolvePolicy, Decide, DecideFails,
        LogRequest, LogFails, CountDecision, BeginPost, CopyPolicies, WriteTemporary,
        RenameTemporary, SaveFails, BeginMetrics, LoadCounter, book
<1>3. CASE Crash
  BY <1>3, CrashEnds
<1>4. CASE Restart
  <2>1. file \in Seq(Policies) /\ InOrder(file)
    BY TypeParts, KnownIs DEF Typed, Lists, RestInv, BookInv, FileInv
  <2>2. policies' = file
    BY <1>4, <2>1, InOrderSorted DEF Restart
  <2>3. Book!Start
    BY <1>4, <2>2 DEF Restart, Book!Start, InForce
  <2> QED
    BY <2>3 DEF Book!Next
<1> QED
  BY <1>1, <1>2, <1>3, <1>4 DEF Next, vars, book

(* The file, the lock, the sorted list and the crashes cannot be told from *)
(* PolicyBook: who decides a request changes only when a policy of a       *)
(* higher priority, or the first for it, is created. *)
THEOREM ImplementsBook == Spec => ImplementsPolicyBook
<1>1. Init => Book!Init
  BY DEF Init, Book!Init, InForce
<1>2. Spec => [][Book!Next]_(Book!vars)
  BY BookImplements, SpecRestInv, PTL DEF Spec
<1> QED
  BY <1>1, <1>2, PTL DEF Spec, ImplementsPolicyBook, Book!Spec

-----------------------------------------------------------------------------
(* What PolicyBook promises, the controller keeps.                         *)
Deciding   == Decider(InForce)
Announced  == {Saved(p) : p \in created}

(* A policy in the book is one, and so is whatever decides at first. *)
LEMMA BookNumbered == Book!Numbered
<1>1. \A p \in {Saved(p) : p \in {q \in Postable : q.valid}} :
        p # NoPolicy /\ p.priority \in Int
  BY SavedParts, PolicyParts, NoPolicyIsNone, RestControllerAssumption
<1>2. ASSUME NEW r \in Requests, Decider(Seeded)[r] # NoPolicy
      PROVE  Decider(Seeded)[r].priority \in Int
  <2> DEFINE q == Resolve(Seeded, r)
  <2>1. Decider(Seeded)[r] = IF q = NoPolicy THEN q ELSE Saved(q)
    BY DEF Decider
  <2>2. q # NoPolicy
    BY <1>2, <2>1
  <2>3. \E m \in 1..Len(Seeded) : q = Seeded[m]
    BY <2>2, ResolveIs, RestControllerAssumption
  <2>4. q \in Policies
    BY <2>3, ListParts, RestControllerAssumption
  <2> HIDE DEF q
  <2> QED
    BY <2>1, <2>2, <2>4, SavedParts, PolicyParts
<1>3. Decider(Seeded) \in [Requests -> {Decider(Seeded)[r] : r \in Requests}]
  BY DEF Decider
<1> QED
  BY <1>1, <1>2, <1>3 DEF Book!Numbered

(* Taking over replaces no policy of the same priority or a higher one.    *)
LEMMA TakeOverRaises ==
    ASSUME NEW p, Book!TakeOver(p), NEW r \in Requests
    PROVE  \/ Deciding[r] \in {NoPolicy, Deciding'[r]}
           \/ Deciding'[r].priority > Deciding[r].priority
<1>1. Deciding'[r] = IF Book!Outranks(p, r) THEN p ELSE Deciding[r]
  BY DEF Book!TakeOver, Deciding
<1> QED
  BY <1>1 DEF Book!Outranks, Deciding

(* README.md:51, with the lock, the file and the crashes of handlePostPolicy: *)
(* what decides a request changes only to a policy of higher priority.     *)
THEOREM OnlyHigherReplaces == Spec => Book!PrecedenceKept
<1>1. [Book!Next]_(Book!vars) =>
        [\A r \in Requests :
           \/ Deciding[r] \in {NoPolicy, Deciding'[r]}
           \/ Deciding'[r].priority > Deciding[r].priority]_(Book!vars)
  <2> SUFFICES ASSUME Book!Next, NEW r \in Requests
               PROVE  \/ Deciding[r] \in {NoPolicy, Deciding'[r]}
                      \/ Deciding'[r].priority > Deciding[r].priority
    OBVIOUS
  <2>1. UNCHANGED Deciding \/ \E p : Book!TakeOver(p)
    BY DEF Book!Next, Book!Create, Book!End, Book!Start, Deciding
  <2> QED
    BY <2>1, TakeOverRaises
<1>2. Spec => [][Book!Next]_(Book!vars)
  BY ImplementsBook, PTL DEF ImplementsPolicyBook, Book!Spec
<1> QED
  BY <1>1, <1>2, PTL DEF Book!PrecedenceKept, Deciding

(* p, or a policy of at least its priority, decides r. *)
Decides(p, r) == Deciding[r] # NoPolicy /\ Deciding[r].priority >= p.priority

Offered == {Saved(p) : p \in {q \in Postable : q.valid}}

BookTyped ==
    /\ \A r \in Requests : Deciding[r] # NoPolicy => Deciding[r].priority \in Int
    /\ Announced \subseteq Offered

LEMMA TakeOverCounts ==
    ASSUME BookTyped, NEW p \in Offered, Book!TakeOver(p), NEW r \in Requests
    PROVE  /\ r \in p.matches => Decides(p, r)'
           /\ \A q \in Offered : Decides(q, r) => Decides(q, r)'
           /\ Deciding'[r] # NoPolicy => Deciding'[r].priority \in Int
<1>1. Deciding'[r] = IF Book!Outranks(p, r) THEN p ELSE Deciding[r]
  BY DEF Book!TakeOver, Deciding
<1>2. p # NoPolicy /\ \A q \in Offered : q.priority \in Int
  BY BookNumbered DEF Book!Numbered, Offered
<1>3. Deciding[r] # NoPolicy => Deciding[r].priority \in Int
  BY DEF BookTyped
<1>4. Book!Outranks(p, r) <=>
        /\ r \in p.matches
        /\ Deciding[r] # NoPolicy => p.priority > Deciding[r].priority
  BY DEF Book!Outranks, Deciding
<1>5. \A q : Decides(q, r)' <=> Deciding'[r] # NoPolicy /\ Deciding'[r].priority >= q.priority
  BY DEF Decides
<1> HIDE DEF Deciding
<1>6. CASE Book!Outranks(p, r)
  BY <1>1, <1>2, <1>3, <1>4, <1>5, <1>6 DEF Decides
<1>7. CASE ~Book!Outranks(p, r)
  BY <1>1, <1>2, <1>3, <1>4, <1>5, <1>7 DEF Decides
<1> QED
  BY <1>6, <1>7

BookCounts ==
    BookTyped /\ \A p \in Announced : \A r \in Requests : r \in p.matches => Decides(p, r)

LEMMA BookCountsInit == Book!Init => BookCounts
<1> SUFFICES ASSUME Book!Init PROVE BookCounts
  OBVIOUS
<1>1. Deciding = Decider(Seeded) /\ Announced = {}
  BY DEF Book!Init, Deciding, Announced
<1>2. \A r \in Requests : Deciding[r] # NoPolicy => Deciding[r].priority \in Int
  BY <1>1, BookNumbered DEF Book!Numbered
<1> QED
  BY <1>1, <1>2 DEF BookCounts, BookTyped

LEMMA BookCountsStep == BookCounts /\ [Book!Next]_(Book!vars) => BookCounts'
<1> SUFFICES ASSUME BookCounts, [Book!Next]_(Book!vars)
             PROVE  BookCounts'
  OBVIOUS
<1>1. CASE UNCHANGED Deciding /\ UNCHANGED Announced
  BY <1>1 DEF BookCounts, BookTyped, Decides
<1>2. ASSUME NEW p \in Offered, Book!TakeOver(p), Announced' \in {Announced, Announced \cup {p}}
      PROVE  BookCounts'
  <2>1. /\ BookTyped /\ Announced \subseteq Offered
        /\ \A q \in Announced : \A r \in Requests : r \in q.matches => Decides(q, r)
    BY DEF BookCounts, BookTyped
  <2>2. \A r \in Requests :
          /\ r \in p.matches => Decides(p, r)'
          /\ \A q \in Offered : Decides(q, r) => Decides(q, r)'
          /\ Deciding'[r] # NoPolicy => Deciding'[r].priority \in Int
    BY <1>2, <2>1, TakeOverCounts
  <2>3. BookTyped'
    BY <1>2, <2>1, <2>2 DEF BookTyped
  <2>4. ASSUME NEW q \in Announced', NEW r \in Requests, r \in q.matches
        PROVE  Decides(q, r)'
    BY <1>2, <2>1, <2>2, <2>4
  <2> QED
    BY <2>3, <2>4 DEF BookCounts
<1>3. \/ UNCHANGED Deciding /\ UNCHANGED Announced
      \/ \E p \in Offered : /\ Book!TakeOver(p)
                            /\ Announced' \in {Announced, Announced \cup {p}}
  <2>1. CASE UNCHANGED Book!vars
    BY <2>1 DEF Book!vars, Deciding, Announced
  <2>2. ASSUME NEW p \in Offered, Book!Create(p) PROVE <1>3
    BY <2>2 DEF Book!Create, Announced
  <2>3. CASE Book!End
    BY <2>3 DEF Book!End, Announced, Deciding, Offered
  <2>4. CASE Book!Start
    BY <2>4 DEF Book!Start, Announced, Deciding
  <2> QED
    BY <2>1, <2>2, <2>3, <2>4 DEF Book!Next, Offered
<1> QED
  BY <1>1, <1>2, <1>3

(* A policy that was answered with 201 decides every request it matches,   *)
(* or one of at least its priority does, through posts, failed saves, ends *)
(* and restarts.                                                           *)
THEOREM CreatedDecide == Spec => []Book!CreatedCounts
<1>1. BookCounts => Book!CreatedCounts
  BY DEF BookCounts, Decides, Deciding, Announced, Book!CreatedCounts
<1>2. Spec => Book!Init /\ [][Book!Next]_(Book!vars)
  BY ImplementsBook, PTL DEF ImplementsPolicyBook, Book!Spec
<1> QED
  BY <1>1, <1>2, BookCountsInit, BookCountsStep, PTL

-----------------------------------------------------------------------------
(* The counters.  A set that gains or loses at most one element: *)
One(b) == IF b THEN 1 ELSE 0

LEMMA CountMoves ==
    ASSUME NEW S, NEW T, NEW w, IsFiniteSet(S), S \ {w} = T \ {w}
    PROVE  /\ Cardinality(S) \in Nat /\ Cardinality(T) \in Nat
           /\ Cardinality(T) + One(w \in S) = Cardinality(S) + One(w \in T)
<1> DEFINE n == Cardinality(S \ {w})
<1>1. IsFiniteSet(S \ {w})
  BY FS_Difference
<1>2. n \in Nat /\ Cardinality((S \ {w}) \cup {w}) = n + 1
  BY <1>1, FS_CardinalityType, FS_AddElement
<1>3. Cardinality(S) = n + One(w \in S)
  <2>1. CASE w \in S
    <3>1. S = (S \ {w}) \cup {w}
      BY <2>1
    <3> QED
      BY <1>2, <2>1, <3>1 DEF One
  <2>2. CASE w \notin S
    <3>1. Cardinality(S) = n
      <4>1. S = S \ {w}
        BY <2>2
      <4> QED
        BY <4>1
    <3>2. One(w \in S) = 0
      BY <2>2 DEF One
    <3> QED
      BY <1>2, <3>1, <3>2
  <2> QED
    BY <2>1, <2>2
<1>4. Cardinality(T) = n + One(w \in T)
  <2>1. CASE w \in T
    <3>1. T = (S \ {w}) \cup {w}
      BY <2>1
    <3> QED
      BY <1>2, <2>1, <3>1 DEF One
  <2>2. CASE w \notin T
    <3>1. Cardinality(T) = n
      <4>1. T = S \ {w}
        BY <2>2
      <4> QED
        BY <4>1
    <3>2. One(w \in T) = 0
      BY <2>2 DEF One
    <3> QED
      BY <1>2, <3>1, <3>2
  <2> QED
    BY <2>1, <2>2
<1>5. One(w \in S) \in Nat /\ One(w \in T) \in Nat
  BY DEF One
<1> HIDE DEF n
<1> QED
  BY <1>2, <1>3, <1>4, <1>5

Evaluating == {"resolve", "decide", "log", "count"}

(* ... so a step of a worker moves at most its own call. *)
LEMMA FlightMoves ==
    ASSUME Calls, NEW w \in Workers, NEW step \in Steps, NEW value, Goto(w, step, value)
    PROVE  /\ InFlight(Evaluating) \in Nat /\ InFlight(Evaluating)' \in Nat
           /\ InFlight(Evaluating)' + One(pc[w] \in Evaluating) =
              InFlight(Evaluating) + One(step \in Evaluating)
<1> DEFINE S == {v \in Workers : pc[v] \in Evaluating}
           T == {v \in Workers : pc'[v] \in Evaluating}
<1>1. IsFiniteSet(S)
  BY RestControllerAssumption, FS_Subset
<1>2. S \ {w} = T \ {w} /\ (w \in S <=> pc[w] \in Evaluating) /\ (w \in T <=> step \in Evaluating)
  BY GotoIs
<1>3. InFlight(Evaluating) = Cardinality(S) /\ InFlight(Evaluating)' = Cardinality(T)
  BY DEF InFlight
<1> HIDE DEF S, T
<1> QED
  BY <1>1, <1>2, <1>3, CountMoves

LEMMA CountingMoves ==
    ASSUME Calls, NEW w \in Workers, NEW step \in Steps, NEW value, Goto(w, step, value),
           NEW d \in Decisions
    PROVE  /\ Counting(d) \in Nat /\ Counting(d)' \in Nat
           /\ Counting(d)' + One(pc[w] = "count" /\ data[w].decision = d) =
              Counting(d) + One(step = "count" /\ value.decision = d)
<1> DEFINE S == {v \in Workers : pc[v] = "count" /\ data[v].decision = d}
           T == {v \in Workers : pc'[v] = "count" /\ data'[v].decision = d}
<1>1. IsFiniteSet(S)
  BY RestControllerAssumption, FS_Subset
<1>2. /\ S \ {w} = T \ {w}
      /\ w \in S <=> pc[w] = "count" /\ data[w].decision = d
      /\ w \in T <=> step = "count" /\ value.decision = d
  BY GotoIs
<1>3. Counting(d) = Cardinality(S) /\ Counting(d)' = Cardinality(T)
  BY DEF Counting
<1> HIDE DEF S, T
<1> QED
  BY <1>1, <1>2, <1>3, CountMoves

(* With no call under way there is nothing to count. *)
LEMMA IdleCounts ==
    ASSUME \A w \in Workers : pc[w] = "idle"
    PROVE  InFlight(Evaluating) = 0 /\ \A d \in Decisions : Counting(d) = 0
<1>1. {w \in Workers : pc[w] \in Evaluating} = {}
  BY DEF Evaluating
<1>2. \A d : {w \in Workers : pc[w] = "count" /\ data[w].decision = d} = {}
  OBVIOUS
<1> QED
  BY <1>1, <1>2, FS_EmptySet DEF InFlight, Counting

(* The evaluations of this process that have been answered. *)
Answered == counter.allowed + counter.denied + counter.errors + refused

AccountInv ==
    up => /\ rows["ALLOW"] - before["ALLOW"] = counter.allowed + Counting("ALLOW")
          /\ rows["DENY"] - before["DENY"] = counter.denied + Counting("DENY")
          /\ counter.evaluations = Answered + InFlight(Evaluating)

(* What the counts are numbers for, so that the rest is arithmetic. *)
LEMMA Numbers ==
    ASSUME Counts
    PROVE  /\ counter.evaluations \in Nat /\ counter.allowed \in Nat
           /\ counter.denied \in Nat /\ counter.errors \in Nat /\ refused \in Nat
           /\ rows["ALLOW"] \in Nat /\ rows["DENY"] \in Nat
           /\ before["ALLOW"] \in Nat /\ before["DENY"] \in Nat
           /\ Answered \in Nat
<1>1. /\ counter.evaluations \in Nat /\ counter.allowed \in Nat
      /\ counter.denied \in Nat /\ counter.errors \in Nat /\ refused \in Nat
      /\ rows["ALLOW"] \in Nat /\ rows["DENY"] \in Nat
      /\ before["ALLOW"] \in Nat /\ before["DENY"] \in Nat
  BY Fields DEF Counts, Decisions
<1> QED
  BY <1>1 DEF Answered

(* A worker goes on to step, and the rows and the counters go with it. *)
RowsGo(w, step, value, d, was, is) ==
    rows'[d] + was + One(pc[w] = "count" /\ data[w].decision = d) =
    rows[d] + is + One(step = "count" /\ value.decision = d)

LEMMA RowsKept ==
    ASSUME Calls, before' = before,
           NEW w \in Workers, NEW step \in Steps, NEW value, Goto(w, step, value),
           NEW d \in Decisions, NEW was \in Nat, NEW is \in Nat,
           rows[d] \in Nat, rows'[d] \in Nat, before[d] \in Nat,
           RowsGo(w, step, value, d, was, is),
           rows[d] - before[d] = was + Counting(d)
    PROVE  rows'[d] - before'[d] = is + Counting(d)'
<1> DEFINE out == One(pc[w] = "count" /\ data[w].decision = d)
           in  == One(step = "count" /\ value.decision = d)
<1>1. /\ Counting(d) \in Nat /\ Counting(d)' \in Nat
      /\ Counting(d)' + out = Counting(d) + in
  BY CountingMoves
<1>2. out \in Nat /\ in \in Nat
  BY DEF One
<1>3. rows'[d] + was + out = rows[d] + is + in
  BY DEF RowsGo
<1> HIDE DEF out, in
<1> QED
  BY <1>1, <1>2, <1>3

LEMMA EvaluationsKept ==
    ASSUME Calls, Counts, Counts',
           NEW w \in Workers, NEW step \in Steps, NEW value, Goto(w, step, value),
           counter'.evaluations + Answered + One(pc[w] \in Evaluating) =
           counter.evaluations + Answered' + One(step \in Evaluating),
           counter.evaluations = Answered + InFlight(Evaluating)
    PROVE  counter'.evaluations = Answered' + InFlight(Evaluating)'
<1> DEFINE out == One(pc[w] \in Evaluating)
           in  == One(step \in Evaluating)
<1>1. /\ InFlight(Evaluating) \in Nat /\ InFlight(Evaluating)' \in Nat
      /\ InFlight(Evaluating)' + out = InFlight(Evaluating) + in
  BY FlightMoves
<1>2. out \in Nat /\ in \in Nat
  BY DEF One
<1>3. counter.evaluations \in Nat /\ Answered \in Nat
  BY Numbers
<1>4. counter'.evaluations \in Nat /\ Answered' \in Nat
  BY Fields DEF Counts, Answered
<1>5. counter'.evaluations + Answered + out = counter.evaluations + Answered' + in
  OBVIOUS
<1> HIDE DEF out, in
<1> QED
  BY <1>1, <1>2, <1>3, <1>4, <1>5

LEMMA AccountKept ==
    ASSUME Calls, Counts, Counts', AccountInv, up, before' = before,
           NEW w \in Workers, NEW step \in Steps, NEW value, Goto(w, step, value),
           RowsGo(w, step, value, "ALLOW", counter.allowed, counter'.allowed),
           RowsGo(w, step, value, "DENY", counter.denied, counter'.denied),
           counter'.evaluations + Answered + One(pc[w] \in Evaluating) =
           counter.evaluations + Answered' + One(step \in Evaluating)
    PROVE  AccountInv'
<1>1. "ALLOW" \in Decisions /\ "DENY" \in Decisions
  BY DEF Decisions
<1>2. /\ counter.allowed \in Nat /\ counter.denied \in Nat
      /\ rows["ALLOW"] \in Nat /\ rows["DENY"] \in Nat
      /\ before["ALLOW"] \in Nat /\ before["DENY"] \in Nat
  BY Numbers
<1>3. /\ counter'.allowed \in Nat /\ counter'.denied \in Nat
      /\ rows'["ALLOW"] \in Nat /\ rows'["DENY"] \in Nat
  BY <1>1, Fields DEF Counts
<1>4. rows'["ALLOW"] - before'["ALLOW"] = counter'.allowed + Counting("ALLOW")'
  BY <1>1, <1>2, <1>3, RowsKept DEF AccountInv
<1>5. rows'["DENY"] - before'["DENY"] = counter'.denied + Counting("DENY")'
  BY <1>1, <1>2, <1>3, RowsKept DEF AccountInv
<1>6. counter'.evaluations = Answered' + InFlight(Evaluating)'
  BY EvaluationsKept DEF AccountInv
<1> QED
  BY <1>4, <1>5, <1>6 DEF AccountInv

(* A step that has nothing to do with a decision. *)
LEMMA AccountAside ==
    ASSUME Calls, Counts, Counts', AccountInv, up, before' = before,
           NEW w \in Workers, NEW step \in Steps, NEW value, Goto(w, step, value),
           pc[w] # "count", step # "count", rows' = rows,
           counter'.allowed = counter.allowed, counter'.denied = counter.denied,
           counter'.evaluations + Answered + One(pc[w] \in Evaluating) =
           counter.evaluations + Answered' + One(step \in Evaluating)
    PROVE  AccountInv'
<1>1. /\ RowsGo(w, step, value, "ALLOW", counter.allowed, counter'.allowed)
      /\ RowsGo(w, step, value, "DENY", counter.denied, counter'.denied)
  BY DEF RowsGo, One
<1> QED
  BY <1>1, AccountKept

LEMMA StepAccount ==
    ASSUME RestInv, AccountInv, up, NEW w \in Workers, Begin(w) \/ Step(w)
    PROVE  AccountInv'
<1>1. Calls /\ CallOK(w) /\ Counts /\ Counts'
  BY TypeParts, StepCounts DEF Typed, RestInv, Calls
<1>2. /\ counter.evaluations \in Nat /\ counter.allowed \in Nat /\ counter.denied \in Nat
      /\ counter.errors \in Nat /\ refused \in Nat /\ Answered \in Nat
      /\ rows["ALLOW"] \in Nat /\ rows["DENY"] \in Nat
  BY <1>1, Numbers
<1>3. before' = before
  BY <1>1
  DEF Begin, Step, BeginEvaluate, Refuse, ResolvePolicy, Decide, DecideFails, LogRequest,
      LogFails, CountDecision, BeginPost, CopyPolicies, WriteTemporary, RenameTemporary,
      SaveFails, InstallPolicies, BeginMetrics, LoadCounter, Arrive, Fault, bounds
<1>4. /\ "evaluations" \in DOMAIN Zero /\ "allowed" \in DOMAIN Zero
      /\ "denied" \in DOMAIN Zero /\ "errors" \in DOMAIN Zero
  BY Fields
<1>5. /\ Add("evaluations") => /\ counter'.evaluations = counter.evaluations + 1
                               /\ counter'.allowed = counter.allowed
                               /\ counter'.denied = counter.denied
                               /\ counter'.errors = counter.errors
      /\ Add("errors") => /\ counter'.errors = counter.errors + 1
                          /\ counter'.allowed = counter.allowed
                          /\ counter'.denied = counter.denied
                          /\ counter'.evaluations = counter.evaluations
  BY <1>1, <1>4, CounterAdded
<1>6. /\ Add("allowed") => /\ counter'.allowed = counter.allowed + 1
                           /\ counter'.errors = counter.errors
                           /\ counter'.denied = counter.denied
                           /\ counter'.evaluations = counter.evaluations
      /\ Add("denied") => /\ counter'.denied = counter.denied + 1
                          /\ counter'.errors = counter.errors
                          /\ counter'.allowed = counter.allowed
                          /\ counter'.evaluations = counter.evaluations
  BY <1>1, <1>4, CounterAdded
(* A call that is no evaluation, or goes on being one. *)
<1>7. ASSUME NEW step \in Steps, NEW value, Goto(w, step, value),
             pc[w] # "count", step # "count", rows' = rows, counter' = counter,
             refused' = refused, pc[w] \in Evaluating <=> step \in Evaluating
      PROVE  AccountInv'
  <2>1. Answered' = Answered /\ One(pc[w] \in Evaluating) = One(step \in Evaluating)
    BY <1>7 DEF Answered, One
  <2> QED
    BY <1>1, <1>3, <1>7, <2>1, AccountAside
(* An evaluation that is answered. *)
<1>8. ASSUME Finish(w), pc[w] \in Evaluating \ {"count"}, rows' = rows,
             counter'.evaluations = counter.evaluations,
             counter'.allowed = counter.allowed, counter'.denied = counter.denied,
             Answered' = Answered + 1
      PROVE  AccountInv'
  <2>1. One(pc[w] \in Evaluating) = 1 /\ One("idle" \in Evaluating) = 0
    BY <1>8 DEF One, Evaluating
  <2>2. counter'.evaluations + Answered + One(pc[w] \in Evaluating) =
        counter.evaluations + Answered' + One("idle" \in Evaluating)
    BY <1>2, <1>8, <2>1
  <2>3. "idle" \in Steps /\ Goto(w, "idle", NoData)
    BY <1>8 DEF Finish, Steps
  <2> QED
    BY <1>1, <1>3, <1>8, <2>2, <2>3, AccountAside
<1>9. ASSUME Add("errors"), refused' = refused
      PROVE  Answered' = Answered + 1
  BY <1>2, <1>5, <1>9 DEF Answered
<1>10. ASSUME counter' = counter, refused' = refused + 1
      PROVE  Answered' = Answered + 1
  BY <1>2, <1>10 DEF Answered
<1>11. CASE BeginEvaluate(w)
  <2>1. PICK r \in Requests : Goto(w, "resolve", [request |-> r])
    BY <1>11 DEF BeginEvaluate
  <2>2. One(pc[w] \in Evaluating) = 0 /\ One("resolve" \in Evaluating) = 1
    BY <1>11 DEF One, Evaluating, BeginEvaluate, Arrive
  <2>3. Answered' = Answered /\ rows' = rows
    BY <1>5, <1>11 DEF BeginEvaluate, Answered
  <2>4. counter'.evaluations + Answered + One(pc[w] \in Evaluating) =
        counter.evaluations + Answered' + One("resolve" \in Evaluating)
    BY <1>2, <1>5, <1>11, <2>2, <2>3 DEF BeginEvaluate
  <2> QED
    BY <1>1, <1>3, <1>5, <1>11, <2>1, <2>3, <2>4, AccountAside
    DEF BeginEvaluate, Arrive, Steps
<1>12. CASE Refuse(w)
  BY <1>8, <1>10, <1>12 DEF Refuse, Evaluating
<1>13. CASE ResolvePolicy(w)
  <2>1. CASE Resolve(policies, data[w].request) = NoPolicy
    BY <1>8, <1>10, <1>13, <2>1 DEF ResolvePolicy, Evaluating
  <2>2. CASE Resolve(policies, data[w].request) # NoPolicy
    BY <1>7, <1>13, <2>2 DEF ResolvePolicy, Evaluating, Steps
  <2> QED
    BY <2>1, <2>2
<1>14. CASE Decide(w)
  BY <1>7, <1>14 DEF Decide, Evaluating, Steps, tally
<1>15. CASE DecideFails(w)
  BY <1>5, <1>8, <1>9, <1>15 DEF DecideFails, Evaluating
<1>16. CASE LogRequest(w)
  <2>1. data[w].decision \in Decisions /\ pc[w] = "log"
    BY <1>1, <1>16 DEF LogRequest, CallOK
  <2>2. Goto(w, "count", data[w]) /\ "count" \in Steps /\ counter' = counter
    BY <1>16 DEF LogRequest, Steps
  <2>3. rows' = [rows EXCEPT ![data[w].decision] = @ + 1]
    BY <1>16 DEF LogRequest
  <2>4. /\ RowsGo(w, "count", data[w], "ALLOW", counter.allowed, counter'.allowed)
        /\ RowsGo(w, "count", data[w], "DENY", counter.denied, counter'.denied)
    BY <1>1, <1>2, <2>1, <2>2, <2>3 DEF RowsGo, One, Counts, Decisions
  <2>5. Answered' = Answered /\ One(pc[w] \in Evaluating) = One("count" \in Evaluating)
    BY <1>16, <2>1 DEF LogRequest, Answered, One, Evaluating
  <2> QED
    BY <1>1, <1>3, <2>2, <2>4, <2>5, AccountKept
<1>17. CASE LogFails(w)
  BY <1>5, <1>8, <1>9, <1>17 DEF LogFails, Evaluating
<1>18. CASE CountDecision(w)
  <2>1. /\ data[w].decision \in Decisions /\ pc[w] = "count"
        /\ Add(IF data[w].decision = "ALLOW" THEN "allowed" ELSE "denied")
    BY <1>1, <1>18 DEF CountDecision, CallOK
  <2>2. Goto(w, "idle", NoData) /\ "idle" \in Steps /\ rows' = rows /\ refused' = refused
    BY <1>18 DEF CountDecision, Finish, Steps
  <2>3. /\ RowsGo(w, "idle", NoData, "ALLOW", counter.allowed, counter'.allowed)
        /\ RowsGo(w, "idle", NoData, "DENY", counter.denied, counter'.denied)
    BY <1>2, <1>6, <2>1, <2>2 DEF RowsGo, One, Decisions
  <2>4. Answered' = Answered + 1 /\ counter'.evaluations = counter.evaluations
    BY <1>2, <1>6, <2>1, <2>2 DEF Answered, Decisions
  <2>5. One(pc[w] \in Evaluating) = 1 /\ One("idle" \in Evaluating) = 0
    BY <2>1 DEF One, Evaluating
  <2>6. counter'.evaluations + Answered + One(pc[w] \in Evaluating) =
        counter.evaluations + Answered' + One("idle" \in Evaluating)
    BY <1>2, <2>4, <2>5
  <2> QED
    BY <1>1, <1>3, <2>2, <2>3, <2>6, AccountKept
<1>19. CASE BeginPost(w) \/ BeginMetrics(w)
  BY <1>7, <1>19 DEF BeginPost, BeginMetrics, Arrive, tally, Evaluating, Steps
<1>20. CASE CopyPolicies(w) \/ WriteTemporary(w) \/ RenameTemporary(w)
  BY <1>7, <1>20
  DEF CopyPolicies, WriteTemporary, RenameTemporary, tally, Evaluating, Steps
<1>21. CASE SaveFails(w) \/ InstallPolicies(w)
  BY <1>7, <1>21 DEF SaveFails, InstallPolicies, Finish, tally, Evaluating, Steps
<1>22. CASE LoadCounter(w)
  BY <1>7, <1>22 DEF LoadCounter, Finish, tally, Evaluating, Steps
<1> QED
  BY <1>11, <1>12, <1>13, <1>14, <1>15, <1>16, <1>17, <1>18, <1>19, <1>20, <1>21, <1>22
  DEF Begin, Step

(* The counters, the audit rows and the answers of a process tell the same *)
(* story, and the metrics never report more outcomes than evaluations had  *)
(* begun by the last load (handleEvaluate, handleMetrics). *)
THEOREM Accounted == Spec => []DecisionsAccounted
<1>1. Init => AccountInv
  BY IdleCounts, Fields DEF Init, AccountInv, Answered, NoRows, Decisions
<1>2. RestInv /\ AccountInv /\ [Next]_vars => AccountInv'
  <2> SUFFICES ASSUME RestInv, AccountInv, [Next]_vars
               PROVE  AccountInv'
    OBVIOUS
  <2>1. CASE up /\ \E w \in Workers : Begin(w) \/ Step(w)
    BY <2>1, StepAccount
  <2>2. CASE Crash
    BY <2>2 DEF Crash, AccountInv
  <2>3. CASE Restart
    <3>1. \A w \in Workers : pc[w] = "idle"
      BY <2>3 DEF Restart, RestInv, EndedInv
    <3>2. InFlight(Evaluating) = 0 /\ \A d \in Decisions : Counting(d) = 0
      BY <3>1, IdleCounts
    <3>3. InFlight(Evaluating)' = 0 /\ Counting("ALLOW")' = 0 /\ Counting("DENY")' = 0
      BY <2>3, <3>2 DEF Restart, InFlight, Counting, Decisions
    <3>4. rows["ALLOW"] \in Nat /\ rows["DENY"] \in Nat
      BY TypeParts, Numbers DEF Typed, RestInv
    <3>5. counter' = Zero /\ refused' = 0 /\ before' = rows /\ rows' = rows
      BY <2>3 DEF Restart, RestInv, EndedInv
    <3> QED
      BY <3>3, <3>4, <3>5, Fields DEF AccountInv, Answered
  <2>4. CASE UNCHANGED vars
    BY <2>4 DEF vars, book, tally, bounds, AccountInv, Answered, InFlight, Counting
  <2> QED
    BY <2>1, <2>2, <2>3, <2>4 DEF Next
<1>3. RestInv /\ AccountInv => DecisionsAccounted
  <2> SUFFICES ASSUME RestInv, AccountInv
               PROVE  DecisionsAccounted
    OBVIOUS
  <2>1. Counts /\ Calls
    BY TypeParts DEF Typed, RestInv
  <2>2. /\ counter.evaluations \in Nat /\ counter.allowed \in Nat /\ counter.denied \in Nat
        /\ counter.errors \in Nat /\ refused \in Nat
    BY <2>1, Numbers
  <2>3. InFlight(Evaluating) \in Nat
    <3>1. IsFiniteSet({v \in Workers : pc[v] \in Evaluating})
      BY RestControllerAssumption, FS_Subset
    <3> QED
      BY <3>1, FS_CardinalityType DEF InFlight
  <2>4. ASSUME NEW w \in Workers, pc[w] = "errors"
        PROVE  data[w].allowed + data[w].denied + counter.errors <= counter.evaluations
    <3>1. /\ data[w].allowed \in Nat /\ data[w].denied \in Nat
          /\ data[w].allowed <= counter.allowed /\ data[w].denied <= counter.denied
      BY <2>1, <2>4, Fields DEF Calls, CallOK, RestInv, LoadedInv
    <3>2. counter.evaluations = Answered + InFlight(Evaluating)
      BY <2>4 DEF AccountInv, RestInv, EndedInv
    <3> QED
      BY <2>2, <2>3, <3>1, <3>2 DEF Answered
  <2> QED
    BY <2>4 DEF DecisionsAccounted, AccountInv, Answered, Evaluating
<1> QED
  BY <1>1, <1>2, <1>3, SpecRestInv, PTL DEF Spec
=============================================================================
