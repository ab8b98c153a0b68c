--------------------------- MODULE AuditStore_proofs ---------------------------
(***************************************************************************)
(* Proofs about the audit store, for any tenants, any number of records    *)
(* and any bound on them, and any faults and crashes.                      *)
(***************************************************************************)
EXTENDS AuditStore, FiniteSetTheorems, SequenceTheorems, TLAPS

-----------------------------------------------------------------------------
(* Sequences of records.                                                   *)
Increasing(s) == \A i, j \in 1..Len(s) : i < j => s[i] < s[j]
Within(s, n)  == \A i \in 1..Len(s) : s[i] <= n

LEMMA Appending ==
    ASSUME NEW s \in Seq(Records), NEW n \in Records, Increasing(s), Within(s,
           n - 1)
    PROVE  /\ Append(s, n) \in Seq(Records)
           /\ Len(Append(s, n)) = Len(s) + 1
           /\ Append(s, n)[Len(s) + 1] = n
           /\ \A i \in 1..Len(s) : Append(s, n)[i] = s[i]
           /\ Increasing(Append(s, n))
           /\ Within(Append(s, n), n)
<1> USE AuditStoreAssumption
<1> DEFINE a == Append(s, n)
<1>1. /\ a \in Seq(Records) /\ Len(a) = Len(s) + 1 /\ a[Len(s) + 1] = n
      /\ \A i \in 1..Len(s) : a[i] = s[i] /\ s[i] \in Records
  OBVIOUS
<1>2. Len(s) \in Nat /\ n \in Int /\ \A i \in 1..Len(s) : s[i] \in Int
  BY <1>1 DEF Records
<1> HIDE DEF a
<1>3. \A i \in 1..Len(a) : i \in 1..Len(s) \/ i = Len(s) + 1
  BY <1>1, <1>2
<1>4. \A i \in 1..Len(s) : s[i] < n
  BY <1>2 DEF Within
<1>5. Increasing(a)
  <2> SUFFICES ASSUME NEW i \in 1..Len(a), NEW j \in 1..Len(a), i < j
               PROVE  a[i] < a[j]
    BY DEF Increasing
  <2>1. i \in 1..Len(s)
    BY <1>1, <1>2
  <2>2. CASE j \in 1..Len(s)
    BY <1>1, <2>1, <2>2 DEF Increasing
  <2>3. CASE j = Len(s) + 1
    BY <1>1, <1>4, <2>1, <2>3
  <2> QED
    BY <1>3, <2>2, <2>3
<1>6. Within(a, n)
  BY <1>1, <1>2, <1>3, <1>4 DEF Within
<1> QED
  BY <1>1, <1>5, <1>6 DEF a

(* A part of a sequence of records.                                        *)
LEMMA Taking ==
    ASSUME NEW s \in Seq(Records), NEW p \in 1..Len(s) + 1, NEW q \in 0..Len(s),
           NEW n \in Int, Increasing(s), Within(s, n)
    PROVE  /\ SubSeq(s, p, q) \in Seq(Records)
           /\ Len(SubSeq(s, p, q)) = IF p <= q THEN q - p + 1 ELSE 0
           /\ \A i \in 1..Len(SubSeq(s, p, q)) :
                 p + i - 1 \in 1..Len(s) /\ SubSeq(s, p, q)[i] = s[p + i - 1]
           /\ Increasing(SubSeq(s, p, q))
           /\ Within(SubSeq(s, p, q), n)
<1> DEFINE t == SubSeq(s, p, q)
<1>1. Len(s) \in Nat /\ \A i \in 1..Len(s) : s[i] \in Records
  OBVIOUS
<1>2. \A i \in p..q : s[i] \in Records
  BY <1>1
<1>3. /\ t \in Seq(Records)
      /\ Len(t) = IF p <= q THEN q - p + 1 ELSE 0
      /\ \A i \in 1..q - p + 1 : t[i] = s[p + i - 1]
  BY <1>1, <1>2, SubSeqProperties
<1> HIDE DEF t
<1>4. \A i \in 1..Len(t) : p + i - 1 \in 1..Len(s) /\ t[i] = s[p + i - 1]
  BY <1>1, <1>3
<1>5. Increasing(t)
  <2> SUFFICES ASSUME NEW i \in 1..Len(t), NEW j \in 1..Len(t), i < j
               PROVE  t[i] < t[j]
    BY DEF Increasing
  <2>1. p + i - 1 < p + j - 1
    BY <1>3
  <2> QED
    BY <1>4, <2>1 DEF Increasing
<1>6. Within(t, n)
  BY <1>4 DEF Within
<1> QED
  BY <1>3, <1>4, <1>5, <1>6 DEF t

(* What retention makes of one more record. *)
LEMMA Retaining ==
    ASSUME NEW s \in Seq(Records), Len(s) <= MaxRecords, NEW n \in Records,
           Increasing(s), Within(s, n - 1)
    PROVE  LET r == Recent(Append(s, n))
           IN  /\ r \in Seq(Records) /\ Len(r) <= MaxRecords
               /\ Increasing(r) /\ Within(r, n)
               /\ Len(s) < MaxRecords => r = Append(s, n) /\ Len(r) = Len(s) + 1
               /\ Len(s) = MaxRecords => r = Append(Tail(s), n)
<1> USE AuditStoreAssumption
<1> DEFINE a == Append(s, n)
           r == Recent(a)
<1>0. Len(s) \in Nat /\ n \in Int
  BY DEF Records
<1>1. /\ a \in Seq(Records) /\ Len(a) = Len(s) + 1 /\ a[Len(s) + 1] = n
      /\ \A i \in 1..Len(s) : a[i] = s[i]
      /\ Increasing(a) /\ Within(a, n)
  BY Appending
<1>2. CASE Len(s) < MaxRecords
  <2> HIDE DEF a
  <2>1. r = SubSeq(a, 1, Len(a))
    <3>1. ~(Len(a) > MaxRecords)
      BY <1>0, <1>1, <1>2
    <3> QED
      BY <3>1, Zenon DEF Recent
  <2>2. r = a
    BY <1>1, <2>1, SubSeqFull
  <2> HIDE DEF r
  <2>3. Len(r) = Len(s) + 1 /\ Len(r) <= MaxRecords /\ Len(s) # MaxRecords
    BY <1>0, <1>1, <1>2, <2>2
  <2> QED
    BY <1>1, <1>2, <2>2, <2>3 DEF a, r
<1>3. CASE Len(s) = MaxRecords
  <2>1. r = SubSeq(a, 2, Len(a))
    BY <1>0, <1>1, <1>3 DEF Recent
  <2> HIDE DEF a
  <2>2. 2 \in 1..Len(a) + 1 /\ Len(a) \in 0..Len(a)
    BY <1>0, <1>1, <1>3
  <2>3. /\ SubSeq(a, 2, Len(a)) \in Seq(Records)
        /\ Len(SubSeq(a, 2, Len(a))) = IF 2 <= Len(a) THEN Len(a) - 2 + 1 ELSE 0
        /\ \A i \in 1..Len(SubSeq(a, 2, Len(a))) :
              2 + i - 1 \in 1..Len(a) /\ SubSeq(a, 2, Len(a))[i] = a[2 + i - 1]
        /\ Increasing(SubSeq(a, 2, Len(a))) /\ Within(SubSeq(a, 2, Len(a)), n)
    BY <1>0, <1>1, <2>2, Taking
  <2> HIDE DEF r
  <2>4. Len(r) = Len(s) /\ \A i \in 1..Len(r) : r[i] = a[1 + i]
    BY <1>0, <1>1, <1>3, <2>1, <2>3
  <2>5. s # <<>>
    BY <1>3
  <2>6. /\ Tail(s) \in Seq(Records) /\ Len(Tail(s)) = Len(s) - 1
        /\ \A i \in 1..Len(s) - 1 : Tail(s)[i] = s[i + 1]
    BY <2>5, HeadTailProperties
  <2> DEFINE b == Append(Tail(s), n)
  <2>7. /\ b \in Seq(Records) /\ Len(b) = Len(s) /\ b[Len(s)] = n
        /\ \A i \in 1..Len(s) - 1 : b[i] = Tail(s)[i]
    <3>1. /\ b \in Seq(Records) /\ Len(b) = Len(Tail(s)) + 1 /\ b[Len(Tail(s)) + 1] = n
          /\ \A i \in 1..Len(Tail(s)) : b[i] = Tail(s)[i]
      BY <2>6
    <3> QED
      BY <1>0, <2>6, <3>1
  <2> HIDE DEF b
  <2>8. \A i \in 1..Len(r) : r[i] = b[i]
    <3> SUFFICES ASSUME NEW i \in 1..Len(r) PROVE r[i] = b[i]
      OBVIOUS
    <3>1. CASE i = Len(s)
      BY <1>0, <1>1, <2>4, <2>7, <3>1
    <3>2. CASE i # Len(s)
      <4>1. i \in 1..Len(s) - 1 /\ 1 + i \in 1..Len(s) /\ 1 + i = i + 1
        BY <1>0, <2>4, <3>2
      <4> QED
        BY <1>1, <2>4, <2>6, <2>7, <4>1
    <3> QED
      BY <3>1, <3>2
  <2>9. r = b
    BY <2>1, <2>3, <2>4, <2>7, <2>8, SeqEqual
  <2> QED
    BY <1>0, <1>3, <2>1, <2>3, <2>4, <2>9 DEF a, b, r
<1> QED
  BY <1>0, <1>2, <1>3
-----------------------------------------------------------------------------
(* The operation in progress.                                              *)
OpInv ==
    /\ pc = "idle" => op = Idle
    /\ pc # "idle" => running /\ available /\ op.kind \in {"log", "save"}
    /\ ~running => ~available
    /\ op.kind = "log" => op.record = logged
    /\ pc = "append" => op.kind = "log"

(* Rows and records come in the order of their numbers; the record that is *)
(* about to be appended has the highest; and there is room for it.         *)
OrderInv ==
    /\ Increasing(file.rows)
    /\ Increasing(requests)
    /\ Within(requests, logged)
    /\ Within(file.rows, IF pc = "append" THEN logged - 1 ELSE logged)
    /\ Len(file.rows) <= MaxRecords
    /\ available /\ pc \in {"idle", "return"} => Len(file.rows) <= Len(requests)
    /\ pc = "append" => Len(file.rows) < Len(requests)

Inv == TypeOK /\ OpInv /\ OrderInv

(* What is known of op from its kind. *)
LEMMA OpTyped ==
    ASSUME TypeOK
    PROVE  /\ op.kind \in {"none", "log", "save"}
           /\ op.kind = "log" => op.record \in Records
           /\ op.kind = "save" => /\ op.tenant \in Tenants
                                  /\ op.old \in Params \cup {NoTenant}
                                  /\ op.new \in Params \cup {NoTenant}
           /\ Idle.kind = "none"
  BY DEF TypeOK, Idle

FileType == [tenants : Stored, rows : Seq(Records), last : LastLine]

LEMMA FileTyped ==
    ASSUME TypeOK
    PROVE  /\ file \in FileType
           /\ file.rows \in Seq(Records) /\ file.tenants \in Stored /\ file.last \in LastLine
  BY DEF TypeOK, FileType

(* A file that comes of an append, whole or not. *)
LEMMA Settling ==
    ASSUME Inv
    PROVE  /\ Settled(file) \in Seq(Records)
           /\ Len(Settled(file)) <= Len(file.rows)
           /\ Increasing(Settled(file))
           /\ \A n \in Int : Within(file.rows, n) => Within(Settled(file), n)
           /\ file.last # "open" => Settled(file) = file.rows
<1>1. file.rows \in Seq(Records) /\ Len(file.rows) \in Nat
  BY FileTyped DEF Inv
<1>2. Increasing(file.rows)
  BY DEF Inv, OrderInv
<1>3. CASE file.last = "open" /\ Len(file.rows) > 0
  <2>1. Settled(file) = SubSeq(file.rows, 1, Len(file.rows) - 1)
    BY <1>3 DEF Settled
  <2>2. 1 \in 1..Len(file.rows) + 1 /\ Len(file.rows) - 1 \in 0..Len(file.rows)
    BY <1>1, <1>3
  <2>3. \E n \in Int : Within(file.rows, n)
    BY <1>1, FileTyped DEF Inv, OrderInv, TypeOK
  <2>4. ASSUME NEW n \in Int, Within(file.rows, n)
        PROVE  /\ Settled(file) \in Seq(Records)
               /\ Len(Settled(file)) <= Len(file.rows)
               /\ Increasing(Settled(file)) /\ Within(Settled(file), n)
    <3> DEFINE s == file.rows
               m == Len(file.rows) - 1
    <3>1. /\ SubSeq(s, 1, m) \in Seq(Records)
          /\ Len(SubSeq(s, 1, m)) = IF 1 <= m THEN m - 1 + 1 ELSE 0
          /\ Increasing(SubSeq(s, 1, m)) /\ Within(SubSeq(s, 1, m), n)
      BY ONLY <1>1, <1>2, <2>2, <2>4, Taking
    <3>2. m \in Nat
      BY <2>2, <1>1
    <3> QED
      BY <2>1, <3>1, <3>2
  <2> QED
    BY <1>3, <2>3, <2>4
<1>4. CASE file.last = "open" /\ Len(file.rows) = 0
  <2>1. Settled(file) = SubSeq(file.rows, 1, Len(file.rows) - 1)
    BY <1>4 DEF Settled
  <2>2. Settled(file) = <<>>
    BY <1>4, <2>1, SubSeqEmpty
  <2> QED
    BY <1>4, <2>2 DEF Increasing, Within
<1>5. CASE file.last # "open"
  BY <1>1, <1>2, <1>5 DEF Settled
<1> QED
  BY <1>1, <1>3, <1>4, <1>5

(* What an append, whole or cut, makes of the file. *)
LEMMA AppendingFile ==
    ASSUME Inv, pc = "append",
           NEW f, f = Appended(file, op.record) \/ f \in AppendedInPart(file,
               op.record)
    PROVE  /\ f \in FileType
           /\ f.tenants = file.tenants
           /\ Increasing(f.rows) /\ Within(f.rows, logged)
           /\ Len(f.rows) <= Len(requests) /\ Len(f.rows) <= MaxRecords
<1> USE AuditStoreAssumption
<1>1. /\ file \in FileType /\ file.rows \in Seq(Records) /\ file.tenants \in Stored
      /\ Len(file.rows) \in Nat
  BY FileTyped DEF Inv
<1>2. op.record = logged /\ op.record \in Records /\ logged \in Int /\ op.kind = "log"
  BY OpTyped DEF Inv, OpInv, TypeOK
<1>3. /\ Increasing(file.rows) /\ Within(file.rows, logged - 1)
      /\ Len(file.rows) < Len(requests)
      /\ Len(requests) <= MaxRecords /\ Len(requests) \in Nat
  BY DEF Inv, OrderInv, TypeOK
<1> DEFINE a == Append(file.rows, op.record)
<1>4. /\ a \in Seq(Records) /\ Len(a) = Len(file.rows) + 1
      /\ Increasing(a) /\ Within(a, logged)
  BY <1>1, <1>2, <1>3, Appending
<1> HIDE DEF a
<1>5. /\ Settled(file) \in Seq(Records) /\ Len(Settled(file)) <= Len(file.rows)
      /\ Len(Settled(file)) \in Nat
      /\ Increasing(Settled(file)) /\ Within(Settled(file), logged - 1)
  BY <1>2, <1>3, Settling
<1>6. Within(Settled(file), logged) /\ Within(file.rows, logged)
  <2>1. \A i \in 1..Len(Settled(file)) : Settled(file)[i] \in Int
    BY <1>5 DEF Records
  <2>2. \A i \in 1..Len(file.rows) : file.rows[i] \in Int
    BY <1>1 DEF Records
  <2> QED
    BY <1>2, <1>3, <1>5, <2>1, <2>2 DEF Within
<1>7. /\ f \in FileType /\ f.tenants = file.tenants
      /\ f.rows \in {file.rows, a, Settled(file)}
  <2>1. CASE f = Appended(file, op.record)
    BY <1>1, <1>4, <1>5, <2>1 DEF Appended, FileType, a, LastLine
  <2>2. CASE f \in AppendedInPart(file, op.record)
    BY <1>1, <1>4, <1>5, <2>2 DEF AppendedInPart, FileType, a, LastLine
  <2> QED
    BY <2>1, <2>2
<1> QED
  BY <1>1, <1>3, <1>4, <1>5, <1>6, <1>7

LEMMA RowsWithin ==
    ASSUME Inv
    PROVE  Within(file.rows, logged)
<1>1. file.rows \in Seq(Records) /\ logged \in Int
  BY FileTyped DEF Inv, TypeOK
<1>2. \A i \in 1..Len(file.rows) : file.rows[i] \in Records
  BY <1>1, ElementOfSeq
<1>3. \A i \in 1..Len(file.rows) : file.rows[i] \in Int
  BY <1>2 DEF Records
<1> QED
  BY <1>1, <1>3 DEF Inv, OrderInv, Within

LEMMA InitInv == Init => Inv
<1> SUFFICES ASSUME Init PROVE Inv
  OBVIOUS
<1> USE AuditStoreAssumption DEF Init
<1>1. TypeOK
  <2>1. NoTenants \in Stored
    BY DEF NoTenants, Stored
  <2>2. <<>> \in Seq(Records) /\ Len(<<>>) = 0
    OBVIOUS
  <2>3. "whole" \in LastLine
    BY DEF LastLine
  <2>4. promised \in [Tenants -> SUBSET (Params \cup {NoTenant})]
    OBVIOUS
  <2>5. file \in [tenants : Stored, rows : Seq(Records), last : LastLine]
    BY <2>1, <2>2, <2>3
  <2>6. requests \in Seq(Records) /\ Len(requests) <= MaxRecords /\ logged \in 0..MaxCalls
    BY <2>2
  <2>7. /\ running \in BOOLEAN /\ available \in BOOLEAN /\ damaged \in BOOLEAN
        /\ tenants \in Stored /\ pc = "idle" /\ op = Idle /\ acked = {}
    BY <2>1
  <2> QED
    BY <2>4, <2>5, <2>6, <2>7 DEF TypeOK
<1>2. OpInv
  BY DEF OpInv, Idle
<1>3. OrderInv
  BY DEF OrderInv, Increasing, Within
<1> QED
  BY <1>1, <1>2, <1>3 DEF Inv

(* What GiveUp leaves. *)
LEMMA GiveUpInv == ASSUME Inv, running, pc # "idle", GiveUp PROVE Inv'
<1> USE DEF Inv, GiveUp, Goto
<1>1. promised' \in [Tenants -> SUBSET (Params \cup {NoTenant})]
  <2>1. op.kind = "save" => op.tenant \in Tenants /\ op.old \in Params \cup {NoTenant}
    BY OpTyped
  <2> QED
    BY <2>1 DEF TypeOK
<1>2. TypeOK'
  BY <1>1 DEF TypeOK
<1>3. OpInv'
  BY DEF OpInv, Idle
<1>4. OrderInv'
  <2>1. Within(file.rows, logged)
    BY RowsWithin
  <2> QED
    BY <2>1 DEF OrderInv
<1> QED
  BY <1>2, <1>3, <1>4

LEMMA LogRequestInv == Inv /\ LogRequest => Inv'
<1> SUFFICES ASSUME Inv, LogRequest PROVE Inv'
  OBVIOUS
<1> USE AuditStoreAssumption DEF Inv, LogRequest, Goto
<1> DEFINE n == logged + 1
<1>1. n \in Records /\ logged \in Nat /\ n - 1 = logged /\ n \in Int
  BY DEF TypeOK, Records
<1>2. /\ requests \in Seq(Records) /\ Len(requests) <= MaxRecords /\ Len(requests) \in Nat
      /\ Increasing(requests) /\ Within(requests, n - 1)
  BY <1>1 DEF TypeOK, OrderInv
<1>3. /\ requests' \in Seq(Records) /\ Len(requests') <= MaxRecords
      /\ Increasing(requests') /\ Within(requests', n)
      /\ Len(requests) < MaxRecords => Len(requests') = Len(requests) + 1
  BY <1>1, <1>2, Retaining
<1>4. /\ op' = [kind |-> "log", record |-> n] /\ logged' = n
      /\ pc' = IF Len(requests) >= MaxRecords THEN "rewrite" ELSE "append"
      /\ running /\ available /\ pc = "idle"
      /\ UNCHANGED <<file, running, available, tenants, promised, acked, damaged>>
  OBVIOUS
<1> HIDE DEF n, LogRequest
<1>5. TypeOK'
  <2>1. n \in 0..MaxCalls
    BY <1>1 DEF Records, TypeOK
  <2> QED
    BY <1>1, <1>3, <1>4, <2>1 DEF TypeOK
<1>6. OpInv'
  BY <1>4 DEF OpInv, Idle
<1>7. OrderInv'
  <2>1. Within(file.rows, logged) /\ Len(file.rows) <= Len(requests)
    BY <1>4 DEF OrderInv
  <2>2. \A i \in 1..Len(file.rows) : file.rows[i] \in Int
    BY FileTyped DEF Records
  <2>3. Within(file.rows, n)
    BY <1>1, <2>1, <2>2 DEF Within
  <2>4. Len(file.rows) \in Nat
    BY FileTyped
  <2> QED
    BY <1>1, <1>2, <1>3, <1>4, <2>1, <2>3, <2>4 DEF OrderInv
<1> QED
  BY <1>5, <1>6, <1>7

LEMMA SaveTenantInv == Inv /\ SaveTenant => Inv'
<1> SUFFICES ASSUME Inv, SaveTenant PROVE Inv'
  OBVIOUS
<1> USE DEF Inv, SaveTenant, Goto
<1>1. PICK t \in Tenants, p \in Params \cup {NoTenant} :
        /\ op' = [kind |-> "save", tenant |-> t, old |-> tenants[t], new |-> p]
        /\ tenants' = [tenants EXCEPT ![t] = p]
        /\ promised' = [promised EXCEPT ![t] = @ \cup {p}]
  OBVIOUS
<1>2. tenants' \in Stored
  BY <1>1 DEF TypeOK, Stored
<1>3. promised' \in [Tenants -> SUBSET (Params \cup {NoTenant})]
  BY <1>1 DEF TypeOK
<1>4. op' \in [kind : {"save"}, tenant : Tenants,
               old : Params \cup {NoTenant}, new : Params \cup {NoTenant}]
  BY <1>1 DEF TypeOK, Stored
<1>5. TypeOK'
  BY <1>2, <1>3, <1>4 DEF TypeOK
<1>6. OpInv'
  BY <1>1 DEF OpInv, Idle
<1>7. OrderInv'
  BY DEF OrderInv
<1> QED
  BY <1>5, <1>6, <1>7

LEMMA AppendInv ==
    ASSUME Inv, running, pc = "append",
           \/ file' = Appended(file, op.record)
           \/ file' \in AppendedInPart(file, op.record),
           damaged' \in BOOLEAN, pc' = "return",
           UNCHANGED <<running, memory, op, promised, acked, logged>>
    PROVE  Inv'
<1> USE DEF Inv, memory
<1>1. /\ file' \in FileType
      /\ Increasing(file'.rows) /\ Within(file'.rows, logged)
      /\ Len(file'.rows) <= Len(requests) /\ Len(file'.rows) <= MaxRecords
  BY AppendingFile
<1>2. TypeOK'
  BY <1>1 DEF TypeOK, FileType
<1>3. OpInv'
  BY DEF OpInv
<1>4. OrderInv'
  BY <1>1 DEF OrderInv
<1> QED
  BY <1>2, <1>3, <1>4

LEMMA AppendFailsEarlyInv == Inv /\ AppendFailsEarly => Inv'
<1> SUFFICES ASSUME Inv, AppendFailsEarly PROVE Inv'
  OBVIOUS
<1> USE DEF Inv, AppendFailsEarly, Goto
<1>1. /\ file' \in FileType
      /\ Increasing(file'.rows) /\ Within(file'.rows, logged)
      /\ Len(file'.rows) <= MaxRecords
  BY AppendingFile
<1>2. TypeOK'
  BY <1>1 DEF TypeOK, FileType
<1>3. OpInv'
  BY DEF OpInv, Idle
<1>4. OrderInv'
  BY <1>1 DEF OrderInv
<1> QED
  BY <1>2, <1>3, <1>4

LEMMA WriteInv == Inv /\ WriteTemporary => Inv'
<1> SUFFICES ASSUME Inv, WriteTemporary PROVE Inv'
  OBVIOUS
<1> USE DEF Inv, WriteTemporary, Goto, memory, observer
<1>1. TypeOK'
  BY DEF TypeOK
<1>2. OpInv'
  BY DEF OpInv
<1>3. OrderInv'
  BY DEF OrderInv
<1> QED
  BY <1>1, <1>2, <1>3

LEMMA RenameInv == Inv /\ Rename => Inv'
<1> SUFFICES ASSUME Inv, Rename PROVE Inv'
  OBVIOUS
<1> USE DEF Inv, Rename, Goto, memory, observer
<1>0. file'.rows = requests /\ Len(requests) <= MaxRecords /\ Len(requests) \in Nat
  BY DEF TypeOK
<1>1. TypeOK'
  BY DEF TypeOK, LastLine
<1>2. OpInv'
  BY DEF OpInv
<1>3. OrderInv'
  BY <1>0 DEF OrderInv
<1> QED
  BY <1>1, <1>2, <1>3

LEMMA ReturnInv == Inv /\ Return => Inv'
<1> SUFFICES ASSUME Inv, Return PROVE Inv'
  OBVIOUS
<1> USE DEF Inv, Return, Goto, memory
<1>1. TypeOK'
  <2>1. acked' \subseteq Records
    BY OpTyped DEF TypeOK
  <2>2. promised' \in [Tenants -> SUBSET (Params \cup {NoTenant})]
    <3>1. op.kind = "log" \/ op.kind = "save"
      BY DEF OpInv
    <3>2. op.kind = "save" => op.tenant \in Tenants /\ op.new \in Params \cup {NoTenant}
      BY OpTyped
    <3> QED
      BY <3>1, <3>2 DEF TypeOK
  <2> QED
    BY <2>1, <2>2 DEF TypeOK
<1>2. OpInv'
  BY DEF OpInv, Idle
<1>3. OrderInv'
  BY DEF OrderInv
<1> QED
  BY <1>1, <1>2, <1>3

LEMMA CrashInv == Inv /\ Crash => Inv'
<1> SUFFICES ASSUME Inv, Crash PROVE Inv'
  OBVIOUS
<1> USE AuditStoreAssumption DEF Inv, Crash, Goto
<1>1. /\ file' \in FileType
      /\ Increasing(file'.rows) /\ Within(file'.rows, logged) /\ Len(file'.rows) <= MaxRecords
  <2>1. CASE file' \in AppendedInPart(file, op.record) /\ pc = "append"
    BY <2>1, AppendingFile
  <2>2. CASE file' = file
    <3>1. Within(file.rows, logged)
      BY RowsWithin
    <3> QED
      BY <2>2, <3>1, FileTyped DEF OrderInv
  <2> QED
    BY <2>1, <2>2
<1>2. /\ running' = FALSE /\ available' = FALSE /\ tenants' = NoTenants
      /\ requests' = <<>> /\ pc' = "idle" /\ op' = Idle /\ damaged' \in BOOLEAN
      /\ UNCHANGED <<promised, acked, logged>>
  BY DEF TypeOK
<1> HIDE DEF Crash
<1>3. TypeOK'
  <2>1. NoTenants \in Stored
    BY DEF NoTenants, Stored
  <2>2. <<>> \in Seq(Records) /\ Len(<<>>) = 0 /\ 0 <= MaxRecords
    OBVIOUS
  <2>3. requests' \in Seq(Records) /\ Len(requests') <= MaxRecords
    BY <1>2, <2>2
  <2>4. /\ promised' \in [Tenants -> SUBSET (Params \cup {NoTenant})]
        /\ acked' \subseteq Records /\ logged' \in 0..MaxCalls
    BY <1>2 DEF TypeOK
  <2> QED
    BY <1>1, <1>2, <2>1, <2>3, <2>4 DEF TypeOK, FileType
<1>4. OpInv'
  BY <1>2 DEF OpInv, Idle
<1>5. OrderInv'
  BY <1>1, <1>2 DEF OrderInv, Increasing, Within
<1> QED
  BY <1>3, <1>4, <1>5

LEMMA RestartInv == Inv /\ Restart => Inv'
<1> SUFFICES ASSUME Inv, Restart PROVE Inv'
  OBVIOUS
<1> USE DEF Inv, Restart, memory
<1>1. ~running /\ pc = "idle" /\ op = Idle /\ ~available
  BY DEF OpInv
<1>2. TypeOK'
  <2>1. file.tenants \in Stored /\ file.rows \in Seq(Records) /\ Len(file.rows) <= MaxRecords
    BY FileTyped DEF OrderInv
  <2>2. promised' \in [Tenants -> SUBSET (Params \cup {NoTenant})]
    BY <2>1 DEF Stored
  <2> QED
    BY <2>1, <2>2 DEF TypeOK
<1>3. OpInv'
  BY <1>1 DEF OpInv, Idle
<1>4. OrderInv'
  <2>1. Len(file.rows) \in Nat
    BY FileTyped
  <2> QED
    BY <1>1, <2>1 DEF OrderInv
<1> QED
  BY <1>2, <1>3, <1>4

LEMMA StepInv == Inv /\ [Next]_vars => Inv'
<1> SUFFICES ASSUME Inv, [Next]_vars PROVE Inv'
  OBVIOUS
<1>1. CASE AppendRow
  <2>1. damaged' \in BOOLEAN
    BY <1>1 DEF AppendRow, observer, Inv, TypeOK
  <2> QED
    BY <1>1, <2>1, AppendInv DEF AppendRow, Goto, observer
<1>2. CASE AppendFails
  BY <1>2, AppendInv DEF AppendFails, Goto
<1>3. CASE OpenFails \/ RewriteFails \/ RenameFails
  BY <1>3, GiveUpInv DEF OpenFails, RewriteFails, RenameFails
<1>4. CASE UNCHANGED vars
  BY <1>4 DEF vars, memory, observer, Inv, TypeOK, OpInv, OrderInv
<1> QED
  BY <1>1, <1>2, <1>3, <1>4, LogRequestInv, SaveTenantInv, WriteInv, RenameInv,
     ReturnInv, CrashInv, RestartInv, AppendFailsEarlyInv
  DEF Next

LEMMA SpecInv == Spec => []Inv
  BY InitInv, StepInv, PTL DEF Spec

(* Memory, file and operation stay in their types; the rows never exceed   *)
(* the retention, whatever is lost or cut.                                 *)
THEOREM TypeCorrect == Spec => []TypeOK
  BY SpecInv, PTL DEF Inv

(* Through every fault and crash: what loadFromFile reads are records that *)
(* were logged, in their order and each once; only of rows that were cut   *)
(* one after the other may parts be read as the later record.              *)
THEOREM Genuine == Spec => []NothingInvented
<1>1. Inv => NothingInvented
  <2> SUFFICES ASSUME Inv PROVE NothingInvented
    OBVIOUS
  <2>1. DOMAIN file.rows = 1..Len(file.rows)
    BY FileTyped DEF Inv
  <2> QED
    BY <2>1 DEF Inv, OrderInv, Increasing, NothingInvented
<1> QED
  BY <1>1, SpecInv, PTL

-----------------------------------------------------------------------------
(* The tenants in memory and in the file.                                  *)
Saving == op.kind = "save" /\ pc \in {"rewrite", "rename"}

TenantInv ==
    /\ TenantsDurable
    /\ available /\ ~Saving => tenants = file.tenants
    /\ Saving => /\ tenants = [file.tenants EXCEPT ![op.tenant] = op.new]
                 /\ file.tenants[op.tenant] = op.old
                 /\ {op.old, op.new} \subseteq promised[op.tenant]
    /\ op.kind = "save" /\ pc = "return" => file.tenants[op.tenant] = op.new

LEMMA TenantStep == Inv /\ TenantInv /\ [Next]_vars => TenantInv'
<1> SUFFICES ASSUME Inv, TenantInv, [Next]_vars PROVE TenantInv'
  OBVIOUS
<1>0. /\ file.tenants \in [Tenants -> Params \cup {NoTenant}]
      /\ tenants \in [Tenants -> Params \cup {NoTenant}]
      /\ promised \in [Tenants -> SUBSET (Params \cup {NoTenant})]
      /\ op.kind = "save" => op.tenant \in Tenants
      /\ op.kind \in {"none", "log", "save"} /\ Idle.kind = "none"
  BY FileTyped, OpTyped DEF Inv, TypeOK, Stored
<1>1. ASSUME LogRequest PROVE TenantInv'
  <2>1. /\ op' = [kind |-> "log", record |-> logged + 1]
        /\ pc = "idle" /\ op = Idle /\ available
        /\ UNCHANGED <<file, running, available, tenants, promised>>
    BY <1>1 DEF LogRequest, Inv, OpInv
  <2>2. op'.kind = "log"
    BY <2>1
  <2> QED
    BY <2>1, <2>2 DEF TenantInv, TenantsDurable, Saving
<1>2. ASSUME SaveTenant PROVE TenantInv'
  <2>1. PICK t \in Tenants, p \in Params \cup {NoTenant} :
          /\ op' = [kind |-> "save", tenant |-> t, old |-> tenants[t], new |-> p]
          /\ tenants' = [tenants EXCEPT ![t] = p]
          /\ promised' = [promised EXCEPT ![t] = @ \cup {p}]
    BY <1>2 DEF SaveTenant
  <2>2. /\ pc = "idle" /\ available /\ file' = file /\ pc' = "rewrite"
    BY <1>2 DEF SaveTenant, Goto
  <2>3. tenants = file.tenants
    BY <2>2 DEF TenantInv, Saving
  <2>4. op'.kind = "save" /\ op'.tenant = t /\ op'.old = tenants[t] /\ op'.new = p
    BY <2>1
  <2>5. \A u \in Tenants : promised[u] \subseteq promised'[u]
    BY <1>0, <2>1
  <2>6. \A u \in Tenants : file.tenants[u] \in promised[u]
    BY DEF TenantInv, TenantsDurable
  <2>7. p \in promised'[t]
    BY <1>0, <2>1
  <2>8. Saving'
    BY <2>2, <2>4 DEF Saving
  <2>9. TenantsDurable'
    BY <2>2, <2>5, <2>6 DEF TenantsDurable
  <2> QED
    BY <2>1, <2>2, <2>3, <2>4, <2>5, <2>6, <2>7, <2>8, <2>9 DEF TenantInv
<1>3. ASSUME pc = "append", pc' = "return", UNCHANGED <<running, memory, op, promised>>,
             \/ file' = Appended(file, op.record)
             \/ file' \in AppendedInPart(file, op.record)
      PROVE  TenantInv'
  <2>1. file'.tenants = file.tenants
    BY <1>3, AppendingFile
  <2>2. op.kind = "log"
    BY <1>3 DEF Inv, OpInv
  <2> QED
    BY <1>3, <2>1, <2>2 DEF TenantInv, TenantsDurable, Saving, memory
<1>4. ASSUME GiveUp, pc \in {"append", "rewrite", "rename"} PROVE TenantInv'
  <2>1. /\ available' = FALSE /\ pc' = "idle" /\ op' = Idle /\ file' = file
        /\ tenants' = tenants
    BY <1>4 DEF GiveUp, Goto
  <2>2. ASSUME NEW u \in Tenants PROVE file.tenants[u] \in promised'[u]
    <3>1. file.tenants[u] \in promised[u]
      BY DEF TenantInv, TenantsDurable
    <3>2. CASE op.kind = "save"
      <4>1. file.tenants[op.tenant] = op.old
        BY <1>4, <3>2 DEF TenantInv, Saving, Inv, OpInv
      <4>2. promised' = [promised EXCEPT ![op.tenant] = {op.old}]
        BY <1>4, <3>2 DEF GiveUp
      <4> QED
        BY <1>0, <3>1, <4>1, <4>2
    <3>3. CASE op.kind # "save"
      BY <1>4, <3>1, <3>3 DEF GiveUp
    <3> QED
      BY <3>2, <3>3
  <2> QED
    BY <1>0, <2>1, <2>2 DEF TenantInv, TenantsDurable, Saving
<1>5. ASSUME WriteTemporary PROVE TenantInv'
  BY <1>5 DEF WriteTemporary, Goto, memory, observer, TenantInv, TenantsDurable, Saving
<1>6. ASSUME Rename PROVE TenantInv'
  <2>1. /\ pc = "rename" /\ pc' = "return" /\ file'.tenants = tenants
        /\ UNCHANGED <<available, tenants, op, promised>>
    BY <1>6 DEF Rename, Goto, memory, observer
  <2>2. available
    BY <2>1 DEF Inv, OpInv
  <2>3. CASE op.kind = "save"
    <3>1. Saving
      BY <2>1, <2>3 DEF Saving
    <3>2. /\ tenants[op.tenant] = op.new /\ op.new \in promised[op.tenant]
          /\ \A u \in Tenants : u # op.tenant => tenants[u] = file.tenants[u]
      BY <1>0, <2>3, <3>1 DEF TenantInv
    <3>3. \A u \in Tenants : tenants[u] \in promised[u]
      BY <3>2 DEF TenantInv, TenantsDurable
    <3> QED
      BY <2>1, <3>2, <3>3 DEF TenantInv, TenantsDurable, Saving
  <2>4. CASE op.kind # "save"
    BY <2>1, <2>2, <2>4 DEF TenantInv, TenantsDurable, Saving
  <2> QED
    BY <2>3, <2>4
<1>7. ASSUME Return PROVE TenantInv'
  <2>1. /\ pc = "return" /\ pc' = "idle" /\ op' = Idle
        /\ UNCHANGED <<file, available, tenants>>
    BY <1>7 DEF Return, Goto, memory
  <2>2. ASSUME NEW u \in Tenants PROVE file.tenants[u] \in promised'[u]
    <3>1. file.tenants[u] \in promised[u]
      BY DEF TenantInv, TenantsDurable
    <3>2. CASE op.kind = "save"
      <4>1. file.tenants[op.tenant] = op.new
        BY <2>1, <3>2 DEF TenantInv
      <4>2. promised' = [promised EXCEPT ![op.tenant] = {op.new}]
        BY <1>7, <3>2 DEF Return
      <4> QED
        BY <1>0, <3>1, <4>1, <4>2
    <3>3. CASE op.kind = "log"
      BY <1>7, <3>1, <3>3 DEF Return
    <3> QED
      BY <2>1, <3>2, <3>3 DEF Inv, OpInv
  <2> QED
    BY <1>0, <2>1, <2>2 DEF TenantInv, TenantsDurable, Saving
<1>8. ASSUME Crash PROVE TenantInv'
  <2>1. file'.tenants = file.tenants
    BY <1>8, AppendingFile DEF Crash
  <2>2. available' = FALSE /\ pc' = "idle" /\ op' = Idle /\ promised' = promised
    BY <1>8 DEF Crash, Goto
  <2> QED
    BY <1>0, <2>1, <2>2 DEF TenantInv, TenantsDurable, Saving
<1>9. ASSUME Restart PROVE TenantInv'
  <2>1. /\ pc = "idle" /\ op = Idle /\ ~available
        /\ UNCHANGED <<file, pc, op>>
        /\ promised' = [t \in Tenants |-> {file.tenants[t]}]
        /\ available' => tenants' = file.tenants
    BY <1>9 DEF Restart, memory, Inv, OpInv
  <2> QED
    BY <1>0, <2>1 DEF TenantInv, TenantsDurable, Saving
<1>10. ASSUME UNCHANGED vars PROVE TenantInv'
  BY <1>10 DEF vars, memory, observer, TenantInv, TenantsDurable, Saving
<1>11. ASSUME AppendRow \/ AppendFails PROVE TenantInv'
  BY <1>3, <1>11 DEF AppendRow, AppendFails, Goto, observer
<1>12. ASSUME AppendFailsEarly PROVE TenantInv'
  <2>1. file'.tenants = file.tenants
    BY <1>12, AppendingFile DEF AppendFailsEarly
  <2>2. available' = FALSE /\ pc' = "idle" /\ op' = Idle /\ promised' = promised
    BY <1>12 DEF AppendFailsEarly, Goto
  <2> QED
    BY <1>0, <2>1, <2>2 DEF TenantInv, TenantsDurable, Saving
<1> QED
  BY <1>1, <1>2, <1>4, <1>5, <1>6, <1>7, <1>8, <1>9, <1>10, <1>11, <1>12
  DEF Next, OpenFails, RewriteFails, RenameFails

(* saveTenant, deleteTenant: through every fault and crash, a tenant is    *)
(* found as its last operation left it, or as one of the two it may have   *)
(* left if it never returned.                                              *)
THEOREM TenantsKept == Spec => []TenantsDurable
<1>1. Init => TenantInv
  BY DEF Init, TenantInv, TenantsDurable, Saving, NoTenants, Idle
<1>2. TenantInv => TenantsDurable
  BY DEF TenantInv
<1> QED
  BY <1>1, <1>2, SpecInv, TenantStep, PTL DEF Spec

-----------------------------------------------------------------------------
(* As long as no row was cut or lost: the memory is the file and what is   *)
(* in progress, and an acknowledged record is a row or has been pushed out.*)
Kept(rows, n) ==
    \/ \E i \in 1..Len(rows) : rows[i] = n
    \/ Len(rows) = MaxRecords /\ \A i \in 1..Len(rows) : rows[i] > n

Intact ==
    /\ file.last = "whole"
    /\ \A n \in acked : Kept(file.rows, n)
    /\ available /\ (pc \in {"idle", "return"} \/ op.kind = "save") => requests = file.rows
    /\ pc = "append" => requests = Append(file.rows, op.record)
    /\ pc \in {"rewrite", "rename"} /\ op.kind = "log" =>
          /\ Len(file.rows) = MaxRecords
          /\ requests = Append(Tail(file.rows), op.record)
          /\ Within(file.rows, op.record - 1)
    /\ pc = "return" /\ op.kind = "log" => Kept(file.rows, op.record)

IntactInv == ~damaged => Intact

(* One more record pushes out no other before MaxRecords have come.        *)
LEMMA AppendKeeps ==
    ASSUME NEW s \in Seq(Records), NEW n \in Records, Increasing(s), Within(s,
           n - 1),
           Len(s) < MaxRecords, NEW k \in Records, Kept(s, k) \/ k = n
    PROVE  Kept(Append(s, n), k)
<1> DEFINE a == Append(s, n)
<1>1. /\ Len(a) = Len(s) + 1 /\ a[Len(s) + 1] = n /\ Len(s) \in Nat
      /\ \A i \in 1..Len(s) : a[i] = s[i]
  BY Appending
<1> HIDE DEF a
<1>2. MaxRecords \in Int
  BY AuditStoreAssumption
<1>3. CASE k = n
  BY <1>1, <1>3 DEF Kept
<1>4. CASE Kept(s, k)
  <2>1. PICK i \in 1..Len(s) : s[i] = k
    BY <1>1, <1>2, <1>4 DEF Kept
  <2>2. i \in 1..Len(a) /\ a[i] = k
    BY <1>1, <2>1
  <2> QED
    BY <2>2 DEF Kept
<1> QED
  BY <1>3, <1>4 DEF a

LEMMA PushKeeps ==
    ASSUME NEW s \in Seq(Records), NEW n \in Records, Increasing(s), Within(s,
           n - 1),
           Len(s) = MaxRecords, NEW k \in Records, Kept(s, k) \/ k = n
    PROVE  Kept(Append(Tail(s), n), k)
<1> DEFINE b == Append(Tail(s), n)
<1> SUFFICES Kept(b, k)
  OBVIOUS
<1>1. MaxRecords \in Nat \ {0} /\ n \in Int /\ k \in Int
  BY AuditStoreAssumption DEF Records
<1>2. Len(s) \in Nat /\ Len(s) # 0 /\ \A i \in 1..Len(s) : s[i] \in Int
  <2>1. \A i \in 1..Len(s) : s[i] \in Records
    BY ElementOfSeq
  <2> QED
    BY <1>1, <2>1 DEF Records
<1>3. /\ Tail(s) \in Seq(Records) /\ Len(Tail(s)) = Len(s) - 1
      /\ \A i \in 1..Len(s) - 1 : Tail(s)[i] = s[i + 1]
  BY <1>2, HeadTailProperties
<1>4. /\ Len(b) = Len(s) /\ b[Len(s)] = n
      /\ \A i \in 1..Len(s) - 1 : b[i] = s[i + 1]
  <2>1. /\ Len(b) = Len(Tail(s)) + 1 /\ b[Len(Tail(s)) + 1] = n
        /\ \A i \in 1..Len(Tail(s)) : b[i] = Tail(s)[i]
    BY <1>3
  <2> QED
    BY <1>2, <1>3, <2>1
<1> HIDE DEF b
<1>5. CASE k = n
  BY <1>1, <1>2, <1>4, <1>5 DEF Kept
<1>6. ASSUME \A j \in 1..Len(s) - 1 : s[j + 1] > k, n > k
      PROVE  Kept(b, k)
  <2>1. ASSUME NEW i \in 1..Len(b) PROVE b[i] > k
    <3>1. i = Len(s) \/ i \in 1..Len(s) - 1
      BY <1>2, <1>4
    <3> QED
      BY <1>4, <1>6, <3>1
  <2> QED
    BY <1>4, <2>1 DEF Kept
<1>7. \A i \in 1..Len(s) : s[i] < n
  BY <1>1, <1>2 DEF Within
<1>8. CASE \E i \in 1..Len(s) : s[i] = k
  <2>1. PICK i \in 1..Len(s) : s[i] = k
    BY <1>8
  <2>2. CASE i = 1
    <3>1. \A j \in 1..Len(s) - 1 : j + 1 \in 1..Len(s) /\ 1 \in 1..Len(s) /\ 1 < j + 1
      BY <1>2
    <3>2. \A j \in 1..Len(s) - 1 : s[j + 1] > k
      BY <1>1, <1>2, <2>1, <2>2, <3>1 DEF Increasing
    <3>3. n > k
      BY <1>7, <2>1
    <3> QED
      BY <1>6, <3>2, <3>3
  <2>3. CASE i # 1
    <3>1. i - 1 \in 1..Len(s) - 1 /\ i - 1 \in 1..Len(b) /\ (i - 1) + 1 = i
      BY <1>2, <1>4, <2>3
    <3>2. b[i - 1] = k
      BY <1>4, <2>1, <3>1
    <3> QED
      BY <3>1, <3>2 DEF Kept
  <2> QED
    BY <2>2, <2>3
<1>9. CASE \A i \in 1..Len(s) : s[i] > k
  <2>1. \A j \in 1..Len(s) - 1 : j + 1 \in 1..Len(s)
    BY <1>2
  <2>2. 1 \in 1..Len(s)
    BY <1>2
  <2>3. n > k
    BY <1>1, <1>2, <1>7, <1>9, <2>2
  <2> QED
    BY <1>6, <1>9, <2>1, <2>3
<1> QED
  BY <1>5, <1>8, <1>9 DEF Kept

LEMMA IntactStep == Inv /\ IntactInv /\ [Next]_vars => IntactInv'
<1> SUFFICES ASSUME Inv, IntactInv, [Next]_vars, ~damaged' PROVE Intact'
  BY DEF IntactInv
<1>0. /\ file.rows \in Seq(Records) /\ requests \in Seq(Records) /\ acked \subseteq Records
      /\ Increasing(file.rows) /\ Len(requests) <= MaxRecords
      /\ op.kind \in {"none", "log", "save"} /\ Idle.kind = "none"
      /\ op.kind = "log" => op.record \in Records /\ op.record = logged
      /\ Len(file.rows) \in Nat /\ MaxRecords \in Nat /\ logged \in Nat
  BY FileTyped, OpTyped, AuditStoreAssumption DEF Inv, OrderInv, OpInv, TypeOK
<1>1. ASSUME LogRequest PROVE Intact'
  <2> DEFINE n == logged + 1
  <2>1. /\ op' = [kind |-> "log", record |-> n]
        /\ pc = "idle" /\ available
        /\ pc' = IF Len(requests) >= MaxRecords THEN "rewrite" ELSE "append"
        /\ requests' = Recent(Append(requests, n))
        /\ n \in Records
        /\ UNCHANGED <<file, acked, damaged>>
    BY <1>0, <1>1, AuditStoreAssumption DEF LogRequest, Goto, Records
  <2>2. Intact /\ requests = file.rows
    BY <2>1 DEF IntactInv, Intact
  <2>3. op'.kind = "log" /\ op'.record = n
    BY <2>1
  <2>4. Within(requests, n - 1) /\ Increasing(requests)
    BY <1>0 DEF Inv, OrderInv
  <2> HIDE DEF n
  <2>5. /\ Len(requests) = MaxRecords => requests' = Append(Tail(requests), n)
        /\ Len(requests) < MaxRecords => requests' = Append(requests, n)
    BY <1>0, <2>1, <2>4, Retaining
  <2>6. /\ pc' # "append" => Len(requests) = MaxRecords
        /\ pc' = "append" => Len(requests) < MaxRecords
    BY <1>0, <2>1, <2>2
  <2>7. /\ file'.last = "whole" /\ \A k \in acked' : Kept(file'.rows, k)
        /\ pc' = "append" \/ pc' = "rewrite"
    BY <2>1, <2>2 DEF Intact
  <2>8. pc' = "append" => requests' = Append(file'.rows, op'.record)
    BY <2>1, <2>2, <2>3, <2>5, <2>6
  <2>9. pc' = "rewrite" => /\ Len(file'.rows) = MaxRecords
                           /\ requests' = Append(Tail(file'.rows), op'.record)
                           /\ Within(file'.rows, op'.record - 1)
    BY <2>1, <2>2, <2>3, <2>4, <2>5, <2>6
  <2>10. CASE pc' = "append"
    BY <2>3, <2>7, <2>8, <2>10 DEF Intact
  <2>11. CASE pc' = "rewrite"
    BY <2>3, <2>7, <2>9, <2>11 DEF Intact
  <2> QED
    BY <2>7, <2>10, <2>11
<1>2. ASSUME SaveTenant PROVE Intact'
  <2>1. /\ op'.kind = "save" /\ pc = "idle" /\ pc' = "rewrite" /\ available
        /\ UNCHANGED <<file, available, requests, acked, damaged>>
    BY <1>2 DEF SaveTenant, Goto
  <2> QED
    BY <2>1 DEF IntactInv, Intact
<1>3. ASSUME AppendRow PROVE Intact'
  <2>1. /\ pc = "append" /\ pc' = "return" /\ file' = Appended(file, op.record)
        /\ UNCHANGED <<available, requests, op, acked, damaged>>
    BY <1>3 DEF AppendRow, Goto, memory, observer
  <2>2. Intact /\ op.kind = "log" /\ op.record \in Records /\ op.record = logged
    BY <1>0, <2>1 DEF IntactInv, Inv, OpInv
  <2>3. file'.rows = Append(file.rows, op.record) /\ file'.last = "whole"
    BY <2>1, <2>2, FileTyped DEF Appended, Intact, Inv, FileType
  <2>4. Within(file.rows, op.record - 1) /\ Len(file.rows) < MaxRecords
    BY <1>0, <2>1, <2>2 DEF Inv, OrderInv
  <2>5. \A k \in acked \cup {op.record} : Kept(file'.rows, k)
    BY <1>0, <2>2, <2>3, <2>4, AppendKeeps DEF Intact
  <2>6. requests = file'.rows
    BY <2>1, <2>2, <2>3 DEF Intact
  <2> QED
    BY <2>1, <2>2, <2>3, <2>5, <2>6 DEF Intact
<1>4. ASSUME GiveUp PROVE Intact'
  <2>1. /\ available' = FALSE /\ pc' = "idle" /\ op' = Idle
        /\ UNCHANGED <<file, acked, damaged>>
    BY <1>4 DEF GiveUp, Goto
  <2> QED
    BY <1>0, <2>1 DEF IntactInv, Intact
<1>5. ASSUME WriteTemporary PROVE Intact'
  BY <1>5 DEF WriteTemporary, Goto, memory, observer, IntactInv, Intact
<1>6. ASSUME Rename PROVE Intact'
  <2>1. /\ pc = "rename" /\ pc' = "return"
        /\ file' = [tenants |-> tenants, rows |-> requests, last |-> "whole"]
        /\ UNCHANGED <<available, requests, op, acked, damaged>>
    BY <1>6 DEF Rename, Goto, memory, observer
  <2>2. file'.rows = requests /\ file'.last = "whole"
    BY <2>1
  <2>3. Intact /\ op.kind \in {"log", "save"} /\ available
    BY <2>1 DEF IntactInv, Inv, OpInv
  <2>4. CASE op.kind = "save"
    BY <2>1, <2>2, <2>3, <2>4 DEF Intact
  <2>5. CASE op.kind = "log"
    <3>1. /\ requests = Append(Tail(file.rows), op.record)
          /\ Within(file.rows, op.record - 1) /\ Len(file.rows) = MaxRecords
      BY <2>1, <2>3, <2>5 DEF Intact
    <3>2. \A k \in acked \cup {op.record} : Kept(file'.rows, k)
      BY <1>0, <2>2, <2>3, <2>5, <3>1, PushKeeps DEF Intact
    <3> QED
      BY <2>1, <2>2, <2>5, <3>2 DEF Intact
  <2> QED
    BY <2>3, <2>4, <2>5
<1>7. ASSUME Return PROVE Intact'
  <2>1. /\ pc = "return" /\ pc' = "idle" /\ op' = Idle
        /\ op.kind = "log" => acked' = acked \cup {op.record}
        /\ op.kind # "log" => acked' = acked
        /\ UNCHANGED <<file, available, requests, damaged>>
    BY <1>7 DEF Return, Goto, memory
  <2>2. Intact
    BY <2>1 DEF IntactInv
  <2>3. \A n \in acked' : Kept(file.rows, n)
    BY <2>1, <2>2 DEF Intact
  <2> QED
    BY <1>0, <2>1, <2>2, <2>3 DEF Intact
<1>8. ASSUME Crash PROVE Intact'
  <2>1. /\ available' = FALSE /\ pc' = "idle" /\ op' = Idle
        /\ UNCHANGED <<file, acked, damaged>>
    BY <1>8 DEF Crash, Goto
  <2> QED
    BY <1>0, <2>1 DEF IntactInv, Intact
<1>9. ASSUME Restart PROVE Intact'
  <2>1. /\ op = Idle /\ pc = "idle" /\ ~available
        /\ UNCHANGED <<file, pc, op, acked, damaged>>
        /\ available' => requests' = file.rows
    BY <1>9 DEF Restart, memory, Inv, OpInv
  <2> QED
    BY <1>0, <2>1 DEF IntactInv, Intact
<1>10. ASSUME UNCHANGED vars PROVE Intact'
  BY <1>10 DEF vars, memory, observer, IntactInv, Intact
<1> QED
  BY <1>1, <1>2, <1>3, <1>4, <1>5, <1>6, <1>7, <1>8, <1>9, <1>10
  DEF Next, AppendFails, AppendFailsEarly, OpenFails, RewriteFails, RenameFails

LEMMA SpecIntact == Spec => []IntactInv
<1>1. Init => IntactInv
  BY DEF Init, IntactInv, Intact, Kept, Idle
<1> QED
  BY <1>1, SpecInv, IntactStep, PTL DEF Spec

(* logRequest: while no row was cut or lost, a record whose call returned  *)
(* true is in the file at any moment, until as many newer ones as the      *)
(* retention holds have pushed it out; failing opens, rewrites and renames *)
(* and crashes at any other step cannot change that.                       *)
THEOREM Survive == Spec => []SurviveUnlessDamaged
<1>1. Inv /\ IntactInv => SurviveUnlessDamaged
  <2> SUFFICES ASSUME Inv, IntactInv, ~damaged, NEW n \in acked
               PROVE  \/ \E i \in DOMAIN file.rows : file.rows[i] = n
                      \/ Cardinality(Newer(n)) >= MaxRecords
    BY DEF SurviveUnlessDamaged, AcknowledgedSurvive
  <2>1. Kept(file.rows, n)
    BY DEF IntactInv, Intact
  <2>2. file.rows \in Seq(Records) /\ DOMAIN file.rows = 1..Len(file.rows)
    BY FileTyped DEF Inv
  <2>3. ASSUME Len(file.rows) = MaxRecords, \A i \in 1..Len(file.rows) : file.rows[i] > n
        PROVE  Cardinality(Newer(n)) >= MaxRecords
    <3>1. Newer(n) = 1..MaxRecords
      BY <2>2, <2>3 DEF Newer
    <3>2. MaxRecords \in Nat
      BY AuditStoreAssumption
    <3>3. Cardinality(1..MaxRecords) = MaxRecords
      BY <3>2, FS_Interval
    <3> QED
      BY <3>1, <3>2, <3>3
  <2> QED
    BY <2>1, <2>2, <2>3 DEF Kept
<1> QED
  BY <1>1, SpecInv, SpecIntact, PTL

-----------------------------------------------------------------------------
(* The bounded log. *)
LEMMA LogStep ==
    Inv /\ TenantInv /\ IntactInv /\ [Next]_vars
        => [~damaged' => [Log!Next]_<<file.rows, file.tenants>>]_vars
<1> SUFFICES ASSUME Inv, TenantInv, IntactInv, Next, ~damaged'
             PROVE  [Log!Next]_<<file.rows, file.tenants>>
  OBVIOUS
<1>0. /\ op.kind \in {"none", "log", "save"}
      /\ op.kind = "log" => op.record \in 1..MaxCalls /\ op.record = logged
      /\ op.kind = "save" => op.tenant \in Tenants /\ op.new \in Params \cup {NoTenant}
      /\ file.rows \in Seq(Records) /\ DOMAIN file.rows = 1..Len(file.rows)
      /\ logged \in Nat /\ MaxRecords \in Nat /\ Len(file.rows) \in Nat
  BY FileTyped, OpTyped, AuditStoreAssumption DEF Inv, TypeOK, OpInv, Records
<1>1. ASSUME op.kind = "log", Within(file.rows, op.record - 1)
      PROVE  \A i \in DOMAIN file.rows : file.rows[i] < op.record
  <2>1. \A i \in 1..Len(file.rows) : file.rows[i] \in Records
    BY <1>0, ElementOfSeq
  <2>2. op.record \in Int /\ \A i \in 1..Len(file.rows) : file.rows[i] \in Int
    BY <1>0, <1>1, <2>1 DEF Records
  <2> QED
    BY <1>0, <1>1, <2>2 DEF Within
<1>2. CASE AppendRow
  <2>1. pc = "append" /\ file' = Appended(file, op.record) /\ ~damaged
    BY <1>2 DEF AppendRow, observer
  <2>2. Intact /\ op.kind = "log"
    BY <2>1 DEF IntactInv, Inv, OpInv
  <2>3. file'.rows = Append(file.rows, op.record) /\ file'.tenants = file.tenants
    BY <2>1, <2>2, FileTyped DEF Appended, Intact, Inv, FileType
  <2>4. Within(file.rows, op.record - 1) /\ Len(file.rows) < MaxRecords
    BY <1>0, <2>1, <2>2 DEF Inv, OrderInv, TypeOK
  <2>5. Log!Record(op.record)
    BY <1>1, <2>2, <2>3, <2>4 DEF Log!Record
  <2> QED
    BY <1>0, <2>2, <2>5 DEF Log!Next
<1>3. CASE Rename
  <2>1. /\ pc = "rename" /\ ~damaged /\ available
        /\ file' = [tenants |-> tenants, rows |-> requests, last |-> "whole"]
    BY <1>3 DEF Rename, observer, Inv, OpInv
  <2>2. file'.rows = requests /\ file'.tenants = tenants
    BY <2>1
  <2>3. Intact /\ op.kind \in {"log", "save"}
    BY <2>1 DEF IntactInv, Inv, OpInv
  <2>4. CASE op.kind = "log"
    <3>1. /\ requests = Append(Tail(file.rows), op.record)
          /\ Within(file.rows, op.record - 1) /\ Len(file.rows) = MaxRecords
      BY <2>1, <2>3, <2>4 DEF Intact
    <3>2. tenants = file.tenants
      BY <2>1, <2>4 DEF TenantInv, Saving
    <3>3. Log!Record(op.record)
      BY <1>0, <1>1, <2>2, <2>4, <3>1, <3>2 DEF Log!Record
    <3> QED
      BY <1>0, <2>4, <3>3 DEF Log!Next
  <2>5. CASE op.kind = "save"
    <3>1. requests = file.rows
      BY <2>1, <2>3, <2>5 DEF Intact
    <3>2. tenants = [file.tenants EXCEPT ![op.tenant] = op.new]
      BY <2>1, <2>5 DEF TenantInv, Saving
    <3>3. Log!Store(op.tenant, op.new)
      BY <2>2, <3>1, <3>2 DEF Log!Store
    <3> QED
      BY <1>0, <2>5, <3>3 DEF Log!Next
  <2> QED
    BY <2>3, <2>4, <2>5
<1>4. CASE Crash
  BY <1>4 DEF Crash
<1>5. CASE UNCHANGED file
  BY <1>5
<1> QED
  BY <1>2, <1>3, <1>4, <1>5
  DEF Next, LogRequest, SaveTenant, AppendFails, AppendFailsEarly, OpenFails,
      RewriteFails, RenameFails, GiveUp, WriteTemporary, Return, Restart, memory, observer

(* While no row was cut or lost, the memory, the file, its rewriting and   *)
(* the crashes implement BoundedLog: a record is there in one step or not  *)
(* at all, at the bound it replaces the oldest, and a tenant changes alone.*)
THEOREM ImplementsLog == Spec => ImplementsBoundedLog
<1>1. Init => Log!Init /\ TenantInv
  BY DEF Init, Log!Init, NoTenants, TenantInv, TenantsDurable, Saving, Idle
<1>2. Spec => []TenantInv
  BY <1>1, SpecInv, TenantStep, PTL DEF Spec
<1> QED
  BY <1>1, <1>2, SpecInv, SpecIntact, LogStep, PTL DEF Spec, ImplementsBoundedLog
=============================================================================
