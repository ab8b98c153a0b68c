----------------------------- MODULE AuditStore -----------------------------
(***************************************************************************)
(* The audit store (Database.h, Database.cpp): tenants and audit records   *)
(* in memory, mirrored in a text file, over faults of the file system and  *)
(* crashes of the process.  mutex_ is held through every operation, file   *)
(* access included, so one operation is in progress at a time; only a      *)
(* crash can come between its steps.                                       *)
(*                                                                         *)
(* A record is its number in the order of the calls.  Lines that           *)
(* loadFromFile skips are left out of the rows, except that the last line  *)
(* of the file may have no end.  promised, acked and damaged observe the   *)
(* store and are never read by it.                                         *)
(***************************************************************************)
EXTENDS Integers, Sequences, FiniteSets

CONSTANTS Tenants,      \* tenant ids
          Params,       \* what saveTenant stores for one
          NoTenant,     \* what the store says of a tenant it does not have
          MaxRecords,   \* maxAuditRecords
          MaxCalls,     \* the bound on the records logged
          Faults        \* the faults that happen, a subset of AllFaults

(* open: the file or the temporary file cannot be opened; append: the disk *)
(* is full when an appended row is written; rewrite, rename: the temporary *)
(* file cannot be written, or not moved into place; tear: a crash in the   *)
(* middle of an append leaves a part of the row.                           *)
AllFaults == {"open", "append", "rewrite", "rename", "tear"}

ASSUME AuditStoreAssumption ==
    /\ NoTenant \notin Params
    /\ MaxRecords \in Nat \ {0}
    /\ MaxCalls \in Nat
    /\ Faults \subseteq AllFaults

VARIABLES
    file,       \* its tenants, its request rows, and how its last line ends
    running,    \* whether the process is up
    available,  \* available_
    tenants,    \* tenants_
    requests,   \* requests_
    pc, op,     \* the step and the subject of the operation in progress
    promised,   \* what each tenant may be found to be after a crash
    acked,      \* the records whose logRequest returned true
    logged,     \* the records logged so far
    damaged     \* a row was cut or lost

memory   == <<available, tenants, requests>>
observer == <<promised, acked, logged, damaged>>
vars     == <<file, running, memory, pc, op, observer>>

Records == 1..MaxCalls
Stored  == [Tenants -> Params \cup {NoTenant}]
Idle    == [kind |-> "none"]

(* whole: with an end of line; open: the last row has none; scrap: behind  *)
(* the rows is a part of a row, without an end, that makes no record.      *)
LastLine == {"whole", "open", "scrap"}

TypeOK ==
    /\ file \in [tenants : Stored, rows : Seq(Records), last : LastLine]
    /\ running \in BOOLEAN
    /\ available \in BOOLEAN
    /\ tenants \in Stored
    /\ requests \in Seq(Records) /\ Len(requests) <= MaxRecords
    /\ pc \in {"idle", "append", "rewrite", "rename", "return"}
    /\ op \in {Idle} \cup [kind : {"log"}, record : Records]
                     \cup [kind : {"save"}, tenant : Tenants,
                           old : Params \cup {NoTenant}, new : Params \cup {NoTenant}]
    /\ promised \in [Tenants -> SUBSET (Params \cup {NoTenant})]
    /\ acked \subseteq Records
    /\ logged \in 0..MaxCalls
    /\ damaged \in BOOLEAN

NoTenants == [t \in Tenants |-> NoTenant]

(* The process starts on an empty file that it has just created. *)
Init ==
    /\ file = [tenants |-> NoTenants, rows |-> <<>>, last |-> "whole"]
    /\ running = TRUE
    /\ available = TRUE
    /\ tenants = NoTenants
    /\ requests = <<>>
    /\ pc = "idle"
    /\ op = Idle
    /\ promised = [t \in Tenants |-> {NoTenant}]
    /\ acked = {}
    /\ logged = 0
    /\ damaged = FALSE

-----------------------------------------------------------------------------
\* Seeded fault: compaction erases the newest records, not the oldest.
RecentOldest(s) == SubSeq(s, 1, IF Len(s) > MaxRecords THEN MaxRecords ELSE Len(s))

\* Seeded fault: nothing is ever erased.
RecentAll(s) == s

(* The records that retention keeps: the newest MaxRecords. *)
Recent(s) ==
    SubSeq(s, IF Len(s) > MaxRecords THEN Len(s) - MaxRecords + 1 ELSE 1, Len(s))

(* The rows without a last one that has no end: the next row runs into it, *)
(* and no line of two rows has the fields of one.                          *)
Settled(f) == IF f.last = "open" THEN SubSeq(f.rows, 1, Len(f.rows) - 1) ELSE f.rows

(* A row appended to the file. *)
Appended(f, n) ==
    [f EXCEPT !.rows = IF f.last = "whole" THEN Append(@, n) ELSE Settled(f),
              !.last = "whole"]

(* What a cut append leaves: nothing, or a row without an end, of which    *)
(* loadFromFile may or may not still make a record.  Behind a scrap it may *)
(* do so too, when both have five tabs between them: a record of fields of *)
(* either, which counts as the later one.                                  *)
AppendedInPart(f, n) ==
    {f, [f EXCEPT !.rows = Settled(f), !.last = "scrap"]} \cup
    (IF f.last = "open" THEN {} ELSE {[f EXCEPT !.rows = Append(@, n), !.last = "open"]})

Goto(step) == pc' = step

(* An operation gives up: available_ is cleared, and it returns false. *)
GiveUp ==
    /\ available' = FALSE
    /\ Goto("idle")
    /\ op' = Idle
    /\ promised' = IF op.kind = "save"
                     THEN [promised EXCEPT ![op.tenant] = {op.old}]
                     ELSE promised
    /\ UNCHANGED <<file, running, tenants, requests, acked, logged, damaged>>

-----------------------------------------------------------------------------
(* logRequest: the record is kept in memory first, and goes to the file as *)
(* a row of its own unless retention has to drop another.  On a store that *)
(* is not available every operation returns false and changes nothing.     *)
LogRequest ==
    /\ running /\ available /\ pc = "idle" /\ logged < MaxCalls
    /\ logged' = logged + 1
    /\ op' = [kind |-> "log", record |-> logged + 1]
    /\ requests' = Recent(Append(requests, logged + 1))
    /\ IF Len(requests) >= MaxRecords
         THEN Goto("rewrite")
         ELSE Goto("append")
    /\ UNCHANGED <<file, running, available, tenants, promised, acked, damaged>>

(* saveTenant, and deleteTenant when the new value is NoTenant. *)
SaveTenant ==
    /\ running /\ available /\ pc = "idle"
    /\ \E t \in Tenants, p \in Params \cup {NoTenant} :
          /\ op' = [kind |-> "save", tenant |-> t, old |-> tenants[t], new |-> p]
          /\ tenants' = [tenants EXCEPT ![t] = p]
          /\ promised' = [promised EXCEPT ![t] = @ \cup {p}]
    /\ Goto("rewrite")
    /\ UNCHANGED <<file, running, available, requests, acked, logged, damaged>>

(* appendRequestToFile: open, write, and the destructor's flush. *)
AppendRow ==
    /\ running /\ pc = "append"
    /\ file' = Appended(file, op.record)
    /\ Goto("return")
    /\ UNCHANGED <<running, memory, op, observer>>

(* The stream is asked for its state before the destructor flushes it, so  *)
(* a row that does not reach the disk is reported as written.              *)
AppendFails ==
    /\ running /\ pc = "append" /\ "append" \in Faults
    /\ file' \in AppendedInPart(file, op.record)
    /\ damaged' = TRUE
    /\ Goto("return")
    /\ UNCHANGED <<running, memory, op, promised, acked, logged>>

(* A row longer than the stream's buffer goes to the disk in pieces, and   *)
(* the failure of one before the last is seen.                             *)
AppendFailsEarly ==
    /\ running /\ pc = "append" /\ "append" \in Faults
    /\ file' \in AppendedInPart(file, op.record)
    /\ damaged' = TRUE
    /\ available' = FALSE
    /\ Goto("idle")
    /\ op' = Idle
    /\ UNCHANGED <<running, tenants, requests, promised, acked, logged>>

(* A failure the code sees: the file or the temporary file does not open,  *)
(* the temporary file cannot be written in full, or not be renamed.        *)
OpenFails    == running /\ pc \in {"append", "rewrite"} /\ "open" \in Faults /\ GiveUp
RewriteFails == running /\ pc = "rewrite" /\ "rewrite" \in Faults /\ GiveUp
RenameFails  == running /\ pc = "rename" /\ "rename" \in Faults /\ GiveUp

\* Seeded fault: the file itself is truncated and written, not a temporary.
WriteInPlace ==
    /\ running /\ pc = "rewrite"
    /\ file' = [tenants |-> NoTenants, rows |-> <<>>, last |-> "whole"]
    /\ Goto("rename")
    /\ UNCHANGED <<running, memory, op, observer>>

(* flushToFile writes the temporary file, which nothing ever reads ... *)
WriteTemporary ==
    /\ running /\ pc = "rewrite"
    /\ Goto("rename")
    /\ UNCHANGED <<file, running, memory, op, observer>>

\* Seeded fault: after a compaction the record is appended as well.
RenameThenAppend ==
    /\ running /\ pc = "rename"
    /\ file' = [tenants |-> tenants, rows |-> requests, last |-> "whole"]
    /\ Goto(IF op.kind = "log" THEN "append" ELSE "return")
    /\ UNCHANGED <<running, memory, op, observer>>

(* ... and moves it into place. *)
Rename ==
    /\ running /\ pc = "rename"
    /\ file' = [tenants |-> tenants, rows |-> requests, last |-> "whole"]
    /\ Goto("return")
    /\ UNCHANGED <<running, memory, op, observer>>

(* The operation returns true. *)
Return ==
    /\ running /\ pc = "return"
    /\ Goto("idle")
    /\ op' = Idle
    /\ IF op.kind = "log"
         THEN acked' = acked \cup {op.record} /\ UNCHANGED promised
         ELSE promised' = [promised EXCEPT ![op.tenant] = {op.new}] /\ UNCHANGED acked
    /\ UNCHANGED <<file, running, memory, logged, damaged>>

(* The process dies, perhaps in the middle of writing a row. *)
Crash ==
    /\ running
    /\ running' = FALSE
    /\ IF pc = "append" /\ "tear" \in Faults
         THEN file' \in AppendedInPart(file, op.record) /\ damaged' = TRUE
         ELSE UNCHANGED <<file, damaged>>
    /\ available' = FALSE
    /\ tenants' = NoTenants
    /\ requests' = <<>>
    /\ Goto("idle")
    /\ op' = Idle
    /\ UNCHANGED <<promised, acked, logged>>

(* A new process opens and loads the file; if it cannot, it carries on     *)
(* without a store.  A row without an end stays as it is.                  *)
Restart ==
    /\ ~running
    /\ running' = TRUE
    /\ \/ /\ available' = TRUE
          /\ tenants' = file.tenants
          /\ requests' = file.rows
       \/ "open" \in Faults /\ UNCHANGED memory
    /\ promised' = [t \in Tenants |-> {file.tenants[t]}]
    /\ UNCHANGED <<file, pc, op, acked, logged, damaged>>

Next ==
    \/ LogRequest \/ SaveTenant
    \/ AppendRow \/ AppendFails \/ AppendFailsEarly \/ OpenFails
    \/ WriteTemporary \/ RewriteFails \/ Rename \/ RenameFails
    \/ Return \/ Crash \/ Restart

Spec == Init /\ [][Next]_vars

-----------------------------------------------------------------------------
Newer(n) == {i \in DOMAIN file.rows : file.rows[i] > n}

(* TECHNICAL_ONBOARDING.md:702: audits survive a restart.  A record whose  *)
(* logRequest returned true is in the file, at any moment and so after any *)
(* crash, until MaxRecords newer ones have pushed it out.                  *)
AcknowledgedSurvive ==
    \A n \in acked :
        (\E i \in DOMAIN file.rows : file.rows[i] = n) \/ Cardinality(Newer(n)) >= MaxRecords

(* As long as no row was cut or lost it is so, whatever else fails.        *)
SurviveUnlessDamaged == ~damaged => AcknowledgedSurvive

(* Whatever is lost to faults and crashes, nothing is invented: what is    *)
(* read back are records that were logged, in their order, each once; only *)
(* of two rows cut one after the other may parts make up the later record. *)
NothingInvented ==
    \A i, j \in DOMAIN file.rows : i < j => file.rows[i] < file.rows[j]

(* A tenant is found after a crash as the last operation on it left it: as *)
(* it was saved or deleted if that returned true, as it was before if it   *)
(* returned false, and as either of the two if it never returned.          *)
TenantsDurable ==
    \A t \in Tenants : file.tenants[t] \in promised[t]

(* Until then the file is a log that changes only by whole operations.     *)
Log == INSTANCE BoundedLog WITH rows <- file.rows, stored <- file.tenants
ImplementsBoundedLog ==
    Log!Init /\ [][~damaged' => [Log!Next]_<<file.rows, file.tenants>>]_vars
=============================================================================
