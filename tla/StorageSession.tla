--------------------------- MODULE StorageSession ---------------------------
(***************************************************************************)
(* One RNMDB session shared by every repository (ariadnion-storage-rnmdb:  *)
(* session.rs, transaction.rs, identity_transaction.rs, the workers).  The *)
(* session has at most one active transaction and a flag that quarantines  *)
(* it.  Handles are callers with an explicit TransactionPort, which spans  *)
(* many lock acquisitions; jobs are tenant-scoped transactions that run    *)
(* inside one; readers look in between; the module may shut the session    *)
(* down.  Every operation re-checks the flag under the mutex, so each      *)
(* acquisition is one step.  An operation that is refused without changing *)
(* anything is not a step.                                                 *)
(*                                                                         *)
(* The database itself is external: each command returns success or an     *)
(* error, and leaves a transaction active or not, in any combination.      *)
(***************************************************************************)
EXTENDS Naturals

CONSTANTS
    Handles,     \* explicit transactions, one per caller
    Jobs,        \* tenant-scoped transactions run by workers
    NoOwner,
    MaxWrites,   \* statements a handle executes at most
    LateBegin    \* do callers still begin once the module is shutting down?

ASSUME SessionAssumption ==
    /\ NoOwner \notin Handles \cup Jobs
    /\ Handles \cap Jobs = {}
    /\ MaxWrites \in Nat
    /\ LateBegin \in BOOLEAN

VARIABLES
    tx,        \* who began the active transaction; NoOwner when there is none
    working,   \* writes of the active transaction
    durable,   \* committed writes
    tainted,   \* the owner's quarantine flag
    closing,   \* the module has been asked to shut the session down
    handle,    \* explicit transactions
    job        \* tenant-scoped transactions

vars == <<tx, working, durable, tainted, closing, handle, job>>

Owners == Handles \cup Jobs

\* The first n writes of an owner.
WritesOf(o, n) == {o} \X (1..n)

Result == {"None", "Committed", "RolledBack", "Dropped", "Cancelled", "Failed", "Indeterminate", "Integrity"}

Init ==
    /\ tx = NoOwner
    /\ working = {}
    /\ durable = {}
    /\ tainted = FALSE
    /\ closing = FALSE
    /\ handle = [h \in Handles |-> [pc |-> "Idle", writes |-> 0, result |-> "None"]]
    /\ job = [j \in Jobs |-> [pc |-> "Idle", result |-> "None"]]

InTransaction == tx # NoOwner

\* A command that ends the active transaction leaves no working writes.
End(ended) ==
    /\ tx' = IF ended THEN NoOwner ELSE tx
    /\ working' = IF ended THEN {} ELSE working

MayStart == LateBegin \/ ~closing

Becomes(h, pc, result) ==
    handle' = [handle EXCEPT ![h] = [pc |-> pc, writes |-> handle[h].writes, result |-> result]]

Finishes(j, pc, result) == job' = [job EXCEPT ![j] = [pc |-> pc, result |-> result]]

-----------------------------------------------------------------------------
(* Explicit transactions.                                                  *)

\* Mutant: a begin inside an active transaction joins it.
BeginJoining(h) ==
    /\ handle[h].pc = "Idle" /\ MayStart
    /\ ~tainted
    /\ tx' = IF InTransaction THEN tx ELSE h
    /\ Becomes(h, "Open", "None")
    /\ UNCHANGED <<working, durable, tainted, closing, job>>

\* BEGIN, refused with Conflict while a transaction is active.  When the
\* answer and the session disagree the session is quarantined, after an
\* attempt to roll back what BEGIN left.
Begin(h) ==
    /\ handle[h].pc = "Idle" /\ MayStart
    /\ ~tainted /\ ~InTransaction
    /\ \E ok, active, left \in BOOLEAN :
        /\ ok => left = active
        /\ left => active
        /\ tx' = IF left THEN h ELSE NoOwner
        /\ tainted' = (ok # active)
        /\ IF ok /\ active
           THEN Becomes(h, "Open", "None")
           ELSE handle' = handle
    /\ UNCHANGED <<working, durable, closing, job>>

\* A repository operation inside the caller's transaction.  It checks that
\* the session has a transaction, not which one.
Write(h) ==
    /\ handle[h].pc = "Open" /\ handle[h].writes < MaxWrites
    /\ ~tainted /\ InTransaction
    /\ working' = working \cup {<<h, handle[h].writes + 1>>}
    /\ handle' = [handle EXCEPT ![h] = [pc |-> "Open", writes |-> handle[h].writes + 1, result |-> "None"]]
    /\ UNCHANGED <<tx, durable, tainted, closing, job>>

\* commit and rollback consume the handle; on any error it is dropped next.
Refused(h) ==
    /\ handle[h].pc = "Open"
    /\ \/ Becomes(h, "Dropping", "Cancelled")
       \/ tainted /\ Becomes(h, "Dropping", "Integrity")
    /\ UNCHANGED <<tx, working, durable, tainted, closing, job>>

\* Mutant: a failed COMMIT is reported like a rolled back one.
CommitErrorIsDefinitive(h) ==
    /\ handle[h].pc = "Open" /\ ~tainted /\ InTransaction
    /\ \E ok \in BOOLEAN :
        /\ End(TRUE)
        /\ durable' \in {durable \cup working} \cup (IF ok THEN {} ELSE {durable})
        /\ tainted' = ~ok
        /\ Becomes(h, "Done", IF ok THEN "Committed" ELSE "RolledBack")
    /\ UNCHANGED <<closing, job>>

\* Mutant: a failed COMMIT leaves the session in use.
CommitWithoutTaint(h) ==
    /\ handle[h].pc = "Open" /\ ~tainted /\ InTransaction
    /\ \E ok \in BOOLEAN :
        /\ End(TRUE)
        /\ durable' \in {durable \cup working} \cup (IF ok THEN {} ELSE {durable})
        /\ Becomes(h, IF ok THEN "Done" ELSE "Dropping", IF ok THEN "Committed" ELSE "Indeterminate")
    /\ UNCHANGED <<tainted, closing, job>>

Commit(h) ==
    /\ handle[h].pc = "Open" /\ ~tainted
    /\ \E ok, ended \in BOOLEAN :
        /\ ok \/ ended => InTransaction
        /\ End(ended)
        /\ durable' \in {durable \cup working} \cup (IF ok /\ ended THEN {} ELSE {durable})
        /\ ~ended => durable' = durable
        /\ tainted' = (~ok \/ ~ended)
        /\ IF ok /\ ended THEN Becomes(h, "Done", "Committed")
           ELSE Becomes(h, "Dropping", IF ok THEN "Integrity" ELSE "Indeterminate")
    /\ UNCHANGED <<closing, job>>

Rollback(h) ==
    /\ handle[h].pc = "Open" /\ ~tainted
    /\ \E ok, ended \in BOOLEAN :
        /\ ok \/ ended => InTransaction
        /\ End(ended)
        /\ tainted' = (~ok \/ ~ended)
        /\ IF ok /\ ended THEN Becomes(h, "Done", "RolledBack")
           ELSE Becomes(h, "Dropping", "Integrity")
    /\ UNCHANGED <<durable, closing, job>>

\* Dropping an unfinished handle rolls back, quarantined or not.
Drop(h) ==
    /\ handle[h].pc \in {"Open", "Dropping"}
    /\ Becomes(h, "Done", IF handle[h].pc = "Open" THEN "Dropped" ELSE handle[h].result)
    /\ \/ ~InTransaction /\ UNCHANGED <<tx, working, tainted>>
       \/ InTransaction /\ \E ok, ended \in BOOLEAN :
            End(ended) /\ tainted' = (tainted \/ ~ok \/ ~ended)
    /\ UNCHANGED <<durable, closing, job>>

-----------------------------------------------------------------------------
(* Tenant-scoped transactions: BEGIN to COMMIT under one lock.             *)

CanRun(j) == job[j].pc = "Idle" /\ MayStart /\ ~tainted /\ ~InTransaction

\* Cancelled, refused by BEGIN or rolled back: the error is definitive.  A
\* tenant scope that fails to open or to close hides it.
JobFails(j) ==
    /\ CanRun(j)
    /\ \E result \in {"Failed", "Integrity"} : Finishes(j, "Done", result)
    /\ UNCHANGED <<tx, working, durable, tainted, closing, handle>>

\* The tenant scope may fail to close after the commit: the caller is told of
\* an integrity failure, and the session is not quarantined.
JobCommits(j) ==
    /\ CanRun(j)
    /\ durable' = durable \cup WritesOf(j, 1)
    /\ \E result \in {"Committed", "Integrity"} : Finishes(j, "Done", result)
    /\ UNCHANGED <<tx, working, tainted, closing, handle>>

\* A failed COMMIT is indeterminate; a command that left the transaction in
\* the wrong state is an integrity failure.  Both quarantine the session.
JobTaints(j) ==
    /\ CanRun(j)
    /\ tainted' = TRUE
    /\ \/ /\ \E result \in {"Indeterminate", "Integrity"} : Finishes(j, "Done", result)
          /\ durable' \in {durable, durable \cup WritesOf(j, 1)}
          /\ UNCHANGED <<tx, working>>
       \/ /\ Finishes(j, "Done", "Integrity")
          /\ \E left \in BOOLEAN :
              /\ tx' = IF left THEN j ELSE NoOwner
              /\ working' = IF left THEN WritesOf(j, 1) ELSE {}
          /\ UNCHANGED durable
    /\ UNCHANGED <<closing, handle>>

\* A panic unwinds out of the lock, inside the transaction or before or after
\* it; the worker catches it, sets the flag without the lock, and rolls back
\* with it whatever transaction is active by then.
JobPanics(j) ==
    /\ CanRun(j)
    /\ Finishes(j, "Panicked", "None")
    /\ \/ tx' = j /\ working' = WritesOf(j, 1) /\ UNCHANGED durable
       \/ durable' \in {durable, durable \cup WritesOf(j, 1)} /\ UNCHANGED <<tx, working>>
    /\ UNCHANGED <<tainted, closing, handle>>

QuarantineMark(j) ==
    /\ job[j].pc = "Panicked"
    /\ tainted' = TRUE
    /\ Finishes(j, "Marked", "None")
    /\ UNCHANGED <<tx, working, durable, closing, handle>>

QuarantineRollback(j) ==
    /\ job[j].pc = "Marked"
    /\ Finishes(j, "Done", "Integrity")
    /\ \/ ~InTransaction /\ UNCHANGED <<tx, working>>
       \/ InTransaction /\ \E ended \in BOOLEAN : End(ended)
    /\ UNCHANGED <<durable, tainted, closing, handle>>

-----------------------------------------------------------------------------
\* A tenant-scoped read that ends inside someone's transaction quarantines the
\* session; one outside of any changes nothing.
Read ==
    /\ ~tainted /\ InTransaction
    /\ tainted' = TRUE
    /\ UNCHANGED <<tx, working, durable, closing, handle, job>>

\* Shutdown rolls the active transaction back, whoever began it.  It may then
\* still fail at its deadline or at the checkpoint, and be called again.
Shutdown ==
    /\ ~tainted
    /\ closing' = TRUE
    /\ \/ ~InTransaction /\ UNCHANGED <<tx, working, tainted>>
       \/ InTransaction /\ \E ok, ended \in BOOLEAN :
            End(ended) /\ tainted' = (~ok \/ ~ended)
    /\ UNCHANGED <<durable, handle, job>>

Next ==
    \/ \E h \in Handles : Begin(h) \/ Write(h) \/ Refused(h) \/ Commit(h) \/ Rollback(h) \/ Drop(h)
    \/ \E j \in Jobs : JobFails(j) \/ JobCommits(j) \/ JobTaints(j) \/ JobPanics(j)
                       \/ QuarantineMark(j) \/ QuarantineRollback(j)
    \/ Read \/ Shutdown

Spec == Init /\ [][Next]_vars

-----------------------------------------------------------------------------
(* Properties.                                                             *)

HandlesTyped ==
    /\ handle \in [Handles -> [pc : {"Idle", "Open", "Dropping", "Done"}, writes : 0..MaxWrites, result : Result]]
    /\ \A h \in Handles : handle[h].result = "None" <=> handle[h].pc \in {"Idle", "Open"}

JobsTyped ==
    /\ job \in [Jobs -> [pc : {"Idle", "Panicked", "Marked", "Done"}, result : Result]]
    /\ \A j \in Jobs : job[j].result = "None" <=> job[j].pc # "Done"

\* The session, its callers and jobs are well formed.
TypeOK ==
    /\ tx \in Owners \cup {NoOwner}
    /\ working \subseteq Owners \X Nat
    /\ durable \subseteq Owners \X Nat
    /\ tainted \in BOOLEAN /\ closing \in BOOLEAN
    /\ HandlesTyped /\ JobsTyped

Durable(o) == {w \in durable : w[1] = o}

\* A commit receipt is evidence of a durable commit of all the caller's writes.
ReceiptIsDurable ==
    \A h \in Handles : handle[h].result = "Committed" => Durable(h) = WritesOf(h, handle[h].writes)

\* The answer a caller gets agrees with the database: a commit receipt means
\* that all of its writes are durable, a definitive error that none is, and
\* even in doubt it is all or none.
AnswersAreTrue ==
    /\ ReceiptIsDurable
    /\ \A h \in Handles :
        /\ Durable(h) \in {{}, WritesOf(h, handle[h].writes)}
        /\ handle[h].result \in {"None", "RolledBack", "Dropped", "Cancelled"} => Durable(h) = {}
    /\ \A j \in Jobs :
        /\ job[j].result = "Committed" => Durable(j) = WritesOf(j, 1)
        /\ job[j].pc = "Idle" \/ job[j].result = "Failed" => Durable(j) = {}

\* Nobody writes into a transaction that somebody else began, although
\* repositories only check that some transaction of the session is active.
OwnWritesOnly == \A w \in working : w[1] = tx

\* The session is never wedged by a transaction that nobody will end: every
\* begin would be refused with Conflict for ever, and no reopen is asked for.
NoOrphanTransaction ==
    InTransaction /\ ~tainted =>
        \/ tx \in Handles /\ handle[tx].pc \in {"Open", "Dropping"}
        \/ tx \in Jobs /\ job[tx].pc = "Panicked"

\* A transaction of the session holds the writes of one owner, who will end it.
TransactionsHaveOneOwner == OwnWritesOnly /\ NoOrphanTransaction

InDoubt ==
    \/ \E h \in Handles : handle[h].result = "Indeterminate"
    \/ \E j \in Jobs : job[j].result = "Indeterminate"

\* A commit whose outcome is unknown quarantines the session.
DoubtQuarantines == InDoubt => tainted

\* Once the flag is set, nothing reaches the database until it is reopened: no
\* transaction starts and nothing becomes durable.
QuarantineIsFinal ==
    [][tainted => tainted' /\ durable' = durable /\ tx' \in {tx, NoOwner}]_vars

\* Once some caller was told that the outcome of its commit is unknown, no
\* transaction starts and nothing more becomes durable on top of a state that
\* nobody knows.
NothingAfterDoubt ==
    [][InDoubt => durable' = durable /\ tx' \in {tx, NoOwner}]_vars

=============================================================================
