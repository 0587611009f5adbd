---------------------------- MODULE StorageProofs ----------------------------
(***************************************************************************)
(* The storage session, the outbox on top of it, the local asset volume    *)
(* and the file catalogue, for any number of callers, jobs, writes,        *)
(* messages, workers, tokens, failing calls, power losses and files.       *)
(*                                                                         *)
(* StorageSession: whatever the database answers, as long as nothing       *)
(* begins on a session that is shutting down, callers get true answers,    *)
(* transactions hold their owner's writes only, and no transaction         *)
(* outlives its owner on a session that is in use.                         *)
(*                                                                         *)
(* Outbox: a message is stored once, leased to one worker at a time and    *)
(* settled once per lease.  The committed table and the one an open        *)
(* transaction sees satisfy the same invariant, so that it does not matter *)
(* which of the two a COMMIT in doubt leaves behind.                       *)
(*                                                                         *)
(* AssetVolume: what is promised holds of the volume as seen and as        *)
(* synchronised, so that it does not matter which of the two a power loss  *)
(* leaves of each directory.  A step touches one stage and takes back      *)
(* nothing that is published (Touches); what an operation knows at each of *)
(* its calls (CommitAt, QuarantineAt) gives what its stage needs.          *)
(*                                                                         *)
(* FileCatalog: an operation commits to its request and its file, the      *)
(* reference of an upload is its own, and a page continues the list.       *)
(***************************************************************************)
EXTENDS StorageSession, Outbox, AssetVolume, FileCatalog, FiniteSums

\* A live handle owns the active transaction of a session in use, unless the
\* session is closing and has none.
HandlesOwn ==
    \A h \in Handles : handle[h].pc \in {"Open", "Dropping"} /\ ~tainted =>
        tx = h \/ (closing /\ tx = NoOwner)

\* The active transaction of an open handle has all that the handle wrote.
NothingLost ==
    \A h \in Handles : handle[h].pc = "Open" /\ ~tainted /\ tx = h =>
        working = WritesOf(h, handle[h].writes)

\* What has not begun has written nothing; no transaction, no pending writes;
\* the flag is set before a panicked job rolls back.
QuietParts ==
    /\ \A h \in Handles : handle[h].pc = "Idle" => handle[h].writes = 0
    /\ tx = NoOwner => working = {}
    /\ \A j \in Jobs : job[j].pc = "Marked" => tainted

IInv ==
    /\ TypeOK /\ AnswersAreTrue /\ OwnWritesOnly /\ NoOrphanTransaction
    /\ DoubtQuarantines /\ HandlesOwn /\ NothingLost /\ QuietParts

\* Writes of an owner.
LEMMA WritesFacts ==
    ASSUME NEW o, NEW n \in Nat
    PROVE  /\ \A w \in WritesOf(o, n) : w[1] = o
           /\ o \in Owners => WritesOf(o, n) \subseteq Owners \X Nat
           /\ WritesOf(o, n + 1) = WritesOf(o, n) \cup {<<o, n + 1>>}
           /\ WritesOf(o, 0) = {}
<1>1. 1..(n + 1) = (1..n) \cup {n + 1}
  OBVIOUS
<1>2. 1..0 = {}
  OBVIOUS
<1> QED BY <1>1, <1>2 DEF WritesOf

\* Committing the writes of one owner leaves the others' alone.
LEMMA DurableFacts ==
    ASSUME NEW o, NEW W, \A w \in W : w[1] = o, durable' = durable \cup W
    PROVE  /\ Durable(o)' = Durable(o) \cup W
           /\ \A p : p # o => Durable(p)' = Durable(p)
BY DEF Durable

\* The initial state.
LEMMA InitHolds == Init => IInv
<1> SUFFICES ASSUME Init PROVE IInv
  OBVIOUS
<1>1. \A o : WritesOf(o, 0) = {}
  BY WritesFacts
<1>2. TypeOK
  <2>1. HandlesTyped
    BY SessionAssumption DEF Init, Result, HandlesTyped
  <2>2. JobsTyped
    BY DEF Init, Result, JobsTyped
  <2>3. /\ tx \in Owners \cup {NoOwner}
        /\ working \subseteq Owners \X Nat
        /\ durable \subseteq Owners \X Nat
    BY DEF Init
  <2>4. tainted \in BOOLEAN /\ closing \in BOOLEAN
    BY Zenon DEF Init
  <2> QED BY <2>1, <2>2, <2>3, <2>4 DEF TypeOK
<1>3. AnswersAreTrue
  BY <1>1 DEF Init, AnswersAreTrue, ReceiptIsDurable, Durable
<1> QED BY <1>2, <1>3
  DEF Init, IInv, OwnWritesOnly, NoOrphanTransaction, DoubtQuarantines, InDoubt, HandlesOwn, NothingLost, QuietParts,
      InTransaction

\* One handle moves.
LEMMA HandleMoves ==
    ASSUME IInv, NEW h \in Handles, NEW pc \in {"Idle", "Open", "Dropping", "Done"}, NEW n \in 0..MaxWrites,
           NEW result \in Result, result = "None" <=> pc \in {"Idle", "Open"},
           handle' = [handle EXCEPT ![h] = [pc |-> pc, writes |-> n, result |-> result]]
    PROVE  /\ HandlesTyped'
           /\ handle'[h] = [pc |-> pc, writes |-> n, result |-> result]
           /\ \A g \in Handles : g # h => handle'[g] = handle[g]
BY DEF IInv, TypeOK, HandlesTyped

\* A step that commits nothing and changes no answer but to one that promises
\* nothing keeps every answer true.
LEMMA AnswersStay ==
    ASSUME IInv, durable' = durable,
           \A h \in Handles : \/ handle'[h] = handle[h]
                              \/ /\ Durable(h) = {}
                                 /\ handle'[h].result # "Committed"
                              \/ /\ handle'[h].writes = handle[h].writes
                                 /\ handle'[h].result \in {"Integrity", handle[h].result},
           \A j \in Jobs : \/ job'[j] = job[j]
                           \/ /\ job'[j].pc # "Idle" /\ job'[j].result # "Committed"
                              /\ Durable(j) = {} \/ job'[j].result # "Failed"
    PROVE  AnswersAreTrue'
<1>1. \A o : Durable(o)' = Durable(o)
  BY DEF Durable
<1> QED BY <1>1 DEF IInv, AnswersAreTrue, ReceiptIsDurable

\* What a handle that has not finished knows of the session.
LEMMA IdleFacts ==
    ASSUME IInv, NEW h \in Handles
    PROVE  /\ handle[h].pc \in {"Idle", "Open"} => Durable(h) = {} /\ handle[h].result = "None"
           /\ handle[h].pc = "Idle" => handle[h].writes = 0
           /\ handle[h].writes \in 0..MaxWrites /\ handle[h].writes \in Nat
           /\ handle[h].result \in Result
           /\ h # NoOwner
BY SessionAssumption DEF IInv, TypeOK, HandlesTyped, AnswersAreTrue, QuietParts

\* Begin.
LEMMA BeginKeeps ==
    ASSUME IInv, NEW h \in Handles, Begin(h), ~LateBegin
    PROVE  IInv'
<1>1. PICK ok \in BOOLEAN, active \in BOOLEAN, left \in BOOLEAN :
        /\ ok => left = active
        /\ left => active
        /\ tx' = IF left THEN h ELSE NoOwner
        /\ tainted' = (ok # active)
        /\ IF ok /\ active THEN Becomes(h, "Open", "None") ELSE handle' = handle
  BY DEF Begin
<1>2. /\ handle[h].pc = "Idle" /\ ~closing /\ ~tainted /\ tx = NoOwner
      /\ working' = working /\ durable' = durable /\ closing' = closing /\ job' = job
      /\ working = {} /\ handle[h].writes = 0 /\ Durable(h) = {}
  BY IdleFacts DEF Begin, MayStart, InTransaction, IInv, QuietParts
<1>3. \A g \in Handles : handle[g].pc \notin {"Open", "Dropping"}
  BY <1>2, SessionAssumption DEF IInv, HandlesOwn
<1>4. /\ HandlesTyped'
      /\ \A g \in Handles : g # h => handle'[g] = handle[g]
      /\ ok /\ active => handle'[h] = [pc |-> "Open", writes |-> 0, result |-> "None"]
      /\ ~(ok /\ active) => handle'[h] = handle[h]
  <2>1. CASE ok /\ active
    BY <1>1, <1>2, <2>1, HandleMoves, IdleFacts DEF Becomes, Result
  <2>2. CASE ~(ok /\ active)
    BY <1>1, <2>2 DEF IInv, TypeOK, HandlesTyped
  <2> QED BY <2>1, <2>2
<1>5. TypeOK'
  <2>1. tainted' \in BOOLEAN /\ closing' \in BOOLEAN
    BY <1>1, <1>2, Zenon DEF IInv, TypeOK
  <2>2. JobsTyped'
    BY <1>2 DEF IInv, TypeOK, JobsTyped
  <2> QED BY <1>1, <1>2, <1>4, <2>1, <2>2 DEF IInv, TypeOK, Owners
<1>6. AnswersAreTrue'
  BY <1>2, <1>4, AnswersStay
<1>7. OwnWritesOnly' /\ QuietParts'
  BY <1>1, <1>2, <1>4 DEF OwnWritesOnly, QuietParts, IInv
<1>8. NoOrphanTransaction'
  BY <1>1, <1>2, <1>4, SessionAssumption DEF NoOrphanTransaction, InTransaction
<1>9. HandlesOwn'
  BY <1>1, <1>2, <1>3, <1>4 DEF HandlesOwn
<1>10. NothingLost'
  BY <1>1, <1>2, <1>3, <1>4, WritesFacts DEF NothingLost
<1>11. DoubtQuarantines'
  BY <1>1, <1>2, <1>4 DEF IInv, DoubtQuarantines, InDoubt
<1> QED BY <1>5, <1>6, <1>7, <1>8, <1>9, <1>10, <1>11 DEF IInv

\* A write.
LEMMA WriteKeeps ==
    ASSUME IInv, NEW h \in Handles, Write(h)
    PROVE  IInv'
<1> DEFINE n == handle[h].writes
<1>1. /\ handle[h].pc = "Open" /\ n + 1 \in 0..MaxWrites /\ n \in Nat
      /\ ~tainted /\ tx = h
      /\ Durable(h) = {}
  BY IdleFacts, SessionAssumption DEF Write, InTransaction, IInv, HandlesOwn
<1>2. /\ working' = WritesOf(h, n + 1)
      /\ UNCHANGED <<tx, durable, tainted, closing, job>>
  BY <1>1, WritesFacts DEF Write, IInv, NothingLost
<1>3. /\ HandlesTyped'
      /\ handle'[h] = [pc |-> "Open", writes |-> n + 1, result |-> "None"]
      /\ \A g \in Handles : g # h => handle'[g] = handle[g]
  BY <1>1, HandleMoves DEF Write, Result
<1>4. TypeOK'
  <2>1. tainted' \in BOOLEAN /\ closing' \in BOOLEAN
    BY <1>2, Zenon DEF IInv, TypeOK
  <2>2. JobsTyped'
    BY <1>2 DEF IInv, TypeOK, JobsTyped
  <2>3. WritesOf(h, n + 1) \subseteq Owners \X Nat
    BY <1>1, WritesFacts DEF Owners
  <2> QED BY <1>2, <1>3, <2>1, <2>2, <2>3 DEF IInv, TypeOK
<1>5. AnswersAreTrue'
  BY <1>1, <1>2, <1>3, AnswersStay
<1>6. OwnWritesOnly' /\ QuietParts'
  BY <1>1, <1>2, <1>3, WritesFacts, IdleFacts DEF OwnWritesOnly, QuietParts, IInv
<1>7. NoOrphanTransaction' /\ HandlesOwn'
  BY <1>1, <1>2, <1>3 DEF NoOrphanTransaction, InTransaction, HandlesOwn, IInv
<1>8. NothingLost'
  BY <1>1, <1>2, <1>3 DEF NothingLost
<1>9. DoubtQuarantines'
  BY <1>1, <1>2, <1>3 DEF IInv, DoubtQuarantines, InDoubt
<1> QED BY <1>4, <1>5, <1>6, <1>7, <1>8, <1>9 DEF IInv

\* One handle gets its answer.
LEMMA HandleBecomes ==
    ASSUME IInv, NEW h \in Handles, NEW pc \in {"Dropping", "Done"}, NEW result \in Result \ {"None"},
           Becomes(h, pc, result)
    PROVE  /\ HandlesTyped'
           /\ handle'[h] = [pc |-> pc, writes |-> handle[h].writes, result |-> result]
           /\ \A g \in Handles : g # h => handle'[g] = handle[g]
<1>1. /\ handle[h].writes \in 0..MaxWrites
      /\ result \in Result /\ pc \in {"Idle", "Open", "Dropping", "Done"}
      /\ result = "None" <=> pc \in {"Idle", "Open"}
  BY IdleFacts
<1>2. handle' = [handle EXCEPT ![h] = [pc |-> pc, writes |-> handle[h].writes, result |-> result]]
  BY DEF Becomes
<1> QED BY <1>1, <1>2 DEF IInv, TypeOK, HandlesTyped

\* A refused commit or rollback.
LEMMA RefusedKeeps ==
    ASSUME IInv, NEW h \in Handles, Refused(h)
    PROVE  IInv'
<1>1. PICK result \in {"Cancelled", "Integrity"} : Becomes(h, "Dropping", result)
  BY DEF Refused
<1>2. /\ handle[h].pc = "Open" /\ UNCHANGED <<tx, working, durable, tainted, closing, job>>
      /\ Durable(h) = {}
  BY IdleFacts DEF Refused
<1>3. /\ HandlesTyped'
      /\ handle'[h] = [pc |-> "Dropping", writes |-> handle[h].writes, result |-> result]
      /\ \A g \in Handles : g # h => handle'[g] = handle[g]
  BY <1>1, HandleBecomes DEF Result
<1>4. TypeOK'
  <2>1. tainted' \in BOOLEAN /\ closing' \in BOOLEAN
    BY <1>2, Zenon DEF IInv, TypeOK
  <2>2. JobsTyped'
    BY <1>2 DEF IInv, TypeOK, JobsTyped
  <2> QED BY <1>2, <1>3, <2>1, <2>2 DEF IInv, TypeOK
<1>5. AnswersAreTrue'
  BY <1>2, <1>3, AnswersStay
<1>6. OwnWritesOnly' /\ QuietParts' /\ NothingLost'
  BY <1>2, <1>3 DEF OwnWritesOnly, QuietParts, NothingLost, IInv
<1>7. NoOrphanTransaction' /\ HandlesOwn'
  BY <1>2, <1>3 DEF NoOrphanTransaction, InTransaction, HandlesOwn, IInv
<1>8. DoubtQuarantines'
  BY <1>2, <1>3 DEF IInv, DoubtQuarantines, InDoubt
<1> QED BY <1>4, <1>5, <1>6, <1>7, <1>8 DEF IInv

\* A commit that reaches the database.
LEMMA CommitKeeps ==
    ASSUME IInv, NEW h \in Handles, Commit(h)
    PROVE  IInv'
<1> DEFINE all == WritesOf(h, handle[h].writes)
<1>1. /\ handle[h].pc = "Open" /\ ~tainted /\ UNCHANGED <<closing, job>>
      /\ Durable(h) = {}
      /\ tx = h => working = all
      /\ tx = h \/ tx = NoOwner
  BY IdleFacts DEF Commit, IInv, NothingLost, HandlesOwn
<1>2. \/ /\ ~tainted' /\ tx' = NoOwner /\ working' = {}
         /\ durable' = durable \cup working /\ tx # NoOwner
         /\ Becomes(h, "Done", "Committed")
      \/ /\ tainted'
         /\ (tx' = tx /\ working' = working) \/ (tx' = NoOwner /\ working' = {})
         /\ durable' = durable \/ (durable' = durable \cup working /\ tx # NoOwner)
         /\ Becomes(h, "Dropping", "Integrity") \/ Becomes(h, "Dropping", "Indeterminate")
  <2>1. PICK ok \in BOOLEAN, ended \in BOOLEAN :
        /\ ok \/ ended => InTransaction
        /\ End(ended)
        /\ durable' \in {durable \cup working} \cup (IF ok /\ ended THEN {} ELSE {durable})
        /\ ~ended => durable' = durable
        /\ tainted' = (~ok \/ ~ended)
        /\ IF ok /\ ended THEN Becomes(h, "Done", "Committed")
           ELSE Becomes(h, "Dropping", IF ok THEN "Integrity" ELSE "Indeterminate")
    BY DEF Commit
  <2>2. CASE ok = TRUE /\ ended = TRUE
    BY <2>1, <2>2 DEF End, InTransaction, Becomes
  <2>3. CASE ok = TRUE /\ ended = FALSE
    BY <2>1, <2>3 DEF End, InTransaction, Becomes
  <2>4. CASE ok = FALSE /\ ended = TRUE
    BY <2>1, <2>4 DEF End, InTransaction, Becomes
  <2>5. CASE ok = FALSE /\ ended = FALSE
    BY <2>1, <2>5 DEF End, InTransaction, Becomes
  <2> QED BY <2>2, <2>3, <2>4, <2>5
<1>3. PICK result \in {"Committed", "Integrity", "Indeterminate"}, pc \in {"Done", "Dropping"} :
        /\ Becomes(h, pc, result)
        /\ result = "Committed" <=> ~tainted'
        /\ pc = "Done" <=> ~tainted'
  BY <1>2
<1>4. /\ HandlesTyped'
      /\ handle'[h] = [pc |-> pc, writes |-> handle[h].writes, result |-> result]
      /\ \A g \in Handles : g # h => handle'[g] = handle[g]
  BY <1>3, HandleBecomes DEF Result
<1>5. TypeOK'
  <2>1. tainted' \in BOOLEAN /\ closing' \in BOOLEAN
    BY <1>1, Zenon DEF IInv, TypeOK, Commit
  <2>2. JobsTyped'
    BY <1>1 DEF IInv, TypeOK, JobsTyped
  <2> QED BY <1>2, <1>4, <2>1, <2>2 DEF IInv, TypeOK
<1>6. AnswersAreTrue'
  <2>1. CASE durable' = durable /\ tainted'
    BY <1>1, <1>3, <1>4, <2>1, AnswersStay
  <2>2. CASE durable' = durable \cup working /\ tx # NoOwner
    <3>1. working = all /\ handle[h].writes \in Nat
      BY <1>1, <2>2, IdleFacts
    <3>2. \A w \in working : w[1] = h
      BY <3>1, WritesFacts
    <3>3. /\ Durable(h)' = all
          /\ \A o : o # h => Durable(o)' = Durable(o)
      BY <1>1, <2>2, <3>1, <3>2, DurableFacts
    <3>4. \A j \in Jobs : j # h
      BY SessionAssumption
    <3>5. handle'[h].writes = handle[h].writes /\ handle'[h].result = result
      BY <1>4
    <3> QED BY <1>1, <1>4, <3>3, <3>4, <3>5 DEF IInv, AnswersAreTrue, ReceiptIsDurable
  <2> QED BY <1>2, <2>1, <2>2
<1>7. OwnWritesOnly' /\ QuietParts' /\ NothingLost'
  <2>1. (tx' = tx /\ working' = working) \/ (tx' = NoOwner /\ working' = {})
    BY <1>2
  <2>2. OwnWritesOnly'
    BY <2>1 DEF OwnWritesOnly, IInv
  <2>3. QuietParts'
    BY <1>1, <1>4, <2>1 DEF QuietParts, IInv
  <2>4. NothingLost'
    BY <1>1, <1>3, <1>4, <2>1, SessionAssumption DEF NothingLost, IInv
  <2> QED BY <2>2, <2>3, <2>4
<1>8. NoOrphanTransaction' /\ HandlesOwn'
  BY <1>1, <1>2, <1>3, <1>4, SessionAssumption DEF NoOrphanTransaction, InTransaction, HandlesOwn, IInv
<1>9. DoubtQuarantines'
  BY <1>1, <1>3, <1>4 DEF IInv, DoubtQuarantines, InDoubt
<1> QED BY <1>5, <1>6, <1>7, <1>8, <1>9 DEF IInv

\* A live handle ends, and with it its transaction unless the session is
\* quarantined.
LEMMA HandleEnds ==
    ASSUME IInv, NEW h \in Handles, NEW pc \in {"Dropping", "Done"}, NEW result \in Result \ {"None"},
           handle[h].pc \in {"Open", "Dropping"},
           \/ handle[h].pc = "Open" /\ result \in {"RolledBack", "Integrity", "Dropped"}
           \/ handle[h].pc = "Dropping" /\ result = handle[h].result,
           Becomes(h, pc, result),
           (tx' = tx /\ working' = working) \/ (tx' = NoOwner /\ working' = {}),
           tainted' \in BOOLEAN, tainted => tainted', tainted' \/ (tx' = NoOwner /\ pc = "Done"),
           UNCHANGED <<durable, closing, job>>
    PROVE  IInv'
<1>1. /\ HandlesTyped'
      /\ handle'[h] = [pc |-> pc, writes |-> handle[h].writes, result |-> result]
      /\ \A g \in Handles : g # h => handle'[g] = handle[g]
  BY HandleBecomes
<1>2. TypeOK'
  <2>1. tainted' \in BOOLEAN /\ closing' \in BOOLEAN
    BY Zenon DEF IInv, TypeOK
  <2>2. JobsTyped'
    BY DEF IInv, TypeOK, JobsTyped
  <2> QED BY <1>1, <2>1, <2>2 DEF IInv, TypeOK
<1>3. AnswersAreTrue'
  <2>1. Durable(h) = {} \/ result = handle[h].result
    BY IdleFacts
  <2>2. result # "Committed" \/ result = handle[h].result
    OBVIOUS
  <2> QED BY <1>1, <2>1, <2>2, AnswersStay
<1>4. OwnWritesOnly'
  BY DEF OwnWritesOnly, IInv
<1>5. QuietParts'
  BY <1>1 DEF QuietParts, IInv
<1>6. NothingLost'
  BY <1>1, SessionAssumption DEF NothingLost, IInv
<1>7. NoOrphanTransaction'
  BY <1>1 DEF NoOrphanTransaction, InTransaction
<1>8. HandlesOwn'
  BY <1>1, SessionAssumption DEF HandlesOwn, IInv
<1>9. DoubtQuarantines'
  <2>1. result = "Indeterminate" => handle[h].result = "Indeterminate"
    OBVIOUS
  <2>2. \A g \in Handles : handle'[g].result = "Indeterminate" => handle[g].result = "Indeterminate"
    BY <1>1, <2>1
  <2> QED BY <2>2 DEF IInv, DoubtQuarantines, InDoubt
<1> QED BY <1>2, <1>3, <1>4, <1>5, <1>6, <1>7, <1>8, <1>9 DEF IInv

\* A rollback.
LEMMA RollbackKeeps ==
    ASSUME IInv, NEW h \in Handles, Rollback(h)
    PROVE  IInv'
<1>1. PICK ok \in BOOLEAN, ended \in BOOLEAN :
        /\ ok \/ ended => InTransaction
        /\ End(ended)
        /\ tainted' = (~ok \/ ~ended)
        /\ IF ok /\ ended THEN Becomes(h, "Done", "RolledBack")
           ELSE Becomes(h, "Dropping", "Integrity")
  BY DEF Rollback
<1>2. /\ handle[h].pc = "Open" /\ ~tainted /\ UNCHANGED <<durable, closing, job>>
      /\ tainted' \in BOOLEAN
      /\ (tx' = tx /\ working' = working) \/ (tx' = NoOwner /\ working' = {})
      /\ tainted' \/ tx' = NoOwner
  BY <1>1 DEF Rollback, End
<1>3. PICK pc \in {"Dropping", "Done"}, result \in {"RolledBack", "Integrity"} :
        Becomes(h, pc, result) /\ (tainted' \/ pc = "Done")
  BY <1>1
<1>4. result \in Result \ {"None"}
  BY DEF Result
<1> QED BY <1>2, <1>3, <1>4, HandleEnds

\* A drop.
LEMMA DropKeeps ==
    ASSUME IInv, NEW h \in Handles, Drop(h)
    PROVE  IInv'
<1>1. /\ handle[h].pc \in {"Open", "Dropping"} /\ UNCHANGED <<durable, closing, job>>
      /\ tainted' \in BOOLEAN /\ (tainted => tainted')
      /\ (tx' = tx /\ working' = working) \/ (tx' = NoOwner /\ working' = {})
      /\ tainted' \/ tx' = NoOwner
  <2>1. CASE ~InTransaction /\ UNCHANGED <<tx, working, tainted>>
    BY <2>1 DEF Drop, InTransaction, IInv, TypeOK
  <2>2. CASE \E ok, ended \in BOOLEAN : End(ended) /\ tainted' = (tainted \/ ~ok \/ ~ended)
    <3>1. PICK ok \in BOOLEAN, ended \in BOOLEAN : End(ended) /\ tainted' = (tainted \/ ~ok \/ ~ended)
      BY <2>2
    <3>2. CASE ended = TRUE
      BY <3>1, <3>2 DEF Drop, End, IInv, TypeOK
    <3>3. CASE ended = FALSE
      BY <3>1, <3>3 DEF Drop, End, IInv, TypeOK
    <3> QED BY <3>2, <3>3
  <2> QED BY <2>1, <2>2 DEF Drop
<1>2. PICK result \in Result \ {"None"} :
        /\ Becomes(h, "Done", result)
        /\ \/ handle[h].pc = "Open" /\ result \in {"RolledBack", "Integrity", "Dropped"}
           \/ handle[h].pc = "Dropping" /\ result = handle[h].result
  <2>1. CASE handle[h].pc = "Open"
    BY <2>1 DEF Drop, Result
  <2>2. CASE handle[h].pc = "Dropping"
    BY <2>2 DEF Drop, IInv, TypeOK, HandlesTyped
  <2> QED BY <1>1, <2>1, <2>2
<1> QED BY <1>1, <1>2, HandleEnds

\* A step of one job that commits nothing and, unless it panics, leaves a
\* session in use as it was.
LEMMA JobStep ==
    ASSUME IInv, NEW j \in Jobs, NEW pc \in {"Panicked", "Marked", "Done"}, NEW result \in Result,
           result = "None" <=> pc # "Done", result \notin {"Committed"},
           Finishes(j, pc, result), Durable(j) = {} \/ result # "Failed",
           result = "Indeterminate" => tainted', pc = "Marked" => tainted',
           working' \subseteq Owners \X Nat, tx' \in Owners \cup {NoOwner},
           \A w \in working' : w[1] = tx',
           tx' = NoOwner => working' = {},
           tainted' \in BOOLEAN, tainted => tainted',
           \/ tainted'
           \/ tx' = tx /\ working' = working /\ tx # j
           \/ tx' = j /\ pc = "Panicked" /\ \A g \in Handles : handle[g].pc \notin {"Open", "Dropping"},
           UNCHANGED <<durable, closing, handle>>
    PROVE  IInv'
<1>1. /\ JobsTyped'
      /\ job'[j] = [pc |-> pc, result |-> result]
      /\ \A i \in Jobs : i # j => job'[i] = job[i]
  <2>1. job' = [job EXCEPT ![j] = [pc |-> pc, result |-> result]]
    BY DEF Finishes
  <2> QED BY <2>1 DEF IInv, TypeOK, JobsTyped
<1>2. TypeOK'
  <2>1. tainted' \in BOOLEAN /\ closing' \in BOOLEAN
    BY Zenon DEF IInv, TypeOK
  <2>2. HandlesTyped'
    BY DEF IInv, TypeOK, HandlesTyped
  <2>3. durable' \subseteq Owners \X Nat
    BY DEF IInv, TypeOK
  <2> QED BY <1>1, <2>1, <2>2, <2>3 DEF TypeOK
<1>3. AnswersAreTrue'
  BY <1>1, AnswersStay
<1>4. OwnWritesOnly' /\ QuietParts'
  BY <1>1 DEF OwnWritesOnly, QuietParts, IInv
<1>5. NothingLost'
  BY SessionAssumption DEF NothingLost, IInv
<1>6. NoOrphanTransaction'
  BY <1>1, SessionAssumption DEF NoOrphanTransaction, InTransaction, IInv
<1>7. HandlesOwn'
  BY DEF HandlesOwn, IInv
<1>8. DoubtQuarantines'
  BY <1>1 DEF IInv, DoubtQuarantines, InDoubt
<1> QED BY <1>2, <1>3, <1>4, <1>5, <1>6, <1>7, <1>8 DEF IInv

\* A job that may run finds no live handle and no transaction.
LEMMA RunFacts ==
    ASSUME IInv, NEW j \in Jobs, CanRun(j), ~LateBegin
    PROVE  /\ ~tainted /\ tx = NoOwner /\ working = {} /\ Durable(j) = {} /\ job[j].pc = "Idle"
           /\ \A g \in Handles : handle[g].pc \notin {"Open", "Dropping"}
           /\ WritesOf(j, 1) \subseteq Owners \X Nat
           /\ \A w \in WritesOf(j, 1) : w[1] = j
           /\ j # NoOwner /\ j \in Owners
<1>1. /\ ~tainted /\ ~closing /\ tx = NoOwner /\ job[j].pc = "Idle"
  BY DEF CanRun, MayStart, InTransaction
<1>2. working = {} /\ Durable(j) = {}
  BY <1>1 DEF IInv, QuietParts, TypeOK, JobsTyped, AnswersAreTrue
<1>3. \A g \in Handles : handle[g].pc \notin {"Open", "Dropping"}
  BY <1>1, SessionAssumption DEF IInv, HandlesOwn
<1>4. /\ WritesOf(j, 1) \subseteq Owners \X Nat
      /\ \A w \in WritesOf(j, 1) : w[1] = j
  BY WritesFacts DEF Owners
<1> QED BY <1>1, <1>2, <1>3, <1>4, SessionAssumption DEF Owners

\* A job whose write becomes durable.
LEMMA JobDurable ==
    ASSUME IInv, NEW j \in Jobs, CanRun(j), ~LateBegin,
           NEW pc \in {"Panicked", "Done"}, NEW result \in {"None", "Committed", "Integrity", "Indeterminate"},
           result = "None" <=> pc # "Done",
           Finishes(j, pc, result), durable' = durable \cup WritesOf(j, 1),
           result = "Indeterminate" => tainted',
           tainted' \in BOOLEAN, UNCHANGED <<tx, working, closing, handle>>
    PROVE  IInv'
<1>1. /\ JobsTyped'
      /\ job'[j] = [pc |-> pc, result |-> result]
      /\ \A i \in Jobs : i # j => job'[i] = job[i]
  <2>1. job' = [job EXCEPT ![j] = [pc |-> pc, result |-> result]]
    BY DEF Finishes
  <2> QED BY <2>1 DEF IInv, TypeOK, JobsTyped, Result
<1>2. /\ Durable(j)' = WritesOf(j, 1)
      /\ \A o : o # j => Durable(o)' = Durable(o)
  <2>1. Durable(j) = {} /\ \A w \in WritesOf(j, 1) : w[1] = j
    BY RunFacts
  <2> QED BY <2>1 DEF Durable
<1>3. TypeOK'
  <2>1. tainted' \in BOOLEAN /\ closing' \in BOOLEAN
    BY Zenon DEF IInv, TypeOK
  <2>2. HandlesTyped'
    BY DEF IInv, TypeOK, HandlesTyped
  <2>3. durable' \subseteq Owners \X Nat
    BY RunFacts DEF IInv, TypeOK
  <2> QED BY <1>1, <2>1, <2>2, <2>3 DEF IInv, TypeOK
<1>4. AnswersAreTrue'
  <2>1. \A h \in Handles : h # j
    BY SessionAssumption
  <2> QED BY <1>1, <1>2, <2>1 DEF IInv, AnswersAreTrue, ReceiptIsDurable
<1>5. OwnWritesOnly' /\ QuietParts' /\ NothingLost'
  BY <1>1, RunFacts, SessionAssumption DEF OwnWritesOnly, QuietParts, NothingLost, IInv
<1>6. NoOrphanTransaction' /\ HandlesOwn'
  BY RunFacts DEF NoOrphanTransaction, HandlesOwn, InTransaction
<1>7. DoubtQuarantines'
  BY <1>1, RunFacts DEF IInv, DoubtQuarantines, InDoubt
<1> QED BY <1>3, <1>4, <1>5, <1>6, <1>7 DEF IInv

\* Jobs that run to their end.
LEMMA JobRunKeeps ==
    ASSUME IInv, NEW j \in Jobs, JobFails(j) \/ JobCommits(j) \/ JobTaints(j) \/ JobPanics(j), ~LateBegin
    PROVE  IInv'
<1>0. CanRun(j)
  BY DEF JobFails, JobCommits, JobTaints, JobPanics
<1>1. CASE JobFails(j)
  <2>0. PICK result \in {"Failed", "Integrity"} : Finishes(j, "Done", result)
    BY <1>1 DEF JobFails
  <2>1. UNCHANGED <<tx, working, durable, tainted, closing, handle>> /\ result \in Result
    BY <1>1 DEF JobFails, Result
  <2>2. /\ tainted' \in BOOLEAN /\ tx' \in Owners \cup {NoOwner} /\ working' \subseteq Owners \X Nat
    BY <2>1 DEF IInv, TypeOK
  <2> QED BY <1>0, <2>0, <2>1, <2>2, RunFacts, JobStep
<1>2. CASE JobCommits(j)
  <2>1. PICK result \in {"Committed", "Integrity"} : Finishes(j, "Done", result)
    BY <1>2 DEF JobCommits
  <2>2. /\ durable' = durable \cup WritesOf(j, 1) /\ UNCHANGED <<tx, working, tainted, closing, handle>>
        /\ tainted' \in BOOLEAN
    BY <1>2 DEF JobCommits, IInv, TypeOK
  <2> QED BY <1>0, <2>1, <2>2, JobDurable
<1>3. CASE JobTaints(j)
  <2>1. tainted' = TRUE /\ tainted' \in BOOLEAN /\ UNCHANGED <<closing, handle>>
    BY <1>3 DEF JobTaints
  <2>2. CASE /\ \E result \in {"Indeterminate", "Integrity"} : Finishes(j, "Done", result)
             /\ durable' \in {durable, durable \cup WritesOf(j, 1)}
             /\ UNCHANGED <<tx, working>>
    <3>0. PICK result \in {"Indeterminate", "Integrity"} : Finishes(j, "Done", result)
      BY <2>2
    <3>1. CASE durable' = durable \cup WritesOf(j, 1)
      BY <1>0, <2>1, <2>2, <3>0, <3>1, JobDurable
    <3>2. CASE durable' = durable
      <4>1. result \in Result
        BY DEF Result
      <4>2. tx' \in Owners \cup {NoOwner} /\ working' \subseteq Owners \X Nat
        BY <2>2 DEF IInv, TypeOK
      <4> QED BY <1>0, <2>1, <2>2, <3>0, <3>2, <4>1, <4>2, RunFacts, JobStep
    <3> QED BY <2>2, <3>1, <3>2
  <2>3. CASE /\ Finishes(j, "Done", "Integrity")
             /\ \E left \in BOOLEAN :
                 /\ tx' = IF left THEN j ELSE NoOwner
                 /\ working' = IF left THEN WritesOf(j, 1) ELSE {}
             /\ UNCHANGED durable
    <3>1. "Integrity" \in Result
      BY DEF Result
    <3>2. (tx' = j /\ working' = WritesOf(j, 1)) \/ (tx' = NoOwner /\ working' = {})
      BY <2>3
    <3> QED BY <1>0, <2>1, <2>3, <3>1, <3>2, RunFacts, JobStep
  <2> QED BY <1>3, <2>2, <2>3 DEF JobTaints
<1>4. CASE JobPanics(j)
  <2>1. /\ Finishes(j, "Panicked", "None") /\ UNCHANGED <<tainted, closing, handle>>
        /\ "None" \in Result /\ tainted' \in BOOLEAN
    BY <1>4 DEF JobPanics, Result, IInv, TypeOK
  <2>2. CASE tx' = j /\ working' = WritesOf(j, 1) /\ UNCHANGED durable
    BY <1>0, <2>1, <2>2, RunFacts, JobStep
  <2>3. CASE durable' = durable /\ UNCHANGED <<tx, working>>
    <3>1. tx' \in Owners \cup {NoOwner} /\ working' \subseteq Owners \X Nat
      BY <2>3 DEF IInv, TypeOK
    <3> QED BY <1>0, <2>1, <2>3, <3>1, RunFacts, JobStep
  <2>4. CASE durable' = durable \cup WritesOf(j, 1) /\ UNCHANGED <<tx, working>>
    BY <1>0, <2>1, <2>4, JobDurable
  <2> QED BY <1>4, <2>2, <2>3, <2>4 DEF JobPanics
<1> QED BY <1>1, <1>2, <1>3, <1>4

\* A panicked job is quarantined.
LEMMA QuarantineKeeps ==
    ASSUME IInv, NEW j \in Jobs, QuarantineMark(j) \/ QuarantineRollback(j)
    PROVE  IInv'
<1>1. CASE QuarantineMark(j)
  <2>1. /\ Finishes(j, "Marked", "None") /\ tainted' = TRUE /\ tainted' \in BOOLEAN
        /\ UNCHANGED <<tx, working, durable, closing, handle>>
        /\ "None" \in Result
    BY <1>1 DEF QuarantineMark, Result
  <2>2. /\ tx' \in Owners \cup {NoOwner} /\ working' \subseteq Owners \X Nat
        /\ \A w \in working' : w[1] = tx'
        /\ tx' = NoOwner => working' = {}
    BY <1>1, <2>1 DEF QuarantineMark, IInv, TypeOK, JobsTyped, AnswersAreTrue, OwnWritesOnly, QuietParts
  <2> QED BY <2>1, <2>2, JobStep
<1>2. CASE QuarantineRollback(j)
  <2>1. /\ Finishes(j, "Done", "Integrity")
        /\ UNCHANGED <<tainted, durable, closing, handle>>
        /\ "Integrity" \in Result
        /\ job[j].pc = "Marked"
    BY <1>2 DEF QuarantineRollback, Result
  <2>2. tainted' \in BOOLEAN /\ tainted'
    BY <2>1 DEF IInv, TypeOK, QuietParts
  <2>3. (tx' = tx /\ working' = working) \/ (tx' = NoOwner /\ working' = {})
    BY <1>2 DEF QuarantineRollback, End
  <2>4. /\ tx' \in Owners \cup {NoOwner} /\ working' \subseteq Owners \X Nat
        /\ \A w \in working' : w[1] = tx'
        /\ tx' = NoOwner => working' = {}
    BY <2>3 DEF IInv, TypeOK, OwnWritesOnly, QuietParts
  <2> QED BY <2>1, <2>2, <2>4, JobStep
<1> QED BY <1>1, <1>2

\* A read inside a transaction, or a shutdown.
LEMMA BystanderKeeps ==
    ASSUME IInv, Read \/ Shutdown
    PROVE  IInv'
<1>1. /\ UNCHANGED <<durable, handle, job>>
      /\ (tx' = tx /\ working' = working) \/ (tx' = NoOwner /\ working' = {})
      /\ ~tainted
      /\ tainted' \/ (closing' /\ tx' = NoOwner)
  <2>1. CASE Read
    BY <2>1 DEF Read
  <2>2. CASE Shutdown
    <3>1. CASE ~InTransaction /\ UNCHANGED <<tx, working, tainted>>
      BY <2>2, <3>1 DEF Shutdown, InTransaction
    <3>2. CASE \E ok, ended \in BOOLEAN : End(ended) /\ tainted' = (~ok \/ ~ended)
      <4>1. PICK ok \in BOOLEAN, ended \in BOOLEAN : End(ended) /\ tainted' = (~ok \/ ~ended)
        BY <3>2
      <4>2. CASE ended = TRUE
        BY <2>2, <4>1, <4>2 DEF Shutdown, End
      <4>3. CASE ended = FALSE
        BY <2>2, <4>1, <4>3 DEF Shutdown, End
      <4> QED BY <4>2, <4>3
    <3> QED BY <2>2, <3>1, <3>2 DEF Shutdown
  <2> QED BY <2>1, <2>2
<1>2. tainted' \in BOOLEAN /\ closing' \in BOOLEAN
  BY DEF Read, Shutdown, IInv, TypeOK
<1>3. TypeOK'
  BY <1>1, <1>2 DEF IInv, TypeOK, HandlesTyped, JobsTyped
<1>4. AnswersAreTrue'
  BY <1>1, AnswersStay
<1>5. OwnWritesOnly' /\ QuietParts'
  BY <1>1 DEF OwnWritesOnly, QuietParts, IInv
<1>6. NothingLost' /\ NoOrphanTransaction' /\ HandlesOwn'
  BY <1>1, SessionAssumption DEF NothingLost, NoOrphanTransaction, HandlesOwn, InTransaction, IInv
<1>7. DoubtQuarantines'
  BY <1>1 DEF DoubtQuarantines, InDoubt, IInv
<1> QED BY <1>3, <1>4, <1>5, <1>6, <1>7 DEF IInv

\* Every step keeps the invariant.
LEMMA NextKeeps ==
    ASSUME IInv, [Next]_vars, ~LateBegin
    PROVE  IInv'
<1>1. CASE UNCHANGED vars
  <2>1. TypeOK'
    BY <1>1 DEF vars, IInv, TypeOK, HandlesTyped, JobsTyped
  <2>2. AnswersAreTrue'
    BY <1>1, AnswersStay DEF vars
  <2> QED BY <1>1, <2>1, <2>2
    DEF vars, IInv, OwnWritesOnly, NoOrphanTransaction, InTransaction, DoubtQuarantines, InDoubt, HandlesOwn,
        NothingLost, QuietParts
<1>2. CASE \E h \in Handles : Begin(h) \/ Write(h) \/ Refused(h) \/ Commit(h) \/ Rollback(h) \/ Drop(h)
  BY <1>2, BeginKeeps, WriteKeeps, RefusedKeeps, CommitKeeps, RollbackKeeps, DropKeeps
<1>3. CASE \E j \in Jobs : JobFails(j) \/ JobCommits(j) \/ JobTaints(j) \/ JobPanics(j)
                           \/ QuarantineMark(j) \/ QuarantineRollback(j)
  BY <1>3, JobRunKeeps, QuarantineKeeps
<1>4. CASE Read \/ Shutdown
  BY <1>4, BystanderKeeps
<1> QED BY <1>1, <1>2, <1>3, <1>4 DEF Next

\* As long as nothing begins on a session that is shutting down, every answer
\* a caller gets about its transaction is true.
THEOREM AnswersHold ==
    ASSUME ~LateBegin
    PROVE  Spec => []AnswersAreTrue
<1>1. IInv /\ [Next]_vars => IInv'
  BY NextKeeps
<1>2. IInv => AnswersAreTrue
  BY DEF IInv
<1> QED BY InitHolds, <1>1, <1>2, PTL DEF Spec

\* Transactions hold the writes of their owner only, and none outlives its
\* owner on a session that is in use.
THEOREM TransactionsAreOwned ==
    ASSUME ~LateBegin
    PROVE  Spec => []TransactionsHaveOneOwner
<1>1. IInv /\ [Next]_vars => IInv'
  BY NextKeeps
<1>2. IInv => TransactionsHaveOneOwner
  BY DEF IInv, TransactionsHaveOneOwner
<1> QED BY InitHolds, <1>1, <1>2, PTL DEF Spec

\* A quarantined session stays so, commits nothing and starts nothing, in
\* every step.
LEMMA TaintHolds == [Next]_vars => (tainted => tainted' /\ durable' = durable /\ tx' \in {tx, NoOwner})
<1> SUFFICES ASSUME [Next]_vars, tainted
             PROVE  tainted' /\ durable' = durable /\ tx' \in {tx, NoOwner}
  OBVIOUS
<1>1. CASE UNCHANGED vars
  BY <1>1 DEF vars
<1>2. CASE \E h \in Handles : Begin(h) \/ Write(h) \/ Refused(h) \/ Commit(h) \/ Rollback(h) \/ Drop(h)
  BY <1>2 DEF Begin, Write, Refused, Commit, Rollback, Drop, End
<1>3. CASE \E j \in Jobs : JobFails(j) \/ JobCommits(j) \/ JobTaints(j) \/ JobPanics(j)
                           \/ QuarantineMark(j) \/ QuarantineRollback(j)
  BY <1>3 DEF JobFails, JobCommits, JobTaints, JobPanics, CanRun, QuarantineMark, QuarantineRollback, End
<1>4. CASE Read \/ Shutdown
  BY <1>4 DEF Read, Shutdown
<1> QED BY <1>1, <1>2, <1>3, <1>4 DEF Next

\* A quarantined session commits nothing and starts nothing, whatever its
\* callers and the module do, shutting down or not.
THEOREM QuarantineHolds == Spec => QuarantineIsFinal
BY TaintHolds, PTL DEF Spec, QuarantineIsFinal

\* Nothing becomes durable and no transaction starts once a caller was told
\* that the outcome of its commit is unknown.
THEOREM NothingFollowsDoubt ==
    ASSUME ~LateBegin
    PROVE  Spec => NothingAfterDoubt
<1>1. IInv /\ [Next]_vars => IInv'
  BY NextKeeps
<1>2. IInv /\ [Next]_vars => (InDoubt => durable' = durable /\ tx' \in {tx, NoOwner})
  BY TaintHolds DEF IInv, DoubtQuarantines
<1> QED BY InitHolds, <1>1, <1>2, PTL DEF Spec, NothingAfterDoubt

-----------------------------------------------------------------------------
(* The outbox.                                                             *)

\* One row per event and per key, and an acknowledged enqueue for each.
RowsAreUnique(s) ==
    /\ s.acked = DOMAIN s.rows
    /\ \A e, f \in DOMAIN s.rows : s.rows[e].key = s.rows[f].key => e = f

\* Attempts only grow: the attempt of a row is that of its latest claim, and
\* an attempt belongs to one claim.
ClaimsAreNumbered(s) ==
    /\ \A c \in s.claims : /\ c.event \in DOMAIN s.rows
                           /\ c.attempt \in Nat \ {0} /\ c.until \in Nat /\ c.at \in Nat
                           /\ c.attempt <= s.rows[c.event].attempt
    /\ \A c, d \in s.claims : c.event = d.event /\ c.attempt = d.attempt => c = d

\* A leased row has the lease of its latest claim.
LeasesAreClaimed(s) ==
    \A e \in DOMAIN s.rows : s.rows[e].state = "leased" =>
        /\ s.rows[e].token.event = e
        /\ s.rows[e].token.attempt = s.rows[e].attempt
        /\ \E c \in s.claims : /\ c.event = e /\ c.attempt = s.rows[e].attempt
                               /\ c.worker = s.rows[e].token.worker
                               /\ c.until = s.rows[e].expires

\* A row that waits after an attempt was released from it.
PendingWasReleased(s) ==
    \A e \in DOMAIN s.rows : s.rows[e].state = "pending" /\ s.rows[e].attempt > 0 =>
        \E r \in s.settled : r.event = e /\ r.attempt = s.rows[e].attempt /\ r.outcome = "pending"

\* A settlement is of a past attempt, or of the latest one of a row that is no
\* longer leased; its token names that attempt.
SettledIsPast(s) ==
    \A r \in s.settled :
        /\ r.event \in DOMAIN s.rows
        /\ r.attempt \in Nat
        /\ r.attempt <= s.rows[r.event].attempt
        /\ s.rows[r.event].state = "leased" => r.attempt < s.rows[r.event].attempt
        /\ r.token.event = r.event /\ r.token.attempt = r.attempt

LeasesApart(s) ==
    \A c, d \in s.claims : c.event = d.event /\ d.attempt = c.attempt + 1 =>
        \/ c.until <= d.at
        \/ \E r \in s.settled : r.event = c.event /\ r.attempt = c.attempt /\ r.outcome = "pending"

SettlementsApart(s) ==
    /\ \A r, q \in s.settled : r.token = q.token => r = q
    /\ \A r \in s.settled : \E c \in s.claims :
        c.event = r.event /\ c.attempt = r.attempt /\ c.worker = r.worker

IsTable(s) == s = [rows |-> s.rows, claims |-> s.claims, settled |-> s.settled, acked |-> s.acked]

TableOK(s) ==
    /\ IsTable(s) /\ StoreTyped(s)
    /\ RowsAreUnique(s) /\ ClaimsAreNumbered(s) /\ LeasesAreClaimed(s) /\ PendingWasReleased(s)
    /\ SettledIsPast(s) /\ LeasesApart(s) /\ SettlementsApart(s)

\* The inductive invariant.
OutboxIInv == OutboxTypeOK /\ TableOK(store) /\ TableOK(work)

-----------------------------------------------------------------------------

\* The empty table.
LEMMA InitOK == OutboxInit => OutboxIInv
<1> SUFFICES ASSUME OutboxInit PROVE OutboxIInv
  OBVIOUS
<1>1. /\ Empty.rows = <<>> /\ Empty.claims = {} /\ Empty.settled = {} /\ Empty.acked = {}
      /\ DOMAIN Empty.rows = {} /\ IsTable(Empty)
  BY DEF Empty, IsTable
<1>2. TableOK(Empty)
  BY <1>1 DEF TableOK, StoreTyped, RowsAreUnique, ClaimsAreNumbered, LeasesAreClaimed,
     PendingWasReleased, SettledIsPast, LeasesApart, SettlementsApart
<1>3. StoreTyped(Empty)
  BY <1>2 DEF TableOK
<1>4. OutboxTypeOK
  BY <1>3 DEF OutboxInit, OutboxTypeOK
<1> QED BY <1>2, <1>4 DEF OutboxInit, OutboxIInv

\* A message that collides with no row gets one of its own.
LEMMA InsertOK ==
    ASSUME TableOK(work), NEW m \in Messages, Colliding(m) = {},
           work' = [work EXCEPT !.rows = Insert(m), !.acked = @ \cup {m.event}]
    PROVE  TableOK(work')
<1>1. m.event \in Events /\ m.created \in Nat /\ m.event \notin DOMAIN work.rows
      /\ \A e \in DOMAIN work.rows : work.rows[e].key # m.key
  BY OutboxAssumption DEF Colliding, Stored, Events
<1> DEFINE row == [key |-> m.key, created |-> m.created, available |-> m.created, attempt |-> 0,
                   state |-> "pending", token |-> NoToken, expires |-> 0]
<1>2. /\ work'.rows = Insert(m) /\ work'.acked = work.acked \cup {m.event}
      /\ work'.claims = work.claims /\ work'.settled = work.settled
      /\ IsTable(work')
  BY DEF TableOK, IsTable
<1>3. /\ DOMAIN work'.rows = DOMAIN work.rows \cup {m.event}
      /\ work'.rows[m.event] = row
      /\ \A e \in DOMAIN work.rows : work'.rows[e] = work.rows[e]
  BY <1>1, <1>2 DEF Insert, Stored
<1>4. row \in Row /\ row.state = "pending" /\ row.token = NoToken /\ row.key = m.key /\ row.attempt = 0
  BY <1>1 DEF Row, Outcome
<1> HIDE DEF row
<1>5. StoreTyped(work')
  BY <1>1, <1>3, <1>4 DEF TableOK, StoreTyped
<1>6. RowsAreUnique(work')
  BY <1>1, <1>2, <1>3, <1>4 DEF TableOK, RowsAreUnique
<1>7. ClaimsAreNumbered(work')
  BY <1>2, <1>3 DEF TableOK, ClaimsAreNumbered
<1>8. LeasesAreClaimed(work')
  BY <1>2, <1>3, <1>4 DEF TableOK, LeasesAreClaimed
<1>9. PendingWasReleased(work')
  BY <1>2, <1>3, <1>4 DEF TableOK, PendingWasReleased
<1>10. SettledIsPast(work')
  BY <1>2, <1>3, <1>4 DEF TableOK, SettledIsPast
<1>11. LeasesApart(work') /\ SettlementsApart(work')
  BY <1>2 DEF TableOK, LeasesApart, SettlementsApart
<1> QED BY <1>2, <1>5, <1>6, <1>7, <1>8, <1>9, <1>10, <1>11 DEF TableOK

\* An enqueue inserts a row, or finds the message's own and changes nothing.
LEMMA EnqueueOK ==
    ASSUME TableOK(work), NEW m \in Messages, Enqueue(m)
    PROVE  TableOK(work')
<1>1. CASE Colliding(m) = {} /\ work' = [work EXCEPT !.rows = Insert(m), !.acked = @ \cup {m.event}]
  BY <1>1, InsertOK
<1>2. CASE /\ Cardinality(Colliding(m)) = 1
           /\ \A e \in Colliding(m) : Matches(e, m)
           /\ work' = [work EXCEPT !.acked = @ \cup {m.event}]
  <2>1. Colliding(m) # {}
    <3>1. Cardinality({}) = 0
      BY FS_EmptySet
    <3> QED BY <1>2, <3>1
  <2>2. m.event \in DOMAIN work.rows
    BY <1>2, <2>1 DEF Colliding, Matches, Stored
  <2>3. work.acked \cup {m.event} = work.acked
    BY <2>2 DEF TableOK, RowsAreUnique
  <2>4. work' = work
    BY <1>2, <2>3 DEF TableOK, IsTable
  <2> QED BY <2>4
<1> QED BY <1>1, <1>2 DEF Enqueue

\* What claims and settlements write of a row.
LEMMA ClaimedRow ==
    ASSUME NEW c \in Clients, NEW e \in DOMAIN work.rows, NEW expires \in Nat,
           work.rows[e] \in Row, derive_lease_token(c, e, expires) \in Token
    PROVE  /\ Leased(c, e, expires) \in Row
           /\ Leased(c, e, expires).state = "leased"
           /\ Leased(c, e, expires).expires = expires
           /\ Leased(c, e, expires).key = work.rows[e].key
           /\ Leased(c, e, expires).attempt = work.rows[e].attempt + 1
           /\ Leased(c, e, expires).token = derive_lease_token(c, e, expires)
<1> DEFINE K == {m.key : m \in Messages}
           S == {"leased"} \cup Outcome
           T == Token \cup {NoToken}
           r == work.rows[e]
           t == derive_lease_token(c, e, expires)
           a == work.rows[e].attempt + 1
<1>1. Row = [key : K, created : Nat, available : Nat, attempt : Nat, state : S, token : T, expires : Nat]
  BY DEF Row
<1>2. "leased" \in S /\ t \in T /\ r \in Row /\ a \in Nat
  BY DEF Row
<1>3. Leased(c, e, expires) =
        [r EXCEPT !.state = "leased", !.token = t, !.expires = expires, !.attempt = a]
  BY DEF Leased
<1>4. r = work.rows[e] /\ t = derive_lease_token(c, e, expires) /\ a = work.rows[e].attempt + 1
  OBVIOUS
<1> DEFINE row == [r EXCEPT !.state = "leased", !.token = t, !.expires = expires, !.attempt = a]
<1> HIDE DEF K, S, T, r, t, a
<1>5. /\ row \in Row /\ row.state = "leased" /\ row.expires = expires /\ row.key = r.key
      /\ row.attempt = a /\ row.token = t
  BY <1>1, <1>2
<1> QED BY <1>3, <1>4, <1>5

LEMMA SettledRowOK ==
    ASSUME NEW r \in Row, NEW outcome \in Outcome, NEW at \in Nat
    PROVE  /\ SettledRow(r, outcome, at) \in Row
           /\ SettledRow(r, outcome, at).state = outcome
           /\ SettledRow(r, outcome, at).token = NoToken
           /\ SettledRow(r, outcome, at).attempt = r.attempt
           /\ SettledRow(r, outcome, at).key = r.key
<1> DEFINE K == {m.key : m \in Messages}
           S == {"leased"} \cup Outcome
           T == Token \cup {NoToken}
           v == IF outcome = "pending" THEN at ELSE r.available
<1>1. Row = [key : K, created : Nat, available : Nat, attempt : Nat, state : S, token : T, expires : Nat]
  BY DEF Row
<1>2. outcome \in S /\ NoToken \in T /\ v \in Nat
  BY DEF Row
<1>3. SettledRow(r, outcome, at) =
        [r EXCEPT !.state = outcome, !.token = NoToken, !.expires = 0, !.available = v]
  BY DEF SettledRow
<1> DEFINE row == [r EXCEPT !.state = outcome, !.token = NoToken, !.expires = 0, !.available = v]
<1> HIDE DEF K, S, T, v
<1>4. /\ row \in Row /\ row.state = outcome /\ row.token = NoToken
      /\ row.attempt = r.attempt /\ row.key = r.key
  BY <1>1, <1>2
<1> QED BY <1>3, <1>4

\* A claim leases due rows: each under the next attempt, after its last lease has
\* expired or was released.
LEMMA ClaimOK ==
    ASSUME TableOK(work), NEW c \in Clients, NEW now \in Times, Claim(c, now)
    PROVE  TableOK(work') /\ held' \subseteq held \cup Token
<1> DEFINE expires == now + LeaseDuration
           NewClaim(e) == [event |-> e, attempt |-> work.rows[e].attempt + 1, worker |-> c,
                           at |-> now, until |-> expires]
<1>1. PICK batch \in Batches(now) : \E claimed \in (SUBSET batch) \ {{}} :
        /\ work' = [work EXCEPT
              !.rows = [e \in Stored |-> IF e \in claimed THEN Leased(c, e, expires) ELSE @[e]],
              !.claims = @ \cup {NewClaim(e) : e \in claimed}]
        /\ held' = IF claimed = batch THEN held \cup {derive_lease_token(c, e, expires) : e \in claimed}
                   ELSE held
  BY DEF Claim
<1>2. PICK claimed \in SUBSET batch :
        /\ work' = [work EXCEPT
              !.rows = [e \in Stored |-> IF e \in claimed THEN Leased(c, e, expires) ELSE @[e]],
              !.claims = @ \cup {NewClaim(e) : e \in claimed}]
        /\ held' = IF claimed = batch THEN held \cup {derive_lease_token(c, e, expires) : e \in claimed}
                   ELSE held
  BY <1>1
<1>3. now \in Nat /\ expires \in Nat /\ now < expires
  BY OutboxAssumption
<1>4. \A e \in claimed : e \in DOMAIN work.rows /\ Claimable(work.rows[e], now)
  BY <1>2 DEF Batches, Due, Stored
<1>5. /\ work'.rows = [e \in Stored |-> IF e \in claimed THEN Leased(c, e, expires) ELSE work.rows[e]]
      /\ work'.claims = work.claims \cup {NewClaim(e) : e \in claimed}
      /\ work'.settled = work.settled /\ work'.acked = work.acked
      /\ IsTable(work')
  BY <1>2 DEF TableOK, IsTable
<1>6. /\ DOMAIN work'.rows = DOMAIN work.rows
      /\ \A e \in DOMAIN work.rows : e \notin claimed => work'.rows[e] = work.rows[e]
      /\ \A e \in claimed : work'.rows[e] = Leased(c, e, expires)
  BY <1>4, <1>5 DEF Stored
<1>7. \A e \in DOMAIN work.rows : work.rows[e] \in Row /\ e \in Events
  BY DEF TableOK, StoreTyped
<1>8. \A e \in claimed : derive_lease_token(c, e, expires) \in Token
  BY <1>3, <1>4, <1>7 DEF derive_lease_token, Token, Row
<1>9. \A e \in claimed :
        /\ work'.rows[e] \in Row /\ work'.rows[e].state = "leased" /\ work'.rows[e].expires = expires
        /\ work'.rows[e].key = work.rows[e].key /\ work'.rows[e].attempt = work.rows[e].attempt + 1
        /\ work'.rows[e].token = derive_lease_token(c, e, expires)
  <2> SUFFICES ASSUME NEW e \in claimed
               PROVE  /\ Leased(c, e, expires) \in Row
                      /\ Leased(c, e, expires).state = "leased"
                      /\ Leased(c, e, expires).expires = expires
                      /\ Leased(c, e, expires).key = work.rows[e].key
                      /\ Leased(c, e, expires).attempt = work.rows[e].attempt + 1
                      /\ Leased(c, e, expires).token = derive_lease_token(c, e, expires)
    BY <1>6
  <2>1. work.rows[e] \in Row /\ derive_lease_token(c, e, expires) \in Token
    BY <1>4, <1>7, <1>8
  <2> HIDE DEF expires
  <2> QED BY <1>3, <1>4, <2>1, ClaimedRow
<1>10. \A e \in claimed : /\ work'.rows[e].token \in Token
                          /\ work'.rows[e].token.event = e /\ work'.rows[e].token.worker = c
                          /\ work'.rows[e].token.attempt = work'.rows[e].attempt
  <2>1. \A e : /\ derive_lease_token(c, e, expires).event = e
               /\ derive_lease_token(c, e, expires).worker = c
               /\ derive_lease_token(c, e, expires).attempt = work.rows[e].attempt + 1
    BY DEF derive_lease_token
  <2> QED BY <1>8, <1>9, <2>1
<1>11. \A d \in work'.claims :
         \/ d \in work.claims
         \/ d.event \in claimed /\ d = NewClaim(d.event)
  BY <1>5
<1>12. \A e \in claimed : /\ NewClaim(e) \in work'.claims /\ NewClaim(e).event = e
                          /\ NewClaim(e).attempt = work.rows[e].attempt + 1
                          /\ NewClaim(e).worker = c /\ NewClaim(e).at = now
                          /\ NewClaim(e).until = expires
  BY <1>5
<1>13. \A d \in work.claims : /\ d.event \in DOMAIN work.rows
                              /\ d.attempt \in Nat \ {0} /\ d.until \in Nat
                              /\ d.attempt <= work.rows[d.event].attempt
  BY DEF TableOK, ClaimsAreNumbered
<1>14. \A e \in DOMAIN work.rows : work.rows[e].attempt \in Nat
  BY <1>7 DEF Row
<1>15. \A e \in claimed : work.rows[e].state \in {"pending", "leased"}
                          /\ (work.rows[e].state = "leased" => work.rows[e].expires <= now)
  BY <1>4 DEF Claimable
<1> HIDE DEF NewClaim, expires
<1>16. StoreTyped(work')
  BY <1>6, <1>9, <1>10, NoTokenAssumption DEF TableOK, StoreTyped
<1>17. RowsAreUnique(work')
  <2>1. \A e \in DOMAIN work.rows : work'.rows[e].key = work.rows[e].key
    BY <1>6, <1>9
  <2> QED BY <1>5, <1>6, <2>1 DEF TableOK, RowsAreUnique
<1>18. ClaimsAreNumbered(work')
  <2>1. \A d \in work'.claims : /\ d.event \in DOMAIN work'.rows
                                /\ d.attempt \in Nat \ {0} /\ d.until \in Nat /\ d.at \in Nat
                                /\ d.attempt <= work'.rows[d.event].attempt
    <3> SUFFICES ASSUME NEW d \in work'.claims
                 PROVE  /\ d.event \in DOMAIN work'.rows
                        /\ d.attempt \in Nat \ {0} /\ d.until \in Nat /\ d.at \in Nat
                        /\ d.attempt <= work'.rows[d.event].attempt
      OBVIOUS
    <3>1. CASE d \in work.claims
      <4>1. d.at \in Nat
        BY <3>1 DEF TableOK, ClaimsAreNumbered
      <4>2. work'.rows[d.event].attempt \in Nat /\ work.rows[d.event].attempt <= work'.rows[d.event].attempt
        BY <3>1, <1>6, <1>9, <1>13, <1>14
      <4> QED BY <3>1, <4>1, <4>2, <1>6, <1>13, <1>14
    <3>2. CASE d.event \in claimed /\ d = NewClaim(d.event)
      BY <3>2, <1>3, <1>4, <1>6, <1>9, <1>12, <1>14
    <3> QED BY <3>1, <3>2, <1>11
  <2>2. ASSUME NEW b \in work'.claims, NEW d \in work'.claims, b.event = d.event, b.attempt = d.attempt
        PROVE  b = d
    <3>1. CASE b \in work.claims /\ d \in work.claims
      BY <3>1, <2>2 DEF TableOK, ClaimsAreNumbered
    <3>2. CASE b \in work.claims /\ d.event \in claimed /\ d = NewClaim(d.event)
      BY <3>2, <2>2, <1>12, <1>13, <1>14
    <3>3. CASE d \in work.claims /\ b.event \in claimed /\ b = NewClaim(b.event)
      BY <3>3, <2>2, <1>12, <1>13, <1>14
    <3>4. CASE b = NewClaim(b.event) /\ d = NewClaim(d.event)
      BY <3>4, <2>2
    <3> QED BY <3>1, <3>2, <3>3, <3>4, <1>11
  <2> QED BY <2>1, <2>2 DEF ClaimsAreNumbered
<1>19. LeasesAreClaimed(work')
  <2> SUFFICES ASSUME NEW e \in DOMAIN work.rows, work'.rows[e].state = "leased"
               PROVE  /\ work'.rows[e].token.event = e
                      /\ work'.rows[e].token.attempt = work'.rows[e].attempt
                      /\ \E d \in work'.claims : /\ d.event = e /\ d.attempt = work'.rows[e].attempt
                                                 /\ d.worker = work'.rows[e].token.worker
                                                 /\ d.until = work'.rows[e].expires
    BY <1>6 DEF LeasesAreClaimed
  <2>1. CASE e \in claimed
    BY <2>1, <1>9, <1>10, <1>12
  <2>2. CASE e \notin claimed
    BY <2>2, <1>5, <1>6 DEF TableOK, LeasesAreClaimed
  <2> QED BY <2>1, <2>2
<1>20. PendingWasReleased(work')
  BY <1>5, <1>6, <1>9 DEF TableOK, PendingWasReleased
<1>21. SettledIsPast(work')
  <2> SUFFICES ASSUME NEW r \in work.settled
               PROVE  /\ r.event \in DOMAIN work'.rows
                      /\ r.attempt \in Nat
                      /\ r.attempt <= work'.rows[r.event].attempt
                      /\ work'.rows[r.event].state = "leased" => r.attempt < work'.rows[r.event].attempt
                      /\ r.token.event = r.event /\ r.token.attempt = r.attempt
    BY <1>5 DEF SettledIsPast
  <2>1. /\ r.event \in DOMAIN work.rows /\ r.attempt \in Nat
        /\ r.attempt <= work.rows[r.event].attempt
        /\ work.rows[r.event].state = "leased" => r.attempt < work.rows[r.event].attempt
        /\ r.token.event = r.event /\ r.token.attempt = r.attempt
    BY DEF TableOK, SettledIsPast
  <2> QED BY <2>1, <1>6, <1>9, <1>14
<1>22. LeasesApart(work')
  <2> SUFFICES ASSUME NEW b \in work'.claims, NEW d \in work'.claims,
                      b.event = d.event, d.attempt = b.attempt + 1
               PROVE  \/ b.until <= d.at
                      \/ \E r \in work.settled : r.event = b.event /\ r.attempt = b.attempt
                                                 /\ r.outcome = "pending"
    BY <1>5 DEF LeasesApart
  <2>1. CASE b \in work.claims /\ d \in work.claims
    BY <2>1 DEF TableOK, LeasesApart
  <2>2. CASE b.event \in claimed /\ b = NewClaim(b.event)
    <3>1. b.attempt = work.rows[b.event].attempt + 1 /\ work.rows[b.event].attempt \in Nat
      BY <2>2, <1>4, <1>12, <1>14
    <3>2. d \notin work.claims
      BY <3>1, <1>13
    <3>3. d.attempt = work.rows[b.event].attempt + 1
      BY <3>2, <1>11, <1>12
    <3> QED BY <3>1, <3>3
  <2>3. CASE b \in work.claims /\ d.event \in claimed /\ d = NewClaim(d.event)
    <3>1. d.at = now /\ d.attempt = work.rows[b.event].attempt + 1 /\ b.event \in claimed
      BY <2>3, <1>12
    <3>2. b.attempt = work.rows[b.event].attempt
      BY <3>1, <2>3, <1>13, <1>14
    <3>3. CASE work.rows[b.event].state = "leased"
      <4>1. PICK x \in work.claims : x.event = b.event /\ x.attempt = work.rows[b.event].attempt
                                     /\ x.until = work.rows[b.event].expires
        BY <3>1, <3>3, <1>4 DEF TableOK, LeasesAreClaimed
      <4>2. x = b
        BY <4>1, <3>2, <2>3 DEF TableOK, ClaimsAreNumbered
      <4> QED BY <4>1, <4>2, <3>1, <3>3, <1>15
    <3>4. CASE work.rows[b.event].state = "pending"
      <4>1. work.rows[b.event].attempt > 0
        BY <3>2, <2>3, <1>13
      <4> QED BY <4>1, <3>1, <3>2, <3>4, <1>4 DEF TableOK, PendingWasReleased
    <3> QED BY <3>1, <3>3, <3>4, <1>15
  <2> QED BY <2>1, <2>2, <2>3, <1>11
<1>23. SettlementsApart(work')
  BY <1>5 DEF TableOK, SettlementsApart
<1>24. held' \subseteq held \cup Token
  BY <1>2, <1>8
<1> QED BY <1>5, <1>16, <1>17, <1>18, <1>19, <1>20, <1>21, <1>22, <1>23, <1>24 DEF TableOK

\* A settlement ends the lease its token names; no other row and no other
\* settlement has that token.
LEMMA SettleOK ==
    ASSUME TableOK(work), NEW c \in Clients, NEW t \in Token, NEW outcome \in Outcome,
           NEW at \in Times, settle(c, t, outcome, at)
    PROVE  TableOK(work')
<1> DEFINE Settlement(e) == [event |-> e, attempt |-> work.rows[e].attempt, worker |-> c,
                             token |-> t, outcome |-> outcome]
<1>1. /\ work'.rows = [e \in Stored |-> IF e \in Owned(t) THEN SettledRow(work.rows[e], outcome, at)
                                        ELSE work.rows[e]]
      /\ work'.settled = work.settled \cup {Settlement(e) : e \in Owned(t)}
      /\ work'.claims = work.claims /\ work'.acked = work.acked
      /\ IsTable(work') /\ t.worker = c
  BY DEF settle, TableOK, IsTable
<1>2. \A e \in Owned(t) : e \in DOMAIN work.rows /\ work.rows[e].token = t
                          /\ work.rows[e].state = "leased"
  BY DEF Owned, Stored
<1>3. /\ DOMAIN work'.rows = DOMAIN work.rows
      /\ \A e \in DOMAIN work.rows : e \notin Owned(t) => work'.rows[e] = work.rows[e]
      /\ \A e \in Owned(t) : work'.rows[e] = SettledRow(work.rows[e], outcome, at)
  BY <1>1, <1>2 DEF Stored
<1>4. \A e \in DOMAIN work.rows : work.rows[e] \in Row /\ work.rows[e].attempt \in Nat
  BY DEF TableOK, StoreTyped, Row
<1>5. \A e \in Owned(t) : /\ work'.rows[e] \in Row /\ work'.rows[e].state = outcome
                          /\ work'.rows[e].token = NoToken /\ work'.rows[e].key = work.rows[e].key
                          /\ work'.rows[e].attempt = work.rows[e].attempt
  <2>1. at \in Nat
    BY OutboxAssumption
  <2>2. ASSUME NEW e \in Owned(t)
        PROVE  /\ work'.rows[e] \in Row /\ work'.rows[e].state = outcome
               /\ work'.rows[e].token = NoToken /\ work'.rows[e].key = work.rows[e].key
               /\ work'.rows[e].attempt = work.rows[e].attempt
    <3>1. work.rows[e] \in Row /\ work'.rows[e] = SettledRow(work.rows[e], outcome, at)
      BY <1>2, <1>3, <1>4
    <3> QED BY <2>1, <3>1, SettledRowOK
  <2> QED BY <2>2
<1>6. outcome # "leased" /\ outcome \in Outcome
  BY DEF Outcome
<1>7. \A r \in work'.settled : \/ r \in work.settled
                               \/ r.event \in Owned(t) /\ r = Settlement(r.event)
  BY <1>1
<1>8. \A e \in Owned(t) : /\ Settlement(e) \in work'.settled /\ Settlement(e).event = e
                          /\ Settlement(e).attempt = work.rows[e].attempt
                          /\ Settlement(e).worker = c /\ Settlement(e).token = t
                          /\ Settlement(e).outcome = outcome
  BY <1>1
<1>9. \A e \in Owned(t) : /\ t.event = e /\ t.attempt = work.rows[e].attempt
                          /\ \E d \in work.claims : /\ d.event = e /\ d.worker = c
                                                    /\ d.attempt = work.rows[e].attempt
  BY <1>1, <1>2 DEF TableOK, LeasesAreClaimed
<1>10. \A r \in work.settled : /\ r.event \in DOMAIN work.rows /\ r.attempt \in Nat
                               /\ r.attempt <= work.rows[r.event].attempt
                               /\ work.rows[r.event].state = "leased" =>
                                    r.attempt < work.rows[r.event].attempt
                               /\ r.token.event = r.event /\ r.token.attempt = r.attempt
  BY DEF TableOK, SettledIsPast
<1> HIDE DEF Settlement
<1>11. StoreTyped(work')
  BY <1>3, <1>5, <1>6 DEF TableOK, StoreTyped
<1>12. RowsAreUnique(work')
  <2>1. \A e \in DOMAIN work.rows : work'.rows[e].key = work.rows[e].key
    BY <1>3, <1>5
  <2>2. DOMAIN work'.rows = DOMAIN work.rows /\ work'.acked = work.acked
    BY <1>1, <1>3
  <2>3. RowsAreUnique(work)
    BY DEF TableOK
  <2> QED BY <2>1, <2>2, <2>3 DEF RowsAreUnique
<1>13. \A e \in DOMAIN work.rows : work'.rows[e].attempt = work.rows[e].attempt
  BY <1>3, <1>5
<1>14. ClaimsAreNumbered(work')
  BY <1>1, <1>3, <1>13 DEF TableOK, ClaimsAreNumbered
<1>15. LeasesAreClaimed(work')
  BY <1>1, <1>3, <1>5, <1>6 DEF TableOK, LeasesAreClaimed
<1>16. PendingWasReleased(work')
  <2> SUFFICES ASSUME NEW e \in DOMAIN work.rows,
                      work'.rows[e].state = "pending" /\ work'.rows[e].attempt > 0
               PROVE  \E r \in work'.settled : /\ r.event = e /\ r.attempt = work'.rows[e].attempt
                                               /\ r.outcome = "pending"
    BY <1>3 DEF PendingWasReleased
  <2>1. CASE e \in Owned(t)
    BY <2>1, <1>5, <1>8
  <2>2. CASE e \notin Owned(t)
    BY <2>2, <1>1, <1>3 DEF TableOK, PendingWasReleased
  <2> QED BY <2>1, <2>2
<1>17. SettledIsPast(work')
  <2> SUFFICES ASSUME NEW r \in work'.settled
               PROVE  /\ r.event \in DOMAIN work'.rows
                      /\ r.attempt \in Nat
                      /\ r.attempt <= work'.rows[r.event].attempt
                      /\ work'.rows[r.event].state = "leased" => r.attempt < work'.rows[r.event].attempt
                      /\ r.token.event = r.event /\ r.token.attempt = r.attempt
    BY DEF SettledIsPast
  <2>1. CASE r \in work.settled
    BY <2>1, <1>3, <1>5, <1>6, <1>10, <1>13
  <2>2. CASE r.event \in Owned(t) /\ r = Settlement(r.event)
    <3>1. /\ r.attempt = work.rows[r.event].attempt /\ r.token = t
          /\ r.event \in DOMAIN work.rows /\ work'.rows[r.event].state = outcome
      BY <2>2, <1>2, <1>5, <1>8
    <3> QED BY <2>2, <3>1, <1>3, <1>4, <1>6, <1>9, <1>13
  <2> QED BY <2>1, <2>2, <1>7
<1>18. LeasesApart(work')
  <2>1. work.settled \subseteq work'.settled
    BY <1>1
  <2> QED BY <1>1, <2>1 DEF TableOK, LeasesApart
<1>19. SettlementsApart(work')
  <2>1. ASSUME NEW r \in work.settled PROVE r.token # t \/ Owned(t) = {}
    <3> SUFFICES ASSUME NEW e \in Owned(t), r.token = t PROVE FALSE
      OBVIOUS
    <3>1. r.event = e /\ r.attempt = work.rows[e].attempt
      BY <1>9, <1>10
    <3> QED BY <3>1, <1>2, <1>4, <1>10
  <2>2. ASSUME NEW r \in work'.settled, NEW q \in work'.settled, r.token = q.token
        PROVE  r = q
    <3>1. CASE r \in work.settled /\ q \in work.settled
      BY <3>1, <2>2 DEF TableOK, SettlementsApart
    <3>2. CASE r \in work.settled /\ q.event \in Owned(t) /\ q = Settlement(q.event)
      BY <3>2, <2>1, <2>2, <1>8
    <3>3. CASE q \in work.settled /\ r.event \in Owned(t) /\ r = Settlement(r.event)
      BY <3>3, <2>1, <2>2, <1>8
    <3>4. CASE /\ r.event \in Owned(t) /\ r = Settlement(r.event)
               /\ q.event \in Owned(t) /\ q = Settlement(q.event)
      <4>1. r.event = q.event
        BY <3>4, <1>9
      <4> QED BY <3>4, <4>1
    <3> QED BY <3>1, <3>2, <3>3, <3>4, <1>7
  <2>3. ASSUME NEW r \in work'.settled
        PROVE  \E d \in work'.claims : d.event = r.event /\ d.attempt = r.attempt /\ d.worker = r.worker
    <3>1. CASE r \in work.settled
      BY <3>1, <1>1 DEF TableOK, SettlementsApart
    <3>2. CASE r.event \in Owned(t) /\ r = Settlement(r.event)
      <4>1. r.attempt = work.rows[r.event].attempt /\ r.worker = c
        BY <3>2, <1>8
      <4> QED BY <3>2, <4>1, <1>1, <1>9
    <3> QED BY <3>1, <3>2, <1>7
  <2> QED BY <2>2, <2>3 DEF SettlementsApart
<1> QED BY <1>1, <1>11, <1>12, <1>14, <1>15, <1>16, <1>17, <1>18, <1>19 DEF TableOK

\* Every step keeps the invariant: the operations in the table the transaction
\* sees, its end by leaving one of two good tables behind.
LEMMA NextOK == OutboxIInv /\ [OutboxNext]_outboxVars => OutboxIInv'
<1> SUFFICES ASSUME OutboxIInv, [OutboxNext]_outboxVars PROVE OutboxIInv'
  OBVIOUS
<1>1. /\ TableOK(store) /\ TableOK(work) /\ client \in Clients \cup {NoClient}
      /\ held \subseteq Token /\ (client = NoClient => work = store)
  BY DEF OutboxIInv, OutboxTypeOK
<1>2. SUFFICES /\ TableOK(store') /\ TableOK(work') /\ client' \in Clients \cup {NoClient}
               /\ held' \subseteq Token /\ (client' = NoClient => work' = store')
  BY DEF OutboxIInv, OutboxTypeOK, TableOK
<1>3. ASSUME NEW c \in Clients, BeginOutbox(c) PROVE <1>2!1
  BY <1>1, <1>3, OutboxAssumption DEF BeginOutbox
<1>4. CASE FinishOutbox
  BY <1>1, <1>4 DEF FinishOutbox
<1>5. ASSUME NEW m \in Messages, Enqueue(m) PROVE <1>2!1
  <2>1. TableOK(work')
    BY <1>1, <1>5, EnqueueOK
  <2> QED BY <1>1, <1>5, <2>1 DEF Enqueue
<1>6. ASSUME NEW c \in Clients, NEW now \in Times, Claim(c, now) PROVE <1>2!1
  <2>1. TableOK(work') /\ held' \subseteq held \cup Token
    BY <1>1, <1>6, ClaimOK
  <2>2. client = c /\ client' = client /\ store' = store
    BY <1>6 DEF Claim
  <2> QED BY <1>1, <2>1, <2>2, OutboxAssumption
<1>7. ASSUME NEW c \in Clients, NEW t \in held, NEW outcome \in Outcome, NEW at \in Times,
             settle(c, t, outcome, at)
      PROVE  <1>2!1
  <2>1. TableOK(work')
    BY <1>1, <1>7, SettleOK
  <2>2. client = c /\ client' = client /\ store' = store /\ held' = held
    BY <1>7 DEF settle
  <2> QED BY <1>1, <2>1, <2>2, OutboxAssumption
<1>8. CASE UNCHANGED outboxVars
  BY <1>1, <1>8 DEF outboxVars
<1> QED BY <1>3, <1>4, <1>5, <1>6, <1>7, <1>8 DEF OutboxNext

\* Rows are well formed, in the database and in the open transaction, and exactly
\* the leased ones have a token (outbox.rs).
THEOREM OutboxTyped == OutboxSpec => []OutboxTypeOK
<1>1. OutboxIInv => OutboxTypeOK
  BY DEF OutboxIInv
<1> QED BY InitOK, NextOK, <1>1, PTL DEF OutboxSpec

\* Whatever clients roll back, lose in doubt, send again or claim by clocks that
\* disagree: a message is stored once under its key, is under one lease at a time by
\* the clocks of those who claim it, and a lease is settled at most once, by its
\* worker (enqueue, claim_messages and settle of outbox.rs).
THEOREM OutboxDeliversOnce == OutboxSpec => []DeliveredOnce
<1>1. OutboxIInv => DeliveredOnce
  BY DEF OutboxIInv, TableOK, RowsAreUnique, LeasesApart, SettlementsApart, DeliveredOnce,
     EnqueuedOnce, LeasesDoNotOverlap, SettledOnce
<1> QED BY InitOK, NextOK, <1>1, PTL DEF OutboxSpec

----------------------------------------------------------------------------
(* The local asset volume *)

\* What a file of the volume may be found as, and the files that hold a reason.
Marks == {"none", "ok", "torn"}
Claims == {"reason", "quarantine-intent"}
\* What a stage directory and a whole volume may hold.
StageValues ==
    {s \in [StageEntries -> Marks \cup AssetReasons] :
        \A e \in StageEntries \ Claims : s[e] \in Marks}
Medias == {d.media : d \in AssetDescriptors}
Volumes ==
    [loc : [AssetTokens -> {"none", "staging", "quarantine", "recovery"}],
     ent : [AssetTokens -> StageValues],
     locks : SUBSET AssetTokens,
     tomb : [AssetTokens -> Marks],
     content : [AssetDigests -> {"none", "ok"}],
     desc : [AssetKeys -> Medias \cup {"none"}]]

\* The places of each operation; only a new publication visits some of commit's.
StageAts == {"lock", "dir", "sync-locks", "content", "manifest", "sync-stage", "discard", "isolate"}
NewAts ==
    {"publish-content", "link-content", "drop-pending", "sync-stage", "descriptor",
     "link-descriptor", "drop-descriptor"}
CommitAts ==
    {"publish-intent", "sync-intent", "sync-content", "sync-descriptor", "tombstone",
     "sync-consumed", "consumed", "sync-marker", "retire"} \cup NewAts
QuarantineAts ==
    {"quarantine-intent", "sync-intent", "reason", "sync-reason", "tombstone", "sync-consumed",
     "rename", "sync-quarantine", "validate", "resync-quarantine", "drop-lock"}

\* The operations that may hold the gate, and what they answer.
AssetJobs ==
    [op : {"stage"}, t : AssetTokens, reason : {"none"}, at : StageAts]
      \cup [op : {"commit"}, t : AssetTokens, reason : {"new"}, at : CommitAts]
      \cup [op : {"commit"}, t : AssetTokens, reason : {"existing"}, at : CommitAts \ NewAts]
      \cup [op : {"quarantine"}, t : AssetTokens, reason : AssetReasons, at : QuarantineAts]

Results ==
    {"staged", "committed", "quarantined", "io", "indeterminate", "integrity", "conflict"}
GivenAnswers ==
    [op : {"stage", "commit", "quarantine"}, t : AssetTokens, res : Results, owed : BOOLEAN]

\* Types; answers and receipts are about stages that were handed out.
AssetTypeOK ==
    /\ vol \in Volumes /\ disk \in Volumes
    /\ volumeJob = NoJob \/ volumeJob \in AssetJobs
    /\ asset \in [AssetTokens -> AssetDescriptors]
    /\ heldStages \subseteq AssetTokens /\ owed \subseteq heldStages
    /\ answer = [op |-> "none"] \/ answer \in GivenAnswers
    /\ answer.op = "commit" => answer.t \in heldStages
    /\ assetReceipts \subseteq heldStages \X {"committed", "quarantined"}
    /\ assetFaults \in Nat /\ assetCrashes \in Nat

\* The address, the media and the digest of a token's asset.
KeyOf(t) == asset[t].key
MediaOf(t) == asset[t].media
DigestOf(t) == AssetDigestOf[asset[t].key]

\* What is synchronised is seen, and a descriptor has its content behind it,
\* whichever of the two a power loss leaves.
ContentOK ==
    /\ \A d \in AssetDigests : disk.content[d] = "ok" => vol.content[d] = "ok"
    /\ \A k \in AssetKeys :
         /\ disk.desc[k] # "none" => vol.desc[k] = disk.desc[k]
         /\ vol.desc[k] # "none" => disk.content[AssetDigestOf[k]] = "ok"

\* A stage somebody began to quarantine, for good.
Claimed(t) ==
    vol.ent[t]["quarantine-intent"] # "none" /\ disk.ent[t]["quarantine-intent"] # "none"

\* A consumed stage is one whose asset is committed for good, or that was claimed.
Marked(t) ==
    \/ vol.tomb[t] # "none" \/ vol.ent[t]["consumed"] # "none"
    \/ disk.tomb[t] # "none" \/ disk.ent[t]["consumed"] # "none"
ConsumedOK(t) ==
    /\ disk.tomb[t] # "none" => vol.tomb[t] # "none"
    /\ Marked(t) => t \in heldStages /\ (disk.desc[KeyOf(t)] = MediaOf(t) \/ Claimed(t))

\* What is torn was so at the last power loss.
TornStage(t) == \E e \in StageEntries : vol.ent[t][e] = "torn" /\ disk.ent[t][e] = "torn"
TornTomb(t) == vol.tomb[t] = "torn" /\ disk.tomb[t] = "torn"
TornOK(t) ==
    /\ vol.tomb[t] = "torn" => disk.tomb[t] = "torn"
    /\ \A e \in StageEntries : vol.ent[t][e] = "torn" => disk.ent[t][e] = "torn"

\* A receipt is good after a power loss too; a stage with a commit receipt has
\* its intent to show for it, or has lost its content.
Shows(s) == s["publish-intent"] # "none" \/ s["content"] # "ok"
ReceiptsOK(t) ==
    /\ <<t, "committed">> \in assetReceipts =>
         /\ disk.desc[KeyOf(t)] = MediaOf(t)
         /\ Shows(vol.ent[t]) /\ Shows(disk.ent[t])
         /\ <<t, "quarantined">> \notin assetReceipts
    /\ <<t, "quarantined">> \in assetReceipts =>
         vol.loc[t] = "quarantine" /\ disk.loc[t] = "quarantine"

\* All that is said of one token.
TokenOK(t) == ConsumedOK(t) /\ TornOK(t) /\ ReceiptsOK(t)

\* A commit can be tried again, and will find its stage or its asset.
Retryable(t) ==
    /\ t \in vol.locks /\ vol.loc[t] = "staging"
    /\ vol.ent[t]["manifest"] = "ok" /\ vol.ent[t]["content"] = "ok"
    /\ \/ Unconsumed(t) /\ vol.ent[t]["reason"] = "none"
       \/ ~Unconsumed(t) /\ vol.ent[t]["publish-intent"] = "ok" /\ Committed(t) = MediaOf(t)

\* Why a commit of t may be refused as damaged.
Spoilt(t) == Claimed(t) \/ TornStage(t) \/ TornTomb(t)

Quarantining(t) == volumeJob.op = "quarantine" /\ volumeJob.t = t

\* A commit that failed can be tried again, unless it was spoilt.
OwedOK ==
    /\ \A t \in owed : Quarantining(t) \/ Retryable(t) \/ Spoilt(t)
    /\ answer.op = "commit" /\ answer.owed /\ answer.res = "integrity" => Spoilt(answer.t)

\* A commit whose descriptor is known to be there.
Linked(at, r) ==
    \/ r = "existing"
    \/ at \in {"drop-descriptor", "sync-descriptor", "tombstone", "sync-consumed", "consumed",
               "sync-marker", "retire"}

\* What the commit of t knows at each place.
CommitAt(t, at, r) ==
    /\ t \in heldStages /\ Retryable(t) /\ vol.tomb[t] # "torn"
    /\ Linked(at, r) => vol.desc[KeyOf(t)] = MediaOf(t)
    /\ ~Linked(at, r) => vol.desc[KeyOf(t)] = "none" /\ Unconsumed(t)
    /\ at \in {"drop-pending", "sync-stage", "sync-content", "descriptor", "link-descriptor"} =>
         vol.content[DigestOf(t)] = "ok"
    /\ at \in {"descriptor", "link-descriptor"} => disk.content[DigestOf(t)] = "ok"
    /\ at \in {"tombstone", "sync-consumed", "consumed", "sync-marker", "retire"} =>
         disk.desc[KeyOf(t)] = MediaOf(t)
    /\ at \in {"sync-consumed", "consumed", "sync-marker", "retire"} => vol.tomb[t] = "ok"
    /\ at # "publish-intent" => vol.ent[t]["publish-intent"] = "ok"
    /\ at \notin {"publish-intent", "sync-intent"} => disk.ent[t]["publish-intent"] = "ok"
    /\ at \in {"link-content", "drop-pending"} => vol.ent[t]["publish-content"] = "ok"
    /\ at \in {"link-descriptor", "drop-descriptor"} => vol.ent[t]["descriptor"] = "ok"

\* What the quarantine of t knows at each place.
QuarantineAt(t, at) ==
    /\ t \in heldStages /\ <<t, "committed">> \notin assetReceipts /\ vol.tomb[t] # "torn"
    /\ at = "sync-intent" => vol.ent[t]["quarantine-intent"] # "none"
    /\ at \in {"reason", "sync-reason", "tombstone"} => Claimed(t)
    /\ at \in {"sync-quarantine", "validate", "resync-quarantine", "drop-lock"} =>
         vol.loc[t] = "quarantine"
    /\ at \in {"validate", "drop-lock"} => disk.loc[t] = "quarantine"

CommitOK == CommitAt(volumeJob.t, volumeJob.at, volumeJob.reason)
QuarantineOK == QuarantineAt(volumeJob.t, volumeJob.at)

\* What the operation that holds the gate knows.
JobOK ==
    /\ volumeJob.op = "stage" => volumeJob.t \notin heldStages
    /\ volumeJob.op = "commit" => CommitOK
    /\ volumeJob.op = "quarantine" => QuarantineOK

\* The inductive invariant of the volume.
AssetIInv ==
    /\ AssetTypeOK /\ ContentOK /\ OwedOK /\ JobOK
    /\ \A t \in AssetTokens : TokenOK(t)

\* A step that touches one stage, publishes more and takes nothing back.
Touches(t) ==
    /\ vol' \in Volumes /\ disk' \in Volumes
    /\ \A u \in AssetTokens \ {t} :
         /\ vol'.ent[u] = vol.ent[u] /\ disk'.ent[u] = disk.ent[u]
         /\ vol'.loc[u] = vol.loc[u] /\ disk'.loc[u] \in {vol.loc[u], disk.loc[u]}
         /\ vol'.tomb[u] = vol.tomb[u] /\ disk'.tomb[u] \in {vol.tomb[u], disk.tomb[u]}
         /\ u \in vol.locks => u \in vol'.locks
         /\ asset'[u] = asset[u]
    /\ \A k \in AssetKeys :
         /\ vol.desc[k] # "none" => vol'.desc[k] = vol.desc[k]
         /\ disk.desc[k] # "none" => disk'.desc[k] = disk.desc[k]

\* The entries of a stage, one by one.
LEMMA EntryFacts ==
    /\ StageEntries = {"content", "manifest", "descriptor", "consumed", "reason",
                       "publish-content", "publish-intent", "quarantine-intent"}
    /\ EmptyStage \in StageValues
    /\ \A e \in StageEntries : EmptyStage[e] = "none"
<1>1. StageEntries = {"content", "manifest", "descriptor", "consumed", "reason",
                      "publish-content", "publish-intent", "quarantine-intent"}
  <2>1. Len(StageEntryNames) = 8 /\ 1..8 = {1, 2, 3, 4, 5, 6, 7, 8}
    BY DEF StageEntryNames
  <2>2. StageEntries = {StageEntryNames[i] : i \in {1, 2, 3, 4, 5, 6, 7, 8}}
    BY <2>1 DEF StageEntries
  <2>3. /\ StageEntryNames[1] = "content" /\ StageEntryNames[2] = "manifest"
        /\ StageEntryNames[3] = "descriptor" /\ StageEntryNames[4] = "consumed"
        /\ StageEntryNames[5] = "reason" /\ StageEntryNames[6] = "publish-content"
        /\ StageEntryNames[7] = "publish-intent" /\ StageEntryNames[8] = "quarantine-intent"
    BY DEF StageEntryNames
  <2> QED BY <2>2, <2>3
<1>2. EmptyStage \in StageValues
  BY DEF EmptyStage, StageValues, Marks
<1> QED BY <1>1, <1>2 DEF EmptyStage

\* Reading a volume.
LEMMA VolumeFields ==
    ASSUME NEW v \in Volumes
    PROVE  /\ v.loc \in [AssetTokens -> {"none", "staging", "quarantine", "recovery"}]
           /\ v.ent \in [AssetTokens -> StageValues] /\ v.locks \subseteq AssetTokens
           /\ v.tomb \in [AssetTokens -> Marks] /\ v.content \in [AssetDigests -> {"none", "ok"}]
           /\ v.desc \in [AssetKeys -> Medias \cup {"none"}]
BY DEF Volumes

\* Writing an entry of a stage.
LEMMA EntrySet ==
    ASSUME NEW v \in Volumes, NEW t \in AssetTokens, NEW e \in StageEntries,
           NEW x \in Marks \cup AssetReasons,
           e \notin Claims => x \in Marks
    PROVE  LET w == [v EXCEPT !.ent[t][e] = x] IN
           /\ w \in Volumes /\ w.loc = v.loc /\ w.locks = v.locks /\ w.tomb = v.tomb
           /\ w.content = v.content /\ w.desc = v.desc
           /\ \A u \in AssetTokens, f \in StageEntries :
                w.ent[u][f] = IF u = t /\ f = e THEN x ELSE v.ent[u][f]
<1> DEFINE s == [v.ent[t] EXCEPT ![e] = x]
           w == [v EXCEPT !.ent[t][e] = x]
<1>0. v.ent \in [AssetTokens -> StageValues] /\ v.ent[t] \in StageValues
  BY VolumeFields
<1>1. s \in StageValues /\ \A f \in StageEntries : s[f] = IF f = e THEN x ELSE v.ent[t][f]
  BY <1>0 DEF StageValues
<1>2. w = [v EXCEPT !.ent = [v.ent EXCEPT ![t] = s]]
  BY DEF Volumes
<1> DEFINE n == [v.ent EXCEPT ![t] = s]
<1> HIDE DEF s, w
<1>3. n \in [AssetTokens -> StageValues] /\ \A u \in AssetTokens : n[u] = IF u = t THEN s ELSE v.ent[u]
  BY <1>0, <1>1
<1>4. w = [v EXCEPT !.ent = n]
  BY <1>2
<1> HIDE DEF n
<1>5. /\ w \in Volumes /\ w.loc = v.loc /\ w.locks = v.locks /\ w.tomb = v.tomb
      /\ w.content = v.content /\ w.desc = v.desc /\ w.ent = n
  BY <1>3, <1>4 DEF Volumes
<1>6. \A u \in AssetTokens, f \in StageEntries :
         w.ent[u][f] = IF u = t /\ f = e THEN x ELSE v.ent[u][f]
  BY <1>1, <1>3, <1>5
<1> QED BY <1>5, <1>6 DEF w

\* Replacing a whole stage directory.
LEMMA StageSet ==
    ASSUME NEW v \in Volumes, NEW t \in AssetTokens, NEW s \in StageValues
    PROVE  LET w == [v EXCEPT !.ent[t] = s] IN
           /\ w \in Volumes /\ w.loc = v.loc /\ w.locks = v.locks /\ w.tomb = v.tomb
           /\ w.content = v.content /\ w.desc = v.desc
           /\ \A u \in AssetTokens : w.ent[u] = IF u = t THEN s ELSE v.ent[u]
BY DEF Volumes

\* The asset of a token.
LEMMA AssetFacts ==
    ASSUME AssetTypeOK, NEW t \in AssetTokens
    PROVE  /\ KeyOf(t) \in AssetKeys /\ MediaOf(t) # "none" /\ MediaOf(t) \in Medias
           /\ DigestOf(t) \in AssetDigests /\ DigestOf(t) = AssetDigestOf[KeyOf(t)]
BY VolumeAssumption DEF AssetTypeOK, KeyOf, MediaOf, DigestOf, Medias

\* Reading a job.
LEMMA JobFacts ==
    ASSUME NEW j \in AssetJobs
    PROVE  /\ j.t \in AssetTokens /\ j.op \in {"stage", "commit", "quarantine"}
           /\ j.op = "stage" => j.at \in StageAts
           /\ j.op = "commit" => j.at \in CommitAts /\ j.reason \in {"new", "existing"}
           /\ j.op = "commit" /\ j.reason = "existing" => j.at \notin NewAts
           /\ j.op = "quarantine" => j.at \in QuarantineAts /\ j.reason \in AssetReasons
BY DEF AssetJobs

\* A move of a job to another place of its operation.
LEMMA AssetJobMoves ==
    ASSUME NEW j \in AssetJobs, NEW at,
           j.op = "stage" => at \in StageAts,
           j.op = "commit" => at \in CommitAts /\ (j.reason = "existing" => at \notin NewAts),
           j.op = "quarantine" => at \in QuarantineAts
    PROVE  LET k == [j EXCEPT !.at = at] IN
           k \in AssetJobs /\ k.op = j.op /\ k.t = j.t /\ k.reason = j.reason /\ k.at = at
<1> DEFINE k == [j EXCEPT !.at = at]
<1>1. CASE j \in [op : {"stage"}, t : AssetTokens, reason : {"none"}, at : StageAts]
  BY <1>1 DEF AssetJobs
<1>2. CASE j \in [op : {"commit"}, t : AssetTokens, reason : {"new"}, at : CommitAts]
  BY <1>2 DEF AssetJobs
<1>3. CASE j \in [op : {"commit"}, t : AssetTokens, reason : {"existing"}, at : CommitAts \ NewAts]
  BY <1>3 DEF AssetJobs
<1>4. CASE j \in [op : {"quarantine"}, t : AssetTokens, reason : AssetReasons, at : QuarantineAts]
  BY <1>4 DEF AssetJobs
<1> QED BY <1>1, <1>2, <1>3, <1>4 DEF AssetJobs

\* A step that touches one stage leaves what the invariant says of the others.
LEMMA OthersKeep ==
    ASSUME AssetIInv, NEW t \in AssetTokens, Touches(t), heldStages \subseteq heldStages',
           assetReceipts' \subseteq assetReceipts \cup ({t} \X {"committed", "quarantined"}),
           assetReceipts \subseteq assetReceipts',
           NEW u \in AssetTokens, u # t
    PROVE  /\ TokenOK(u)' /\ (Retryable(u) => Retryable(u)') /\ (Spoilt(u) => Spoilt(u)')
<1>0. /\ vol \in Volumes /\ disk \in Volumes /\ TokenOK(u)
      /\ \A e \in {"committed", "quarantined"} : <<u, e>> \in assetReceipts' <=> <<u, e>> \in assetReceipts
  BY DEF AssetIInv, AssetTypeOK
<1>1. /\ KeyOf(u) \in AssetKeys /\ MediaOf(u) # "none" /\ KeyOf(u)' = KeyOf(u)
      /\ MediaOf(u)' = MediaOf(u)
  BY AssetFacts DEF AssetIInv, Touches, KeyOf, MediaOf
<1>2. /\ vol'.ent[u] = vol.ent[u] /\ disk'.ent[u] = disk.ent[u]
      /\ vol'.loc[u] = vol.loc[u] /\ disk'.loc[u] \in {vol.loc[u], disk.loc[u]}
      /\ vol'.tomb[u] = vol.tomb[u] /\ disk'.tomb[u] \in {vol.tomb[u], disk.tomb[u]}
      /\ u \in vol.locks => u \in vol'.locks
      /\ vol.desc[KeyOf(u)] # "none" => vol'.desc[KeyOf(u)] = vol.desc[KeyOf(u)]
      /\ disk.desc[KeyOf(u)] # "none" => disk'.desc[KeyOf(u)] = disk.desc[KeyOf(u)]
  BY <1>1 DEF Touches
<1>3. ConsumedOK(u)'
  BY <1>0, <1>1, <1>2 DEF TokenOK, ConsumedOK, Marked, Claimed
<1>4. TornOK(u)'
  BY <1>0, <1>2 DEF TokenOK, TornOK
<1>5. ReceiptsOK(u)'
  BY <1>0, <1>1, <1>2 DEF TokenOK, ReceiptsOK, Shows
<1>6. Retryable(u) => Retryable(u)'
  BY <1>1, <1>2 DEF Retryable, Unconsumed, InStage, Committed, MediaOf, KeyOf
<1>7. Spoilt(u) => Spoilt(u)'
  BY <1>0, <1>2 DEF Spoilt, Claimed, TornStage, TornTomb, TokenOK, ConsumedOK, TornOK
<1> QED BY <1>3, <1>4, <1>5, <1>6, <1>7 DEF TokenOK

\* A job that moves on within its operation.
LEMMA MovedOK ==
    ASSUME AssetIInv, volumeJob \in AssetJobs, NEW t \in AssetTokens, t = volumeJob.t, Touches(t),
           ContentOK',
           asset' = asset, heldStages' = heldStages, assetReceipts' = assetReceipts, answer' = answer,
           owed' = owed, assetFaults' \in Nat, assetCrashes' = assetCrashes,
           volumeJob' \in AssetJobs, volumeJob'.op = volumeJob.op, volumeJob'.t = t,
           TokenOK(t)', JobOK', t \in heldStages /\ Spoilt(t) => Spoilt(t)'
    PROVE  AssetIInv'
<1>1. \A u \in AssetTokens : u # t =>
        TokenOK(u)' /\ (Retryable(u) => Retryable(u)') /\ (Spoilt(u) => Spoilt(u)')
  BY OthersKeep
<1>2. AssetTypeOK'
  BY DEF AssetIInv, AssetTypeOK, Touches
<1>3. \A u \in owed' : (Quarantining(u) \/ Retryable(u) \/ Spoilt(u))'
  <2> TAKE u \in owed'
  <2>1. u \in heldStages /\ u \in AssetTokens /\ (Quarantining(u) \/ Retryable(u) \/ Spoilt(u))
    BY DEF AssetIInv, AssetTypeOK, OwedOK
  <2>2. CASE u # t
    BY <1>1, <2>1, <2>2 DEF Quarantining
  <2>3. CASE u = t
    <3>1. volumeJob.op \in {"stage", "commit", "quarantine"}
      BY JobFacts
    <3>2. volumeJob.op # "stage"
      BY <2>1, <2>3 DEF AssetIInv, JobOK
    <3>3. volumeJob.op = "commit" => Retryable(u)'
      BY <2>3 DEF JobOK, CommitOK, CommitAt
    <3> QED BY <2>3, <3>1, <3>2, <3>3 DEF Quarantining
  <2> QED BY <2>2, <2>3
<1>4. (answer.op = "commit" /\ answer.owed /\ answer.res = "integrity" => Spoilt(answer.t))'
  <2> SUFFICES ASSUME answer.op = "commit", answer.owed, answer.res = "integrity" PROVE Spoilt(answer.t)'
    OBVIOUS
  <2>1. Spoilt(answer.t) /\ answer.t \in heldStages /\ answer.t \in AssetTokens
    BY DEF AssetIInv, OwedOK, AssetTypeOK
  <2> QED BY <1>1, <2>1
<1> QED BY <1>1, <1>2, <1>3, <1>4 DEF AssetIInv, OwedOK

\* An operation that answers.
LEMMA AnsweredOK ==
    ASSUME AssetIInv, NEW t \in AssetTokens, volumeJob = NoJob \/ volumeJob.t = t, Touches(t),
           ContentOK',
           NEW op \in {"stage", "commit", "quarantine"}, NEW res \in Results, Answers(op, t, res),
           op # "stage" => t \in heldStages,
           res \in {"committed", "quarantined"} => t \in heldStages,
           assetFaults' \in Nat, assetCrashes' = assetCrashes, TokenOK(t)',
           op = "commit" /\ res \in Transient => (Retryable(t) \/ Spoilt(t))',
           op = "commit" /\ t \in owed /\ res = "integrity" => Spoilt(t)'
    PROVE  AssetIInv'
<1>0. heldStages \subseteq heldStages' /\ heldStages' \subseteq heldStages \cup {t}
      /\ assetReceipts \subseteq assetReceipts'
      /\ assetReceipts' \subseteq assetReceipts \cup ({t} \X {"committed", "quarantined"})
  BY DEF Answers
<1>1. \A u \in AssetTokens : u # t =>
        TokenOK(u)' /\ (Retryable(u) => Retryable(u)') /\ (Spoilt(u) => Spoilt(u)')
  BY <1>0, OthersKeep
<1>2. owed' \subseteq heldStages'
  BY <1>0 DEF Answers, AssetIInv, AssetTypeOK
<1>3. answer' \in GivenAnswers /\ answer'.op = op /\ answer'.t = t /\ answer'.res = res
      /\ (answer'.owed <=> t \in owed)
  <2>1. (t \in owed) \in BOOLEAN
    OBVIOUS
  <2> DEFINE b == t \in owed
  <2>2. answer' = [op |-> op, t |-> t, res |-> res, owed |-> b]
    BY DEF Answers
  <2> HIDE DEF b
  <2>3. b \in BOOLEAN
    BY <2>1 DEF b
  <2> QED BY <2>2, <2>3 DEF GivenAnswers, b
<1>4. assetReceipts' \subseteq heldStages' \X {"committed", "quarantined"}
  <2>1. assetReceipts \subseteq heldStages \X {"committed", "quarantined"}
    BY DEF AssetIInv, AssetTypeOK
  <2>2. CASE res \in {"committed", "quarantined"}
    BY <1>0, <2>1, <2>2 DEF Answers
  <2>3. CASE res \notin {"committed", "quarantined"}
    BY <1>0, <2>1, <2>3 DEF Answers
  <2> QED BY <2>2, <2>3
<1>5. AssetTypeOK'
  BY <1>0, <1>2, <1>3, <1>4 DEF AssetIInv, AssetTypeOK, Touches, Answers
<1>6. \A u \in owed' : (Quarantining(u) \/ Retryable(u) \/ Spoilt(u))'
  <2> TAKE u \in owed'
  <2>1. CASE u # t
    <3>1. u \in owed /\ u \in AssetTokens
      BY <2>1 DEF Answers, AssetIInv, AssetTypeOK
    <3>2. ~Quarantining(u)
      BY <2>1 DEF Quarantining, NoJob
    <3> QED BY <1>1, <2>1, <3>1, <3>2 DEF AssetIInv, OwedOK
  <2>2. CASE u = t
    BY <2>2 DEF Answers
  <2> QED BY <2>1, <2>2
<1>7. (answer.op = "commit" /\ answer.owed /\ answer.res = "integrity" => Spoilt(answer.t))'
  BY <1>3
<1>8. JobOK'
  BY DEF Answers, NoJob, JobOK
<1> QED BY <1>1, <1>5, <1>6, <1>7, <1>8 DEF AssetIInv, OwedOK

\* What a change of the volume must keep for the stage it is about.
Keeps(t) == Touches(t) /\ ContentOK' /\ TokenOK(t)' /\ (Spoilt(t) => Spoilt(t)')

\* A step that leaves the stage's files as they are, and its tombstone.
LEMMA FilesStay ==
    ASSUME AssetIInv, NEW t \in AssetTokens, Touches(t), ContentOK', asset' = asset,
           heldStages \subseteq heldStages', assetReceipts' = assetReceipts,
           vol'.ent[t] = vol.ent[t], disk'.ent[t] \in {vol.ent[t], disk.ent[t]},
           vol'.tomb[t] = vol.tomb[t], disk'.tomb[t] \in {vol.tomb[t], disk.tomb[t]},
           <<t, "quarantined">> \in assetReceipts =>
             vol'.loc[t] = "quarantine" /\ disk'.loc[t] = "quarantine"
    PROVE  Keeps(t)
<1>1. /\ KeyOf(t) \in AssetKeys /\ MediaOf(t) # "none" /\ KeyOf(t)' = KeyOf(t)
      /\ MediaOf(t)' = MediaOf(t)
      /\ TokenOK(t)
  BY AssetFacts DEF AssetIInv, KeyOf, MediaOf
<1>2. disk.desc[KeyOf(t)] # "none" => disk'.desc[KeyOf(t)] = disk.desc[KeyOf(t)]
  BY <1>1 DEF Touches
<1>3. ConsumedOK(t)'
  BY <1>1, <1>2 DEF TokenOK, ConsumedOK, Marked, Claimed
<1>4. TornOK(t)'
  BY <1>1 DEF TokenOK, TornOK
<1>5. ReceiptsOK(t)'
  BY <1>1, <1>2 DEF TokenOK, ReceiptsOK, Shows
<1>6. Spoilt(t) => Spoilt(t)'
  BY <1>1 DEF Spoilt, Claimed, TornStage, TornTomb, TokenOK, TornOK
<1> QED BY <1>3, <1>4, <1>5, <1>6 DEF Keeps, TokenOK

\* The volume is left alone.
LEMMA NothingMoves ==
    ASSUME AssetIInv, NEW t \in AssetTokens, asset' = asset, heldStages \subseteq heldStages',
           assetReceipts' = assetReceipts, vol' = vol, disk' = disk
    PROVE  Keeps(t)
<1>1. Touches(t) /\ ContentOK'
  BY DEF AssetIInv, AssetTypeOK, Touches, ContentOK
<1>2. TokenOK(t)
  BY DEF AssetIInv
<1> QED BY <1>1, <1>2, FilesStay DEF TokenOK, ReceiptsOK

\* Directories are synchronised: the stage's, or the others'.
LEMMA SyncKeeps ==
    ASSUME AssetIInv, NEW t \in AssetTokens, asset' = asset, heldStages \subseteq heldStages',
           assetReceipts' = assetReceipts, vol' = vol, disk' \in Volumes,
           disk'.loc \in {vol.loc, disk.loc}, disk'.tomb \in {vol.tomb, disk.tomb},
           disk'.content \in {vol.content, disk.content}, disk'.desc \in {vol.desc, disk.desc},
           \A u \in AssetTokens \ {t} : disk'.ent[u] = disk.ent[u],
           disk'.ent[t] \in {vol.ent[t], disk.ent[t]}
    PROVE  Keeps(t)
<1>0. vol \in Volumes /\ TokenOK(t) /\ ContentOK
  BY DEF AssetIInv, AssetTypeOK
<1>1. Touches(t)
  BY <1>0 DEF Touches, ContentOK
<1>2. ContentOK'
  <2>1. \A d \in AssetDigests : disk'.content[d] = "ok" => vol.content[d] = "ok"
    BY <1>0 DEF ContentOK
  <2>2. \A d \in AssetDigests : disk.content[d] = "ok" => disk'.content[d] = "ok"
    BY <1>0 DEF ContentOK
  <2>3. \A k \in AssetKeys : AssetDigestOf[k] \in AssetDigests
    BY VolumeAssumption
  <2> QED BY <1>0, <2>1, <2>2, <2>3 DEF ContentOK
<1> QED BY <1>0, <1>1, <1>2, FilesStay DEF TokenOK, ReceiptsOK

\* A file of the stage is written, or a pending link removed.
LEMMA EntryWritten ==
    ASSUME AssetIInv, NEW t \in AssetTokens, asset' = asset, heldStages' = heldStages,
           assetReceipts' = assetReceipts, disk' = disk,
           NEW e \in StageEntries, NEW x \in Marks \cup AssetReasons, e \notin Claims => x \in Marks,
           vol' = [vol EXCEPT !.ent[t][e] = x], vol.ent[t][e] # "torn", x # "torn",
           x = "none" => e \in {"publish-content", "descriptor"},
           e = "content" => t \notin heldStages,
           e = "consumed" => t \in heldStages /\ disk.desc[KeyOf(t)] = MediaOf(t)
    PROVE  /\ Keeps(t) /\ vol'.loc = vol.loc /\ vol'.locks = vol.locks /\ vol'.tomb = vol.tomb
           /\ vol'.content = vol.content /\ vol'.desc = vol.desc
           /\ \A f \in StageEntries : vol'.ent[t][f] = IF f = e THEN x ELSE vol.ent[t][f]
<1>0. vol \in Volumes /\ disk \in Volumes /\ TokenOK(t) /\ ContentOK
  BY DEF AssetIInv, AssetTypeOK
<1>1. /\ vol' \in Volumes /\ vol'.loc = vol.loc /\ vol'.locks = vol.locks /\ vol'.tomb = vol.tomb
      /\ vol'.content = vol.content /\ vol'.desc = vol.desc
      /\ \A u \in AssetTokens, f \in StageEntries :
                vol'.ent[u][f] = IF u = t /\ f = e THEN x ELSE vol.ent[u][f]
  BY <1>0, EntrySet
<1>2. \A u \in AssetTokens \ {t} : vol'.ent[u] = vol.ent[u]
  BY <1>0, <1>1 DEF Volumes, StageValues
<1>3. Touches(t) /\ ContentOK'
  BY <1>0, <1>1, <1>2 DEF Touches, ContentOK
<1>4. KeyOf(t)' = KeyOf(t) /\ MediaOf(t)' = MediaOf(t)
  BY DEF KeyOf, MediaOf
<1>5. \A f \in StageEntries : vol'.ent[t][f] = IF f = e THEN x ELSE vol.ent[t][f]
  BY <1>1
<1>9. {"content", "consumed", "quarantine-intent", "publish-intent"} \subseteq StageEntries
  BY EntryFacts
<1>6. ConsumedOK(t)'
  BY <1>0, <1>1, <1>4, <1>5, <1>9 DEF TokenOK, ConsumedOK, Marked, Claimed
<1>7. TornOK(t)'
  BY <1>0, <1>1, <1>5 DEF TokenOK, TornOK
<1>8. ReceiptsOK(t)'
  <2>1. <<t, "committed">> \in assetReceipts => t \in heldStages
    BY DEF AssetIInv, AssetTypeOK
  <2> QED BY <1>0, <1>1, <1>4, <1>5, <1>9, <2>1 DEF TokenOK, ReceiptsOK, Shows
<1>10. Spoilt(t) => Spoilt(t)'
  BY <1>0, <1>1, <1>5, <1>9 DEF Spoilt, Claimed, TornStage, TornTomb
<1> QED BY <1>1, <1>3, <1>5, <1>6, <1>7, <1>8, <1>10 DEF Keeps, TokenOK

\* The tombstone is written.
LEMMA TombKeeps ==
    ASSUME AssetIInv, NEW t \in AssetTokens, asset' = asset, heldStages' = heldStages,
           assetReceipts' = assetReceipts, disk' = disk, vol' = [vol EXCEPT !.tomb[t] = "ok"],
           t \in heldStages, vol.tomb[t] # "torn", disk.desc[KeyOf(t)] = MediaOf(t) \/ Claimed(t)
    PROVE  /\ Keeps(t) /\ vol'.loc = vol.loc /\ vol'.locks = vol.locks /\ vol'.tomb[t] = "ok"
           /\ vol'.content = vol.content /\ vol'.desc = vol.desc /\ vol'.ent = vol.ent
<1>0. vol \in Volumes /\ disk \in Volumes /\ TokenOK(t) /\ ContentOK
  BY DEF AssetIInv, AssetTypeOK
<1> DEFINE n == [vol.tomb EXCEPT ![t] = "ok"]
<1>1. n \in [AssetTokens -> Marks] /\ \A u \in AssetTokens : n[u] = IF u = t THEN "ok" ELSE vol.tomb[u]
  BY <1>0, VolumeFields DEF Marks
<1>2. vol' = [vol EXCEPT !.tomb = n]
  OBVIOUS
<1> HIDE DEF n
<1>3. /\ vol' \in Volumes /\ vol'.loc = vol.loc /\ vol'.locks = vol.locks /\ vol'.tomb = n
      /\ vol'.content = vol.content /\ vol'.desc = vol.desc /\ vol'.ent = vol.ent
  BY <1>0, <1>1, <1>2 DEF Volumes
<1>4. Touches(t) /\ ContentOK'
  BY <1>0, <1>1, <1>3 DEF Touches, ContentOK
<1>5. KeyOf(t)' = KeyOf(t) /\ MediaOf(t)' = MediaOf(t)
  BY DEF KeyOf, MediaOf
<1>6. ConsumedOK(t)'
  BY <1>0, <1>1, <1>3, <1>5 DEF TokenOK, ConsumedOK, Marked, Claimed
<1>7. TornOK(t)'
  BY <1>0, <1>1, <1>3 DEF TokenOK, TornOK
<1>8. ReceiptsOK(t)'
  BY <1>0, <1>1, <1>3, <1>5 DEF TokenOK, ReceiptsOK, Shows
<1>10. Spoilt(t) => Spoilt(t)'
  BY <1>0, <1>1, <1>3 DEF Spoilt, Claimed, TornStage, TornTomb
<1> QED BY <1>1, <1>3, <1>4, <1>6, <1>7, <1>8, <1>10 DEF Keeps, TokenOK

\* Before a stage is handed out nothing is said of its token.
LEMMA UnheldKeeps ==
    ASSUME AssetIInv, NEW t \in AssetTokens, t \notin heldStages, heldStages' = heldStages,
           assetReceipts' = assetReceipts,
           Touches(t), vol'.tomb[t] = vol.tomb[t], disk'.tomb[t] \in {vol.tomb[t], disk.tomb[t]},
           \/ vol'.ent[t] = vol.ent[t] /\ disk'.ent[t] = disk.ent[t]
           \/ vol'.ent[t] = EmptyStage /\ disk'.ent[t] \in {disk.ent[t], EmptyStage}
    PROVE  TokenOK(t)'
<1>0. vol \in Volumes /\ disk \in Volumes /\ TokenOK(t)
  BY DEF AssetIInv, AssetTypeOK
<1>1. \A e \in StageEntries : EmptyStage[e] = "none"
  BY EntryFacts
<1>2. "consumed" \in StageEntries
  BY EntryFacts
<1>3. ~Marked(t)
  BY <1>0 DEF TokenOK, ConsumedOK
<1>4. ~Marked(t)'
  BY <1>1, <1>2, <1>3 DEF Marked
<1>5. ConsumedOK(t)'
  BY <1>4 DEF ConsumedOK, Marked
<1>6. TornOK(t)'
  BY <1>0, <1>1, <1>3 DEF TokenOK, TornOK, Marked
<1>7. ReceiptsOK(t)'
  BY DEF AssetIInv, AssetTypeOK, ReceiptsOK
<1> QED BY <1>5, <1>6, <1>7 DEF TokenOK

\* The operation that holds the gate.
LEMMA InJob ==
    ASSUME AssetIInv, volumeJob.op \in {"stage", "commit", "quarantine"}
    PROVE  /\ volumeJob \in AssetJobs /\ volumeJob.t \in AssetTokens
           /\ volumeJob.op = "stage" => volumeJob.at \in StageAts
           /\ volumeJob.op = "commit" => volumeJob.at \in CommitAts /\ volumeJob.reason \in {"new", "existing"}
           /\ volumeJob.op = "commit" /\ volumeJob.reason = "existing" => volumeJob.at \notin NewAts
           /\ volumeJob.op = "quarantine" => volumeJob.at \in QuarantineAts /\ volumeJob.reason \in AssetReasons
<1>1. volumeJob \in AssetJobs
  BY DEF AssetIInv, AssetTypeOK, NoJob
<1> QED BY <1>1, JobFacts

\* A stage in the making moves on.
LEMMA StageMoves ==
    ASSUME AssetIInv, volumeJob.op = "stage", NEW t \in AssetTokens, t = volumeJob.t,
           Touches(t), ContentOK', TokenOK(t)',
           UNCHANGED <<asset, heldStages, assetReceipts, answer, owed, assetCrashes>>,
           assetFaults' \in Nat,
           NEW at \in StageAts, Goto(at)
    PROVE  AssetIInv'
<1>1. volumeJob \in AssetJobs /\ volumeJob.t \in AssetTokens /\ volumeJob.t \notin heldStages
  BY InJob DEF AssetIInv, JobOK
<1>2. volumeJob' \in AssetJobs /\ volumeJob'.op = "stage" /\ volumeJob'.t = volumeJob.t
  BY <1>1, AssetJobMoves DEF Goto
<1>3. JobOK'
  BY <1>1, <1>2 DEF JobOK
<1> QED BY <1>1, <1>2, <1>3, MovedOK

\* A commit moves on.
LEMMA CommitMoves ==
    ASSUME AssetIInv, volumeJob.op = "commit", NEW t \in AssetTokens, t = volumeJob.t,
           Keeps(t), unchangedTalk,
           NEW at \in CommitAts, Goto(at), NEW r, r = volumeJob.reason,
           r = "existing" => at \notin NewAts, CommitAt(t, at, r)'
    PROVE  AssetIInv'
<1>1. volumeJob \in AssetJobs /\ volumeJob.t \in AssetTokens
  BY InJob
<1>2. volumeJob' \in AssetJobs /\ volumeJob'.op = "commit" /\ volumeJob'.t = t
      /\ volumeJob'.at = at /\ volumeJob'.reason = r
  BY <1>1, AssetJobMoves DEF Goto
<1>3. JobOK'
  BY <1>1, <1>2 DEF JobOK, CommitOK
<1>4. assetFaults' \in Nat
  BY DEF unchangedTalk, AssetIInv, AssetTypeOK
<1> QED BY <1>1, <1>2, <1>3, <1>4, MovedOK DEF Keeps, unchangedTalk

\* A quarantine moves on.
LEMMA QuarantineMoves ==
    ASSUME AssetIInv, volumeJob.op = "quarantine", NEW t \in AssetTokens, t = volumeJob.t,
           Keeps(t), unchangedTalk,
           NEW at \in QuarantineAts, Goto(at), QuarantineAt(t, at)'
    PROVE  AssetIInv'
<1>1. volumeJob \in AssetJobs /\ volumeJob.t \in AssetTokens
  BY InJob
<1>2. volumeJob' \in AssetJobs /\ volumeJob'.op = "quarantine" /\ volumeJob'.t = t /\ volumeJob'.at = at
  BY <1>1, AssetJobMoves DEF Goto
<1>3. JobOK'
  BY <1>1, <1>2 DEF JobOK, QuarantineOK
<1>4. assetFaults' \in Nat
  BY DEF unchangedTalk, AssetIInv, AssetTypeOK
<1> QED BY <1>1, <1>2, <1>3, <1>4, MovedOK DEF Keeps, unchangedTalk

\* A job answers without having changed the volume.
LEMMA StopsOK ==
    ASSUME AssetIInv, volumeJob.op \in {"stage", "commit", "quarantine"}, NEW t \in AssetTokens,
           t = volumeJob.t, NEW res \in {"io", "indeterminate", "integrity"},
           Finish(res), UNCHANGED <<vol, disk, assetCrashes>>, assetFaults' \in Nat,
           volumeJob.op = "commit" /\ res = "integrity" => Spoilt(t)
    PROVE  AssetIInv'
<1>1. volumeJob \in AssetJobs /\ t \in AssetTokens /\ (volumeJob.op # "stage" => t \in heldStages)
  BY InJob DEF AssetIInv, JobOK, CommitOK, CommitAt, QuarantineOK, QuarantineAt
<1>2. Answers(volumeJob.op, t, res) /\ asset' = asset /\ assetReceipts' = assetReceipts
      /\ heldStages' = heldStages
  BY DEF Finish, Answers
<1>3. Keeps(t)
  BY <1>1, <1>2, NothingMoves
<1>4. volumeJob.op = "commit" => Retryable(t)'
  BY <1>2 DEF AssetIInv, JobOK, CommitOK, CommitAt, Retryable, Unconsumed, InStage, Committed, MediaOf
<1>5. volumeJob.op = "commit" /\ res = "integrity" => Spoilt(t)'
  BY <1>3 DEF Keeps
<1>6. res \in Results /\ res \notin {"committed", "quarantined"}
  BY DEF Results
<1> QED BY <1>1, <1>2, <1>3, <1>4, <1>5, <1>6, AnsweredOK DEF Keeps

\* A call of a job fails.
LEMMA FailsOK ==
    ASSUME AssetIInv, volumeJob.op \in {"stage", "commit", "quarantine"},
           NEW res \in {"io", "indeterminate"}, Fails(res)
    PROVE  AssetIInv'
<1>1. assetFaults' \in Nat
  BY DEF Fails, Faulty, AssetIInv, AssetTypeOK
<1>2. volumeJob.t \in AssetTokens
  BY InJob
<1> QED BY <1>1, <1>2, StopsOK DEF Fails

\* A new stage.
LEMMA StageOK ==
    ASSUME AssetIInv, NEW t \in AssetTokens, NEW d \in AssetDescriptors, stage(t, d)
    PROVE  AssetIInv'
<1> DEFINE j == [op |-> "stage", t |-> t, reason |-> "none", at |-> "lock"]
<1>1. j \in AssetJobs /\ j.op = "stage" /\ j.t = t
  BY DEF AssetJobs, StageAts
<1>2. volumeJob' = j /\ asset' = [asset EXCEPT ![t] = d] /\ t \notin heldStages
      /\ UNCHANGED <<vol, disk, heldStages, assetReceipts, answer, owed, assetFaults, assetCrashes>>
  BY DEF stage
<1> HIDE DEF j
<1>3. asset' \in [AssetTokens -> AssetDescriptors] /\ \A u \in AssetTokens \ {t} : asset'[u] = asset[u]
  BY <1>2 DEF AssetIInv, AssetTypeOK
<1>4. Touches(t) /\ ContentOK'
  BY <1>2, <1>3 DEF AssetIInv, AssetTypeOK, Touches, ContentOK
<1>5. TokenOK(t)'
  BY <1>2, <1>4, UnheldKeeps
<1>6. \A u \in AssetTokens : u # t =>
        TokenOK(u)' /\ (Retryable(u) => Retryable(u)') /\ (Spoilt(u) => Spoilt(u)')
  BY <1>2, <1>4, OthersKeep
<1>7. AssetTypeOK'
  BY <1>1, <1>2, <1>3 DEF AssetIInv, AssetTypeOK
<1>8. \A u \in owed' : (Quarantining(u) \/ Retryable(u) \/ Spoilt(u))'
  <2> TAKE u \in owed'
  <2>1. u \in AssetTokens /\ u # t /\ (Retryable(u) \/ Spoilt(u))
    BY <1>2 DEF AssetIInv, AssetTypeOK, OwedOK, Quarantining, stage, NoJob
  <2> QED BY <1>6, <2>1
<1>9. (answer.op = "commit" /\ answer.owed /\ answer.res = "integrity" => Spoilt(answer.t))'
  <2> SUFFICES ASSUME answer.op = "commit", answer.owed, answer.res = "integrity" PROVE Spoilt(answer.t)'
    BY <1>2
  <2>1. Spoilt(answer.t) /\ answer.t \in heldStages /\ answer.t \in AssetTokens
    BY DEF AssetIInv, OwedOK, AssetTypeOK
  <2> QED BY <1>2, <1>6, <2>1
<1>10. JobOK'
  BY <1>1, <1>2 DEF JobOK
<1> QED BY <1>5, <1>6, <1>4, <1>7, <1>8, <1>9, <1>10 DEF AssetIInv, OwedOK

\* A stage in the making answers.
LEMMA StageAnswers ==
    ASSUME AssetIInv, volumeJob.op = "stage", NEW t \in AssetTokens, t = volumeJob.t,
           Touches(t), ContentOK', TokenOK(t)',
           NEW res \in {"io", "indeterminate", "staged"}, Finish(res), assetFaults' \in Nat,
           assetCrashes' = assetCrashes
    PROVE  AssetIInv'
<1>1. volumeJob \in AssetJobs
  BY InJob
<1>2. res \in Results /\ res \notin {"committed", "quarantined"} /\ Answers("stage", t, res)
  BY DEF Results, Finish
<1> QED BY <1>1, <1>2, AnsweredOK

\* Locks come and go.
LEMMA LockKeeps ==
    ASSUME AssetIInv, NEW t \in AssetTokens, asset' = asset, heldStages \subseteq heldStages',
           assetReceipts' = assetReceipts, NEW n \in SUBSET AssetTokens, vol.locks \ {t} \subseteq n,
           vol' = [vol EXCEPT !.locks = n], NEW m \in SUBSET AssetTokens,
           disk' = [disk EXCEPT !.locks = m]
    PROVE  Keeps(t)
<1>0. vol \in Volumes /\ disk \in Volumes /\ TokenOK(t) /\ ContentOK
  BY DEF AssetIInv, AssetTypeOK
<1>1. /\ vol' \in Volumes /\ vol'.loc = vol.loc /\ vol'.ent = vol.ent /\ vol'.locks = n
      /\ vol'.tomb = vol.tomb
      /\ vol'.content = vol.content /\ vol'.desc = vol.desc
  BY <1>0 DEF Volumes
<1>2. /\ disk' \in Volumes /\ disk'.loc = disk.loc /\ disk'.ent = disk.ent /\ disk'.tomb = disk.tomb
      /\ disk'.content = disk.content /\ disk'.desc = disk.desc
  BY <1>0 DEF Volumes
<1>3. Touches(t) /\ ContentOK'
  BY <1>0, <1>1, <1>2 DEF Touches, ContentOK
<1> QED BY <1>0, <1>1, <1>2, <1>3, FilesStay DEF TokenOK, ReceiptsOK

\* create_stage_directory.
LEMMA CreateStageOK ==
    ASSUME AssetIInv, create_stage_directory
    PROVE  AssetIInv'
<1>0. volumeJob.op = "stage"
  BY DEF create_stage_directory
<1>1. PICK t \in AssetTokens : t = volumeJob.t
  BY <1>0, InJob
<1>2. t \notin heldStages /\ vol \in Volumes /\ disk \in Volumes /\ ContentOK /\ assetFaults \in Nat
      /\ assetReceipts \subseteq heldStages \X {"committed", "quarantined"}
  BY <1>0, <1>1 DEF AssetIInv, AssetTypeOK, JobOK
<1>3. CASE volumeJob.at = "lock" /\ Does([vol EXCEPT !.locks = @ \cup {volumeJob.t}], "dir")
  <2>1. disk = [disk EXCEPT !.locks = disk.locks] /\ disk.locks \in SUBSET AssetTokens
        /\ vol.locks \in SUBSET AssetTokens
    BY <1>2 DEF Volumes
  <2>2. vol' = [vol EXCEPT !.locks = vol.locks \cup {t}] /\ disk' = disk /\ Goto("dir") /\ unchangedTalk
    BY <1>1, <1>3 DEF Does
  <2>3. Keeps(t)
    BY <2>1, <2>2, LockKeeps DEF unchangedTalk
  <2> QED BY <1>0, <1>1, <1>2, <2>2, <2>3, StageMoves DEF Keeps, unchangedTalk, StageAts
<1>4. CASE Fails("io")
  BY <1>0, <1>4, FailsOK
<1>5. CASE /\ volumeJob.at = "dir"
           /\ vol' = [vol EXCEPT !.loc[volumeJob.t] = "staging", !.ent[volumeJob.t] = EmptyStage]
           /\ disk' = [disk EXCEPT !.loc = vol'.loc]
           /\ Goto("sync-locks") /\ unchangedTalk
  <2>1. /\ vol' \in Volumes /\ vol'.locks = vol.locks /\ vol'.tomb = vol.tomb
        /\ vol'.content = vol.content /\ vol'.desc = vol.desc
        /\ \A u \in AssetTokens : /\ vol'.loc[u] = IF u = t THEN "staging" ELSE vol.loc[u]
                                  /\ vol'.ent[u] = IF u = t THEN EmptyStage ELSE vol.ent[u]
    <3>1. vol' = [vol EXCEPT !.loc = [vol.loc EXCEPT ![t] = "staging"],
          !.ent = [vol.ent EXCEPT ![t] = EmptyStage]]
      BY <1>1, <1>5
    <3> DEFINE l == [vol.loc EXCEPT ![t] = "staging"]  n == [vol.ent EXCEPT ![t] = EmptyStage]
    <3>2. /\ l \in [AssetTokens -> {"none", "staging", "quarantine", "recovery"}]
          /\ \A u \in AssetTokens : l[u] = IF u = t THEN "staging" ELSE vol.loc[u]
      BY <1>2, VolumeFields
    <3>3. n \in [AssetTokens -> StageValues]
          /\ \A u \in AssetTokens : n[u] = IF u = t THEN EmptyStage ELSE vol.ent[u]
      BY <1>2, VolumeFields, EntryFacts
    <3>4. vol' = [vol EXCEPT !.loc = l, !.ent = n]
      BY <3>1
    <3> HIDE DEF l, n
    <3> QED BY <1>2, <3>2, <3>3, <3>4 DEF Volumes
  <2>2. /\ disk' \in Volumes /\ disk'.ent = disk.ent /\ disk'.tomb = disk.tomb /\ disk'.loc = vol'.loc
        /\ disk'.content = disk.content /\ disk'.desc = disk.desc
    BY <1>2, <1>5, <2>1 DEF Volumes
  <2>3. Touches(t) /\ ContentOK'
    BY <1>2, <1>5, <2>1, <2>2 DEF Touches, ContentOK, unchangedTalk
  <2>4. TokenOK(t)'
    BY <1>2, <1>5, <2>1, <2>2, <2>3, UnheldKeeps DEF unchangedTalk
  <2> QED BY <1>0, <1>1, <1>2, <1>5, <2>3, <2>4, StageMoves DEF unchangedTalk, StageAts
<1>6. CASE /\ Faulty /\ Finish("io")
           /\ vol' = [vol EXCEPT !.locks = @ \ {volumeJob.t}]
           /\ UNCHANGED <<disk, assetCrashes>>
  <2>1. disk = [disk EXCEPT !.locks = disk.locks] /\ disk.locks \in SUBSET AssetTokens
        /\ vol.locks \in SUBSET AssetTokens
    BY <1>2 DEF Volumes
  <2>2. vol' = [vol EXCEPT !.locks = vol.locks \ {t}] /\ disk' = disk /\ asset' = asset
        /\ assetReceipts' = assetReceipts /\ heldStages' = heldStages /\ assetFaults' \in Nat
    BY <1>1, <1>2, <1>6 DEF Finish, Answers, Faulty
  <2>3. Keeps(t)
    BY <2>1, <2>2, LockKeeps
  <2> QED BY <1>0, <1>1, <1>6, <2>2, <2>3, StageAnswers DEF Keeps
<1>7. CASE volumeJob.at = "sync-locks" /\ Syncs([disk EXCEPT !.locks = vol.locks], "content")
  <2>1. vol = [vol EXCEPT !.locks = vol.locks] /\ vol.locks \in SUBSET AssetTokens
    BY <1>2 DEF Volumes
  <2>2. vol' = vol /\ disk' = [disk EXCEPT !.locks = vol.locks] /\ Goto("content") /\ unchangedTalk
    BY <1>1, <1>7 DEF Syncs
  <2>3. Keeps(t)
    BY <2>1, <2>2, LockKeeps DEF unchangedTalk
  <2> QED BY <1>0, <1>1, <1>2, <2>2, <2>3, StageMoves DEF Keeps, unchangedTalk, StageAts
<1> QED BY <1>3, <1>4, <1>5, <1>6, <1>7 DEF create_stage_directory

\* A synchronised stage directory.
LEMMA StageSynced ==
    ASSUME AssetIInv, NEW t \in AssetTokens, t = volumeJob.t, asset' = asset,
           heldStages \subseteq heldStages',
           assetReceipts' = assetReceipts, vol' = vol, disk' = SyncedStage
    PROVE  /\ Keeps(t) /\ disk'.desc = disk.desc /\ disk'.content = disk.content
    /\ disk'.ent[t] = vol.ent[t]
           /\ disk'.loc = disk.loc
<1>0. vol \in Volumes /\ disk \in Volumes /\ vol.ent[t] \in StageValues
  BY VolumeFields DEF AssetIInv, AssetTypeOK
<1>1. disk' = [disk EXCEPT !.ent[t] = vol.ent[t]]
  BY DEF SyncedStage
<1>2. /\ disk' \in Volumes /\ disk'.loc = disk.loc /\ disk'.locks = disk.locks /\ disk'.tomb = disk.tomb
      /\ disk'.content = disk.content /\ disk'.desc = disk.desc
      /\ \A u \in AssetTokens : disk'.ent[u] = IF u = t THEN vol.ent[t] ELSE disk.ent[u]
  BY <1>0, <1>1 DEF Volumes
<1> QED BY <1>2, SyncKeeps

\* write_stage.
LEMMA WriteStageOK ==
    ASSUME AssetIInv, write_stage
    PROVE  AssetIInv'
<1>0. volumeJob.op = "stage"
  BY DEF write_stage
<1>1. PICK t \in AssetTokens : t = volumeJob.t
  BY <1>0, InJob
<1>2. t \notin heldStages /\ vol \in Volumes /\ disk \in Volumes /\ assetFaults \in Nat
  BY <1>0, <1>1 DEF AssetIInv, AssetTypeOK, JobOK
<1>3. CASE /\ volumeJob.at \in {"content", "manifest"}
           /\ Writes(volumeJob.at, "ok", IF volumeJob.at = "content" THEN "manifest" ELSE "sync-stage")
  <2>1. PICK e \in {"content", "manifest"} : e = volumeJob.at
    BY <1>3
  <2>2. /\ vol.ent[t][e] \in {"none", "ok"} /\ vol' = [vol EXCEPT !.ent[t][e] = "ok"] /\ disk' = disk
        /\ unchangedTalk /\ Goto(IF e = "content" THEN "manifest" ELSE "sync-stage")
    BY <1>1, <1>3, <2>1 DEF Writes
  <2>3. e \in StageEntries
    BY EntryFacts
  <2>4. Keeps(t)
    BY <1>2, <2>2, <2>3, EntryWritten DEF unchangedTalk, Marks
  <2>5. (IF e = "content" THEN "manifest" ELSE "sync-stage") \in StageAts
    BY DEF StageAts
  <2> QED BY <1>0, <1>1, <1>2, <2>2, <2>4, <2>5, StageMoves DEF Keeps, unchangedTalk
<1>4. CASE /\ disk' = SyncedStage
           /\ Finish("staged") /\ UNCHANGED <<vol, assetFaults, assetCrashes>>
  <2>1. asset' = asset /\ assetReceipts' = assetReceipts /\ heldStages \subseteq heldStages'
    BY <1>4 DEF Finish, Answers
  <2>2. Keeps(t)
    BY <1>1, <1>4, <2>1, StageSynced
  <2> QED BY <1>0, <1>1, <1>2, <1>4, <2>2, StageAnswers DEF Keeps
<1>5. CASE /\ Faulty /\ Goto("discard")
           /\ UNCHANGED <<vol, disk, asset, heldStages, assetReceipts, answer, owed, assetCrashes>>
  <2>1. Keeps(t)
    BY <1>5, NothingMoves
  <2>2. assetFaults' \in Nat
    BY <1>2, <1>5 DEF Faulty
  <2> QED BY <1>0, <1>1, <1>5, <2>1, <2>2, StageMoves DEF Keeps, StageAts
<1> QED BY <1>3, <1>4, <1>5 DEF write_stage

\* finish_failed_stage.
LEMMA FailedStageOK ==
    ASSUME AssetIInv, finish_failed_stage
    PROVE  AssetIInv'
<1>0. volumeJob.op = "stage"
  BY DEF finish_failed_stage
<1>1. PICK t \in AssetTokens : t = volumeJob.t
  BY <1>0, InJob
<1>2. t \notin heldStages /\ vol \in Volumes /\ disk \in Volumes /\ assetFaults \in Nat /\ ContentOK
  BY <1>0, <1>1 DEF AssetIInv, AssetTypeOK, JobOK
<1>3. CASE /\ vol' = [vol EXCEPT !.loc[volumeJob.t] = "none", !.ent[volumeJob.t] = EmptyStage,
                                 !.locks = @ \ {volumeJob.t}]
           /\ disk' = [disk EXCEPT !.loc = vol'.loc, !.ent[volumeJob.t] = EmptyStage,
                                   !.locks = vol'.locks]
           /\ Finish("io") /\ UNCHANGED <<assetFaults, assetCrashes>>
  <2> DEFINE l == [vol.loc EXCEPT ![t] = "none"]  n == [vol.ent EXCEPT ![t] = EmptyStage]
             m == [disk.ent EXCEPT ![t] = EmptyStage]  k == vol.locks \ {t}
  <2>1. /\ l \in [AssetTokens -> {"none", "staging", "quarantine", "recovery"}]
        /\ \A u \in AssetTokens : l[u] = IF u = t THEN "none" ELSE vol.loc[u]
    BY <1>2, VolumeFields
  <2>2. n \in [AssetTokens -> StageValues]
        /\ \A u \in AssetTokens : n[u] = IF u = t THEN EmptyStage ELSE vol.ent[u]
    BY <1>2, VolumeFields, EntryFacts
  <2>3. m \in [AssetTokens -> StageValues]
        /\ \A u \in AssetTokens : m[u] = IF u = t THEN EmptyStage ELSE disk.ent[u]
    BY <1>2, VolumeFields, EntryFacts
  <2>4. k \in SUBSET AssetTokens /\ \A u \in AssetTokens : u # t /\ u \in vol.locks => u \in k
    BY <1>2, VolumeFields
  <2>5. vol' = [vol EXCEPT !.loc = l, !.ent = n, !.locks = k]
    BY <1>1, <1>3
  <2>6. disk' = [disk EXCEPT !.loc = vol'.loc, !.ent = m, !.locks = vol'.locks]
    BY <1>1, <1>3
  <2> HIDE DEF l, n, m, k
  <2>7. /\ vol' \in Volumes /\ vol'.locks = k /\ vol'.tomb = vol.tomb /\ vol'.loc = l /\ vol'.ent = n
        /\ vol'.content = vol.content /\ vol'.desc = vol.desc
    BY <1>2, <2>1, <2>2, <2>4, <2>5 DEF Volumes
  <2>8. /\ disk' \in Volumes /\ disk'.tomb = disk.tomb /\ disk'.loc = l /\ disk'.ent = m
        /\ disk'.content = disk.content /\ disk'.desc = disk.desc
    BY <1>2, <2>1, <2>3, <2>4, <2>6, <2>7 DEF Volumes
  <2>9. asset' = asset /\ assetReceipts' = assetReceipts /\ heldStages' = heldStages
    BY <1>3 DEF Finish, Answers
  <2>10. Touches(t) /\ ContentOK'
    BY <1>2, <2>1, <2>2, <2>3, <2>4, <2>7, <2>8, <2>9 DEF Touches, ContentOK
  <2>11. TokenOK(t)'
    BY <1>2, <2>2, <2>3, <2>7, <2>8, <2>9, <2>10, UnheldKeeps
  <2> QED BY <1>0, <1>1, <1>2, <1>3, <2>10, <2>11, StageAnswers
<1>4. CASE Goto("isolate") /\ unchangedTalk /\ UNCHANGED <<vol, disk>>
  <2>1. Keeps(t)
    BY <1>4, NothingMoves DEF unchangedTalk
  <2> QED BY <1>0, <1>1, <1>2, <1>4, <2>1, StageMoves DEF Keeps, StageAts, unchangedTalk
<1> QED BY <1>3, <1>4 DEF finish_failed_stage

\* isolate_failed_stage.
LEMMA IsolateOK ==
    ASSUME AssetIInv, isolate_failed_stage
    PROVE  AssetIInv'
<1>0. volumeJob.op = "stage"
  BY DEF isolate_failed_stage
<1>1. PICK t \in AssetTokens : t = volumeJob.t
  BY <1>0, InJob
<1>2. t \notin heldStages /\ vol \in Volumes /\ disk \in Volumes /\ assetFaults \in Nat /\ ContentOK
  BY <1>0, <1>1 DEF AssetIInv, AssetTypeOK, JobOK
<1>3. CASE /\ vol' = [vol EXCEPT !.loc[volumeJob.t] = "recovery", !.locks = @ \ {volumeJob.t}]
           /\ disk' = [disk EXCEPT !.loc = vol'.loc, !.locks = vol'.locks]
           /\ Finish("io") /\ UNCHANGED <<assetFaults, assetCrashes>>
  <2> DEFINE l == [vol.loc EXCEPT ![t] = "recovery"]  k == vol.locks \ {t}
  <2>1. /\ l \in [AssetTokens -> {"none", "staging", "quarantine", "recovery"}]
        /\ \A u \in AssetTokens : l[u] = IF u = t THEN "recovery" ELSE vol.loc[u]
    BY <1>2, VolumeFields
  <2>4. k \in SUBSET AssetTokens /\ \A u \in AssetTokens : u # t /\ u \in vol.locks => u \in k
    BY <1>2, VolumeFields
  <2>5. vol' = [vol EXCEPT !.loc = l, !.locks = k]
    BY <1>1, <1>3
  <2>6. disk' = [disk EXCEPT !.loc = vol'.loc, !.locks = vol'.locks]
    BY <1>1, <1>3
  <2> HIDE DEF l, k
  <2>7. /\ vol' \in Volumes /\ vol'.locks = k /\ vol'.tomb = vol.tomb /\ vol'.loc = l
        /\ vol'.ent = vol.ent
        /\ vol'.content = vol.content /\ vol'.desc = vol.desc
    BY <1>2, <2>1, <2>4, <2>5 DEF Volumes
  <2>8. /\ disk' \in Volumes /\ disk'.tomb = disk.tomb /\ disk'.loc = l /\ disk'.ent = disk.ent
        /\ disk'.content = disk.content /\ disk'.desc = disk.desc
    BY <1>2, <2>1, <2>4, <2>6, <2>7 DEF Volumes
  <2>9. asset' = asset /\ assetReceipts' = assetReceipts /\ heldStages' = heldStages
    BY <1>3 DEF Finish, Answers
  <2>10. Touches(t) /\ ContentOK'
    BY <1>2, <2>1, <2>4, <2>7, <2>8, <2>9 DEF Touches, ContentOK
  <2>11. TokenOK(t)'
    BY <1>2, <2>7, <2>8, <2>9, <2>10, UnheldKeeps
  <2> QED BY <1>0, <1>1, <1>2, <1>3, <2>10, <2>11, StageAnswers
<1>4. CASE Finish("indeterminate") /\ UNCHANGED <<vol, disk, assetFaults, assetCrashes>>
  BY <1>0, <1>1, <1>2, <1>4, StopsOK
<1> QED BY <1>3, <1>4 DEF isolate_failed_stage

\* What the invariant says while a commit holds the gate.
LEMMA InCommit ==
    ASSUME AssetIInv, volumeJob.op = "commit"
    PROVE  \E t \in AssetTokens, r \in {"new", "existing"} :
             /\ t = volumeJob.t /\ r = volumeJob.reason /\ CommitAt(t, volumeJob.at, r)
             /\ volumeJob.at \in CommitAts /\ (r = "existing" => volumeJob.at \notin NewAts)
BY InJob DEF AssetIInv, JobOK, CommitOK

\* A commit writes a file of its stage, or removes a pending link.
LEMMA CommitWrites ==
    ASSUME AssetIInv, volumeJob.op = "commit", NEW t \in AssetTokens, t = volumeJob.t,
           NEW r \in {"new", "existing"}, r = volumeJob.reason, NEW next \in CommitAts,
           r = "existing" => next \notin NewAts,
           NEW e \in StageEntries \ {"content", "manifest", "reason", "quarantine-intent"},
           NEW x \in {"none", "ok"},
           vol' = [vol EXCEPT !.ent[t][e] = x], disk' = disk, Goto(next), unchangedTalk,
           vol.ent[t][e] # "torn", x = "none" => e \in {"publish-content", "descriptor"},
           e = "consumed" => t \in heldStages /\ disk.desc[KeyOf(t)] = MediaOf(t),
           CommitAt(t, volumeJob.at, r),
           \/ volumeJob.at = "publish-intent" /\ next = "sync-intent" /\ e = "publish-intent" /\ x = "ok"
           \/ volumeJob.at = "publish-content" /\ next = "link-content" /\ e = "publish-content" /\ x = "ok"
           \/ volumeJob.at = "drop-pending" /\ next = "sync-stage" /\ e = "publish-content" /\ x = "none"
           \/ volumeJob.at = "descriptor" /\ next = "link-descriptor" /\ e = "descriptor" /\ x = "ok"
           \/ volumeJob.at = "drop-descriptor" /\ next = "sync-descriptor" /\ e = "descriptor" /\ x = "none"
           \/ volumeJob.at = "consumed" /\ next = "sync-marker" /\ e = "consumed" /\ x = "ok"
    PROVE  AssetIInv'
<1>1. /\ Keeps(t) /\ vol'.loc = vol.loc /\ vol'.locks = vol.locks /\ vol'.tomb = vol.tomb
      /\ vol'.content = vol.content /\ vol'.desc = vol.desc
      /\ \A f \in StageEntries : vol'.ent[t][f] = IF f = e THEN x ELSE vol.ent[t][f]
  <2>1. /\ x \in Marks /\ x # "torn" /\ e # "content" /\ asset' = asset /\ heldStages' = heldStages
        /\ assetReceipts' = assetReceipts
    BY DEF unchangedTalk, Marks
  <2> QED BY <2>1, EntryWritten
<1>2. \A f \in {"content", "manifest", "reason", "consumed", "publish-intent", "publish-content", "descriptor"} :
         vol'.ent[t][f] = IF f = e THEN x ELSE vol.ent[t][f]
  BY <1>1, EntryFacts
<1>3. KeyOf(t)' = KeyOf(t) /\ MediaOf(t)' = MediaOf(t) /\ DigestOf(t)' = DigestOf(t)
      /\ heldStages' = heldStages
  BY DEF KeyOf, MediaOf, DigestOf, unchangedTalk
<1>4. Retryable(t) /\ Committed(t) = vol.desc[KeyOf(t)] /\ Committed(t)' = vol'.desc[KeyOf(t)]
  BY <1>3 DEF CommitAt, Committed, KeyOf
<1>5. /\ t \in vol.locks /\ vol.loc[t] = "staging"
      /\ Unconsumed(t) <=> (vol.tomb[t] = "none" /\ vol.ent[t]["consumed"] = "none")
      /\ Unconsumed(t)' <=> (vol'.tomb[t] = "none" /\ vol'.ent[t]["consumed"] = "none")
  BY <1>1, <1>4 DEF Retryable, Unconsumed, InStage
<1>6. Retryable(t)'
  BY <1>1, <1>2, <1>3, <1>4, <1>5 DEF Retryable, CommitAt, Linked
<1>7. CommitAt(t, next, r)'
  BY <1>1, <1>2, <1>3, <1>4, <1>5, <1>6 DEF CommitAt, Linked
<1> QED BY <1>1, <1>7, CommitMoves

\* A commit synchronises a directory.
LEMMA CommitSyncs ==
    ASSUME AssetIInv, volumeJob.op = "commit", NEW t \in AssetTokens, t = volumeJob.t,
           NEW r \in {"new", "existing"}, r = volumeJob.reason, NEW next \in CommitAts,
           r = "existing" => next \notin NewAts,
           vol' = vol, Keeps(t), Goto(next), unchangedTalk, CommitAt(t, volumeJob.at, r),
           disk'.ent[t]["publish-intent"] \in {vol.ent[t]["publish-intent"], disk.ent[t]["publish-intent"]},
           disk'.content[DigestOf(t)] \in {vol.content[DigestOf(t)], disk.content[DigestOf(t)]},
           \/ /\ volumeJob.at = "sync-intent" /\ next = (IF r = "new" THEN "publish-content" ELSE "sync-content")
              /\ disk'.ent[t]["publish-intent"] = vol.ent[t]["publish-intent"]
           \/ volumeJob.at = "sync-stage" /\ next = "sync-content" /\ r = "new"
           \/ volumeJob.at = "sync-marker" /\ next = "retire"
           \/ /\ volumeJob.at = "sync-content" /\ next = (IF r = "new" THEN "descriptor" ELSE "sync-descriptor")
              /\ disk'.content[DigestOf(t)] = vol.content[DigestOf(t)]
           \/ volumeJob.at = "sync-descriptor" /\ next = "tombstone" /\ disk'.desc[KeyOf(t)] = vol.desc[KeyOf(t)]
           \/ volumeJob.at = "sync-consumed" /\ next = "consumed"
    PROVE  AssetIInv'
<1>0. vol \in Volumes /\ disk \in Volumes /\ ContentOK /\ AssetTypeOK
  BY DEF AssetIInv, AssetTypeOK
<1>1. KeyOf(t)' = KeyOf(t) /\ MediaOf(t)' = MediaOf(t) /\ DigestOf(t)' = DigestOf(t)
      /\ heldStages' = heldStages
      /\ KeyOf(t) \in AssetKeys /\ MediaOf(t) # "none" /\ DigestOf(t) = AssetDigestOf[KeyOf(t)]
      /\ DigestOf(t) \in AssetDigests
  BY <1>0, AssetFacts DEF KeyOf, MediaOf, DigestOf, unchangedTalk
<1>2. Retryable(t) /\ Retryable(t)' /\ (Unconsumed(t)' <=> Unconsumed(t))
  BY <1>1 DEF CommitAt, Retryable, Unconsumed, InStage, Committed, KeyOf, MediaOf, unchangedTalk
<1>3. vol.desc[KeyOf(t)] = MediaOf(t) => disk.content[DigestOf(t)] = "ok" /\ vol.content[DigestOf(t)] = "ok"
  BY <1>0, <1>1 DEF ContentOK
<1>4. disk.desc[KeyOf(t)] = MediaOf(t) => disk'.desc[KeyOf(t)] = MediaOf(t)
  BY <1>1 DEF Keeps, Touches
<1>5. CASE volumeJob.at \in {"sync-intent", "sync-stage", "sync-marker"}
  <2>1. CommitAt(t, next, r)'
    BY <1>1, <1>2, <1>3, <1>4, <1>5 DEF CommitAt, Linked
  <2> QED BY <2>1, CommitMoves
<1>6. CASE volumeJob.at \in {"sync-content", "sync-descriptor", "sync-consumed"}
  <2>1. CommitAt(t, next, r)'
    BY <1>1, <1>2, <1>3, <1>4, <1>6 DEF CommitAt, Linked
  <2> QED BY <2>1, CommitMoves
<1> QED BY <1>5, <1>6

\* prepare_publish_intent.
LEMMA PublishIntentOK ==
    ASSUME AssetIInv, prepare_publish_intent
    PROVE  AssetIInv'
<1>0. volumeJob.op = "commit"
  BY DEF prepare_publish_intent
<1>1. PICK t \in AssetTokens, r \in {"new", "existing"} :
        /\ t = volumeJob.t /\ r = volumeJob.reason /\ CommitAt(t, volumeJob.at, r)
        /\ volumeJob.at \in CommitAts /\ (r = "existing" => volumeJob.at \notin NewAts)
  BY <1>0, InCommit
<1>2. CASE volumeJob.at = "publish-intent" /\ Writes("publish-intent", "ok", "sync-intent")
  <2>1. "publish-intent" \in StageEntries \ {"content", "manifest", "reason", "quarantine-intent"}
    BY EntryFacts
  <2>2. "sync-intent" \in CommitAts /\ "sync-intent" \notin NewAts
    BY DEF CommitAts, NewAts
  <2> QED BY <1>0, <1>1, <1>2, <2>1, <2>2, CommitWrites DEF Writes
<1>3. CASE Fails("io")
  BY <1>0, <1>3, FailsOK
<1>4. CASE /\ volumeJob.at = "sync-intent"
           /\ Syncs(SyncedStage, IF volumeJob.reason = "new" THEN "publish-content" ELSE "sync-content")
  <2> DEFINE next == IF r = "new" THEN "publish-content" ELSE "sync-content"
  <2>1. disk' = SyncedStage /\ vol' = vol /\ Goto(next) /\ unchangedTalk
    BY <1>1, <1>4 DEF Syncs
  <2>2. /\ Keeps(t) /\ disk'.desc = disk.desc /\ disk'.content = disk.content
        /\ disk'.ent[t] = vol.ent[t]
    BY <1>1, <2>1, StageSynced DEF unchangedTalk
  <2>3. next \in CommitAts /\ (r = "existing" => next \notin NewAts)
    BY DEF CommitAts, NewAts
  <2> QED BY <1>0, <1>1, <1>4, <2>1, <2>2, <2>3, CommitSyncs
<1> QED BY <1>2, <1>3, <1>4 DEF prepare_publish_intent

\* A commit writes something where a file is torn.
LEMMA CommitMismatch ==
    ASSUME AssetIInv, volumeJob.op = "commit", NEW e \in StageEntries \ Claims, Mismatch(e, "ok")
    PROVE  AssetIInv'
<1>1. PICK t \in AssetTokens : t = volumeJob.t
  BY InCommit
<1>2. vol \in Volumes /\ vol.ent[t] \in StageValues /\ TokenOK(t) /\ assetFaults \in Nat
  BY VolumeFields DEF AssetIInv, AssetTypeOK
<1>3. vol.ent[t][e] = "torn"
  BY <1>1, <1>2 DEF Mismatch, StageValues, Marks
<1>4. Spoilt(t)
  BY <1>2, <1>3 DEF TokenOK, TornOK, Spoilt, TornStage
<1> QED BY <1>1, <1>2, <1>4, StopsOK DEF Mismatch

\* install_content.
LEMMA InstallContentOK ==
    ASSUME AssetIInv, install_content
    PROVE  AssetIInv'
<1>0. volumeJob.op = "commit"
  BY DEF install_content
<1>1. PICK t \in AssetTokens, r \in {"new", "existing"} :
        /\ t = volumeJob.t /\ r = volumeJob.reason /\ CommitAt(t, volumeJob.at, r)
        /\ volumeJob.at \in CommitAts /\ (r = "existing" => volumeJob.at \notin NewAts)
  BY <1>0, InCommit
<1>2. vol \in Volumes /\ disk \in Volumes /\ ContentOK /\ AssetTypeOK
  BY DEF AssetIInv, AssetTypeOK
<1>3. "publish-content" \in StageEntries \ {"content", "manifest", "reason", "quarantine-intent"}
  BY EntryFacts
<1>4. {"publish-content", "link-content", "drop-pending", "sync-stage"} \subseteq CommitAts
      /\ {"publish-content", "link-content", "drop-pending", "sync-stage"} \subseteq NewAts
      /\ "sync-content" \in CommitAts /\ "sync-content" \notin NewAts
  BY DEF CommitAts, NewAts
<1>5. CASE volumeJob.at = "publish-content" /\ Writes("publish-content", "ok", "link-content")
  BY <1>0, <1>1, <1>3, <1>4, <1>5, CommitWrites DEF Writes
<1>6. CASE Mismatch("publish-content", "ok")
  BY <1>0, <1>3, <1>6, CommitMismatch DEF Claims
<1>7. CASE Fails("io")
  BY <1>0, <1>7, FailsOK
<1>8. CASE volumeJob.at = "link-content"
           /\ Does([vol EXCEPT !.content[AssetDigestOf[asset[volumeJob.t].key]] = "ok"], "drop-pending")
  <2> DEFINE n == [vol.content EXCEPT ![DigestOf(t)] = "ok"]
  <2>1. DigestOf(t) \in AssetDigests
    BY <1>2, AssetFacts
  <2>2. n \in [AssetDigests -> {"none", "ok"}] /\ n[DigestOf(t)] = "ok"
        /\ \A d \in AssetDigests : vol.content[d] = "ok" => n[d] = "ok"
    BY <1>2, <2>1, VolumeFields
  <2>3. vol' = [vol EXCEPT !.content = n] /\ disk' = disk /\ Goto("drop-pending") /\ unchangedTalk
    BY <1>1, <1>8 DEF Does, DigestOf
  <2> HIDE DEF n
  <2>4. /\ vol' \in Volumes /\ vol'.loc = vol.loc /\ vol'.ent = vol.ent /\ vol'.locks = vol.locks
        /\ vol'.tomb = vol.tomb /\ vol'.content = n /\ vol'.desc = vol.desc
    BY <1>2, <2>2, <2>3 DEF Volumes
  <2>5. Touches(t) /\ ContentOK'
    BY <1>2, <2>2, <2>3, <2>4 DEF Touches, ContentOK, unchangedTalk
  <2>6. Keeps(t)
    <3>1. TokenOK(t)
      BY DEF AssetIInv
    <3> QED BY <2>3, <2>4, <2>5, <3>1, FilesStay DEF unchangedTalk, TokenOK, ReceiptsOK
  <2>7. KeyOf(t)' = KeyOf(t) /\ MediaOf(t)' = MediaOf(t) /\ DigestOf(t)' = DigestOf(t)
        /\ heldStages' = heldStages
    BY <2>3 DEF KeyOf, MediaOf, DigestOf, unchangedTalk
  <2>8. Retryable(t)' /\ (Unconsumed(t)' <=> Unconsumed(t))
    BY <1>1, <2>3, <2>4, <2>7 DEF CommitAt, Retryable, Unconsumed, InStage, Committed, MediaOf,
       unchangedTalk
  <2>9. CommitAt(t, "drop-pending", r)'
    BY <1>1, <1>8, <2>2, <2>3, <2>4, <2>7, <2>8 DEF CommitAt, Linked
  <2> QED BY <1>0, <1>1, <1>4, <1>8, <2>3, <2>6, <2>9, CommitMoves
<1>9. CASE volumeJob.at = "drop-pending"
           /\ Does([vol EXCEPT !.ent[volumeJob.t]["publish-content"] = "none"], "sync-stage")
  <2>1. vol.ent[t]["publish-content"] = "ok"
    BY <1>1, <1>9 DEF CommitAt
  <2> QED BY <1>0, <1>1, <1>3, <1>4, <1>9, <2>1, CommitWrites DEF Does
<1>10. CASE volumeJob.at = "sync-stage" /\ Syncs(SyncedStage, "sync-content")
  <2>1. disk' = SyncedStage /\ vol' = vol /\ Goto("sync-content") /\ unchangedTalk
    BY <1>1, <1>10 DEF Syncs
  <2>2. /\ Keeps(t) /\ disk'.desc = disk.desc /\ disk'.content = disk.content
        /\ disk'.ent[t] = vol.ent[t]
    BY <1>1, <2>1, StageSynced DEF unchangedTalk
  <2>3. r = "new"
    BY <1>1, <1>4, <1>10
  <2> QED BY <1>0, <1>1, <1>4, <1>10, <2>1, <2>2, <2>3, CommitSyncs
<1> QED BY <1>5, <1>6, <1>7, <1>8, <1>9, <1>10 DEF install_content

\* sync_content.
LEMMA SyncContentOK ==
    ASSUME AssetIInv, sync_content
    PROVE  AssetIInv'
<1>0. volumeJob.op = "commit" /\ volumeJob.at = "sync-content"
  BY DEF sync_content
<1>1. PICK t \in AssetTokens, r \in {"new", "existing"} :
        /\ t = volumeJob.t /\ r = volumeJob.reason /\ CommitAt(t, volumeJob.at, r)
  BY <1>0, InCommit
<1>2. vol \in Volumes /\ disk \in Volumes
  BY DEF AssetIInv, AssetTypeOK
<1>3. CASE Syncs(ContentSynced, IF volumeJob.reason = "new" THEN "descriptor" ELSE "sync-descriptor")
  <2> DEFINE next == IF r = "new" THEN "descriptor" ELSE "sync-descriptor"
  <2>1. disk' = [disk EXCEPT !.content = vol.content] /\ vol' = vol /\ Goto(next) /\ unchangedTalk
    BY <1>1, <1>3 DEF Syncs, ContentSynced
  <2>2. /\ disk' \in Volumes /\ disk'.loc = disk.loc /\ disk'.ent = disk.ent /\ disk'.locks = disk.locks
        /\ disk'.tomb = disk.tomb /\ disk'.content = vol.content /\ disk'.desc = disk.desc
    BY <1>2, <2>1 DEF Volumes
  <2>3. Keeps(t)
    BY <2>1, <2>2, SyncKeeps DEF unchangedTalk
  <2>4. next \in CommitAts /\ (r = "existing" => next \notin NewAts)
    BY DEF CommitAts, NewAts
  <2> HIDE DEF next
  <2>5. next = IF r = "new" THEN "descriptor" ELSE "sync-descriptor"
    BY DEF next
  <2> QED BY <1>0, <1>1, <2>1, <2>2, <2>3, <2>4, <2>5, CommitSyncs
<1>4. CASE Fails("indeterminate")
  BY <1>0, <1>4, FailsOK
<1> QED BY <1>3, <1>4 DEF sync_content

\* sync_descriptor.
LEMMA SyncDescriptorOK ==
    ASSUME AssetIInv, sync_descriptor
    PROVE  AssetIInv'
<1>0. volumeJob.op = "commit" /\ volumeJob.at = "sync-descriptor"
  BY DEF sync_descriptor
<1>1. PICK t \in AssetTokens, r \in {"new", "existing"} :
        /\ t = volumeJob.t /\ r = volumeJob.reason /\ CommitAt(t, volumeJob.at, r)
  BY <1>0, InCommit
<1>2. vol \in Volumes /\ disk \in Volumes
  BY DEF AssetIInv, AssetTypeOK
<1>3. CASE Syncs(DescriptorSynced, "tombstone")
  <2>1. disk' = [disk EXCEPT !.desc = vol.desc] /\ vol' = vol /\ Goto("tombstone") /\ unchangedTalk
    BY <1>1, <1>3 DEF Syncs, DescriptorSynced
  <2>2. /\ disk' \in Volumes /\ disk'.loc = disk.loc /\ disk'.ent = disk.ent /\ disk'.locks = disk.locks
        /\ disk'.tomb = disk.tomb /\ disk'.content = disk.content /\ disk'.desc = vol.desc
    BY <1>2, <2>1 DEF Volumes
  <2>3. Keeps(t)
    BY <2>1, <2>2, SyncKeeps DEF unchangedTalk
  <2>4. "tombstone" \in CommitAts /\ "tombstone" \notin NewAts
    BY DEF CommitAts, NewAts
  <2> QED BY <1>0, <1>1, <2>1, <2>2, <2>3, <2>4, CommitSyncs
<1>4. CASE Fails("indeterminate")
  BY <1>0, <1>4, FailsOK
<1> QED BY <1>3, <1>4 DEF sync_descriptor

\* publish_descriptor.
LEMMA PublishDescriptorOK ==
    ASSUME AssetIInv, publish_descriptor
    PROVE  AssetIInv'
<1>0. volumeJob.op = "commit"
  BY DEF publish_descriptor
<1>1. PICK t \in AssetTokens, r \in {"new", "existing"} :
        /\ t = volumeJob.t /\ r = volumeJob.reason /\ CommitAt(t, volumeJob.at, r)
        /\ volumeJob.at \in CommitAts /\ (r = "existing" => volumeJob.at \notin NewAts)
  BY <1>0, InCommit
<1>2. vol \in Volumes /\ disk \in Volumes /\ ContentOK /\ AssetTypeOK
  BY DEF AssetIInv, AssetTypeOK
<1>3. "descriptor" \in StageEntries \ {"content", "manifest", "reason", "quarantine-intent"}
  BY EntryFacts
<1>4. {"descriptor", "link-descriptor", "drop-descriptor"} \subseteq CommitAts \cap NewAts
      /\ "sync-descriptor" \in CommitAts /\ "sync-descriptor" \notin NewAts
  BY DEF CommitAts, NewAts
<1>5. CASE volumeJob.at = "descriptor" /\ Writes("descriptor", "ok", "link-descriptor")
  BY <1>0, <1>1, <1>3, <1>4, <1>5, CommitWrites DEF Writes
<1>6. CASE Mismatch("descriptor", "ok")
  BY <1>0, <1>3, <1>6, CommitMismatch DEF Claims
<1>7. CASE Fails("io") \/ Fails("indeterminate")
  BY <1>0, <1>7, FailsOK
<1>8. CASE volumeJob.at = "link-descriptor"
           /\ Does([vol EXCEPT !.desc[asset[volumeJob.t].key] = asset[volumeJob.t].media], "drop-descriptor")
  <2> DEFINE n == [vol.desc EXCEPT ![KeyOf(t)] = MediaOf(t)]
  <2>1. /\ KeyOf(t) \in AssetKeys /\ MediaOf(t) # "none" /\ MediaOf(t) \in Medias
        /\ DigestOf(t) = AssetDigestOf[KeyOf(t)]
    BY <1>2, AssetFacts
  <2>2. n \in [AssetKeys -> Medias \cup {"none"}]
        /\ \A k \in AssetKeys : n[k] = IF k = KeyOf(t) THEN MediaOf(t) ELSE vol.desc[k]
    BY <1>2, <2>1, VolumeFields
  <2>3. vol' = [vol EXCEPT !.desc = n] /\ disk' = disk /\ Goto("drop-descriptor") /\ unchangedTalk
    BY <1>1, <1>8 DEF Does, KeyOf, MediaOf
  <2> HIDE DEF n
  <2>4. /\ vol' \in Volumes /\ vol'.loc = vol.loc /\ vol'.ent = vol.ent /\ vol'.locks = vol.locks
        /\ vol'.tomb = vol.tomb /\ vol'.content = vol.content /\ vol'.desc = n
    BY <1>2, <2>2, <2>3 DEF Volumes
  <2>5. r = "new" /\ ~Linked(volumeJob.at, r)
    BY <1>1, <1>4, <1>8 DEF Linked
  <2>6. vol.desc[KeyOf(t)] = "none" /\ Unconsumed(t) /\ disk.content[DigestOf(t)] = "ok"
    BY <1>1, <1>8, <2>5 DEF CommitAt
  <2>7. Touches(t) /\ ContentOK'
    BY <1>2, <2>1, <2>2, <2>3, <2>4, <2>6 DEF Touches, ContentOK, unchangedTalk
  <2>8. Keeps(t)
    <3>1. TokenOK(t)
      BY DEF AssetIInv
    <3> QED BY <2>3, <2>4, <2>7, <3>1, FilesStay DEF unchangedTalk, TokenOK, ReceiptsOK
  <2>9. KeyOf(t)' = KeyOf(t) /\ MediaOf(t)' = MediaOf(t) /\ DigestOf(t)' = DigestOf(t)
        /\ heldStages' = heldStages
    BY <2>3 DEF KeyOf, MediaOf, DigestOf, unchangedTalk
  <2>10. Retryable(t)' /\ Unconsumed(t)'
    BY <1>1, <2>3, <2>4, <2>6 DEF CommitAt, Retryable, Unconsumed, InStage
  <2>11. CommitAt(t, "drop-descriptor", r)'
    BY <1>1, <1>8, <2>1, <2>2, <2>3, <2>4, <2>9, <2>10 DEF CommitAt, Linked
  <2> QED BY <1>0, <1>1, <1>4, <1>8, <2>3, <2>8, <2>11, CommitMoves
<1>9. CASE volumeJob.at = "drop-descriptor"
           /\ Does([vol EXCEPT !.ent[volumeJob.t]["descriptor"] = "none"], "sync-descriptor")
  <2>1. vol.ent[t]["descriptor"] = "ok"
    BY <1>1, <1>9 DEF CommitAt
  <2> QED BY <1>0, <1>1, <1>3, <1>4, <1>9, <2>1, CommitWrites DEF Does
<1> QED BY <1>5, <1>6, <1>7, <1>8, <1>9 DEF publish_descriptor

\* consume_stage.
LEMMA ConsumeStageOK ==
    ASSUME AssetIInv, consume_stage
    PROVE  AssetIInv'
<1>0. volumeJob.op = "commit"
  BY DEF consume_stage
<1>1. PICK t \in AssetTokens, r \in {"new", "existing"} :
        /\ t = volumeJob.t /\ r = volumeJob.reason /\ CommitAt(t, volumeJob.at, r)
        /\ volumeJob.at \in CommitAts /\ (r = "existing" => volumeJob.at \notin NewAts)
  BY <1>0, InCommit
<1>2. vol \in Volumes /\ disk \in Volumes
  BY DEF AssetIInv, AssetTypeOK
<1>3. {"sync-consumed", "consumed", "sync-marker", "retire"} \subseteq CommitAts \ NewAts
  BY DEF CommitAts, NewAts
<1>4. CASE volumeJob.at = "tombstone" /\ Does([vol EXCEPT !.tomb[volumeJob.t] = "ok"], "sync-consumed")
  <2>1. vol' = [vol EXCEPT !.tomb[t] = "ok"] /\ disk' = disk /\ Goto("sync-consumed") /\ unchangedTalk
    BY <1>1, <1>4 DEF Does
  <2>2. t \in heldStages /\ vol.tomb[t] # "torn" /\ disk.desc[KeyOf(t)] = MediaOf(t)
        /\ vol.desc[KeyOf(t)] = MediaOf(t)
        /\ Retryable(t) /\ vol.ent[t]["publish-intent"] = "ok"
    BY <1>1, <1>4 DEF CommitAt, Linked
  <2>3. /\ Keeps(t) /\ vol'.loc = vol.loc /\ vol'.locks = vol.locks /\ vol'.tomb[t] = "ok"
        /\ vol'.content = vol.content /\ vol'.desc = vol.desc /\ vol'.ent = vol.ent
    BY <2>1, <2>2, TombKeeps DEF unchangedTalk
  <2>4. KeyOf(t)' = KeyOf(t) /\ MediaOf(t)' = MediaOf(t) /\ DigestOf(t)' = DigestOf(t)
        /\ heldStages' = heldStages
    BY <2>1 DEF KeyOf, MediaOf, DigestOf, unchangedTalk
  <2>5. ~Unconsumed(t)' /\ Committed(t)' = MediaOf(t)'
    BY <2>2, <2>3, <2>4 DEF Unconsumed, Committed, KeyOf
  <2>6. Retryable(t)'
    BY <2>2, <2>3, <2>5 DEF Retryable
  <2>7. CommitAt(t, "sync-consumed", r)'
    BY <1>1, <1>4, <2>1, <2>2, <2>3, <2>4, <2>6 DEF CommitAt, Linked
  <2> QED BY <1>0, <1>1, <1>3, <2>1, <2>3, <2>7, CommitMoves
<1>5. CASE volumeJob.at = "sync-consumed" /\ Syncs([disk EXCEPT !.tomb = vol.tomb], "consumed")
  <2>1. disk' = [disk EXCEPT !.tomb = vol.tomb] /\ vol' = vol /\ Goto("consumed") /\ unchangedTalk
    BY <1>1, <1>5 DEF Syncs
  <2>2. /\ disk' \in Volumes /\ disk'.loc = disk.loc /\ disk'.ent = disk.ent /\ disk'.locks = disk.locks
        /\ disk'.tomb = vol.tomb /\ disk'.content = disk.content /\ disk'.desc = disk.desc
    BY <1>2, <2>1 DEF Volumes
  <2>3. Keeps(t)
    BY <2>1, <2>2, SyncKeeps DEF unchangedTalk
  <2> QED BY <1>0, <1>1, <1>3, <1>5, <2>1, <2>2, <2>3, CommitSyncs
<1>6. CASE volumeJob.at = "consumed" /\ Writes("consumed", "ok", "sync-marker")
  <2>1. "consumed" \in StageEntries \ {"content", "manifest", "reason", "quarantine-intent"}
    BY EntryFacts
  <2>2. t \in heldStages /\ disk.desc[KeyOf(t)] = MediaOf(t)
    BY <1>1, <1>6 DEF CommitAt
  <2> QED BY <1>0, <1>1, <1>3, <1>6, <2>1, <2>2, CommitWrites DEF Writes
<1>7. CASE volumeJob.at = "sync-marker" /\ Syncs(SyncedStage, "retire")
  <2>1. disk' = SyncedStage /\ vol' = vol /\ Goto("retire") /\ unchangedTalk
    BY <1>1, <1>7 DEF Syncs
  <2>2. /\ Keeps(t) /\ disk'.desc = disk.desc /\ disk'.content = disk.content
        /\ disk'.ent[t] = vol.ent[t]
    BY <1>1, <2>1, StageSynced DEF unchangedTalk
  <2> QED BY <1>0, <1>1, <1>3, <1>7, <2>1, <2>2, CommitSyncs
<1>8. CASE Fails("indeterminate")
  BY <1>0, <1>8, FailsOK
<1> QED BY <1>4, <1>5, <1>6, <1>7, <1>8 DEF consume_stage

\* A commit gives its receipt; what it removes of the stage goes in order.
LEMMA CommittedOK ==
    ASSUME AssetIInv, NEW t \in AssetTokens, t = volumeJob.t, volumeJob.op = "commit", NEW r,
           CommitAt(t, "retire", r), Finish("committed"), Touches(t), ContentOK',
           vol'.tomb = vol.tomb, disk'.tomb = disk.tomb, disk'.desc = disk.desc,
           Shows(vol'.ent[t]), Shows(disk'.ent[t]),
           \A e \in StageEntries : \/ vol'.ent[t][e] = "none"
                                   \/ vol'.ent[t][e] = vol.ent[t][e] /\ disk'.ent[t][e] = disk.ent[t][e],
           assetFaults' \in Nat, assetCrashes' = assetCrashes
    PROVE  AssetIInv'
<1>1. /\ t \in heldStages /\ disk.desc[KeyOf(t)] = MediaOf(t) /\ vol.loc[t] = "staging" /\ TokenOK(t)
  BY DEF CommitAt, Retryable, AssetIInv
<1>2. /\ Answers("commit", t, "committed") /\ asset' = asset /\ heldStages \subseteq heldStages'
      /\ assetReceipts' = assetReceipts \cup {<<t, "committed">>}
  BY DEF Finish, Answers
<1>3. KeyOf(t)' = KeyOf(t) /\ MediaOf(t)' = MediaOf(t)
  BY <1>2 DEF KeyOf, MediaOf
<1>4. ConsumedOK(t)'
  BY <1>1, <1>2, <1>3 DEF TokenOK, ConsumedOK
<1>5. TornOK(t)'
  BY <1>1 DEF TokenOK, TornOK
<1>6. ReceiptsOK(t)'
  <2>1. <<t, "quarantined">> \notin assetReceipts'
    BY <1>1, <1>2 DEF TokenOK, ReceiptsOK
  <2> QED BY <1>1, <1>3, <2>1 DEF ReceiptsOK
<1>7. "committed" \in Results /\ "committed" \notin Transient
  BY DEF Results, Transient
<1> QED BY <1>1, <1>2, <1>4, <1>5, <1>6, <1>7, AnsweredOK DEF TokenOK

\* retire_stage.
LEMMA RetireStageOK ==
    ASSUME AssetIInv, retire_stage
    PROVE  AssetIInv'
<1>0. volumeJob.op = "commit" /\ volumeJob.at = "retire" /\ Finish("committed")
      /\ assetCrashes' = assetCrashes
  BY DEF retire_stage
<1>1. PICK t \in AssetTokens, r \in {"new", "existing"} :
        t = volumeJob.t /\ r = volumeJob.reason /\ CommitAt(t, "retire", r)
  BY <1>0, InCommit
<1>2. vol \in Volumes /\ disk \in Volumes /\ ContentOK /\ assetFaults \in Nat /\ asset' = asset
  BY <1>0 DEF AssetIInv, AssetTypeOK, Finish, Answers
<1>3. CASE /\ vol' = [vol EXCEPT !.ent[volumeJob.t] = EmptyStage, !.loc[volumeJob.t] = "none",
                                 !.locks = @ \ {volumeJob.t}]
           /\ disk' = [disk EXCEPT !.ent[volumeJob.t] = EmptyStage, !.loc = vol'.loc,
                                   !.locks = vol'.locks]
           /\ UNCHANGED assetFaults
  <2> DEFINE l == [vol.loc EXCEPT ![t] = "none"]  n == [vol.ent EXCEPT ![t] = EmptyStage]
             m == [disk.ent EXCEPT ![t] = EmptyStage]  k == vol.locks \ {t}
  <2>1. /\ l \in [AssetTokens -> {"none", "staging", "quarantine", "recovery"}]
        /\ \A u \in AssetTokens : l[u] = IF u = t THEN "none" ELSE vol.loc[u]
    BY <1>2, VolumeFields
  <2>2. n \in [AssetTokens -> StageValues]
        /\ \A u \in AssetTokens : n[u] = IF u = t THEN EmptyStage ELSE vol.ent[u]
    BY <1>2, VolumeFields, EntryFacts
  <2>3. m \in [AssetTokens -> StageValues]
        /\ \A u \in AssetTokens : m[u] = IF u = t THEN EmptyStage ELSE disk.ent[u]
    BY <1>2, VolumeFields, EntryFacts
  <2>4. k \in SUBSET AssetTokens /\ \A u \in AssetTokens : u # t /\ u \in vol.locks => u \in k
    BY <1>2, VolumeFields
  <2>5. vol' = [vol EXCEPT !.ent = n, !.loc = l, !.locks = k]
    BY <1>1, <1>3
  <2>6. disk' = [disk EXCEPT !.ent = m, !.loc = vol'.loc, !.locks = vol'.locks]
    BY <1>1, <1>3
  <2> HIDE DEF l, n, m, k
  <2>7. /\ vol' \in Volumes /\ vol'.locks = k /\ vol'.tomb = vol.tomb /\ vol'.loc = l /\ vol'.ent = n
        /\ vol'.content = vol.content /\ vol'.desc = vol.desc
    BY <1>2, <2>1, <2>2, <2>4, <2>5 DEF Volumes
  <2>8. /\ disk' \in Volumes /\ disk'.tomb = disk.tomb /\ disk'.loc = l /\ disk'.ent = m
        /\ disk'.content = disk.content /\ disk'.desc = disk.desc
    BY <1>2, <2>1, <2>3, <2>4, <2>6, <2>7 DEF Volumes
  <2>9. Touches(t) /\ ContentOK'
    BY <1>2, <2>1, <2>2, <2>3, <2>4, <2>7, <2>8 DEF Touches, ContentOK
  <2>10. /\ Shows(vol'.ent[t]) /\ Shows(disk'.ent[t]) /\ \A e \in StageEntries : vol'.ent[t][e] = "none"
    BY <2>2, <2>3, <2>7, <2>8, EntryFacts DEF Shows
  <2> QED BY <1>0, <1>1, <1>2, <1>3, <2>7, <2>8, <2>9, <2>10, CommittedOK
<1>4. ASSUME Faulty, UNCHANGED disk, NEW n \in 0..Len(StageEntryNames),
             vol' = [vol EXCEPT !.ent[volumeJob.t] =
                       [e \in StageEntries |->
                          IF \E i \in 1..n : StageEntryNames[i] = e THEN "none" ELSE @[e]]]
      PROVE  AssetIInv'
  <2> DEFINE gone(e) == \E i \in 1..n : StageEntryNames[i] = e
             s == [e \in StageEntries |-> IF gone(e) THEN "none" ELSE vol.ent[t][e]]
  <2>1. vol.ent[t] \in StageValues
    BY <1>2, VolumeFields
  <2>2. vol' = [vol EXCEPT !.ent[t] = s]
    BY <1>1, <1>4
  <2>3. gone("publish-intent") => gone("content")
    <3>1. StageEntryNames[1] = "content"
          /\ \A i \in 1..n : StageEntryNames[i] = "publish-intent" => 1 \in 1..n
      BY DEF StageEntryNames
    <3> QED BY <3>1
  <2>4. \A e \in StageEntries : s[e] = (IF gone(e) THEN "none" ELSE vol.ent[t][e])
    OBVIOUS
  <2> HIDE DEF gone
  <2>5. s \in StageValues
    BY <2>1 DEF StageValues, Marks
  <2> HIDE DEF s
  <2>6. /\ vol' \in Volumes /\ vol'.loc = vol.loc /\ vol'.locks = vol.locks /\ vol'.tomb = vol.tomb
        /\ vol'.content = vol.content /\ vol'.desc = vol.desc
        /\ \A u \in AssetTokens : vol'.ent[u] = IF u = t THEN s ELSE vol.ent[u]
    BY <1>2, <2>2, <2>5, StageSet
  <2>7. Touches(t) /\ ContentOK'
    BY <1>2, <1>4, <2>6 DEF Touches, ContentOK
  <2>8. {"content", "publish-intent"} \subseteq StageEntries
    BY EntryFacts
  <2>9. Shows(vol'.ent[t]) /\ Shows(disk'.ent[t])
    BY <1>1, <1>4, <2>3, <2>4, <2>6, <2>8 DEF Shows, CommitAt
  <2>10. \A e \in StageEntries : \/ vol'.ent[t][e] = "none"
                                 \/ vol'.ent[t][e] = vol.ent[t][e] /\ disk'.ent[t][e] = disk.ent[t][e]
    BY <1>4, <2>4, <2>6
  <2>11. assetFaults' \in Nat
    BY <1>2, <1>4 DEF Faulty
  <2> QED BY <1>0, <1>1, <1>4, <2>6, <2>7, <2>9, <2>10, <2>11, CommittedOK
<1> QED BY <1>3, <1>4 DEF retire_stage

\* An operation that begins.
LEMMA BeginsOK ==
    ASSUME AssetIInv, volumeJob = NoJob, NEW op, NEW t \in AssetTokens, NEW r, NEW at,
           BeginJob(op, t, r, at),
           \/ op = "commit" /\ r \in {"new", "existing"} /\ at = "publish-intent" /\ CommitAt(t, at, r)
           \/ op = "quarantine" /\ r \in AssetReasons /\ at \in QuarantineAts /\ QuarantineAt(t, at)
    PROVE  AssetIInv'
<1> DEFINE j == [op |-> op, t |-> t, reason |-> r, at |-> at]
<1>1. j \in AssetJobs /\ j.op = op /\ j.t = t /\ j.reason = r /\ j.at = at
  BY DEF AssetJobs, CommitAts, NewAts
<1>2. volumeJob' = j
      /\ UNCHANGED <<vol, disk, asset, heldStages, assetReceipts, answer, owed, assetFaults, assetCrashes>>
  BY DEF BeginJob, unchangedTalk
<1> HIDE DEF j
<1>3. AssetTypeOK' /\ ContentOK'
  BY <1>1, <1>2 DEF AssetIInv, AssetTypeOK, ContentOK
<1>4. \A u \in AssetTokens : TokenOK(u)' /\ (Spoilt(u) => Spoilt(u)') /\ (Retryable(u) => Retryable(u)')
  BY <1>2 DEF AssetIInv, TokenOK, ConsumedOK, Marked, Claimed, TornOK, ReceiptsOK, Shows, KeyOf,
     MediaOf,
     Spoilt, TornStage, TornTomb, Retryable, Unconsumed, InStage, Committed
<1>5. \A u \in owed' : (Quarantining(u) \/ Retryable(u) \/ Spoilt(u))'
  <2> TAKE u \in owed'
  <2>1. u \in AssetTokens /\ (Retryable(u) \/ Spoilt(u))
    BY <1>2 DEF AssetIInv, AssetTypeOK, OwedOK, Quarantining, NoJob
  <2> QED BY <1>4, <2>1
<1>6. (answer.op = "commit" /\ answer.owed /\ answer.res = "integrity" => Spoilt(answer.t))'
  <2> SUFFICES ASSUME answer.op = "commit", answer.owed, answer.res = "integrity" PROVE Spoilt(answer.t)'
    BY <1>2
  <2>1. Spoilt(answer.t) /\ answer.t \in AssetTokens
    BY DEF AssetIInv, OwedOK, AssetTypeOK
  <2> QED BY <1>2, <1>4, <2>1
<1>7. op = "commit" => CommitAt(t, at, r)'
  BY <1>2 DEF CommitAt, Retryable, Unconsumed, InStage, Committed, KeyOf, MediaOf, DigestOf
<1>8. op = "quarantine" => QuarantineAt(t, at)'
  BY <1>2 DEF QuarantineAt, Claimed
<1>9. JobOK'
  BY <1>1, <1>2, <1>7, <1>8 DEF JobOK, CommitOK, QuarantineOK
<1> QED BY <1>3, <1>4, <1>5, <1>6, <1>9 DEF AssetIInv, OwedOK

\* An operation that is refused.
LEMMA RefusedOK ==
    ASSUME AssetIInv, volumeJob = NoJob, NEW op \in {"commit", "quarantine"}, NEW t \in AssetTokens,
           NEW res \in {"integrity", "indeterminate", "conflict"}, Refuses(op, t, res),
           t \in heldStages,
           op = "commit" /\ res = "indeterminate" => Spoilt(t),
           op = "commit" /\ t \in owed /\ res = "integrity" => Spoilt(t)
    PROVE  AssetIInv'
<1>1. /\ Answers(op, t, res) /\ vol' = vol /\ disk' = disk /\ asset' = asset /\ heldStages' = heldStages
      /\ assetReceipts' = assetReceipts /\ assetCrashes' = assetCrashes /\ assetFaults' \in Nat
  BY DEF Refuses, Answers, AssetIInv, AssetTypeOK
<1>2. Keeps(t)
  BY <1>1, NothingMoves
<1>3. res \in Results /\ res \notin {"committed", "quarantined"}
      /\ (res \in Transient => res = "indeterminate")
  BY DEF Results, Transient
<1> QED BY <1>1, <1>2, <1>3, AnsweredOK DEF Keeps

\* commit_request.
LEMMA CommitRequestOK ==
    ASSUME AssetIInv, NEW t \in AssetTokens, commit_request(t)
    PROVE  AssetIInv'
<1>0. /\ volumeJob = NoJob /\ t \in heldStages /\ vol \in Volumes /\ disk \in Volumes
      /\ ContentOK /\ TokenOK(t)
      /\ AssetTypeOK
  BY DEF commit_request, AssetIInv, AssetTypeOK
<1>1. /\ KeyOf(t) \in AssetKeys /\ MediaOf(t) # "none" /\ Committed(t) = vol.desc[KeyOf(t)]
      /\ (Matching(t) <=> vol.desc[KeyOf(t)] = MediaOf(t))
      /\ (VerifiedContent(t) <=> vol.content[DigestOf(t)] = "ok")
      /\ DigestOf(t) = AssetDigestOf[KeyOf(t)] /\ DigestOf(t) \in AssetDigests
  BY <1>0, AssetFacts DEF Committed, Matching, VerifiedContent, KeyOf, MediaOf, DigestOf
<1>2. Matching(t) => VerifiedContent(t)
  BY <1>0, <1>1 DEF ContentOK
<1>3. t \in owed => Retryable(t) \/ Spoilt(t)
  BY <1>0 DEF AssetIInv, OwedOK, Quarantining, NoJob
<1>4. {"publish-intent", "consumed", "manifest", "content", "reason"} \subseteq StageEntries
  BY EntryFacts
<1>5. IntentIsTorn(t) => Spoilt(t)
  <2> SUFFICES ASSUME IntentIsTorn(t) PROVE Spoilt(t)
    OBVIOUS
  <2>1. vol.ent[t]["publish-intent"] = "torn" \/ vol.tomb[t] = "torn" \/ vol.ent[t]["consumed"] = "torn"
    BY DEF IntentIsTorn, InStage
  <2> QED BY <1>0, <1>4, <2>1 DEF Spoilt, TornStage, TornTomb, TokenOK, TornOK
<1>6. CASE /\ IntentIsTorn(t) \/ (Matching(t) /\ ~VerifiedContent(t))
           /\ Refuses("commit", t, "integrity")
  BY <1>0, <1>2, <1>5, <1>6, RefusedOK
<1>7. CASE publish_intent_ready(t) /\ reconcile_published_stage(t)
  <2>1. /\ ~IntentIsTorn(t) /\ ~Unconsumed(t) /\ vol.loc[t] = "staging"
        /\ vol.ent[t]["publish-intent"] = "ok"
        /\ vol.tomb[t] # "torn"
    BY <1>7 DEF publish_intent_ready, consumed_marker_exists, InStage, IntentIsTorn
  <2>2. CASE ~(t \in vol.locks /\ StageIsWhole(t)) /\ Refuses("commit", t, "integrity")
    <3>1. ~Retryable(t)
      BY <2>1, <2>2 DEF Retryable, StageIsWhole, InStage
    <3> QED BY <1>0, <1>3, <2>2, <3>1, RefusedOK
  <2>3. CASE Committed(t) = "none" /\ Refuses("commit", t, "indeterminate")
    <3>1. Marked(t)
      BY <2>1 DEF Marked, Unconsumed, InStage
    <3>2. disk.desc[KeyOf(t)] # MediaOf(t)
      BY <1>0, <1>1, <2>3 DEF ContentOK
    <3>3. Spoilt(t)
      BY <1>0, <3>1, <3>2 DEF TokenOK, ConsumedOK, Spoilt
    <3> QED BY <1>0, <2>3, <3>3, RefusedOK
  <2>4. CASE Committed(t) \notin {"none", asset[t].media} /\ Refuses("commit", t, "integrity")
    <3>1. ~Retryable(t)
      BY <2>1, <2>4 DEF Retryable, MediaOf
    <3> QED BY <1>0, <1>3, <2>4, <3>1, RefusedOK
  <2>5. CASE t \in vol.locks /\ StageIsWhole(t) /\ Matching(t) /\ finish_existing_commit(t)
    <3>1. Retryable(t)
      BY <1>1, <2>1, <2>5 DEF Retryable, StageIsWhole, InStage
    <3>2. CommitAt(t, "publish-intent", "existing")
      BY <1>0, <1>1, <2>1, <2>5, <3>1 DEF CommitAt, Linked
    <3> QED BY <1>0, <2>5, <3>2, BeginsOK DEF finish_existing_commit
  <2> QED BY <1>7, <2>2, <2>3, <2>4, <2>5 DEF reconcile_published_stage
<1>8. CASE ~IntentIsTorn(t) /\ ~publish_intent_ready(t) /\ commit_leased(t)
  <2> DEFINE leased == load_stage(t) /\ InStage(t, "reason") = "none"
  <2>1. CASE ~leased /\ Refuses("commit", t, "integrity")
    <3>1. ~Retryable(t)
      BY <1>8, <2>1 DEF Retryable, load_stage, StageIsWhole, InStage, publish_intent_ready,
         consumed_marker_exists
    <3> QED BY <1>0, <1>3, <2>1, <3>1, RefusedOK
  <2>2. CASE Refuses("commit", t, "conflict")
    BY <1>0, <2>2, RefusedOK
  <2>3. ASSUME leased
        PROVE  Retryable(t) /\ Unconsumed(t) /\ vol.tomb[t] # "torn"
    BY <2>3 DEF Retryable, load_stage, StageIsWhole, InStage, Unconsumed
  <2>4. CASE leased /\ Matching(t) /\ finish_existing_commit(t)
    <3>1. CommitAt(t, "publish-intent", "existing")
      BY <1>0, <1>1, <2>3, <2>4 DEF CommitAt, Linked
    <3> QED BY <1>0, <2>4, <3>1, BeginsOK DEF finish_existing_commit
  <2>5. CASE leased /\ Committed(t) = "none" /\ BeginJob("commit", t, "new", "publish-intent")
    <3>1. CommitAt(t, "publish-intent", "new")
      BY <1>0, <1>1, <2>3, <2>5 DEF CommitAt, Linked
    <3> QED BY <1>0, <2>5, <3>1, BeginsOK
  <2> QED BY <1>8, <2>1, <2>2, <2>4, <2>5 DEF commit_leased
<1> QED BY <1>6, <1>7, <1>8 DEF commit_request

\* quarantine_request.
LEMMA QuarantineRequestOK ==
    ASSUME AssetIInv, NEW t \in AssetTokens, NEW r \in AssetReasons, quarantine_request(t, r)
    PROVE  AssetIInv'
<1>0. /\ volumeJob = NoJob /\ t \in heldStages /\ vol \in Volumes /\ disk \in Volumes
      /\ ContentOK /\ TokenOK(t)
      /\ AssetTypeOK
  BY DEF quarantine_request, AssetIInv, AssetTypeOK
<1>1. /\ KeyOf(t) \in AssetKeys /\ MediaOf(t) # "none" /\ Committed(t) = vol.desc[KeyOf(t)]
  BY <1>0, AssetFacts DEF Committed, KeyOf
<1>2. vol.ent[t]["publish-intent"] \in Marks
  BY <1>0, VolumeFields, EntryFacts DEF StageValues, Claims
<1>3. CASE Refuses("quarantine", t, "integrity") \/ Refuses("quarantine", t, "indeterminate")
  BY <1>0, <1>3, RefusedOK
<1>4. ASSUME Lineage(t) # "torn", ~(Lineage(t) = "ok" /\ Committed(t) # "none"),
             \/ vol.loc[t] = "quarantine" \/ vol.loc[t] = "staging", vol.ent[t]["content"] = "ok"
      PROVE  <<t, "committed">> \notin assetReceipts
  <2> SUFFICES ASSUME <<t, "committed">> \in assetReceipts PROVE FALSE
    OBVIOUS
  <2>1. vol.ent[t]["publish-intent"] # "none" /\ vol.desc[KeyOf(t)] # "none"
    BY <1>0, <1>1, <1>4 DEF TokenOK, ReceiptsOK, Shows, ContentOK
  <2>2. Lineage(t) = vol.ent[t]["publish-intent"]
    BY <1>4, <2>1 DEF Lineage, InStage, InQuarantine
  <2> QED BY <1>1, <1>2, <1>4, <2>1, <2>2 DEF Marks
<1>5. CASE /\ Lineage(t) # "torn" /\ ~(Lineage(t) = "ok" /\ Committed(t) # "none")
           /\ QuarantineIsWhole(t, r) /\ BeginJob("quarantine", t, r, "resync-quarantine")
  <2>1. vol.loc[t] = "quarantine" /\ vol.ent[t]["content"] = "ok" /\ vol.tomb[t] = "ok"
    BY <1>5 DEF QuarantineIsWhole, InQuarantine
  <2>2. QuarantineAt(t, "resync-quarantine") /\ "resync-quarantine" \in QuarantineAts
    BY <1>0, <1>4, <1>5, <2>1 DEF QuarantineAt, QuarantineAts
  <2> QED BY <1>0, <1>5, <2>2, BeginsOK
<1>6. CASE /\ Lineage(t) # "torn" /\ ~(Lineage(t) = "ok" /\ Committed(t) # "none")
           /\ vol.tomb[t] = "ok" /\ StageIsWhole(t) /\ BeginJob("quarantine", t, r, "rename")
  <2>1. vol.loc[t] = "staging" /\ vol.ent[t]["content"] = "ok"
    BY <1>6 DEF StageIsWhole, InStage
  <2>2. QuarantineAt(t, "rename") /\ "rename" \in QuarantineAts
    BY <1>0, <1>4, <1>6, <2>1 DEF QuarantineAt, QuarantineAts
  <2> QED BY <1>0, <1>6, <2>2, BeginsOK
<1>7. CASE /\ Lineage(t) # "torn" /\ ~(Lineage(t) = "ok" /\ Committed(t) # "none")
           /\ load_stage(t) /\ BeginJob("quarantine", t, r, "quarantine-intent")
  <2>1. vol.loc[t] = "staging" /\ vol.ent[t]["content"] = "ok" /\ vol.tomb[t] # "torn"
    BY <1>7 DEF load_stage, StageIsWhole, InStage, Unconsumed
  <2>2. QuarantineAt(t, "quarantine-intent") /\ "quarantine-intent" \in QuarantineAts
    BY <1>0, <1>4, <1>7, <2>1 DEF QuarantineAt, QuarantineAts
  <2> QED BY <1>0, <1>7, <2>2, BeginsOK
<1> QED BY <1>3, <1>5, <1>6, <1>7 DEF quarantine_request, reconcile_quarantine_target,
        reconcile_staged_quarantine, quarantine_new_stage

\* What the invariant says while a quarantine holds the gate.
LEMMA InQuarantineJob ==
    ASSUME AssetIInv, volumeJob.op = "quarantine"
    PROVE  \E t \in AssetTokens, r \in AssetReasons :
             /\ t = volumeJob.t /\ r = volumeJob.reason /\ QuarantineAt(t, volumeJob.at)
             /\ r # "none" /\ r # "torn"
BY InJob, VolumeAssumption DEF AssetIInv, JobOK, QuarantineOK

\* prepare_quarantine.
LEMMA PrepareQuarantineOK ==
    ASSUME AssetIInv, prepare_quarantine
    PROVE  AssetIInv'
<1>0. volumeJob.op = "quarantine"
  BY DEF prepare_quarantine
<1>1. PICK t \in AssetTokens, r \in AssetReasons :
        t = volumeJob.t /\ r = volumeJob.reason /\ QuarantineAt(t, volumeJob.at) /\ r # "none"
        /\ r # "torn"
  BY <1>0, InQuarantineJob
<1>2. vol \in Volumes /\ disk \in Volumes /\ assetFaults \in Nat
  BY DEF AssetIInv, AssetTypeOK
<1>3. {"sync-intent", "reason", "sync-reason", "tombstone", "sync-consumed", "rename"} \subseteq QuarantineAts
  BY DEF QuarantineAts
<1>4. {"reason", "quarantine-intent"} \subseteq StageEntries /\ {"reason", "quarantine-intent"} = Claims
  BY EntryFacts DEF Claims
<1>5. ASSUME NEW e \in {"reason", "quarantine-intent"}, NEW next, Writes(e, volumeJob.reason, next),
             unchangedTalk
      PROVE  /\ Keeps(t) /\ vol'.tomb = vol.tomb /\ disk' = disk /\ Goto(next)
             /\ \A f \in StageEntries : vol'.ent[t][f] = IF f = e THEN r ELSE vol.ent[t][f]
  <2>1. /\ vol.ent[t][e] \in {"none", r} /\ vol' = [vol EXCEPT !.ent[t][e] = r] /\ disk' = disk
        /\ Goto(next)
        /\ asset' = asset /\ heldStages' = heldStages /\ assetReceipts' = assetReceipts
    BY <1>1, <1>5 DEF Writes, unchangedTalk
  <2> QED BY <1>1, <1>4, <1>5, <2>1, EntryWritten
<1>6. CASE volumeJob.at = "quarantine-intent"
      /\ Writes("quarantine-intent", volumeJob.reason, "sync-intent")
  <2>1. unchangedTalk
    BY <1>6 DEF Writes
  <2>2. /\ Keeps(t) /\ vol'.tomb = vol.tomb /\ Goto("sync-intent")
        /\ vol'.ent[t]["quarantine-intent"] = r
    BY <1>4, <1>5, <1>6, <2>1
  <2>3. QuarantineAt(t, "sync-intent")'
    BY <1>1, <2>1, <2>2 DEF QuarantineAt, unchangedTalk
  <2> QED BY <1>0, <1>1, <1>3, <2>1, <2>2, <2>3, QuarantineMoves
<1>7. ASSUME NEW next, Syncs(SyncedStage, next)
      PROVE  /\ Keeps(t) /\ disk'.ent[t] = vol.ent[t] /\ Goto(next) /\ unchangedTalk /\ vol' = vol
  <2>1. disk' = SyncedStage /\ vol' = vol /\ Goto(next) /\ unchangedTalk
    BY <1>7 DEF Syncs
  <2> QED BY <1>1, <2>1, StageSynced DEF unchangedTalk
<1>8. CASE volumeJob.at = "sync-intent" /\ Syncs(SyncedStage, "reason")
  <2>1. Keeps(t) /\ disk'.ent[t] = vol.ent[t] /\ Goto("reason") /\ unchangedTalk /\ vol' = vol
    BY <1>7, <1>8
  <2>2. QuarantineAt(t, "reason")'
    BY <1>1, <1>8, <2>1 DEF QuarantineAt, unchangedTalk, Claimed
  <2> QED BY <1>0, <1>1, <1>3, <2>1, <2>2, QuarantineMoves
<1>9. CASE volumeJob.at = "reason" /\ Writes("reason", volumeJob.reason, "sync-reason")
  <2>1. unchangedTalk
    BY <1>9 DEF Writes
  <2>2. /\ Keeps(t) /\ vol'.tomb = vol.tomb /\ Goto("sync-reason") /\ disk' = disk
        /\ vol'.ent[t]["quarantine-intent"] = vol.ent[t]["quarantine-intent"]
    BY <1>4, <1>5, <1>9, <2>1
  <2>3. QuarantineAt(t, "sync-reason")'
    BY <1>1, <1>9, <2>1, <2>2 DEF QuarantineAt, unchangedTalk, Claimed
  <2> QED BY <1>0, <1>1, <1>3, <2>1, <2>2, <2>3, QuarantineMoves
<1>10. CASE Mismatch("reason", volumeJob.reason)
  BY <1>0, <1>1, <1>2, <1>10, StopsOK DEF Mismatch
<1>11. CASE volumeJob.at = "sync-reason" /\ Syncs(SyncedStage, "tombstone")
  <2>1. Keeps(t) /\ disk'.ent[t] = vol.ent[t] /\ Goto("tombstone") /\ unchangedTalk /\ vol' = vol
    BY <1>7, <1>11
  <2>2. QuarantineAt(t, "tombstone")'
    BY <1>1, <1>11, <2>1 DEF QuarantineAt, unchangedTalk, Claimed
  <2> QED BY <1>0, <1>1, <1>3, <2>1, <2>2, QuarantineMoves
<1>12. CASE volumeJob.at = "tombstone" /\ Does([vol EXCEPT !.tomb[volumeJob.t] = "ok"], "sync-consumed")
  <2>1. vol' = [vol EXCEPT !.tomb[t] = "ok"] /\ disk' = disk /\ Goto("sync-consumed") /\ unchangedTalk
    BY <1>1, <1>12 DEF Does
  <2>2. t \in heldStages /\ vol.tomb[t] # "torn" /\ Claimed(t)
    BY <1>1, <1>12 DEF QuarantineAt
  <2>3. Keeps(t) /\ vol'.tomb[t] = "ok"
    BY <2>1, <2>2, TombKeeps DEF unchangedTalk
  <2>4. QuarantineAt(t, "sync-consumed")'
    BY <1>1, <2>1, <2>3 DEF QuarantineAt, unchangedTalk
  <2> QED BY <1>0, <1>1, <1>3, <2>1, <2>3, <2>4, QuarantineMoves
<1>13. CASE volumeJob.at = "sync-consumed" /\ Syncs([disk EXCEPT !.tomb = vol.tomb], "rename")
  <2>1. disk' = [disk EXCEPT !.tomb = vol.tomb] /\ vol' = vol /\ Goto("rename") /\ unchangedTalk
    BY <1>1, <1>13 DEF Syncs
  <2>2. /\ disk' \in Volumes /\ disk'.loc = disk.loc /\ disk'.ent = disk.ent /\ disk'.locks = disk.locks
        /\ disk'.tomb = vol.tomb /\ disk'.content = disk.content /\ disk'.desc = disk.desc
    BY <1>2, <2>1 DEF Volumes
  <2>3. Keeps(t)
    BY <2>1, <2>2, SyncKeeps DEF unchangedTalk
  <2>4. QuarantineAt(t, "rename")'
    BY <1>1, <2>1 DEF QuarantineAt, unchangedTalk
  <2> QED BY <1>0, <1>1, <1>3, <2>1, <2>3, <2>4, QuarantineMoves
<1>14. CASE Fails("io")
  BY <1>0, <1>14, FailsOK
<1> QED BY <1>6, <1>8, <1>9, <1>10, <1>11, <1>12, <1>13, <1>14 DEF prepare_quarantine

\* A quarantine gives its receipt, or says it does not know.
LEMMA QuarantinedOK ==
    ASSUME AssetIInv, volumeJob.op = "quarantine", NEW t \in AssetTokens, t = volumeJob.t,
           t \in heldStages, <<t, "committed">> \notin assetReceipts,
           vol.loc[t] = "quarantine", disk.loc[t] = "quarantine",
           NEW n \in SUBSET AssetTokens, vol.locks \ {t} \subseteq n, vol' = [vol EXCEPT !.locks = n],
           NEW m \in SUBSET AssetTokens, disk' = [disk EXCEPT !.locks = m],
           NEW res \in {"quarantined", "indeterminate"}, Finish(res), UNCHANGED <<assetFaults,
           assetCrashes>>
    PROVE  AssetIInv'
<1>0. vol \in Volumes /\ disk \in Volumes /\ TokenOK(t) /\ ContentOK /\ assetFaults \in Nat
  BY DEF AssetIInv, AssetTypeOK
<1>1. /\ vol' \in Volumes /\ vol'.loc = vol.loc /\ vol'.ent = vol.ent /\ vol'.locks = n
      /\ vol'.tomb = vol.tomb
      /\ vol'.content = vol.content /\ vol'.desc = vol.desc
  BY <1>0 DEF Volumes
<1>2. /\ disk' \in Volumes /\ disk'.loc = disk.loc /\ disk'.ent = disk.ent /\ disk'.tomb = disk.tomb
      /\ disk'.content = disk.content /\ disk'.desc = disk.desc
  BY <1>0 DEF Volumes
<1>3. /\ Answers("quarantine", t, res) /\ asset' = asset /\ heldStages \subseteq heldStages'
      /\ assetReceipts' \subseteq assetReceipts \cup {<<t, "quarantined">>}
  BY DEF Finish, Answers
<1>4. Touches(t) /\ ContentOK'
  BY <1>0, <1>1, <1>2, <1>3 DEF Touches, ContentOK
<1>5. KeyOf(t)' = KeyOf(t) /\ MediaOf(t)' = MediaOf(t) /\ <<t, "committed">> \notin assetReceipts'
  BY <1>3 DEF KeyOf, MediaOf
<1>6. TokenOK(t)'
  <2>1. ConsumedOK(t)'
    BY <1>0, <1>1, <1>2, <1>3, <1>5 DEF TokenOK, ConsumedOK, Marked, Claimed
  <2>2. TornOK(t)'
    BY <1>0, <1>1, <1>2 DEF TokenOK, TornOK
  <2>3. ReceiptsOK(t)'
    BY <1>1, <1>2, <1>5 DEF ReceiptsOK
  <2> QED BY <2>1, <2>2, <2>3 DEF TokenOK
<1>7. res \in Results
  BY DEF Results
<1> QED BY <1>0, <1>3, <1>4, <1>6, <1>7, AnsweredOK

\* move_to_quarantine.
LEMMA MoveToQuarantineOK ==
    ASSUME AssetIInv, move_to_quarantine
    PROVE  AssetIInv'
<1>0. volumeJob.op = "quarantine"
  BY DEF move_to_quarantine
<1>1. PICK t \in AssetTokens, r \in AssetReasons :
        t = volumeJob.t /\ r = volumeJob.reason /\ QuarantineAt(t, volumeJob.at)
  BY <1>0, InQuarantineJob
<1>2. vol \in Volumes /\ disk \in Volumes /\ TokenOK(t) /\ ContentOK
  BY DEF AssetIInv, AssetTypeOK
<1>3. {"sync-quarantine", "validate"} \subseteq QuarantineAts
  BY DEF QuarantineAts
<1>4. CASE volumeJob.at = "rename"
      /\ Does([vol EXCEPT !.loc[volumeJob.t] = "quarantine"], "sync-quarantine")
  <2> DEFINE l == [vol.loc EXCEPT ![t] = "quarantine"]
  <2>1. /\ l \in [AssetTokens -> {"none", "staging", "quarantine", "recovery"}]
        /\ \A u \in AssetTokens : l[u] = IF u = t THEN "quarantine" ELSE vol.loc[u]
    BY <1>2, VolumeFields
  <2>2. vol' = [vol EXCEPT !.loc = l] /\ disk' = disk /\ Goto("sync-quarantine") /\ unchangedTalk
    BY <1>1, <1>4 DEF Does
  <2> HIDE DEF l
  <2>3. /\ vol' \in Volumes /\ vol'.loc = l /\ vol'.ent = vol.ent /\ vol'.locks = vol.locks
        /\ vol'.tomb = vol.tomb
        /\ vol'.content = vol.content /\ vol'.desc = vol.desc
    BY <1>2, <2>1, <2>2 DEF Volumes
  <2>4. Touches(t) /\ ContentOK'
    BY <1>2, <2>1, <2>2, <2>3 DEF Touches, ContentOK, unchangedTalk
  <2>5. Keeps(t)
    BY <1>2, <2>1, <2>2, <2>3, <2>4, FilesStay DEF unchangedTalk, TokenOK, ReceiptsOK
  <2>6. QuarantineAt(t, "sync-quarantine")'
    BY <1>1, <2>1, <2>2, <2>3 DEF QuarantineAt, unchangedTalk
  <2> QED BY <1>0, <1>1, <1>3, <2>2, <2>5, <2>6, QuarantineMoves
<1>5. CASE volumeJob.at = "sync-quarantine" /\ Syncs([disk EXCEPT !.loc = vol.loc], "validate")
  <2>1. disk' = [disk EXCEPT !.loc = vol.loc] /\ vol' = vol /\ Goto("validate") /\ unchangedTalk
    BY <1>1, <1>5 DEF Syncs
  <2>2. /\ disk' \in Volumes /\ disk'.loc = vol.loc /\ disk'.ent = disk.ent /\ disk'.locks = disk.locks
        /\ disk'.tomb = disk.tomb /\ disk'.content = disk.content /\ disk'.desc = disk.desc
    BY <1>2, <2>1 DEF Volumes
  <2>3. Keeps(t)
    BY <2>1, <2>2, SyncKeeps DEF unchangedTalk
  <2>4. QuarantineAt(t, "validate")'
    BY <1>1, <1>5, <2>1, <2>2 DEF QuarantineAt, unchangedTalk
  <2> QED BY <1>0, <1>1, <1>3, <2>1, <2>3, <2>4, QuarantineMoves
<1>6. CASE /\ volumeJob.at = "validate"
           /\ LET whole == QuarantineIsWhole(volumeJob.t, volumeJob.reason)
                  gone  == IF whole THEN {volumeJob.t} ELSE {} IN
              /\ Finish(IF whole THEN "quarantined" ELSE "indeterminate")
              /\ vol' = [vol EXCEPT !.locks = @ \ gone]
              /\ disk' = [disk EXCEPT !.locks = @ \ gone]
           /\ UNCHANGED <<assetFaults, assetCrashes>>
  <2> DEFINE whole == QuarantineIsWhole(volumeJob.t, volumeJob.reason)
             gone == IF whole THEN {t} ELSE {}
             res == IF whole THEN "quarantined" ELSE "indeterminate"
  <2>1. /\ vol' = [vol EXCEPT !.locks = vol.locks \ gone]
        /\ disk' = [disk EXCEPT !.locks = disk.locks \ gone]
        /\ Finish(res) /\ UNCHANGED <<assetFaults, assetCrashes>>
    BY <1>1, <1>6
  <2>2. vol.locks \ gone \in SUBSET AssetTokens /\ disk.locks \ gone \in SUBSET AssetTokens
        /\ vol.locks \ {t} \subseteq vol.locks \ gone /\ res \in {"quarantined", "indeterminate"}
    BY <1>2, VolumeFields
  <2> HIDE DEF whole, gone, res
  <2>3. /\ t \in heldStages /\ <<t, "committed">> \notin assetReceipts
        /\ vol.loc[t] = "quarantine" /\ disk.loc[t] = "quarantine"
    BY <1>1, <1>6 DEF QuarantineAt
  <2>4. \E n \in SUBSET AssetTokens, m \in SUBSET AssetTokens, x \in {"quarantined", "indeterminate"} :
          /\ vol.locks \ {t} \subseteq n /\ vol' = [vol EXCEPT !.locks = n]
          /\ disk' = [disk EXCEPT !.locks = m]
          /\ Finish(x)
    BY <2>1, <2>2
  <2> QED BY <1>0, <1>1, <2>1, <2>3, <2>4, QuarantinedOK
<1>7. CASE Fails("indeterminate")
  BY <1>0, <1>7, FailsOK
<1> QED BY <1>4, <1>5, <1>6, <1>7 DEF move_to_quarantine

\* finish_quarantine_recovery.
LEMMA QuarantineRecoveryOK ==
    ASSUME AssetIInv, finish_quarantine_recovery
    PROVE  AssetIInv'
<1>0. volumeJob.op = "quarantine"
  BY DEF finish_quarantine_recovery
<1>1. PICK t \in AssetTokens, r \in AssetReasons :
        t = volumeJob.t /\ r = volumeJob.reason /\ QuarantineAt(t, volumeJob.at)
  BY <1>0, InQuarantineJob
<1>2. vol \in Volumes /\ disk \in Volumes
  BY DEF AssetIInv, AssetTypeOK
<1>3. CASE volumeJob.at = "resync-quarantine" /\ Syncs([disk EXCEPT !.loc = vol.loc], "drop-lock")
  <2>1. disk' = [disk EXCEPT !.loc = vol.loc] /\ vol' = vol /\ Goto("drop-lock") /\ unchangedTalk
    BY <1>1, <1>3 DEF Syncs
  <2>2. /\ disk' \in Volumes /\ disk'.loc = vol.loc /\ disk'.ent = disk.ent /\ disk'.locks = disk.locks
        /\ disk'.tomb = disk.tomb /\ disk'.content = disk.content /\ disk'.desc = disk.desc
    BY <1>2, <2>1 DEF Volumes
  <2>3. Keeps(t)
    BY <2>1, <2>2, SyncKeeps DEF unchangedTalk
  <2>4. QuarantineAt(t, "drop-lock")' /\ "drop-lock" \in QuarantineAts
    BY <1>1, <1>3, <2>1, <2>2 DEF QuarantineAt, unchangedTalk, QuarantineAts
  <2> QED BY <1>0, <1>1, <2>1, <2>3, <2>4, QuarantineMoves
<1>4. CASE /\ volumeJob.at = "drop-lock" /\ Finish("quarantined")
           /\ vol' = [vol EXCEPT !.locks = @ \ {volumeJob.t}]
           /\ disk' = [disk EXCEPT !.locks = vol'.locks]
           /\ UNCHANGED <<assetFaults, assetCrashes>>
  <2>1. vol' = [vol EXCEPT !.locks = vol.locks \ {t}] /\ vol.locks \ {t} \in SUBSET AssetTokens
    BY <1>1, <1>2, <1>4, VolumeFields
  <2>2. vol'.locks \in SUBSET AssetTokens
    BY <1>2, <2>1 DEF Volumes
  <2>3. /\ t \in heldStages /\ <<t, "committed">> \notin assetReceipts
        /\ vol.loc[t] = "quarantine" /\ disk.loc[t] = "quarantine"
    BY <1>1, <1>4 DEF QuarantineAt
  <2>4. PICK m \in SUBSET AssetTokens : disk' = [disk EXCEPT !.locks = m]
    BY <1>4, <2>2
  <2> QED BY <1>0, <1>1, <1>4, <2>1, <2>3, <2>4, QuarantinedOK
<1>5. CASE Fails("io") \/ Fails("indeterminate")
  BY <1>0, <1>5, FailsOK
<1> QED BY <1>3, <1>4, <1>5 DEF finish_quarantine_recovery

\* What a power loss may leave, before anything is torn.
LEMMA SurvivorFacts ==
    ASSUME vol \in Volumes, disk \in Volumes, NEW s \in Survivors
    PROVE  /\ s \in Volumes /\ s.loc \in {vol.loc, disk.loc} /\ s.tomb \in {vol.tomb, disk.tomb}
           /\ s.content \in {vol.content, disk.content} /\ s.desc \in {vol.desc, disk.desc}
           /\ \A u \in AssetTokens : s.ent[u] \in {vol.ent[u], disk.ent[u]}
<1> DEFINE n(new) == [t \in AssetTokens |-> IF t \in new THEN vol.ent[t] ELSE disk.ent[t]]
           made(l, new, k, b, c, d) ==
             [loc |-> l, ent |-> n(new), locks |-> k, tomb |-> b, content |-> c, desc |-> d]
<1>0. Survivors = {made(l, new, k, b, c, d) :
                     l \in {vol.loc, disk.loc}, new \in SUBSET AssetTokens, k \in {vol.locks, disk.locks},
                     b \in {vol.tomb, disk.tomb}, c \in {vol.content, disk.content}, d \in {vol.desc, disk.desc}}
  BY DEF Survivors
<1>1. \A new \in SUBSET AssetTokens :
        n(new) \in [AssetTokens -> StageValues]
        /\ \A u \in AssetTokens : n(new)[u] \in {vol.ent[u], disk.ent[u]}
  BY VolumeFields
<1> HIDE DEF n, made
<1>2. PICK l \in {vol.loc, disk.loc}, new \in SUBSET AssetTokens, k \in {vol.locks, disk.locks},
           b \in {vol.tomb, disk.tomb}, c \in {vol.content, disk.content}, d \in {vol.desc, disk.desc} :
        s = made(l, new, k, b, c, d)
  BY <1>0
<1>3. s = [loc |-> l, ent |-> n(new), locks |-> k, tomb |-> b, content |-> c, desc |-> d]
  BY <1>2 DEF made
<1>4. /\ l \in [AssetTokens -> {"none", "staging", "quarantine", "recovery"}] /\ k \subseteq AssetTokens
      /\ b \in [AssetTokens -> Marks] /\ c \in [AssetDigests -> {"none", "ok"}]
      /\ d \in [AssetKeys -> Medias \cup {"none"}]
  BY VolumeFields
<1> QED BY <1>1, <1>3, <1>4 DEF Volumes

\* And with the file that was being written torn.
LEMMA TornFacts ==
    ASSUME AssetIInv, NEW s \in Volumes, NEW v \in Torn(s)
    PROVE  /\ v \in Volumes /\ v.loc = s.loc /\ v.content = s.content /\ v.desc = s.desc
           /\ \A u \in AssetTokens, e \in StageEntries :
                \/ v.ent[u][e] = s.ent[u][e]
                \/ v.ent[u][e] = "torn" /\ s.ent[u][e] = "none" /\ volumeJob \in AssetJobs /\ u = volumeJob.t
                   /\ e = volumeJob.at
           /\ \A u \in AssetTokens :
                \/ v.tomb[u] = s.tomb[u]
                \/ v.tomb[u] = "torn" /\ s.tomb[u] = "none" /\ volumeJob \in AssetJobs /\ u = volumeJob.t
                   /\ volumeJob.at = "tombstone"
<1>1. CASE v = s
  BY <1>1
<1>2. ASSUME v # s PROVE volumeJob \in AssetJobs /\ volumeJob.t \in AssetTokens
  <2>1. volumeJob.op # "none"
    BY <1>2 DEF Torn
  <2>2. volumeJob \in AssetJobs
    BY <2>1 DEF AssetIInv, AssetTypeOK, NoJob
  <2> QED BY <2>2, JobFacts
<1>3. CASE /\ v # s /\ volumeJob.at \in StageEntries /\ s.ent[volumeJob.t][volumeJob.at] = "none"
           /\ v = [s EXCEPT !.ent[volumeJob.t][volumeJob.at] = "torn"]
  <2>1. PICK t \in AssetTokens, e \in StageEntries : t = volumeJob.t /\ e = volumeJob.at
    BY <1>2, <1>3
  <2>2. v = [s EXCEPT !.ent[t][e] = "torn"] /\ s.ent[t][e] = "none" /\ "torn" \in Marks
    BY <1>3, <2>1 DEF Marks
  <2>3. /\ v \in Volumes /\ v.loc = s.loc /\ v.locks = s.locks /\ v.tomb = s.tomb
        /\ v.content = s.content /\ v.desc = s.desc
        /\ \A u \in AssetTokens, f \in StageEntries :
             v.ent[u][f] = IF u = t /\ f = e THEN "torn" ELSE s.ent[u][f]
    BY <2>2, EntrySet
  <2> QED BY <1>2, <1>3, <2>1, <2>2, <2>3
<1>4. CASE /\ v # s /\ volumeJob.at = "tombstone" /\ s.tomb[volumeJob.t] = "none"
           /\ v = [s EXCEPT !.tomb[volumeJob.t] = "torn"]
  <2>1. PICK t \in AssetTokens : t = volumeJob.t
    BY <1>2, <1>4
  <2> DEFINE n == [s.tomb EXCEPT ![t] = "torn"]
  <2>2. n \in [AssetTokens -> Marks]
        /\ \A u \in AssetTokens : n[u] = IF u = t THEN "torn" ELSE s.tomb[u]
    BY VolumeFields DEF Marks
  <2>3. v = [s EXCEPT !.tomb = n]
    BY <1>4, <2>1
  <2> HIDE DEF n
  <2>4. /\ v \in Volumes /\ v.loc = s.loc /\ v.ent = s.ent /\ v.tomb = n
        /\ v.content = s.content /\ v.desc = s.desc
    BY <2>2, <2>3 DEF Volumes
  <2> QED BY <1>2, <1>4, <2>1, <2>2, <2>4
<1> QED BY <1>1, <1>3, <1>4 DEF Torn

\* A power loss.
LEMMA PowerLossOK ==
    ASSUME AssetIInv, PowerLoss
    PROVE  AssetIInv'
<1>0. vol \in Volumes /\ disk \in Volumes /\ ContentOK /\ AssetTypeOK
  BY DEF AssetIInv, AssetTypeOK
<1>1. PICK s \in Survivors : vol' \in Torn(s)
  BY DEF PowerLoss
<1>2. /\ disk' = vol' /\ volumeJob' = NoJob /\ owed' = {} /\ assetCrashes' \in Nat
      /\ UNCHANGED <<asset, heldStages, assetReceipts, answer, assetFaults>>
  BY <1>0 DEF PowerLoss, AssetTypeOK
<1>3. /\ s \in Volumes /\ s.loc \in {vol.loc, disk.loc} /\ s.tomb \in {vol.tomb, disk.tomb}
      /\ s.content \in {vol.content, disk.content} /\ s.desc \in {vol.desc, disk.desc}
      /\ \A u \in AssetTokens : s.ent[u] \in {vol.ent[u], disk.ent[u]}
  BY <1>0, SurvivorFacts
<1>4. /\ vol' \in Volumes /\ vol'.loc = s.loc /\ vol'.content = s.content /\ vol'.desc = s.desc
      /\ \A u \in AssetTokens, e \in StageEntries :
           \/ vol'.ent[u][e] = s.ent[u][e]
           \/ vol'.ent[u][e] = "torn" /\ s.ent[u][e] = "none" /\ volumeJob \in AssetJobs /\ u = volumeJob.t
              /\ e = volumeJob.at
      /\ \A u \in AssetTokens :
           \/ vol'.tomb[u] = s.tomb[u]
           \/ vol'.tomb[u] = "torn" /\ s.tomb[u] = "none" /\ volumeJob \in AssetJobs /\ u = volumeJob.t
              /\ volumeJob.at = "tombstone"
  BY <1>1, <1>3, TornFacts
<1>5. AssetTypeOK'
  BY <1>0, <1>2, <1>4 DEF AssetTypeOK
<1>6. ContentOK'
  <2>1. \A d \in AssetDigests : disk.content[d] = "ok" => s.content[d] = "ok"
    BY <1>0, <1>3 DEF ContentOK
  <2>2. \A k \in AssetKeys : s.desc[k] # "none" => disk.content[AssetDigestOf[k]] = "ok"
    BY <1>0, <1>3 DEF ContentOK
  <2>3. \A k \in AssetKeys : AssetDigestOf[k] \in AssetDigests
    BY VolumeAssumption
  <2> QED BY <1>2, <1>4, <2>1, <2>2, <2>3 DEF ContentOK
<1>7. ASSUME NEW u \in AssetTokens PROVE (Claimed(u) => Claimed(u)') /\ (Spoilt(u) => Spoilt(u)')
  <2>1. "quarantine-intent" \in StageEntries
    BY EntryFacts
  <2>2. Claimed(u) => Claimed(u)'
    BY <1>2, <1>3, <1>4, <2>1 DEF Claimed
  <2>3. TornStage(u) => TornStage(u)'
    BY <1>2, <1>3, <1>4 DEF TornStage
  <2>4. TornTomb(u) => TornTomb(u)'
    BY <1>2, <1>3, <1>4 DEF TornTomb
  <2> QED BY <2>2, <2>3, <2>4 DEF Spoilt
<1>8. ASSUME NEW u \in AssetTokens PROVE TokenOK(u)'
  <2>0. TokenOK(u) /\ KeyOf(u)' = KeyOf(u) /\ MediaOf(u)' = MediaOf(u) /\ KeyOf(u) \in AssetKeys
        /\ MediaOf(u) # "none"
    BY <1>0, <1>2, AssetFacts DEF AssetIInv, KeyOf, MediaOf
  <2>1. disk.desc[KeyOf(u)] = MediaOf(u) => disk'.desc[KeyOf(u)] = MediaOf(u)
    BY <1>0, <1>2, <1>3, <1>4, <2>0 DEF ContentOK
  <2>2. {"content", "consumed", "publish-intent"} \subseteq StageEntries
    BY EntryFacts
  <2>3. Marked(u)' => u \in heldStages /\ (disk.desc[KeyOf(u)] = MediaOf(u) \/ Claimed(u))
    <3>1. CASE Marked(u)
      BY <2>0, <3>1 DEF TokenOK, ConsumedOK
    <3>2. CASE ~Marked(u) /\ Marked(u)'
      <4>1. /\ volumeJob \in AssetJobs /\ u = volumeJob.t /\ volumeJob.at \in {"tombstone", "consumed"}
        BY <1>2, <1>3, <1>4, <2>2, <3>2 DEF Marked
      <4>2. volumeJob.op \in {"commit", "quarantine"}
        BY <4>1, JobFacts DEF StageAts
      <4>3. volumeJob.op = "commit" => CommitAt(u, volumeJob.at, volumeJob.reason)
        BY <4>1 DEF AssetIInv, JobOK, CommitOK
      <4>4. volumeJob.op = "quarantine" => QuarantineAt(u, volumeJob.at) /\ volumeJob.at = "tombstone"
        BY <4>1, JobFacts DEF AssetIInv, JobOK, QuarantineOK, QuarantineAts
      <4> QED BY <4>1, <4>2, <4>3, <4>4 DEF CommitAt, QuarantineAt
    <3> QED BY <3>1, <3>2
  <2>4. ConsumedOK(u)'
    BY <1>2, <1>7, <2>0, <2>1, <2>3 DEF ConsumedOK
  <2>5. TornOK(u)'
    BY <1>2 DEF TornOK
  <2>6. ReceiptsOK(u)'
    <3>1. <<u, "committed">> \in assetReceipts => Shows(vol'.ent[u])
      BY <1>3, <1>4, <2>0, <2>2 DEF TokenOK, ReceiptsOK, Shows
    <3> QED BY <1>2, <1>3, <1>4, <2>0, <2>1, <3>1 DEF TokenOK, ReceiptsOK
  <2> QED BY <2>4, <2>5, <2>6 DEF TokenOK
<1>9. OwedOK'
  <2>1. (answer.op = "commit" /\ answer.owed /\ answer.res = "integrity" => Spoilt(answer.t))'
    <3> SUFFICES ASSUME answer.op = "commit", answer.owed, answer.res = "integrity" PROVE Spoilt(answer.t)'
      BY <1>2
    <3>1. Spoilt(answer.t) /\ answer.t \in AssetTokens
      BY DEF AssetIInv, OwedOK, AssetTypeOK
    <3> QED BY <1>2, <1>7, <3>1
  <2> QED BY <1>2, <2>1 DEF OwedOK
<1>10. JobOK'
  BY <1>2 DEF JobOK, NoJob
<1> QED BY <1>5, <1>6, <1>8, <1>9, <1>10 DEF AssetIInv

\* An empty volume.
LEMMA AssetStarts == AssetInit => AssetIInv
<1> SUFFICES ASSUME AssetInit PROVE AssetIInv
  OBVIOUS
<1> DEFINE l == [t \in AssetTokens |-> "none"]  n == [t \in AssetTokens |-> EmptyStage]
           c == [d \in AssetDigests |-> "none"]  k == [d \in AssetKeys |-> "none"]
<1>1. vol = [loc |-> l, ent |-> n, locks |-> {}, tomb |-> l, content |-> c, desc |-> k] /\ disk = vol
  BY DEF AssetInit
<1>2. /\ l \in [AssetTokens -> {"none", "staging", "quarantine", "recovery"}]
      /\ l \in [AssetTokens -> Marks]
      /\ n \in [AssetTokens -> StageValues] /\ c \in [AssetDigests -> {"none", "ok"}]
      /\ k \in [AssetKeys -> Medias \cup {"none"}]
      /\ \A t \in AssetTokens : l[t] = "none" /\ n[t] = EmptyStage
      /\ \A d \in AssetKeys : k[d] = "none"
      /\ \A d \in AssetDigests : c[d] = "none"
  BY EntryFacts DEF Marks
<1> HIDE DEF l, n, c, k
<1>3. /\ vol \in Volumes /\ disk \in Volumes /\ vol.loc = l /\ vol.ent = n /\ vol.tomb = l
      /\ vol.content = c /\ vol.desc = k
  BY <1>1, <1>2 DEF Volumes
<1>4. /\ volumeJob = NoJob /\ asset \in [AssetTokens -> AssetDescriptors] /\ heldStages = {}
      /\ assetReceipts = {}
      /\ owed = {} /\ answer = [op |-> "none"] /\ assetFaults = 0 /\ assetCrashes = 0
  BY VolumeAssumption DEF AssetInit
<1>5. AssetTypeOK
  BY <1>3, <1>4 DEF AssetTypeOK
<1>6. ContentOK
  BY <1>1, <1>2, <1>3 DEF ContentOK
<1>7. ASSUME NEW t \in AssetTokens PROVE TokenOK(t)
  <2>1. EmptyStage["consumed"] = "none"
    BY EntryFacts
  <2>2. ~Marked(t)
    BY <1>1, <1>2, <1>3, <2>1 DEF Marked
  <2> QED BY <1>1, <1>2, <1>3, <1>4, <2>2 DEF TokenOK, ConsumedOK, TornOK, ReceiptsOK
<1>8. OwedOK /\ JobOK
  BY <1>4 DEF OwedOK, JobOK, NoJob
<1> QED BY <1>5, <1>6, <1>7, <1>8 DEF AssetIInv

\* A step that changes nothing.
LEMMA AssetStutters == AssetIInv /\ UNCHANGED assetVars => AssetIInv'
BY DEF AssetIInv, assetVars, AssetTypeOK, ContentOK, OwedOK, JobOK, TokenOK, ConsumedOK, Marked,
   Claimed, TornOK,
   ReceiptsOK, Shows, KeyOf, MediaOf, DigestOf, Spoilt, TornStage, TornTomb, Quarantining, Retryable,
   Unconsumed, InStage, Committed, CommitOK, CommitAt, Linked, QuarantineOK, QuarantineAt

\* Every step of the volume keeps the invariant.
LEMMA AssetSteps == AssetIInv /\ [AssetNext]_assetVars => AssetIInv'
BY StageOK, CommitRequestOK, QuarantineRequestOK, CreateStageOK, WriteStageOK, FailedStageOK, IsolateOK,
   PublishIntentOK, InstallContentOK, SyncContentOK, PublishDescriptorOK, SyncDescriptorOK, ConsumeStageOK,
   RetireStageOK, PrepareQuarantineOK, MoveToQuarantineOK, QuarantineRecoveryOK, PowerLossOK, AssetStutters
   DEF AssetNext

\* The invariant says what was promised.
LEMMA PromisesFollow == AssetIInv => AssetPromisesHold
<1> SUFFICES ASSUME AssetIInv PROVE AssetPromisesHold
  OBVIOUS
<1>1. AssetDescriptorsHaveContent
  <2>1. \A k \in AssetKeys : AssetDigestOf[k] \in AssetDigests
    BY VolumeAssumption
  <2> QED BY <2>1 DEF AssetIInv, ContentOK, AssetDescriptorsHaveContent
<1>2. AssetReceiptsAreTrue
  <2> SUFFICES ASSUME NEW t \in AssetTokens
               PROVE  /\ <<t, "committed">> \in assetReceipts =>
                           Committed(t) = asset[t].media /\ <<t, "quarantined">> \notin assetReceipts
                      /\ <<t, "quarantined">> \in assetReceipts => vol.loc[t] = "quarantine"
    BY DEF AssetReceiptsAreTrue
  <2>1. KeyOf(t) \in AssetKeys /\ MediaOf(t) # "none" /\ TokenOK(t) /\ ContentOK
    BY AssetFacts DEF AssetIInv
  <2> QED BY <2>1 DEF TokenOK, ReceiptsOK, ContentOK, Committed, KeyOf, MediaOf
<1>3. AssetFailuresAreRetryable
  <2> SUFFICES ASSUME answer.op = "commit", answer.owed, answer.res = "integrity"
               PROVE  \/ vol.ent[answer.t]["quarantine-intent"] # "none"
                      \/ "torn" \in {vol.tomb[answer.t]} \cup {vol.ent[answer.t][e] : e \in StageEntries}
    BY DEF AssetFailuresAreRetryable
  <2>1. Spoilt(answer.t)
    BY DEF AssetIInv, OwedOK
  <2> QED BY <2>1 DEF Spoilt, Claimed, TornStage, TornTomb
<1> QED BY <1>1, <1>2, <1>3 DEF AssetPromisesHold, AssetsAreDurable

\* A power loss between any two file-system calls, a call that fails and a retry take back
\* nothing the volume promised: a descriptor has its content, a receipt stays true, and a commit
\* that failed on I/O is not refused as damaged when it is tried again.
THEOREM VolumeKeepsPromises == AssetSpec => []AssetPromisesHold
<1>1. AssetSpec => []AssetIInv
  BY AssetStarts, AssetSteps, PTL DEF AssetSpec
<1> QED BY <1>1, PromisesFollow, PTL

-----------------------------------------------------------------------------
(* The file catalogue.                                                     *)

CatalogTypes ==
    /\ entries = [r \in FileReferences |-> entries[r]] /\ assets = [d \in FileDigests |-> assets[d]]
    /\ published = [k \in FileKeys |-> published[k]] /\ tombstones = [k \in DeleteKeys |-> tombstones[k]]
    /\ up = [u \in Uploads |-> up[u]] /\ del = [c \in Deleters |-> del[c]]
    /\ \A r \in FileReferences : entries[r] = [media |-> entries[r].media, digest |-> entries[r].digest]
    /\ issuedIds \in Nat /\ issuedIds <= MaxReferences /\ keyVersion \in Nat \ {0}

\* A file is on record under a reference that was handed out, and can be served.
FilesOK ==
    \A r \in FileReferences : entries[r] # NoFile =>
        /\ r <= issuedIds /\ entries[r].media # "none" /\ entries[r].digest \in FileDigests
        /\ assets[entries[r].digest] = entries[r].media

\* An operation commits to the request it is of and to the file it names.
PublishedOK ==
    \A k \in FileKeys : published[k] # NoOperation =>
        /\ published[k].ref \in FileReferences /\ entries[published[k].ref] # NoFile
        /\ published[k].version \in 1..keyVersion
        /\ \E q \in FileRequests :
             /\ q.key = k /\ q.media = entries[published[k].ref].media
             /\ published[k].commitment = PublishCommitment(q, published[k].ref, entries[published[k].ref])

TombstonesOK ==
    /\ \A k \in DeleteKeys : tombstones[k] # NoOperation =>
         /\ tombstones[k].ref \in FileReferences /\ entries[tombstones[k].ref] # NoFile
         /\ tombstones[k].commitment = DeleteCommitment(k, tombstones[k].ref, entries[tombstones[k].ref])
    /\ \A j, k \in DeleteKeys : tombstones[j].ref = tombstones[k].ref => j = k \/ tombstones[k] = NoOperation

\* The reference of an upload is its own and names nothing yet.
OwnsReference(u) == up[u].at \in {"prepared", "committed", "conflict"}
UploadOK(u) ==
    up[u] # IdleUpload =>
        /\ DOMAIN up[u] = {"at", "q", "digest", "ref"}
        /\ up[u].at \in {"staged", "prepared", "committed", "conflict"}
        /\ up[u].q \in FileRequests /\ up[u].digest \in FileDigests
        /\ OwnsReference(u) => up[u].ref \in 1..issuedIds /\ entries[up[u].ref] = NoFile
        /\ up[u].at = "committed" => assets[up[u].digest] = up[u].q.media
UploadsOK ==
    /\ \A u \in Uploads : UploadOK(u)
    /\ \A u, v \in Uploads : OwnsReference(u) /\ OwnsReference(v) /\ u # v => up[u].ref # up[v].ref

DeletesOK ==
    \A c \in Deleters : del[c] # IdleDelete => del[c].key \in DeleteKeys /\ del[c].ref \in FileReferences

AnswerOK(a) ==
    \/ /\ a.kind = "delete" /\ a.key \in DeleteKeys /\ a.ref \in FileReferences
       /\ tombstones[a.key].ref = a.ref
    \/ /\ a.kind = "upload" /\ a.q \in FileRequests /\ a.ref \in FileReferences
       /\ published[a.q.key].ref = a.ref
       /\ published[a.q.key].commitment = PublishCommitment(a.q, a.ref, entries[a.ref])
       /\ entries[a.ref] = [media |-> a.q.media, digest |-> a.digest]
AnswersOK == \A a \in fileAnswers : AnswerOK(a)

\* What is due is visible; up to the cursor it is listed.
Listed(r) == \E i \in DOMAIN walk.listed : walk.listed[i] = r
WalkOK ==
    walk # NoWalk =>
        /\ DOMAIN walk = {"at", "after", "listed", "due"} /\ walk.at \in {"walking", "done"}
        /\ walk.after \in Nat /\ walk.listed \in Seq(FileReferences) /\ Ascends(walk.listed)
        /\ walk.at = "walking" =>
             /\ walk.due \subseteq VisibleReferences
             /\ \A i \in DOMAIN walk.listed : walk.listed[i] <= walk.after
             /\ \A r \in walk.due : r <= walk.after => Listed(r)
        /\ walk.at = "done" => \A r \in walk.due : Listed(r)

CatalogIInv ==
    /\ CatalogTypes /\ FilesOK /\ PublishedOK /\ TombstonesOK
    /\ UploadsOK /\ DeletesOK /\ AnswersOK /\ WalkOK

LEMMA SortedIs ==
    ASSUME NEW C, C \subseteq Nat, IsFiniteSet(C)
    PROVE  /\ Sorted(C) \in Seq(C) /\ Len(Sorted(C)) = Cardinality(C) /\ Cardinality(C) \in Nat
           /\ Ascends(Sorted(C))
           /\ \A c \in C : \E i \in 1..Len(Sorted(C)) : Sorted(C)[i] = c
<1>1. Sorted(C) \in [1..Cardinality(C) -> C] /\ Ascends(Sorted(C))
  BY OrderExists DEF Sorted, Ascends
<1>2. Cardinality(C) \in Nat
  BY FS_CardinalityType
<1>3. Sorted(C) \in Seq(C) /\ Len(Sorted(C)) = Cardinality(C)
  BY <1>1, <1>2
<1>4. \A c \in C : \E i \in 1..Cardinality(C) : Sorted(C)[i] = c
  BY <1>1, OrderCovers
<1> QED BY <1>1, <1>2, <1>3, <1>4

LEMMA CatalogStarts == CatalogInit => CatalogIInv
<1> SUFFICES ASSUME CatalogInit PROVE CatalogIInv
  OBVIOUS
<1>1. CatalogTypes
  BY CatalogAssumption DEF CatalogInit, CatalogTypes, CatalogAssumption, NoFile
<1>2. FilesOK /\ PublishedOK /\ TombstonesOK
  BY DEF CatalogInit, FilesOK, PublishedOK, TombstonesOK
<1>3. UploadsOK /\ DeletesOK
  BY DEF CatalogInit, UploadsOK, UploadOK, OwnsReference, DeletesOK, IdleUpload
<1>4. AnswersOK /\ WalkOK
  BY DEF CatalogInit, AnswersOK, WalkOK
<1> QED BY <1>1, <1>2, <1>3, <1>4 DEF CatalogIInv

-----------------------------------------------------------------------------
(* Uploads.                                                                *)

\* A request is determined by its three parts.
LEMMA RequestIs ==
    ASSUME NEW q \in FileRequests
    PROVE  /\ q = [key |-> q.key, media |-> q.media, expects |-> q.expects] /\ q.media # "none"
           /\ q.key \in FileKeys
BY CatalogAssumption DEF CatalogAssumption, FileKeys

\* One upload moves; the catalogue is as before, assets are only added.
LEMMA UploadMoves ==
    ASSUME CatalogIInv, NEW u \in Uploads, NEW x, up' = [up EXCEPT ![u] = x],
           UNCHANGED <<entries, published, tombstones, keyVersion, del, walk>>,
           issuedIds' \in {issuedIds, issuedIds + 1}, issuedIds' <= MaxReferences,
           assets' = [d \in FileDigests |-> assets'[d]],
           \A d \in FileDigests : assets[d] # "none" => assets'[d] = assets[d],
           UploadOK(u)',
           \A v \in Uploads \ {u} : OwnsReference(u)' /\ OwnsReference(v) => up'[u].ref # up[v].ref,
           \A a \in fileAnswers' : a \in fileAnswers \/ AnswerOK(a)
    PROVE  CatalogIInv'
<1>1. CatalogTypes'
  BY DEF CatalogIInv, CatalogTypes
<1>2. issuedIds \in Nat /\ issuedIds' \in Nat /\ issuedIds <= issuedIds'
  BY DEF CatalogIInv, CatalogTypes
<1>3. FilesOK'
  BY <1>2 DEF CatalogIInv, FilesOK, FileReferences
<1>4. PublishedOK' /\ TombstonesOK'
  BY DEF CatalogIInv, PublishedOK, TombstonesOK
<1>5. up'[u] = x /\ \A v \in Uploads \ {u} : up'[v] = up[v]
  BY DEF CatalogIInv, CatalogTypes
<1>6. ASSUME NEW v \in Uploads \ {u} PROVE UploadOK(v)'
  <2>1. UploadOK(v)
    BY DEF CatalogIInv, UploadsOK
  <2>2. up[v] # IdleUpload => up[v].q.media # "none"
    BY <2>1, RequestIs DEF UploadOK
  <2> QED BY <1>2, <1>5, <2>1, <2>2 DEF UploadOK, OwnsReference
<1>7. UploadsOK'
  <2>1. \A v \in Uploads : UploadOK(v)'
    BY <1>6
  <2>2. \A v \in Uploads \ {u} : OwnsReference(v)' <=> OwnsReference(v)
    BY <1>5 DEF OwnsReference
  <2>3. ASSUME NEW v \in Uploads, NEW w \in Uploads, OwnsReference(v)', OwnsReference(w)', v # w
        PROVE  up'[v].ref # up'[w].ref
    BY <1>5, <2>2, <2>3 DEF CatalogIInv, UploadsOK
  <2> QED BY <2>1, <2>3 DEF UploadsOK
<1>8. DeletesOK' /\ AnswersOK'
  BY DEF CatalogIInv, DeletesOK, AnswersOK, AnswerOK
<1>9. WalkOK'
  BY DEF CatalogIInv, WalkOK, Listed, VisibleReferences, Visible, Tombstoned
<1> QED BY <1>1, <1>3, <1>4, <1>7, <1>8, <1>9 DEF CatalogIInv

\* A replay that is found exact names the file on record for this very request.
LEMMA ReplayIsTrue ==
    ASSUME CatalogIInv, NEW q \in FileRequests, NEW d, resolve_upload_replay(q, d) = "committed"
    PROVE  AnswerOK([kind |-> "upload", q |-> q, digest |-> d, ref |-> published[q.key].ref])
<1>1. PICK op, file : op = published[q.key] /\ file = entries[op.ref]
  OBVIOUS
<1>2. /\ op # NoOperation /\ q.media = file.media /\ file.digest = d
      /\ CommittedRequest(q, op, q.expects)
  BY <1>1 DEF resolve_upload_replay
<1>3. op.ref \in FileReferences
  BY <1>1, <1>2, RequestIs DEF CatalogIInv, PublishedOK
<1>4. file = [media |-> q.media, digest |-> d]
  BY <1>1, <1>2, <1>3 DEF CatalogIInv, CatalogTypes
<1>5. op.commitment = PublishCommitment(q, op.ref, file)
  BY <1>1, <1>2, RequestIs DEF CommittedRequest
<1> QED BY <1>1, <1>3, <1>4, <1>5 DEF AnswerOK

LEMMA UploadActions ==
    ASSUME CatalogIInv, NEW u \in Uploads,
           \/ \E q \in FileRequests, d \in FileDigests : UploadStages(u, q, d)
           \/ UploadResolves(u) \/ commit_stage(u) \/ UploadConflicts(u)
           \/ UploadResolvesConflict(u) \/ UploadAbandoned(u)
    PROVE  CatalogIInv'
<1>1. /\ UNCHANGED <<entries, published, tombstones, keyVersion, del, walk>>
      /\ UploadOK(u) /\ issuedIds \in Nat /\ issuedIds <= MaxReferences
      /\ assets = [d \in FileDigests |-> assets[d]] /\ up = [v \in Uploads |-> up[v]]
  BY DEF UploadStages, UploadResolves, commit_stage, UploadConflicts, UploadResolvesConflict, UploadAbandoned,
         unchangedRows, unchangedAside, CatalogIInv, UploadsOK, CatalogTypes
<1>2. ASSUME UNCHANGED <<issuedIds, assets>>, EndUpload(u),
             \A a \in fileAnswers' : a \in fileAnswers \/ AnswerOK(a)
      PROVE  CatalogIInv'
  <2>1. up' = [up EXCEPT ![u] = IdleUpload] /\ up'[u] = IdleUpload
    BY <1>1, <1>2 DEF EndUpload
  <2>2. UploadOK(u)' /\ ~OwnsReference(u)'
    BY <2>1 DEF UploadOK, OwnsReference, IdleUpload
  <2> QED BY <1>1, <1>2, <2>1, <2>2, UploadMoves
<1>3. ASSUME NEW q \in FileRequests, NEW d \in FileDigests, UploadStages(u, q, d) PROVE CatalogIInv'
  <2>1. UNCHANGED <<issuedIds, assets, fileAnswers>>
    BY <1>3 DEF UploadStages
  <2>2. CASE q.expects \in {"any", d}
    <3>1. PICK x : x = [at |-> "staged", q |-> q, digest |-> d, ref |-> 0]
      OBVIOUS
    <3>2. up' = [up EXCEPT ![u] = x] /\ up'[u] = x
      BY <1>1, <1>3, <2>2, <3>1 DEF UploadStages
    <3>3. UploadOK(u)' /\ ~OwnsReference(u)'
      BY <3>1, <3>2 DEF UploadOK, OwnsReference
    <3> QED BY <1>1, <2>1, <3>2, <3>3, UploadMoves
  <2>3. CASE q.expects \notin {"any", d}
    BY <1>2, <1>3, <2>1, <2>3 DEF UploadStages
  <2> QED BY <2>2, <2>3
<1>4. CASE UploadAbandoned(u)
  BY <1>2, <1>4 DEF UploadAbandoned
<1>5. CASE UploadConflicts(u)
  <2>1. PICK x : x = [up[u] EXCEPT !.at = "conflict"]
    OBVIOUS
  <2>2. /\ up[u].at = "committed" /\ UNCHANGED <<issuedIds, assets, fileAnswers>>
        /\ up' = [up EXCEPT ![u] = x] /\ up'[u] = x
    BY <1>1, <1>5, <2>1 DEF UploadConflicts
  <2>3. UploadOK(u)' /\ OwnsReference(u) /\ x.ref = up[u].ref
    BY <1>1, <2>1, <2>2 DEF UploadOK, OwnsReference, IdleUpload
  <2>4. \A v \in Uploads \ {u} : OwnsReference(v) => up'[u].ref # up[v].ref
    BY <2>2, <2>3 DEF CatalogIInv, UploadsOK
  <2> QED BY <1>1, <2>2, <2>3, <2>4, UploadMoves
<1>6. CASE commit_stage(u)
  <2>1. up[u].at = "prepared" /\ UNCHANGED <<issuedIds, fileAnswers>>
    BY <1>6 DEF commit_stage
  <2>2. up[u].q \in FileRequests /\ up[u].digest \in FileDigests /\ OwnsReference(u)
    BY <1>1, <2>1 DEF UploadOK, OwnsReference, IdleUpload
  <2>3. PICK with : with = [assets EXCEPT ![up[u].digest] = up[u].q.media]
    OBVIOUS
  <2>4. assets[up[u].digest] \in {"none", up[u].q.media} =>
           /\ with = [d \in FileDigests |-> with[d]] /\ with[up[u].digest] = up[u].q.media
           /\ \A d \in FileDigests : assets[d] # "none" => with[d] = assets[d]
    BY <1>1, <2>2, <2>3
  <2>5. CASE EndUpload(u) /\ assets' = assets
    BY <1>2, <2>1, <2>5
  <2>6. CASE EndUpload(u) /\ assets' = with /\ assets[up[u].digest] \in {"none", up[u].q.media}
    <3>1. up' = [up EXCEPT ![u] = IdleUpload] /\ up'[u] = IdleUpload
      BY <1>1, <2>6 DEF EndUpload
    <3>2. UploadOK(u)' /\ ~OwnsReference(u)'
      BY <3>1 DEF UploadOK, OwnsReference, IdleUpload
    <3> QED BY <1>1, <2>1, <2>4, <2>6, <3>1, <3>2, UploadMoves
  <2>7. CASE /\ up' = [up EXCEPT ![u].at = "committed"] /\ assets' = with
             /\ assets[up[u].digest] \in {"none", up[u].q.media}
    <3>1. PICK x : x = [up[u] EXCEPT !.at = "committed"]
      OBVIOUS
    <3>2. up' = [up EXCEPT ![u] = x] /\ up'[u] = x
      BY <1>1, <2>7, <3>1
    <3>3. UploadOK(u)' /\ x.ref = up[u].ref
      BY <1>1, <2>1, <2>2, <2>4, <2>7, <3>1, <3>2 DEF UploadOK, OwnsReference, IdleUpload
    <3>4. \A v \in Uploads \ {u} : OwnsReference(v) => up'[u].ref # up[v].ref
      BY <2>2, <3>2, <3>3 DEF CatalogIInv, UploadsOK
    <3> QED BY <1>1, <2>1, <2>4, <2>7, <3>2, <3>3, <3>4, UploadMoves
  <2> QED BY <1>6, <2>3, <2>5, <2>6, <2>7 DEF commit_stage
<1>7. ASSUME up[u] # IdleUpload, NEW ref, ref = published[up[u].q.key].ref, EndUpload(u), UploadAnswered(u, ref),
             UNCHANGED <<issuedIds, assets>>, resolve_upload_replay(up[u].q, up[u].digest) = "committed"
      PROVE  CatalogIInv'
  <2>1. up[u].q \in FileRequests
    BY <1>1, <1>7 DEF UploadOK
  <2>2. AnswerOK([kind |-> "upload", q |-> up[u].q, digest |-> up[u].digest, ref |-> ref])
    BY <1>7, <2>1, ReplayIsTrue
  <2> QED BY <1>2, <1>7, <2>2 DEF UploadAnswered
<1>8. CASE UploadResolvesConflict(u)
  <2>1. /\ EndUpload(u) /\ UNCHANGED <<assets, issuedIds>> /\ up[u] # IdleUpload
        /\ \/ UNCHANGED fileAnswers
           \/ /\ resolve_upload_replay(up[u].q, up[u].digest) = "committed"
              /\ UploadAnswered(u, published[up[u].q.key].ref)
    BY <1>8 DEF UploadResolvesConflict, IdleUpload
  <2> QED BY <1>2, <1>7, <2>1
<1>9. CASE UploadResolves(u)
  <2>1. up[u].at = "staged" /\ up[u] # IdleUpload /\ UNCHANGED assets
    BY <1>9 DEF UploadResolves, IdleUpload
  <2>2. CASE /\ issuedIds < MaxReferences /\ issuedIds' = issuedIds + 1
             /\ up' = [up EXCEPT ![u].at = "prepared", ![u].ref = issuedIds + 1]
             /\ UNCHANGED fileAnswers
    <3>1. PICK x : x = [up[u] EXCEPT !.at = "prepared", !.ref = issuedIds + 1]
      OBVIOUS
    <3>2. up' = [up EXCEPT ![u] = x] /\ up'[u] = x
      BY <1>1, <2>2, <3>1
    <3>3. entries[issuedIds + 1] = NoFile
      BY <1>1, <2>2, CatalogAssumption DEF CatalogIInv, FilesOK, FileReferences, CatalogAssumption
    <3>4. UploadOK(u)' /\ x.ref = issuedIds + 1
      <4>1. /\ DOMAIN up[u] = {"at", "q", "digest", "ref"}
            /\ up[u].q \in FileRequests /\ up[u].digest \in FileDigests
        BY <1>1, <2>1 DEF UploadOK
      <4>2. /\ DOMAIN x = {"at", "q", "digest", "ref"} /\ x.at = "prepared"
            /\ x.q = up[u].q /\ x.digest = up[u].digest /\ x.ref = issuedIds + 1
        BY <3>1, <4>1
      <4>3. x.ref \in 1..issuedIds' /\ entries'[x.ref] = NoFile
        BY <1>1, <2>2, <3>3, <4>2
      <4> QED BY <3>2, <4>1, <4>2, <4>3 DEF UploadOK, OwnsReference
    <3>5. \A v \in Uploads \ {u} : OwnsReference(v) => up'[u].ref # up[v].ref
      BY <1>1, <3>2, <3>4 DEF CatalogIInv, UploadsOK, UploadOK, OwnsReference, IdleUpload
    <3>6. issuedIds' <= MaxReferences
      BY <1>1, <2>2, CatalogAssumption DEF CatalogAssumption
    <3> QED BY <1>1, <2>1, <2>2, <3>2, <3>4, <3>5, <3>6, UploadMoves
  <2>3. CASE EndUpload(u) /\ UNCHANGED <<issuedIds, fileAnswers>>
    BY <1>2, <2>1, <2>3
  <2>4. CASE /\ resolve_upload_replay(up[u].q, up[u].digest) = "committed" /\ UNCHANGED issuedIds
             /\ UploadAnswered(u, published[up[u].q.key].ref) /\ EndUpload(u)
    BY <1>7, <2>1, <2>4
  <2> QED BY <1>9, <2>2, <2>3, <2>4 DEF UploadResolves
<1> QED BY <1>3, <1>4, <1>5, <1>6, <1>8, <1>9

\* Only the answers change.
LEMMA AnswerAdded ==
    ASSUME CatalogIInv, NEW c, AnswerOK(c), fileAnswers' = fileAnswers \cup {c},
           UNCHANGED <<entries, published, tombstones, assets, keyVersion, up, del, issuedIds, walk>>
    PROVE  CatalogIInv'
<1>1. CatalogTypes' /\ FilesOK' /\ PublishedOK' /\ TombstonesOK'
  BY DEF CatalogIInv, CatalogTypes, FilesOK, PublishedOK, TombstonesOK
<1>2. UploadsOK' /\ DeletesOK'
  BY DEF CatalogIInv, UploadsOK, UploadOK, OwnsReference, DeletesOK
<1>3. AnswersOK'
  BY DEF CatalogIInv, AnswersOK, AnswerOK
<1>4. WalkOK'
  BY DEF CatalogIInv, WalkOK, Listed, VisibleReferences, Visible, Tombstoned
<1> QED BY <1>1, <1>2, <1>3, <1>4 DEF CatalogIInv

LEMMA CommitmentsBind ==
    ASSUME NEW q, NEW r, NEW f, NEW p, NEW s, NEW g
    PROVE  /\ PublishCommitment(q, r, f) = PublishCommitment(p, s, g) => q = p /\ r = s /\ f = g
           /\ DeleteCommitment(q, r, f) = DeleteCommitment(p, s, g) => q = p /\ r = s /\ f = g
BY DEF PublishCommitment, DeleteCommitment

LEMMA ReconcileKeeps ==
    ASSUME CatalogIInv, NEW q \in FileRequests, ReconcileUpload(q)
    PROVE  CatalogIInv'
<1>1. PICK op, file : op = published[q.key] /\ file = entries[op.ref]
  OBVIOUS
<1>2. /\ op # NoOperation /\ op.commitment = PublishCommitment(q, op.ref, file)
      /\ fileAnswers' = fileAnswers \cup {[kind |-> "upload", q |-> q, digest |-> file.digest, ref |-> op.ref]}
      /\ UNCHANGED <<entries, published, tombstones, assets, keyVersion, up, del, issuedIds, walk>>
  BY <1>1 DEF ReconcileUpload, unchangedRows, unchangedAside
<1>3. op.ref \in FileReferences /\ file.media = q.media
  BY <1>1, <1>2, RequestIs, CommitmentsBind DEF CatalogIInv, PublishedOK
<1>4. file = [media |-> q.media, digest |-> file.digest]
  BY <1>1, <1>3 DEF CatalogIInv, CatalogTypes
<1>5. AnswerOK([kind |-> "upload", q |-> q, digest |-> file.digest, ref |-> op.ref])
  BY <1>1, <1>2, <1>3, <1>4 DEF AnswerOK
<1> QED BY <1>2, <1>5, AnswerAdded
\* A publication takes a key that is free and a reference that names nothing.
LEMMA InsertKeeps ==
    ASSUME CatalogIInv, NEW u \in Uploads, publish_is_new(u), EndUpload(u), InsertPublication(u),
           UploadAnswered(u, up[u].ref) \/ UNCHANGED fileAnswers,
           UNCHANGED <<keyVersion, del, walk, assets, issuedIds>>
    PROVE  CatalogIInv'
<1>1. PICK q, ref, file, op : /\ q = up[u].q /\ ref = up[u].ref /\ file = PublishedFile(u)
                              /\ op = PublishOperation(q, ref, file)
  OBVIOUS
<1>2. /\ q \in FileRequests /\ up[u].digest \in FileDigests /\ ref \in 1..issuedIds /\ entries[ref] = NoFile
      /\ assets[up[u].digest] = q.media /\ OwnsReference(u) /\ published[q.key] = NoOperation
  BY <1>1 DEF CatalogIInv, UploadsOK, UploadOK, OwnsReference, publish_is_new, IdleUpload
<1>3. q.media # "none" /\ q.key \in FileKeys
  BY <1>2, RequestIs
<1>4. ref \in FileReferences /\ issuedIds \in Nat /\ keyVersion \in Nat \ {0}
  BY <1>2, CatalogAssumption DEF CatalogIInv, CatalogTypes, FileReferences, CatalogAssumption
<1>5. file = [media |-> q.media, digest |-> up[u].digest] /\ file # NoFile
  BY <1>1, <1>3 DEF PublishedFile, NoFile
<1>6. /\ entries' = [r \in FileReferences |-> entries'[r]] /\ entries'[ref] = file
      /\ \A r \in FileReferences \ {ref} : entries'[r] = entries[r]
  BY <1>1, <1>4 DEF InsertPublication, CatalogIInv, CatalogTypes
<1>7. /\ published' = [k \in FileKeys |-> published'[k]] /\ published'[q.key] = op
      /\ \A k \in FileKeys \ {q.key} : published'[k] = published[k]
      /\ tombstones' = tombstones
  BY <1>1, <1>3 DEF InsertPublication, CatalogIInv, CatalogTypes
<1>8. /\ up' = [v \in Uploads |-> up'[v]] /\ up'[u] = IdleUpload
      /\ \A v \in Uploads \ {u} : up'[v] = up[v]
  BY DEF EndUpload, CatalogIInv, CatalogTypes
<1>9. op.ref = ref /\ op.version = keyVersion /\ op.commitment = PublishCommitment(q, ref, file)
  BY <1>1 DEF PublishOperation
<1>10. CatalogTypes'
  BY <1>5, <1>6, <1>7, <1>8 DEF CatalogIInv, CatalogTypes
<1>11. FilesOK'
  BY <1>2, <1>3, <1>4, <1>5, <1>6 DEF CatalogIInv, FilesOK, FileReferences
<1>12. PublishedOK'
  <2> SUFFICES ASSUME NEW k \in FileKeys, published'[k] # NoOperation
               PROVE  /\ published'[k].ref \in FileReferences /\ entries'[published'[k].ref] # NoFile
                      /\ published'[k].version \in 1..keyVersion
                      /\ \E p \in FileRequests :
                           /\ p.key = k /\ p.media = entries'[published'[k].ref].media
                           /\ published'[k].commitment =
                                PublishCommitment(p, published'[k].ref, entries'[published'[k].ref])
    BY DEF PublishedOK, PublishCommitment
  <2>1. CASE k = q.key
    BY <1>2, <1>4, <1>5, <1>6, <1>7, <1>9, <2>1
  <2>2. CASE k # q.key
    <3>1. published'[k] = published[k] /\ published[k].ref \in FileReferences /\ published[k].ref # ref
      BY <1>2, <1>7, <2>2 DEF CatalogIInv, PublishedOK
    <3> QED BY <1>6, <3>1 DEF CatalogIInv, PublishedOK
  <2> QED BY <2>1, <2>2
<1>13. TombstonesOK'
  <2>1. \A k \in DeleteKeys : tombstones[k] # NoOperation => tombstones[k].ref \in FileReferences \ {ref}
    BY <1>2 DEF CatalogIInv, TombstonesOK
  <2> QED BY <1>6, <1>7, <2>1 DEF CatalogIInv, TombstonesOK, DeleteCommitment
<1>14. UploadsOK'
  <2>1. ASSUME NEW v \in Uploads \ {u} PROVE UploadOK(v)' /\ (OwnsReference(v)' <=> OwnsReference(v))
    <3>1. UploadOK(v) /\ (OwnsReference(v) => up[v].ref # ref)
      BY <1>1, <1>2 DEF CatalogIInv, UploadsOK
    <3>2. OwnsReference(v) => up[v].ref \in FileReferences \/ up[v] = IdleUpload
      BY <3>1, CatalogAssumption DEF CatalogIInv, CatalogTypes, UploadOK, FileReferences, CatalogAssumption
    <3> QED BY <1>6, <1>8, <3>1, <3>2 DEF UploadOK, OwnsReference
  <2>2. UploadOK(u)' /\ ~OwnsReference(u)'
    BY <1>8 DEF UploadOK, OwnsReference, IdleUpload
  <2> QED BY <1>8, <2>1, <2>2 DEF CatalogIInv, UploadsOK
<1>15. AnswersOK'
  <2>1. ASSUME NEW a \in fileAnswers PROVE AnswerOK(a)'
    <3>1. CASE a.kind = "delete"
      BY <1>7, <3>1 DEF CatalogIInv, AnswersOK, AnswerOK
    <3>2. CASE a.kind # "delete"
      <4>1. /\ a.kind = "upload" /\ a.q \in FileRequests /\ a.ref \in FileReferences
            /\ published[a.q.key].ref = a.ref
            /\ published[a.q.key].commitment = PublishCommitment(a.q, a.ref, entries[a.ref])
            /\ entries[a.ref] = [media |-> a.q.media, digest |-> a.digest]
        BY <3>2 DEF CatalogIInv, AnswersOK, AnswerOK
      <4>2. a.q.media # "none" /\ a.q.key \in FileKeys
        BY <4>1, RequestIs
      <4>3. a.ref # ref
        BY <1>2, <4>1, <4>2 DEF NoFile
      <4>4. a.q.key # q.key
        BY <1>2, <4>1 DEF NoOperation, FileReferences
      <4> QED BY <1>6, <1>7, <4>1, <4>2, <4>3, <4>4 DEF AnswerOK
    <3> QED BY <3>1, <3>2
  <2>2. ASSUME NEW a, a = [kind |-> "upload", q |-> q, digest |-> up[u].digest, ref |-> ref]
        PROVE  AnswerOK(a)'
    BY <1>2, <1>4, <1>5, <1>6, <1>7, <1>9, <2>2 DEF AnswerOK
  <2>3. \A a \in fileAnswers' : a \in fileAnswers \/ a = [kind |-> "upload", q |-> q, digest |-> up[u].digest, ref |-> ref]
    BY <1>1 DEF UploadAnswered
  <2> QED BY <2>1, <2>2, <2>3 DEF AnswersOK
<1>16. WalkOK'
  <2>1. VisibleReferences \subseteq VisibleReferences'
    BY <1>2, <1>6, <1>7 DEF VisibleReferences, Visible, Tombstoned
  <2> QED BY <2>1 DEF CatalogIInv, WalkOK, Listed
<1>17. DeletesOK'
  BY DEF CatalogIInv, DeletesOK
<1> QED BY <1>10, <1>11, <1>12, <1>13, <1>14, <1>15, <1>16, <1>17 DEF CatalogIInv

LEMMA PublishKeeps ==
    ASSUME CatalogIInv, NEW u \in Uploads, UploadPublishes(u)
    PROVE  CatalogIInv'
<1>1. /\ publish_is_new(u) /\ EndUpload(u) /\ UNCHANGED <<keyVersion, del, walk, assets, issuedIds>>
      /\ \/ InsertPublication(u) /\ UploadAnswered(u, up[u].ref)
         \/ InsertPublication(u) /\ UNCHANGED fileAnswers
         \/ unchangedRows /\ UNCHANGED fileAnswers
  BY DEF UploadPublishes, unchangedAside
<1>2. CASE InsertPublication(u)
  BY <1>1, <1>2, InsertKeeps DEF unchangedRows, InsertPublication
<1>3. CASE unchangedRows /\ UNCHANGED fileAnswers
  <2>1. up' = [up EXCEPT ![u] = IdleUpload] /\ up'[u] = IdleUpload
    BY <1>1 DEF EndUpload, CatalogIInv, CatalogTypes
  <2>2. UploadOK(u)' /\ ~OwnsReference(u)'
    BY <2>1 DEF UploadOK, OwnsReference, IdleUpload
  <2>3. /\ UNCHANGED <<entries, published, tombstones>> /\ issuedIds <= MaxReferences
        /\ assets' = [d \in FileDigests |-> assets'[d]]
    BY <1>1, <1>3 DEF unchangedRows, CatalogIInv, CatalogTypes
  <2> QED BY <1>1, <1>3, <2>1, <2>2, <2>3, UploadMoves
<1> QED BY <1>1, <1>2, <1>3

-----------------------------------------------------------------------------
(* Deletions.                                                              *)

\* One deletion moves; the catalogue is as before.
LEMMA DeleteMoves ==
    ASSUME CatalogIInv, NEW c \in Deleters, NEW x, del' = [del EXCEPT ![c] = x],
           x # IdleDelete => x.key \in DeleteKeys /\ x.ref \in FileReferences,
           UNCHANGED <<entries, published, tombstones, assets, keyVersion, up, issuedIds, walk>>,
           \A a \in fileAnswers' : a \in fileAnswers \/ AnswerOK(a)
    PROVE  CatalogIInv'
<1>1. CatalogTypes' /\ FilesOK' /\ PublishedOK' /\ TombstonesOK'
  BY DEF CatalogIInv, CatalogTypes, FilesOK, PublishedOK, TombstonesOK
<1>2. UploadsOK'
  BY DEF CatalogIInv, UploadsOK, UploadOK, OwnsReference
<1>3. DeletesOK'
  BY DEF CatalogIInv, CatalogTypes, DeletesOK
<1>4. AnswersOK'
  BY DEF CatalogIInv, AnswersOK, AnswerOK
<1>5. WalkOK'
  BY DEF CatalogIInv, WalkOK, Listed, VisibleReferences, Visible, Tombstoned
<1> QED BY <1>1, <1>2, <1>3, <1>4, <1>5 DEF CatalogIInv

\* A new tombstone: of a file that is visible, so of one that has none yet.
LEMMA TombstoneKeeps ==
    ASSUME CatalogIInv, NEW c \in Deleters, EndDelete(c), NEW k \in DeleteKeys, NEW ref \in FileReferences,
           tombstones[k] = NoOperation, Visible(ref),
           tombstones' = [tombstones EXCEPT ![k] = DeleteOperation(k, ref, entries[ref])],
           DeleteAnswered(k, ref) \/ UNCHANGED fileAnswers,
           walk' = IF walk.at = "walking" THEN [walk EXCEPT !.due = @ \ {ref}] ELSE walk,
           UNCHANGED <<entries, published, assets, keyVersion, up, issuedIds>>
    PROVE  CatalogIInv'
<1>1. PICK op : op = DeleteOperation(k, ref, entries[ref])
  OBVIOUS
<1>2. op.ref = ref /\ op.commitment = DeleteCommitment(k, ref, entries[ref])
  BY <1>1 DEF DeleteOperation
<1>3. /\ tombstones' = [j \in DeleteKeys |-> tombstones'[j]] /\ tombstones'[k] = op
      /\ \A j \in DeleteKeys \ {k} : tombstones'[j] = tombstones[j]
  BY <1>1 DEF CatalogIInv, CatalogTypes
<1>4. entries[ref] # NoFile /\ \A j \in DeleteKeys : tombstones[j].ref # ref
  BY DEF Visible, Tombstoned
<1>5. CatalogTypes'
  BY <1>3 DEF CatalogIInv, CatalogTypes, EndDelete
<1>6. FilesOK' /\ PublishedOK' /\ UploadsOK'
  BY DEF CatalogIInv, FilesOK, PublishedOK, UploadsOK, UploadOK, OwnsReference
<1>7. TombstonesOK'
  BY <1>2, <1>3, <1>4 DEF CatalogIInv, TombstonesOK, DeleteCommitment
<1>8. DeletesOK'
  BY DEF CatalogIInv, CatalogTypes, DeletesOK, EndDelete
<1>9. AnswersOK'
  <2>1. ASSUME NEW a \in fileAnswers PROVE AnswerOK(a)'
    <3>1. tombstones[k].ref \notin FileReferences
      BY CatalogAssumption DEF NoOperation, FileReferences, CatalogAssumption
    <3> QED BY <1>3, <3>1 DEF CatalogIInv, AnswersOK, AnswerOK
  <2>2. ASSUME NEW a, a = [kind |-> "delete", key |-> k, ref |-> ref] PROVE AnswerOK(a)'
    BY <1>2, <1>3, <2>2 DEF AnswerOK
  <2>3. \A a \in fileAnswers' : a \in fileAnswers \/ a = [kind |-> "delete", key |-> k, ref |-> ref]
    BY DEF DeleteAnswered
  <2> QED BY <2>1, <2>2, <2>3 DEF AnswersOK
<1>10. WalkOK'
  <2>1. VisibleReferences \ {ref} \subseteq VisibleReferences'
    <3> SUFFICES ASSUME NEW r \in FileReferences, r # ref, Visible(r) PROVE Visible(r)'
      BY DEF VisibleReferences
    <3> QED BY <1>2, <1>3 DEF Visible, Tombstoned
  <2>2. CASE walk # NoWalk /\ walk.at = "walking"
    <3>1. /\ DOMAIN walk = {"at", "after", "listed", "due"} /\ walk.due \subseteq VisibleReferences
          /\ walk.after \in Nat /\ walk.listed \in Seq(FileReferences) /\ Ascends(walk.listed)
          /\ \A i \in DOMAIN walk.listed : walk.listed[i] <= walk.after
          /\ \A r \in walk.due : r <= walk.after => Listed(r)
      BY <2>2 DEF CatalogIInv, WalkOK
    <3>2. /\ DOMAIN walk' = {"at", "after", "listed", "due"} /\ walk'.at = "walking"
          /\ walk'.after = walk.after /\ walk'.listed = walk.listed /\ walk'.due = walk.due \ {ref}
      BY <2>2, <3>1
    <3> QED BY <2>1, <3>1, <3>2 DEF WalkOK, Listed
  <2>3. CASE walk = NoWalk \/ walk.at # "walking"
    BY <2>3 DEF CatalogIInv, WalkOK, Listed, NoWalk
  <2> QED BY <2>2, <2>3
<1> QED BY <1>5, <1>6, <1>7, <1>8, <1>9, <1>10 DEF CatalogIInv

LEMMA DeleteActions ==
    ASSUME CatalogIInv, NEW c \in Deleters,
           \/ \E k \in DeleteKeys, r \in FileReferences : DeleteReads(c, k, r)
           \/ DeleteCommits(c) \/ DeleteReconciles(c)
    PROVE  CatalogIInv'
<1>1. /\ UNCHANGED <<entries, published, assets, keyVersion, up, issuedIds>>
      /\ del = [d \in Deleters |-> del[d]]
  BY DEF DeleteReads, DeleteCommits, DeleteReconciles, unchangedBeside, CatalogIInv, CatalogTypes
<1>2. ASSUME NEW k \in DeleteKeys, NEW r \in FileReferences, DeleteReads(c, k, r) PROVE CatalogIInv'
  <2>1. PICK x : x = [at |-> IF Visible(r) THEN "delete" ELSE "missing", key |-> k, ref |-> r, expected |-> entries[r]]
    OBVIOUS
  <2>2. x.key = k /\ x.ref = r /\ del' = [del EXCEPT ![c] = x] /\ UNCHANGED <<tombstones, walk, fileAnswers>>
    BY <1>2, <2>1 DEF DeleteReads
  <2> QED BY <1>1, <2>2, DeleteMoves
<1>3. ASSUME del[c] # IdleDelete, EndDelete(c), UNCHANGED <<tombstones, walk>>,
             \A a \in fileAnswers' : a \in fileAnswers \/ AnswerOK(a)
      PROVE  CatalogIInv'
  BY <1>1, <1>3, DeleteMoves DEF EndDelete
<1>4. ASSUME NEW k \in DeleteKeys, NEW ref, NEW file, tombstones[k] # NoOperation,
             tombstones[k].commitment = DeleteCommitment(k, ref, file)
      PROVE  AnswerOK([kind |-> "delete", key |-> k, ref |-> ref])
  <2>1. ref = tombstones[k].ref /\ ref \in FileReferences
    BY <1>4, CommitmentsBind DEF CatalogIInv, TombstonesOK
  <2> QED BY <2>1 DEF AnswerOK
<1>5. CASE DeleteCommits(c)
  <2>1. PICK k, ref : k = del[c].key /\ ref = del[c].ref
    OBVIOUS
  <2>2. EndDelete(c) /\ del[c] # IdleDelete
    BY <1>5 DEF DeleteCommits, IdleDelete
  <2>3. k \in DeleteKeys /\ ref \in FileReferences
    BY <2>1, <2>2 DEF CatalogIInv, DeletesOK
  <2>4. CASE UNCHANGED <<tombstones, fileAnswers, walk>>
    BY <1>3, <2>2, <2>4
  <2>5. CASE /\ tombstones[k] # NoOperation /\ tombstones[k].commitment = DeleteCommitment(k, ref, del[c].expected)
             /\ DeleteAnswered(k, ref) /\ UNCHANGED <<tombstones, walk>>
    <3>1. AnswerOK([kind |-> "delete", key |-> k, ref |-> ref])
      BY <1>4, <2>3, <2>5
    <3> QED BY <1>3, <2>2, <2>5, <3>1 DEF DeleteAnswered
  <2>6. CASE /\ tombstones[k] = NoOperation /\ delete_stands(c)
             /\ tombstones' = [tombstones EXCEPT ![k] = DeleteOperation(k, ref, del[c].expected)]
             /\ DeleteAnswered(k, ref) \/ UNCHANGED fileAnswers
             /\ walk' = IF walk.at = "walking" THEN [walk EXCEPT !.due = @ \ {ref}] ELSE walk
    <3>1. Visible(ref) /\ del[c].expected = entries[ref]
      BY <2>1, <2>6 DEF delete_stands
    <3> QED BY <1>1, <2>2, <2>3, <2>6, <3>1, TombstoneKeeps
  <2> QED BY <1>5, <2>1, <2>4, <2>5, <2>6 DEF DeleteCommits
<1>6. CASE DeleteReconciles(c)
  <2>1. PICK k, ref : k = del[c].key /\ ref = del[c].ref
    OBVIOUS
  <2>2. EndDelete(c) /\ del[c] # IdleDelete /\ UNCHANGED <<tombstones, walk>>
    BY <1>6 DEF DeleteReconciles, IdleDelete
  <2>3. k \in DeleteKeys
    BY <2>1, <2>2 DEF CatalogIInv, DeletesOK
  <2>4. CASE UNCHANGED fileAnswers
    BY <1>3, <2>2, <2>4
  <2>5. CASE /\ tombstones[k] # NoOperation /\ tombstones[k].commitment = DeleteCommitment(k, ref, entries[ref])
             /\ DeleteAnswered(k, ref)
    <3>1. AnswerOK([kind |-> "delete", key |-> k, ref |-> ref])
      BY <1>4, <2>3, <2>5
    <3> QED BY <1>3, <2>2, <2>5, <3>1 DEF DeleteAnswered
  <2> QED BY <1>6, <2>1, <2>4, <2>5 DEF DeleteReconciles
<1> QED BY <1>2, <1>5, <1>6
-----------------------------------------------------------------------------
(* The listing.                                                            *)

\* Only the walk or the commitment key changes.
LEMMA ListingMoves ==
    ASSUME CatalogIInv, WalkOK', keyVersion' \in {keyVersion, keyVersion + 1},
           UNCHANGED <<entries, published, tombstones, assets, up, del, issuedIds, fileAnswers>>
    PROVE  CatalogIInv'
<1>1. CatalogTypes' /\ FilesOK' /\ TombstonesOK'
  BY DEF CatalogIInv, CatalogTypes, FilesOK, TombstonesOK
<1>2. PublishedOK'
  <2>1. keyVersion \in Nat /\ keyVersion' \in Nat /\ keyVersion <= keyVersion'
    BY DEF CatalogIInv, CatalogTypes
  <2>2. \A v : v \in 1..keyVersion => v \in 1..keyVersion'
    BY <2>1
  <2> QED BY <2>2 DEF CatalogIInv, PublishedOK
<1>3. UploadsOK' /\ DeletesOK' /\ AnswersOK'
  BY DEF CatalogIInv, UploadsOK, UploadOK, OwnsReference, DeletesOK, AnswersOK, AnswerOK
<1> QED BY <1>1, <1>2, <1>3 DEF CatalogIInv

\* The rows after the cursor: all of them, up to a page and one more.
After(c) == {r \in VisibleReferences : r > c}

RowsFrom(c, all, rows) ==
    /\ all \in Seq(FileReferences) /\ Len(all) \in Nat /\ Ascends(all)
    /\ \A i \in 1..Len(all) : all[i] \in Nat /\ all[i] > c
    /\ \A r \in VisibleReferences : r > c => \E i \in 1..Len(all) : all[i] = r
    /\ rows \in Seq(FileReferences) /\ Len(rows) \in Nat
    /\ Len(all) > PageLimit => Len(rows) = PageLimit + 1
    /\ ~(Len(all) > PageLimit) => Len(rows) = Len(all)
    /\ \A i \in 1..Len(rows) : rows[i] = all[i]

LEMMA RowsAre ==
    ASSUME NEW c \in Nat
    PROVE  RowsFrom(c, Sorted(After(c)), list_visible_entries(c))
<1> DEFINE all == Sorted(After(c))
           rows == list_visible_entries(c)
<1> HIDE DEF all, rows
<1>1. PageLimit \in Nat \ {0} /\ MaxReferences \in Nat
  BY CatalogAssumption DEF CatalogAssumption
<1>2. After(c) \subseteq FileReferences /\ FileReferences \subseteq Nat /\ IsFiniteSet(FileReferences)
  BY <1>1, FS_Interval DEF After, VisibleReferences, FileReferences
<1>3. IsFiniteSet(After(c)) /\ After(c) \subseteq Nat
  BY <1>2, FS_Subset
<1>4. /\ all \in Seq(After(c)) /\ Len(all) \in Nat /\ Ascends(all)
      /\ \A r \in After(c) : \E i \in 1..Len(all) : all[i] = r
  BY <1>3, SortedIs DEF all
<1>5. all \in Seq(FileReferences) /\ \A i \in 1..Len(all) : all[i] \in After(c)
  BY <1>2, <1>4
<1>6. PICK m : m = Min({Len(all), PageLimit + 1})
  OBVIOUS
<1>7. m = IF Len(all) > PageLimit THEN PageLimit + 1 ELSE Len(all)
  BY <1>1, <1>4, <1>6 DEF Min
<1>8. rows = SubSeq(all, 1, m)
  BY <1>6 DEF list_visible_entries, After, all, rows
<1>9. m \in Nat /\ m <= Len(all)
  BY <1>1, <1>4, <1>7
<1>10. rows \in Seq(FileReferences) /\ Len(rows) = m /\ \A i \in 1..m : rows[i] = all[i]
  BY <1>4, <1>5, <1>8, <1>9
<1>11. \A i \in 1..Len(all) : all[i] \in Nat /\ all[i] > c
  BY <1>2, <1>5 DEF After
<1>12. \A r \in VisibleReferences : r > c => \E i \in 1..Len(all) : all[i] = r
  BY <1>4 DEF After
<1>13. RowsFrom(c, all, rows)
  BY <1>4, <1>5, <1>7, <1>9, <1>10, <1>11, <1>12 DEF RowsFrom
<1> QED BY <1>13 DEF all, rows

LEMMA ReferencesAreNumbers == FileReferences \subseteq Nat
BY CatalogAssumption DEF CatalogAssumption, FileReferences

LEMMA RowIsANumber ==
    ASSUME NEW s \in Seq(FileReferences), NEW i \in DOMAIN s
    PROVE  s[i] \in Nat
<1>1. s[i] \in FileReferences
  OBVIOUS
<1> QED BY <1>1, ReferencesAreNumbers

\* Two ascending lists, all of the second after a cursor that all of the first are
\* up to, make one.
LEMMA JoinAscends ==
    ASSUME NEW s \in Seq(FileReferences), NEW p \in Seq(FileReferences), Ascends(s), Ascends(p), NEW c \in Nat,
           \A i \in DOMAIN s : s[i] <= c, \A i \in DOMAIN p : p[i] > c
    PROVE  /\ s \o p \in Seq(FileReferences) /\ Ascends(s \o p)
           /\ \A i \in DOMAIN s : \E j \in DOMAIN (s \o p) : (s \o p)[j] = s[i]
           /\ \A i \in DOMAIN p : \E j \in DOMAIN (s \o p) : (s \o p)[j] = p[i]
           /\ \A j \in DOMAIN (s \o p) :
                \/ \E i \in DOMAIN s : (s \o p)[j] = s[i]
                \/ \E i \in DOMAIN p : (s \o p)[j] = p[i]
<1> DEFINE m == Len(s)
           n == Len(p)
           l == s \o p
<1>1. /\ m \in Nat /\ n \in Nat /\ DOMAIN s = 1..m /\ DOMAIN p = 1..n
      /\ l \in Seq(FileReferences) /\ Len(l) = m + n /\ DOMAIN l = 1..(m + n)
      /\ \A j \in 1..m : l[j] = s[j]
      /\ \A j \in (m + 1)..(m + n) : l[j] = p[j - m]
  OBVIOUS
<1>2. \A i \in 1..m : s[i] \in Nat
  BY <1>1, RowIsANumber
<1>3. \A i \in 1..n : p[i] \in Nat
  BY <1>1, RowIsANumber
<1>4. \A i \in 1..n : i + m \in (m + 1)..(m + n) /\ l[i + m] = p[i] /\ i + m \in DOMAIN l
  BY <1>1
<1>5. \A j \in DOMAIN l : \/ j \in 1..m /\ l[j] = s[j]
                          \/ j > m /\ j - m \in 1..n /\ l[j] = p[j - m]
  BY <1>1
<1>6. \A i \in 1..m : i \in DOMAIN l
  BY <1>1
<1> HIDE DEF m, n, l
<1>7. Ascends(l)
  <2> SUFFICES ASSUME NEW i \in DOMAIN l, NEW j \in DOMAIN l, i < j PROVE l[i] < l[j]
    BY DEF Ascends
  <2>0. i \in Nat /\ j \in Nat
    BY <1>1
  <2>1. CASE i \in 1..m /\ j \in 1..m
    BY <1>1, <2>1 DEF Ascends
  <2>2. CASE i \in 1..m /\ j > m
    <3>1. j - m \in 1..n /\ l[j] = p[j - m] /\ l[i] = s[i]
      BY <1>1, <1>5, <2>0, <2>2
    <3> QED BY <1>1, <1>2, <1>3, <2>2, <3>1
  <2>3. CASE i > m /\ j > m
    <3>1. j - m \in 1..n /\ l[j] = p[j - m] /\ i - m \in 1..n /\ l[i] = p[i - m] /\ i - m < j - m
      BY <1>1, <1>5, <2>0, <2>3
    <3> QED BY <1>1, <3>1 DEF Ascends
  <2> QED BY <1>1, <1>5, <2>0, <2>1, <2>2, <2>3
<1>8. \A i \in DOMAIN s : \E j \in DOMAIN l : l[j] = s[i]
  BY <1>1, <1>6
<1>9. \A i \in DOMAIN p : \E j \in DOMAIN l : l[j] = p[i]
  BY <1>1, <1>4
<1>10. \A j \in DOMAIN l : (\E i \in DOMAIN s : l[j] = s[i]) \/ (\E i \in DOMAIN p : l[j] = p[i])
  BY <1>1, <1>5
<1> QED BY <1>1, <1>7, <1>8, <1>9, <1>10 DEF l

LEMMA PageKeeps ==
    ASSUME CatalogIInv, ListPage
    PROVE  CatalogIInv'
<1>1. PICK rows : rows = list_visible_entries(walk.after)
  OBVIOUS
<1>2. PICK page, after, at :
        /\ page = IF Len(rows) > PageLimit THEN SubSeq(rows, 1, PageLimit) ELSE rows
        /\ after = IF Len(rows) > PageLimit THEN next_list_cursor(rows) ELSE walk.after
        /\ at = IF Len(rows) > PageLimit THEN "walking" ELSE "done"
  OBVIOUS
<1>3. /\ walk.at = "walking" /\ walk # NoWalk
      /\ walk' = [walk EXCEPT !.listed = walk.listed \o page, !.after = after, !.at = at]
      /\ UNCHANGED <<entries, published, tombstones, assets, keyVersion, up, del, issuedIds, fileAnswers>>
  BY <1>1, <1>2 DEF ListPage, unchangedRows, NoWalk
<1>4. /\ DOMAIN walk = {"at", "after", "listed", "due"} /\ walk.due \subseteq VisibleReferences
      /\ walk.after \in Nat /\ walk.listed \in Seq(FileReferences) /\ Ascends(walk.listed)
      /\ \A i \in DOMAIN walk.listed : walk.listed[i] <= walk.after
      /\ \A r \in walk.due : r <= walk.after => Listed(r)
  BY <1>3 DEF CatalogIInv, WalkOK
<1>5. /\ DOMAIN walk' = {"at", "after", "listed", "due"} /\ walk'.at = at /\ walk'.after = after
      /\ walk'.listed = walk.listed \o page /\ walk'.due = walk.due
  BY <1>3, <1>4
<1>6. PICK all : all = Sorted(After(walk.after))
  OBVIOUS
<1>7. /\ all \in Seq(FileReferences) /\ Len(all) \in Nat /\ Ascends(all)
      /\ \A i \in 1..Len(all) : all[i] \in Nat /\ all[i] > walk.after
      /\ \A r \in VisibleReferences : r > walk.after => \E i \in 1..Len(all) : all[i] = r
      /\ rows \in Seq(FileReferences) /\ Len(rows) \in Nat
      /\ Len(all) > PageLimit => Len(rows) = PageLimit + 1
      /\ ~(Len(all) > PageLimit) => Len(rows) = Len(all)
      /\ \A i \in 1..Len(rows) : rows[i] = all[i]
  <2>1. RowsFrom(walk.after, all, rows)
    BY <1>1, <1>4, <1>6, RowsAre, Zenon
  <2> QED BY <2>1 DEF RowsFrom
<1>8. PageLimit \in Nat \ {0}
  BY CatalogAssumption DEF CatalogAssumption
<1>9. PICK m \in Nat : /\ page \in Seq(FileReferences) /\ DOMAIN page = 1..m /\ m <= Len(all)
                       /\ \A i \in 1..m : page[i] = all[i]
                       /\ \/ at = "done" /\ m = Len(all) /\ after = walk.after
                          \/ at = "walking" /\ m # 0 /\ after = all[m]
  <2>1. CASE Len(rows) > PageLimit
    <3>1. page = SubSeq(rows, 1, PageLimit) /\ after = rows[PageLimit] /\ at = "walking"
      BY <1>2, <2>1 DEF next_list_cursor
    <3>2. page \in Seq(FileReferences) /\ Len(page) = PageLimit /\ \A i \in 1..PageLimit : page[i] = rows[i]
      BY <1>7, <1>8, <2>1, <3>1
    <3>3. /\ page \in Seq(FileReferences) /\ DOMAIN page = 1..PageLimit /\ PageLimit <= Len(all)
          /\ \A i \in 1..PageLimit : page[i] = all[i]
          /\ PageLimit # 0 /\ after = all[PageLimit]
      BY <1>7, <1>8, <2>1, <3>1, <3>2
    <3> QED BY <1>8, <3>1, <3>3
  <2>2. CASE ~(Len(rows) > PageLimit)
    <3>1. page = rows /\ after = walk.after /\ at = "done" /\ Len(rows) = Len(all)
      BY <1>2, <1>7, <1>8, <2>2
    <3>2. DOMAIN page = 1..Len(all) /\ page \in Seq(FileReferences) /\ \A i \in 1..Len(all) : page[i] = all[i]
      BY <1>7, <3>1
    <3>3. Len(all) \in Nat /\ Len(all) <= Len(all)
      BY <1>7
    <3> WITNESS Len(all) \in Nat
    <3> QED BY <3>1, <3>2, <3>3
  <2> QED BY <2>1, <2>2
<1>10. Ascends(page) /\ \A i \in DOMAIN page : page[i] > walk.after
  <2>1. DOMAIN all = 1..Len(all) /\ 1..m \subseteq 1..Len(all)
    BY <1>7, <1>9
  <2> QED BY <1>7, <1>9, <2>1 DEF Ascends
<1>11. PICK l : l = walk.listed \o page
  OBVIOUS
<1>12. /\ l \in Seq(FileReferences) /\ Ascends(l)
       /\ \A i \in DOMAIN walk.listed : \E j \in DOMAIN l : l[j] = walk.listed[i]
       /\ \A i \in DOMAIN page : \E j \in DOMAIN l : l[j] = page[i]
       /\ \A j \in DOMAIN l : \/ \E i \in DOMAIN walk.listed : l[j] = walk.listed[i]
                              \/ \E i \in DOMAIN page : l[j] = page[i]
  <2>1. PICK s, c : s = walk.listed /\ c = walk.after
    OBVIOUS
  <2>2. /\ s \in Seq(FileReferences) /\ page \in Seq(FileReferences) /\ Ascends(s) /\ Ascends(page) /\ c \in Nat
        /\ (\A i \in DOMAIN s : s[i] <= c) /\ (\A i \in DOMAIN page : page[i] > c)
    BY <1>4, <1>9, <1>10, <2>1
  <2>3. /\ s \o page \in Seq(FileReferences) /\ Ascends(s \o page)
        /\ \A i \in DOMAIN s : \E j \in DOMAIN (s \o page) : (s \o page)[j] = s[i]
        /\ \A i \in DOMAIN page : \E j \in DOMAIN (s \o page) : (s \o page)[j] = page[i]
        /\ \A j \in DOMAIN (s \o page) :
             \/ \E i \in DOMAIN s : (s \o page)[j] = s[i]
             \/ \E i \in DOMAIN page : (s \o page)[j] = page[i]
    BY <2>2, JoinAscends, Zenon
  <2>4. l = s \o page
    BY <1>11, <2>1
  <2> HIDE DEF Ascends
  <2> QED BY <2>1, <2>3, <2>4, Zenon
<1>13. \A r \in walk.due : r \in Nat
  BY <1>4 DEF VisibleReferences, FileReferences
<1>14. ASSUME NEW r \in walk.due, r <= walk.after \/ \E i \in 1..m : all[i] = r
       PROVE  \E j \in DOMAIN l : l[j] = r
  <2>1. CASE r <= walk.after
    <3>1. PICK i \in DOMAIN walk.listed : walk.listed[i] = r
      BY <1>4, <2>1 DEF Listed
    <3> QED BY <1>12, <3>1
  <2>2. CASE \E i \in 1..m : all[i] = r
    <3>1. PICK i \in DOMAIN page : page[i] = r
      BY <1>9, <2>2
    <3> QED BY <1>12, <3>1
  <2> QED BY <1>14, <2>1, <2>2
<1>15. ASSUME NEW r \in walk.due, at = "done" \/ r <= after
       PROVE  r <= walk.after \/ \E i \in 1..m : all[i] = r
  <2>1. CASE r <= walk.after
    BY <2>1
  <2>2. CASE r > walk.after
    <3>1. PICK i \in 1..Len(all) : all[i] = r
      BY <1>4, <1>7, <2>2
    <3>2. i <= m
      <4>1. CASE at = "done"
        BY <1>9, <4>1
      <4>2. CASE at # "done"
        <5>1. at = "walking" /\ m \in 1..Len(all) /\ after = all[m] /\ r <= all[m]
          BY <1>9, <1>15, <4>2
        <5>2. ~(m < i)
          <6>1. m < i => all[m] < all[i]
            BY <1>7, <5>1 DEF Ascends
          <6> QED BY <1>7, <3>1, <5>1, <6>1
        <5> QED BY <3>1, <5>1, <5>2
      <4> QED BY <4>1, <4>2
    <3> QED BY <1>9, <3>1, <3>2
  <2> QED BY <1>4, <1>13, <2>1, <2>2
<1>16. at = "walking" => /\ after \in Nat /\ walk.after <= after
                         /\ \A i \in DOMAIN page : page[i] <= after
  <2> SUFFICES ASSUME at = "walking"
               PROVE  after \in Nat /\ walk.after <= after /\ \A i \in DOMAIN page : page[i] <= after
    OBVIOUS
  <2>1. m \in 1..Len(all) /\ after = all[m]
    BY <1>9
  <2>2. after \in Nat /\ after > walk.after
    BY <1>7, <2>1
  <2>3. ASSUME NEW i \in 1..m PROVE all[i] <= after
    <3>1. i \in 1..Len(all) /\ all[i] \in Nat
      BY <1>7, <2>1
    <3>2. i < m => all[i] < all[m]
      BY <1>7, <2>1, <3>1 DEF Ascends
    <3> QED BY <1>7, <2>1, <3>1, <3>2
  <2> QED BY <1>4, <1>9, <2>2, <2>3
<1>17. at \in {"walking", "done"} /\ after \in Nat
  BY <1>4, <1>9, <1>16
<1>18. at = "walking" => \A j \in DOMAIN l : l[j] <= after
  <2> SUFFICES ASSUME at = "walking", NEW j \in DOMAIN l PROVE l[j] <= after
    OBVIOUS
  <2>1. l[j] \in Nat
    BY <1>12, RowIsANumber
  <2>2. l[j] <= walk.after \/ l[j] <= after
    BY <1>4, <1>12, <1>16
  <2> QED BY <1>4, <1>16, <2>1, <2>2
<1>19. WalkOK'
  <2>1. VisibleReferences' = VisibleReferences
    BY <1>3 DEF VisibleReferences, Visible, Tombstoned
  <2>2. \A r \in walk.due : at = "done" \/ r <= after => \E j \in DOMAIN l : l[j] = r
    BY <1>14, <1>15
  <2>3. walk'.listed = l /\ walk'.due \subseteq VisibleReferences'
    BY <1>4, <1>5, <1>11, <2>1
  <2>4. /\ at = "walking" => \A r \in walk'.due : r <= after => Listed(r)'
        /\ at = "done" => \A r \in walk'.due : Listed(r)'
    BY <1>5, <2>2, <2>3 DEF Listed
  <2> QED BY <1>5, <1>12, <1>17, <1>18, <2>3, <2>4 DEF WalkOK
<1> QED BY <1>3, <1>19, ListingMoves

LEMMA ListingActions ==
    ASSUME CatalogIInv, RotateCommitmentKey \/ ListBegins \/ ListPage
    PROVE  CatalogIInv'
<1>1. CASE RotateCommitmentKey
  <2>1. /\ keyVersion' = keyVersion + 1
        /\ UNCHANGED <<entries, published, tombstones, assets, up, del, issuedIds, fileAnswers, walk>>
    BY <1>1 DEF RotateCommitmentKey, unchangedRows
  <2>2. WalkOK'
    BY <2>1 DEF CatalogIInv, WalkOK, Listed, VisibleReferences, Visible, Tombstoned
  <2> QED BY <2>1, <2>2, ListingMoves
<1>2. CASE ListBegins
  <2>1. /\ walk' = [at |-> "walking", after |-> 0, listed |-> <<>>, due |-> VisibleReferences]
        /\ UNCHANGED <<entries, published, tombstones, assets, keyVersion, up, del, issuedIds, fileAnswers>>
    BY <1>2 DEF ListBegins, unchangedRows
  <2>2. <<>> \in Seq(FileReferences) /\ DOMAIN <<>> = {} /\ Ascends(<<>>)
    BY DEF Ascends
  <2>3. VisibleReferences' = VisibleReferences /\ \A r \in VisibleReferences : r \in Nat /\ ~(r <= 0)
    BY <2>1 DEF VisibleReferences, Visible, Tombstoned, FileReferences
  <2>4. WalkOK'
    BY <2>1, <2>2, <2>3 DEF WalkOK, Listed
  <2> QED BY <2>1, <2>4, ListingMoves
<1>3. CASE ListPage
  BY <1>3, PageKeeps
<1> QED BY <1>1, <1>2, <1>3

LEMMA CatalogInvariant == CatalogSpec => []CatalogIInv
<1>1. CatalogIInv /\ [CatalogNext]_catalogVars => CatalogIInv'
  <2> SUFFICES ASSUME CatalogIInv, [CatalogNext]_catalogVars PROVE CatalogIInv'
    OBVIOUS
  <2>1. CASE UNCHANGED catalogVars
    <3>1. /\ keyVersion' = keyVersion
          /\ UNCHANGED <<entries, published, tombstones, assets, up, del, issuedIds, fileAnswers, walk>>
      BY <2>1 DEF catalogVars
    <3>2. WalkOK'
      BY <3>1 DEF CatalogIInv, WalkOK, Listed, VisibleReferences, Visible, Tombstoned
    <3> QED BY <3>1, <3>2, ListingMoves
  <2>2. CASE CatalogNext
    BY <2>2, UploadActions, PublishKeeps, ReconcileKeeps, DeleteActions, ListingActions DEF CatalogNext
  <2> QED BY <2>1, <2>2
<1> QED BY <1>1, CatalogStarts, PTL DEF CatalogSpec

\* For any requests, keys, contents, uploads and deletions at once, and pages of any
\* size: every success that was answered is on record as it was answered, what the
\* catalogue shows can be served and is deleted at most once, and a walk through the
\* pages lists all that was there throughout, in order, none twice.
THEOREM CatalogTellsTheTruth == CatalogSpec => []CatalogIsTrue
<1>1. ASSUME CatalogIInv PROVE FileAnswersAgree
  <2>1. \A a \in fileAnswers : AnswerOK(a)
    BY <1>1 DEF CatalogIInv, AnswersOK
  <2> QED BY <2>1 DEF FileAnswersAgree, AnswerOK
<1>2. ASSUME CatalogIInv PROVE CatalogIsServable
  <2>1. ASSUME NEW r \in FileReferences PROVE Cardinality({k \in DeleteKeys : tombstones[k].ref = r}) <= 1
    <3>1. \A j, k \in {k \in DeleteKeys : tombstones[k].ref = r} : j = k
      BY <1>2 DEF CatalogIInv, TombstonesOK, NoOperation, FileReferences
    <3>2. CASE {k \in DeleteKeys : tombstones[k].ref = r} = {}
      <4>1. Cardinality({k \in DeleteKeys : tombstones[k].ref = r}) = 0
        BY <3>2, FS_EmptySet, Zenon
      <4> QED BY <4>1
    <3>3. CASE {k \in DeleteKeys : tombstones[k].ref = r} # {}
      <4>1. PICK k : {j \in DeleteKeys : tombstones[j].ref = r} = {k}
        BY <3>1, <3>3
      <4>2. Cardinality({k}) = 1
        BY FS_Singleton
      <4> QED BY <4>1, <4>2
    <3> QED BY <3>2, <3>3
  <2>2. \A r \in FileReferences : entries[r] # NoFile => assets[entries[r].digest] = entries[r].media
    BY <1>2 DEF CatalogIInv, FilesOK
  <2>3. \A k \in FileKeys : published[k] # NoOperation =>
          entries[published[k].ref] # NoFile /\ KeyKnown(published[k])
    BY <1>2 DEF CatalogIInv, PublishedOK, KeyKnown
  <2> QED BY <2>1, <2>2, <2>3 DEF CatalogIsServable
<1>3. ASSUME CatalogIInv PROVE ListingIsComplete
  <2> SUFFICES ASSUME walk.at = "done"
               PROVE  /\ walk.due \subseteq Range(walk.listed)
                      /\ \A i \in 1..Len(walk.listed) - 1 : walk.listed[i] < walk.listed[i + 1]
    BY DEF ListingIsComplete
  <2>1. /\ walk.listed \in Seq(FileReferences) /\ Ascends(walk.listed)
        /\ \A r \in walk.due : Listed(r)
    BY <1>3 DEF CatalogIInv, WalkOK, NoWalk
  <2>2. \A i \in 1..Len(walk.listed) - 1 : i \in DOMAIN walk.listed /\ i + 1 \in DOMAIN walk.listed /\ i < i + 1
    BY <2>1
  <2> QED BY <2>1, <2>2 DEF Ascends, Listed, Range
<1> QED BY <1>1, <1>2, <1>3, CatalogInvariant, PTL DEF CatalogIsTrue
=============================================================================
