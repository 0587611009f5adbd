----------------------------- MODULE VaultStore -----------------------------
(***************************************************************************)
(* The credential vault of storage-rnmdb and its rotation journal.         *)
(*                                                                         *)
(* The vault keeps one row per secret reference, sealed under a key of its *)
(* own; a row is stored once, revoked once and never stored again.  The    *)
(* journal keeps one row per rotation of a reference to its next version   *)
(* and one record per committed mutation; nothing of a rotation is held in *)
(* memory: every call rebuilds the journal from its row by running the     *)
(* domain's transitions over the receipts the row holds, and a repeated    *)
(* mutation is answered from its record only if that record fits the       *)
(* rebuilt journal.                                                        *)
(*                                                                         *)
(* Every operation is one transaction of the storage session, so a call is *)
(* one step, and a call that is refused changes nothing.  Identifiers are  *)
(* positions in the journal and in the two logs: a request with a new      *)
(* identifier takes the next one, one with an old one is a repetition.     *)
(* Time is in half seconds, the largest unit that tells a window from the  *)
(* whole seconds its column holds; the wall clock may step back.           *)
(***************************************************************************)
EXTENDS Integers, Sequences, FiniteSets, Functions

CONSTANTS
    References,      \* secret references: [locator |-> _, version |-> _]
    Windows,         \* the overlaps plans ask for, in half seconds
    MaxVaultTime, MaxSetbacks, MaxVaultLog, MaxRotations, MaxRotationLog

ASSUME VaultAssumption ==
    /\ \A r \in References : r.version \in Nat \ {0}
    /\ Windows \subseteq Nat \ {0}
    /\ {MaxVaultTime, MaxSetbacks, MaxVaultLog, MaxRotations, MaxRotationLog} \subseteq Nat

VARIABLES
    vaultClock,      \* SystemTime::now
    setbacks,        \* how often the wall clock has been set back
    secrets,         \* account_vault_secrets: reference -> row
    vaultLog,        \* account_vault_mutations, by request identifier
    journals,        \* account_vault_rotation_journals, by rotation identifier
    rotationLog      \* account_vault_rotation_mutations, by mutation identifier

vaultVars == <<vaultClock, setbacks, secrets, vaultLog, journals, rotationLog>>

NoTime == -1     \* SQL NULL in a time column

PerSecond == 2   \* half seconds in a second

-----------------------------------------------------------------------------
\* The vault.

\* sql::now: what a receipt and a row are stamped with.
now == vaultClock

\* A row decodes when its state and its times agree; the codec refuses a secret
\* that was revoked before it was created.
decode_lifecycle(row) ==
    \/ row.state = "active" /\ row.revoked = NoTime
    \/ row.state = "revoked" /\ row.created <= row.revoked

load_secret(r) == IF r \in DOMAIN secrets /\ decode_lifecycle(secrets[r]) THEN {secrets[r]} ELSE {}

require_new_secret(r) == r \notin DOMAIN secrets

require_active_secret(r) == \E row \in load_secret(r) : row.state = "active"

insert_mutation(kind, r) ==
    /\ Len(vaultLog) < MaxVaultLog
    /\ vaultLog' = Append(vaultLog, [kind |-> kind, reference |-> r, committed_at |-> now])

insert_secret(r) ==
    secrets' = [x \in DOMAIN secrets \cup {r} |->
                  IF x = r THEN [state |-> "active", created |-> now, revoked |-> NoTime]
                  ELSE secrets[x]]

store(r) ==
    /\ require_new_secret(r)
    /\ insert_secret(r)
    /\ insert_mutation("store", r)
    /\ UNCHANGED <<vaultClock, setbacks, journals, rotationLog>>

persist_revoke(r) ==
    secrets' = [secrets EXCEPT ![r] = [@ EXCEPT !.state = "revoked", !.revoked = now]]

revoke(r) ==
    /\ require_active_secret(r)
    /\ persist_revoke(r)
    /\ insert_mutation("revoke", r)
    /\ UNCHANGED <<vaultClock, setbacks, journals, rotationLog>>

\* The receipts the vault has given out: by its answers, or by reconcile when an
\* answer was lost.
Receipts(kind) == {e \in Range(vaultLog) : e.kind = kind}

-----------------------------------------------------------------------------
\* The rotation journal of account-vault.  A transition is the set of journals it
\* may lead to: empty when it is refused.

new_journal(previous, next, overlap) ==
    [previous |-> previous, next |-> next, overlap |-> overlap, phase |-> "Prepared",
     stored |-> NoTime, activated |-> NoTime, ends |-> NoTime,
     previous_revoked |-> NoTime, compensated |-> NoTime]

record_new_version(j, receipt, at) ==
    IF j.phase = "Prepared" /\ receipt.reference = j.next /\ receipt.committed_at <= at
    THEN {[j EXCEPT !.stored = receipt.committed_at, !.phase = "NewVersionStored"]} ELSE {}

activate(j, activated_at) ==
    IF j.phase = "NewVersionStored" /\ activated_at >= j.stored
    THEN {[j EXCEPT !.activated = activated_at, !.ends = activated_at + j.overlap,
                    !.phase = "Active"]} ELSE {}

\* Mutant: a receipt of any time is accepted once the overlap is over.
RevokedAnyTime(j, receipt, at) ==
    at >= j.ends /\ receipt.reference = j.previous /\ receipt.committed_at <= at

validate_previous_revoke(j, receipt, at) ==
    /\ at >= j.ends /\ receipt.reference = j.previous
    /\ receipt.committed_at >= j.ends /\ receipt.committed_at <= at

revoke_previous(j, receipt, at) ==
    IF j.phase = "Active" /\ validate_previous_revoke(j, receipt, at)
    THEN {[j EXCEPT !.previous_revoked = receipt.committed_at, !.phase = "Completed"]} ELSE {}

begin_compensation(j) ==
    IF j.phase \in {"NewVersionStored", "Active"}
    THEN {[j EXCEPT !.phase = "Compensating"]} ELSE {}

record_compensation(j, receipt, at) ==
    IF j.phase = "Compensating" /\ receipt.reference = j.next /\ receipt.committed_at <= at
    THEN {[j EXCEPT !.compensated = receipt.committed_at, !.phase = "Failed"]} ELSE {}

-----------------------------------------------------------------------------
\* Rebuilding a journal from its row.

Receipt(reference, at) == [reference |-> reference, committed_at |-> at]

\* The column holds whole seconds, and RotationWindow::new refuses zero.
decode_overlap(row) == IF row.overlap_seconds > 0 THEN {row.overlap_seconds * PerSecond} ELSE {}

reconstruct_stored(j, row) ==
    IF row.stored = NoTime THEN {j}
    ELSE record_new_version(j, Receipt(j.next, row.stored), row.updated)

reconstruct_activation(j, row) ==
    IF row.activated = NoTime /\ row.ends = NoTime THEN {j}
    ELSE IF row.activated # NoTime /\ row.ends # NoTime /\ row.activated <= row.updated
    THEN {k \in activate(j, row.activated) : k.ends = row.ends} ELSE {}

reconstruct_terminal(j, row) ==
    CASE row.phase \in {"Prepared", "NewVersionStored", "Active"} ->
           {k \in {j} : row.previous_revoked = NoTime /\ row.compensated = NoTime}
      [] row.phase = "Completed" ->
           {k \in revoke_previous(j, Receipt(j.previous, row.previous_revoked), row.updated) :
              row.previous_revoked # NoTime /\ row.compensated = NoTime}
      [] row.phase = "Compensating" ->
           {k \in begin_compensation(j) : row.previous_revoked = NoTime /\ row.compensated = NoTime}
      [] row.phase = "Failed" ->
           {k \in UNION {record_compensation(c, Receipt(c.next, row.compensated), row.updated) :
                           c \in begin_compensation(j)} :
              row.previous_revoked = NoTime /\ row.compensated # NoTime}

\* The phase a rotation has at each revision, by the phase and revision it is at.
history(phase, revision) ==
    LET stored == <<"Prepared", "NewVersionStored">>
        active == Append(stored, "Active")
    IN CASE phase = "Prepared" -> <<"Prepared">>
         [] phase = "NewVersionStored" -> stored
         [] phase = "Active" -> active
         [] phase = "Completed" -> Append(active, "Completed")
         [] phase = "Compensating" -> Append(IF revision = 3 THEN stored ELSE active, "Compensating")
         [] phase = "Failed" -> (IF revision = 4 THEN stored ELSE active) \o <<"Compensating", "Failed">>

validate_phase_revision(phase, revision) ==
    revision \in CASE phase = "Prepared" -> {1}
                   [] phase = "NewVersionStored" -> {2}
                   [] phase = "Active" -> {3}
                   [] phase = "Completed" -> {4}
                   [] phase = "Compensating" -> {3, 4}
                   [] phase = "Failed" -> {4, 5}

reconstruct_journal(row) ==
    LET planned == {new_journal(row.previous, row.next, o) : o \in decode_overlap(row)}
        stored == UNION {reconstruct_stored(j, row) : j \in planned}
        activated == UNION {reconstruct_activation(j, row) : j \in stored}
    IN {j \in UNION {reconstruct_terminal(k, row) : k \in activated} : j.phase = row.phase}

\* load_journal of a row: the journal it rebuilds to, or none when it is refused.
decode_journal(row) ==
    {j \in reconstruct_journal(row) : validate_phase_revision(row.phase, row.revision)}

-----------------------------------------------------------------------------
\* Mutations.

\* What is written of a journal: insert_journal and update_journal.
JournalRow(j, overlap_seconds, revision) ==
    [previous |-> j.previous, next |-> j.next, overlap_seconds |-> overlap_seconds,
     phase |-> j.phase, revision |-> revision, stored |-> j.stored, activated |-> j.activated,
     ends |-> j.ends, previous_revoked |-> j.previous_revoked, compensated |-> j.compensated,
     updated |-> now]

insert_rotation_mutation(id, transition, prior, phase) ==
    /\ Len(rotationLog) < MaxRotationLog
    /\ rotationLog' = Append(rotationLog, [rotation |-> id, transition |-> transition,
                                           prior |-> prior, revision |-> prior + 1,
                                           phase |-> phase, committed_at |-> now])

\* CredentialRotationPlan::new.
valid_plan(previous, next) ==
    previous.locator = next.locator /\ next.version > previous.version

Unfinished(row) == row.phase \notin {"Completed", "Failed"}

require_no_overlap(previous, next) ==
    \A id \in DOMAIN journals :
        Unfinished(journals[id]) => {journals[id].previous, journals[id].next} \cap {previous, next} = {}

prepare(previous, next, overlap) ==
    /\ valid_plan(previous, next)
    /\ Len(journals) < MaxRotations
    /\ require_no_overlap(previous, next)
    /\ journals' = Append(journals, JournalRow(new_journal(previous, next, overlap),
                                               overlap \div PerSecond, 1))
    /\ insert_rotation_mutation(Len(journals) + 1, "prepare", 0, "Prepared")
    /\ UNCHANGED <<vaultClock, setbacks, secrets, vaultLog>>

\* Mutant: a mutation may be stamped before the one it follows.
AnyTime(row) == TRUE

require_non_regressing_time(row) == now >= row.updated

\* Each transition with the receipts and times it may be sent with.
apply_transition(j, transition) ==
    CASE transition = "record-new-version" ->
           UNION {record_new_version(j, r, now) : r \in Receipts("store")}
      [] transition = "activate" -> UNION {activate(j, at) : at \in 0..now}
      [] transition = "complete" -> UNION {revoke_previous(j, r, now) : r \in Receipts("revoke")}
      [] transition = "begin-compensation" -> begin_compensation(j)
      [] transition = "record-compensation" ->
           UNION {record_compensation(j, r, now) : r \in Receipts("revoke")}

RotationTransitions == {"record-new-version", "activate", "complete", "begin-compensation",
                "record-compensation"}

\* A request that names another revision than the row's is refused.
advance(id, transition) ==
    /\ require_non_regressing_time(journals[id])
    /\ \E j \in decode_journal(journals[id]) : \E k \in apply_transition(j, transition) :
         /\ journals' = [journals EXCEPT ![id] = JournalRow(k, @.overlap_seconds, @.revision + 1)]
         /\ insert_rotation_mutation(id, transition, journals[id].revision, k.phase)
    /\ UNCHANGED <<vaultClock, setbacks, secrets, vaultLog>>

-----------------------------------------------------------------------------
\* The wall clock runs, and may be set back.
VaultClockMoves ==
    /\ \/ vaultClock < MaxVaultTime /\ vaultClock' = vaultClock + 1 /\ UNCHANGED setbacks
       \/ setbacks < MaxSetbacks /\ vaultClock > 0
          /\ setbacks' = setbacks + 1 /\ vaultClock' = vaultClock - 1
    /\ UNCHANGED <<secrets, vaultLog, journals, rotationLog>>

VaultInit ==
    /\ vaultClock = 0 /\ setbacks = 0
    /\ secrets = << >> /\ vaultLog = << >> /\ journals = << >> /\ rotationLog = << >>

VaultNext ==
    \/ \E r \in References : store(r) \/ revoke(r)
    \/ \E previous, next \in References, overlap \in Windows : prepare(previous, next, overlap)
    \/ \E id \in DOMAIN journals, transition \in RotationTransitions : advance(id, transition)
    \/ VaultClockMoves

VaultSpec == VaultInit /\ [][VaultNext]_vaultVars

-----------------------------------------------------------------------------
\* Properties.

expected_mutation_phase(transition) ==
    CASE transition = "prepare" -> "Prepared"
      [] transition = "record-new-version" -> "NewVersionStored"
      [] transition = "activate" -> "Active"
      [] transition = "complete" -> "Completed"
      [] transition = "begin-compensation" -> "Compensating"
      [] transition = "record-compensation" -> "Failed"

validate_mutation_fields(e) ==
    /\ e.revision = e.prior + 1
    /\ e.phase = expected_mutation_phase(e.transition)
    /\ e.transition = "prepare" => e.prior = 0

receipt_matches_snapshot(j, row, e) ==
    LET phases == history(j.phase, row.revision)
    IN /\ e.revision \in DOMAIN phases /\ phases[e.revision] = e.phase
       /\ \/ e.revision < row.revision /\ e.committed_at <= row.updated
          \/ e.revision = row.revision /\ e.committed_at = row.updated

\* What the repository answers when the mutation of record e is sent again.
replay_existing(e) ==
    /\ validate_mutation_fields(e)
    /\ e.rotation \in DOMAIN journals
    /\ \E j \in decode_journal(journals[e.rotation]) :
         receipt_matches_snapshot(j, journals[e.rotation], e)

\* However far a rotation has come since, and wherever the clock has been, every
\* committed mutation that is sent again is answered with its own receipt: the
\* journal still rebuilds from its row and the record still fits its history.
MutationsReplay == \A i \in DOMAIN rotationLog : replay_existing(rotationLog[i])

\* What the journal says is what the vault did: no two unfinished rotations share a
\* reference, a completed one ended with its previous version revoked after the
\* overlap, a failed one with its next version revoked, and no reference was stored
\* or revoked twice.
RotationsAreTrue ==
    /\ \A a, b \in DOMAIN journals :
         a # b /\ Unfinished(journals[a]) /\ Unfinished(journals[b])
           => {journals[a].previous, journals[a].next} \cap {journals[b].previous, journals[b].next} = {}
    /\ \A id \in DOMAIN journals :
         LET row == journals[id]
             Revoked(r, at) == r \in DOMAIN secrets /\ secrets[r].revoked = at
         IN /\ row.phase = "Completed" =>
                 /\ Revoked(row.previous, row.previous_revoked)
                 /\ row.previous_revoked >= row.activated + row.overlap_seconds * PerSecond
            /\ row.phase = "Failed" => Revoked(row.next, row.compensated)
    /\ \A i, k \in DOMAIN vaultLog :
         i < k /\ vaultLog[i].reference = vaultLog[k].reference
           => vaultLog[i].kind = "store" /\ vaultLog[k].kind = "revoke"

=============================================================================
