---------------------------- MODULE FileCatalog ----------------------------
(***************************************************************************)
(* The durable file service over the RNMDB file catalogue                  *)
(* (ariadnion-file-service, service.rs and service/upload.rs, and          *)
(* ariadnion-storage-rnmdb, file_catalog_repository.rs): upload with an    *)
(* idempotency key, deletion, reconciliation and the paged listing, for    *)
(* one tenant and principal.                                               *)
(*                                                                         *)
(* The catalogue worker runs one job at a time on one session, so a        *)
(* catalogue call is one step; between the calls of an upload or a         *)
(* deletion others run, and its future may be dropped at any await.        *)
(* Content is in the asset store, of which only the promise checked in     *)
(* AssetVolume is kept: a digest has at most one media for ever.           *)
(***************************************************************************)
EXTENDS Naturals, Sequences, FiniteSets, FiniteSetsExt, SequencesExt

CONSTANTS
  FileRequests,    \* upload requests [key, media, expects]; media: name, type and length
  FileDigests,     \* digests of the contents a client may send
  DeleteKeys,      \* idempotency keys of deletions
  Uploads,         \* upload futures that may run at once
  Deleters,        \* deletion futures that may run at once
  PageLimit,       \* files of a page
  MaxReferences,   \* bound: references the issuer hands out
  MaxUploads,      \* bound: uploads begun
  MaxDeletes,      \* bound: deletions begun
  MaxKeyVersion    \* bound: commitment keys rotated in

ASSUME CatalogAssumption ==
  /\ MaxReferences \in Nat /\ PageLimit \in Nat \ {0}
  /\ \A q \in FileRequests :
       q = [key |-> q.key, media |-> q.media, expects |-> q.expects] /\ q.media # "none"

VARIABLES
  entries,         \* the catalogue: reference -> [media, digest]
  published,       \* idempotency key -> publish operation
  tombstones,      \* idempotency key -> delete operation
  assets,          \* digest -> media committed
  keyVersion,      \* the active commitment key; the older ones stay configured
  up, del,         \* upload and deletion futures
  issuedIds,       \* references handed out
  fileAnswers,     \* successful answers given
  walk,            \* a client's walk through the pages
  begun            \* uploads and deletions begun

catalogVars ==
  <<entries, published, tombstones, assets, keyVersion, up, del, issuedIds, fileAnswers, walk, begun>>

FileReferences == 1..MaxReferences
FileKeys == {q.key : q \in FileRequests}

NoFile == [media |-> "none", digest |-> "none"]
NoOperation == [ref |-> 0]
IdleUpload == [at |-> "idle"]
IdleDelete == [at |-> "idle"]
NoWalk == [at |-> "idle"]

CatalogInit ==
  /\ entries = [r \in FileReferences |-> NoFile]
  /\ published = [k \in FileKeys |-> NoOperation]
  /\ tombstones = [k \in DeleteKeys |-> NoOperation]
  /\ assets = [d \in FileDigests |-> "none"]
  /\ keyVersion = 1
  /\ up = [u \in Uploads |-> IdleUpload]
  /\ del = [c \in Deleters |-> IdleDelete]
  /\ issuedIds = 0
  /\ fileAnswers = {}
  /\ walk = NoWalk
  /\ begun = [uploads |-> 0, deletes |-> 0]

unchangedRows == UNCHANGED <<entries, published, tombstones>>

----------------------------------------------------------------------------
(* Evidence *)

\* commitment_key_for_version: every version up to the active one is configured.
KeyKnown(op) == op.version \in 1..keyVersion

\* derive_publish_commitment and derive_delete_commitment bind the request and
\* the whole descriptor; verification recomputes them from the row's key version.
PublishCommitment(q, ref, file) == <<"publish", q, ref, file>>
DeleteCommitment(key, ref, file) == <<"delete", key, ref, file>>

PublishOperation(q, ref, file) ==
  [ref |-> ref, commitment |-> PublishCommitment(q, ref, file), version |-> keyVersion]
DeleteOperation(key, ref, file) ==
  [ref |-> ref, commitment |-> DeleteCommitment(key, ref, file), version |-> keyVersion]

\* load_delete_tombstone: is there a delete operation for the reference?
Tombstoned(ref) == \E k \in DeleteKeys : tombstones[k].ref = ref

\* load_visible_entry.
Visible(ref) == entries[ref] # NoFile /\ ~Tombstoned(ref)

VisibleReferences == {r \in FileReferences : Visible(r)}

\* verify_upload_replay_evidence: the request the row was committed with, tried
\* with and without an expected digest.
CommittedRequest(q, op, e) ==
  LET file == entries[op.ref]
      as   == [key |-> q.key, media |-> file.media, expects |-> e]
  IN op.commitment = PublishCommitment(as, op.ref, file)

\* resolve_upload_replay_from_session.
resolve_upload_replay(q, d) ==
  LET op   == published[q.key]
      file == entries[op.ref]
      exact == CommittedRequest(q, op, file.digest) \/ CommittedRequest(q, op, "any")
  IN CASE op = NoOperation -> "absent"
       [] op # NoOperation /\ (file = NoFile \/ ~KeyKnown(op) \/ ~exact) -> "integrity"
       [] OTHER -> IF /\ q.media = file.media
                      /\ CommittedRequest(q, op, q.expects)
                      /\ file.digest = d
                   THEN "committed" ELSE "conflict"

----------------------------------------------------------------------------
(* Uploads *)

UploadAnswered(u, ref) ==
  fileAnswers' = fileAnswers \cup
    {[kind |-> "upload", q |-> up[u].q, digest |-> up[u].digest, ref |-> ref]}

EndUpload(u) == up' = [up EXCEPT ![u] = IdleUpload]

unchangedAside == UNCHANGED <<keyVersion, del, walk>>

\* upload_operation up to the stage: the content goes to a private stage, and one
\* that is not what the request expects is quarantined.
UploadStages(u, q, d) ==
  /\ up[u] = IdleUpload /\ begun.uploads < MaxUploads
  /\ begun' = [begun EXCEPT !.uploads = @ + 1]
  /\ IF q.expects \in {"any", d}
     THEN up' = [up EXCEPT ![u] = [at |-> "staged", q |-> q, digest |-> d, ref |-> 0]]
     ELSE EndUpload(u)
  /\ unchangedRows /\ unchangedAside /\ UNCHANGED <<assets, issuedIds, fileAnswers>>

\* exact_replay and verify_conflict_replay: the asset must be the one on record.
ReplayStands(u, ref) ==
  LET file == entries[ref] IN assets[file.digest] = file.media /\ file.digest = up[u].digest

\* route_initial_replay: an exact replay answers the original and abandons the
\* stage, a new upload gets a reference, anything else ends with an error.
UploadResolves(u) ==
  LET res == resolve_upload_replay(up[u].q, up[u].digest)
      ref == published[up[u].q.key].ref
  IN
  /\ up[u].at = "staged"
  /\ \/ /\ res = "absent" /\ issuedIds < MaxReferences
        /\ issuedIds' = issuedIds + 1
        /\ up' = [up EXCEPT ![u].at = "prepared", ![u].ref = issuedIds + 1]
        /\ UNCHANGED fileAnswers
     \/ /\ res = "committed" /\ ReplayStands(u, ref)
        /\ UploadAnswered(u, ref) /\ EndUpload(u) /\ UNCHANGED issuedIds
     \/ /\ res \in {"conflict", "integrity"} \/ (res = "committed" /\ ~ReplayStands(u, ref))
        /\ EndUpload(u) /\ UNCHANGED <<issuedIds, fileAnswers>>
  /\ unchangedRows /\ unchangedAside /\ UNCHANGED <<assets, begun>>

\* commit_stage: a receipt; a determinate refusal (the digest has another media);
\* or an unknown outcome, which ends the upload whether or not the asset is there.
commit_stage(u) ==
  LET q == up[u].q d == up[u].digest IN
  /\ up[u].at = "prepared"
  /\ \/ /\ assets[d] \in {"none", q.media}
        /\ assets' = [assets EXCEPT ![d] = q.media]
        /\ up' = [up EXCEPT ![u].at = "committed"]
     \/ assets[d] \notin {"none", q.media} /\ EndUpload(u) /\ UNCHANGED assets
     \/ /\ assets[d] \in {"none", q.media}
        /\ assets' \in {assets, [assets EXCEPT ![d] = q.media]}
        /\ EndUpload(u)
  /\ unchangedRows /\ unchangedAside /\ UNCHANGED <<issuedIds, fileAnswers, begun>>

PublishedFile(u) == [media |-> up[u].q.media, digest |-> up[u].digest]

\* publish_in_transaction when the key is free: the entry and the operation.
InsertPublication(u) ==
  /\ entries' = [entries EXCEPT ![up[u].ref] = PublishedFile(u)]
  /\ published' = [published EXCEPT ![up[u].q.key] =
                     PublishOperation(up[u].q, up[u].ref, PublishedFile(u))]
  /\ UNCHANGED tombstones

\* Mutant: the operation of an earlier publication is overwritten.
publish_over(u) == up[u].at = "committed"

\* load_operation finds no publication under the key.
publish_is_new(u) == up[u].at = "committed" /\ published[up[u].q.key] = NoOperation

\* publish_prepared: committed and answered; rolled back; or committed or not with
\* an unknown outcome (or the future dropped while the job runs).
UploadPublishes(u) ==
  /\ publish_is_new(u)
  /\ EndUpload(u)
  /\ \/ InsertPublication(u) /\ UploadAnswered(u, up[u].ref)
     \/ InsertPublication(u) /\ UNCHANGED fileAnswers
     \/ unchangedRows /\ UNCHANGED fileAnswers
  /\ unchangedAside /\ UNCHANGED <<assets, issuedIds, begun>>

\* resolve_publish_replay: a reference of this upload's own never matches the
\* commitment on record, so the publication is a conflict.
UploadConflicts(u) ==
  LET op == published[up[u].q.key] IN
  /\ up[u].at = "committed" /\ op # NoOperation
  /\ op.commitment # PublishCommitment(up[u].q, up[u].ref, PublishedFile(u))
  /\ up' = [up EXCEPT ![u].at = "conflict"]
  /\ unchangedRows /\ unchangedAside /\ UNCHANGED <<assets, issuedIds, fileAnswers, begun>>

\* resolve_publish_conflict: the other upload may be this request all the same.
UploadResolvesConflict(u) ==
  LET res == resolve_upload_replay(up[u].q, up[u].digest)
      ref == published[up[u].q.key].ref
  IN
  /\ up[u].at = "conflict"
  /\ EndUpload(u)
  /\ IF res = "committed" /\ ReplayStands(u, ref)
     THEN UploadAnswered(u, ref) ELSE UNCHANGED fileAnswers
  /\ unchangedRows /\ unchangedAside /\ UNCHANGED <<assets, issuedIds, begun>>

\* The future is dropped, its context is cancelled or the process stops.
UploadAbandoned(u) ==
  /\ up[u] # IdleUpload
  /\ EndUpload(u)
  /\ unchangedRows /\ unchangedAside /\ UNCHANGED <<assets, issuedIds, fileAnswers, begun>>

\* reconcile_upload_operation: "committed" only for the very request on record.
ReconcileUpload(q) ==
  LET op == published[q.key] file == entries[op.ref] IN
  /\ op # NoOperation /\ file # NoFile /\ KeyKnown(op)
  /\ op.commitment = PublishCommitment(q, op.ref, file)
  /\ assets[file.digest] = file.media
  /\ fileAnswers' = fileAnswers \cup
       {[kind |-> "upload", q |-> q, digest |-> file.digest, ref |-> op.ref]}
  /\ unchangedRows /\ unchangedAside /\ UNCHANGED <<assets, issuedIds, up, begun>>

----------------------------------------------------------------------------
(* Deletions *)

EndDelete(c) == del' = [del EXCEPT ![c] = IdleDelete]

DeleteAnswered(k, ref) ==
  fileAnswers' = fileAnswers \cup {[kind |-> "delete", key |-> k, ref |-> ref]}

unchangedBeside == UNCHANGED <<entries, published, assets, keyVersion, up, issuedIds>>

\* delete_catalog reads the descriptor first ...
DeleteReads(c, k, ref) ==
  /\ del[c] = IdleDelete /\ begun.deletes < MaxDeletes /\ ref <= issuedIds
  /\ begun' = [begun EXCEPT !.deletes = @ + 1]
  /\ del' = [del EXCEPT ![c] = [at |-> IF Visible(ref) THEN "delete" ELSE "missing",
                                key |-> k, ref |-> ref, expected |-> entries[ref]]]
  /\ unchangedBeside /\ UNCHANGED <<tombstones, fileAnswers, walk>>

\* create_delete_operation: the file is still visible and as it was read.
delete_stands(c) ==
  Visible(del[c].ref) /\ del[c].expected = entries[del[c].ref]

\* ... then deletes what it read: a new operation, committed, rolled back or unknown;
\* an operation under the key answers when it is this very deletion.
DeleteCommits(c) ==
  LET k == del[c].key ref == del[c].ref op == tombstones[k] IN
  /\ del[c].at = "delete"
  /\ EndDelete(c)
  /\ \/ /\ op = NoOperation /\ delete_stands(c)
        /\ tombstones' = [tombstones EXCEPT ![k] = DeleteOperation(k, ref, del[c].expected)]
        /\ DeleteAnswered(k, ref) \/ UNCHANGED fileAnswers
        /\ walk' = IF walk.at = "walking" THEN [walk EXCEPT !.due = @ \ {ref}] ELSE walk
     \/ /\ op # NoOperation /\ KeyKnown(op)
        /\ op.commitment = DeleteCommitment(k, ref, del[c].expected)
        /\ DeleteAnswered(k, ref) /\ UNCHANGED <<tombstones, walk>>
     \/ UNCHANGED <<tombstones, fileAnswers, walk>>
  /\ unchangedBeside /\ UNCHANGED begun

\* reconcile_missing_delete: a file that is not there was perhaps deleted by this key.
DeleteReconciles(c) ==
  LET k == del[c].key ref == del[c].ref op == tombstones[k] IN
  /\ del[c].at = "missing"
  /\ EndDelete(c)
  /\ IF /\ op # NoOperation /\ op.ref = ref /\ KeyKnown(op)
        /\ op.commitment = DeleteCommitment(k, ref, entries[ref])
     THEN DeleteAnswered(k, ref) ELSE UNCHANGED fileAnswers
  /\ unchangedBeside /\ UNCHANGED <<tombstones, walk, begun>>

----------------------------------------------------------------------------
(* Key rotation and the listing *)

\* The service restarts with a further commitment key; the old ones stay.
RotateCommitmentKey ==
  /\ keyVersion < MaxKeyVersion
  /\ keyVersion' = keyVersion + 1
  /\ unchangedRows /\ UNCHANGED <<assets, up, del, issuedIds, fileAnswers, walk, begun>>

\* ORDER BY reference.
Sorted(S) ==
  CHOOSE s \in [1..Cardinality(S) -> S] : \A i, j \in DOMAIN s : i < j => s[i] < s[j]

\* list_visible_entries: the visible references after the cursor, in order, one
\* more than the page holds.
list_visible_entries(after) ==
  LET rows == Sorted({r \in VisibleReferences : r > after})
  IN SubSeq(rows, 1, Min({Len(rows), PageLimit + 1}))

\* next_list_cursor: the last reference of the page.
next_list_cursor(rows) == rows[PageLimit]

ListBegins ==
  /\ walk = NoWalk
  /\ walk' = [at |-> "walking", after |-> 0, listed |-> <<>>, due |-> VisibleReferences]
  /\ unchangedRows /\ UNCHANGED <<assets, keyVersion, up, del, issuedIds, fileAnswers, begun>>

\* list_records: verify the cursor (its key is the active one or an older one, which
\* stays configured), list, drop the extra row, issue the cursor.
ListPage ==
  LET rows == list_visible_entries(walk.after)
      more == Len(rows) > PageLimit
      page == IF more THEN SubSeq(rows, 1, PageLimit) ELSE rows
  IN
  /\ walk.at = "walking"
  /\ walk' = [walk EXCEPT !.listed = @ \o page,
                          !.after = IF more THEN next_list_cursor(rows) ELSE @,
                          !.at = IF more THEN "walking" ELSE "done"]
  /\ unchangedRows /\ UNCHANGED <<assets, keyVersion, up, del, issuedIds, fileAnswers, begun>>

CatalogNext ==
  \/ \E u \in Uploads, q \in FileRequests, d \in FileDigests : UploadStages(u, q, d)
  \/ \E u \in Uploads :
       \/ UploadResolves(u) \/ commit_stage(u) \/ UploadPublishes(u)
       \/ UploadConflicts(u) \/ UploadResolvesConflict(u) \/ UploadAbandoned(u)
  \/ \E q \in FileRequests : ReconcileUpload(q)
  \/ \E c \in Deleters, k \in DeleteKeys, r \in FileReferences : DeleteReads(c, k, r)
  \/ \E c \in Deleters : DeleteCommits(c) \/ DeleteReconciles(c)
  \/ RotateCommitmentKey \/ ListBegins \/ ListPage

CatalogSpec == CatalogInit /\ [][CatalogNext]_catalogVars

----------------------------------------------------------------------------
(* Properties *)

\* Every success answered for an idempotency key, by an upload, its retry, a racing
\* twin or a reconciliation, names the one file on record, with the content that
\* caller sent, for ever; and a deletion that was answered stands.
FileAnswersAgree ==
  \A a \in fileAnswers :
    IF a.kind = "delete"
    THEN tombstones[a.key].ref = a.ref
    ELSE LET op == published[a.q.key] IN
         /\ op.ref = a.ref
         /\ op.commitment = PublishCommitment(a.q, a.ref, entries[a.ref])
         /\ entries[a.ref] = [media |-> a.q.media, digest |-> a.digest]

\* What the catalogue shows can be served: each entry has its asset, with the same
\* media, each operation its entry and a configured key, and no file has two
\* tombstones, which would make every later read of it an integrity failure.
CatalogIsServable ==
  /\ \A r \in FileReferences :
       /\ entries[r] # NoFile => assets[entries[r].digest] = entries[r].media
       /\ Cardinality({k \in DeleteKeys : tombstones[k].ref = r}) <= 1
  /\ \A k \in FileKeys : published[k] # NoOperation =>
       entries[published[k].ref] # NoFile /\ KeyKnown(published[k])

\* A walk through the pages lists each file that was there throughout, in order and
\* none twice, whatever is published and deleted between two pages.
ListingIsComplete ==
  walk.at = "done" =>
    /\ walk.due \subseteq Range(walk.listed)
    /\ \A i \in 1..Len(walk.listed) - 1 : walk.listed[i] < walk.listed[i + 1]

\* What the file service has answered, what it shows and what it lists are true.
CatalogIsTrue == FileAnswersAgree /\ CatalogIsServable /\ ListingIsComplete
=============================================================================
