---------------------------- MODULE AssetVolume ----------------------------
(***************************************************************************)
(* The local asset volume (ariadnion-storage-asset, local_volume.rs and    *)
(* local_volume/intent.rs): assets are staged in a private directory, then *)
(* committed to their content address or moved to quarantine.              *)
(*                                                                         *)
(* Every operation holds operation_gate, so one job runs at a time, as a   *)
(* sequence of file-system calls.  A call may fail (the job answers) and   *)
(* the machine may lose power between any two calls: then each directory   *)
(* comes back either as it was last synchronised or as it was last seen,   *)
(* and a file that was being written may come back torn.  `vol' is what    *)
(* the running program sees, `disk' what has been synchronised.            *)
(***************************************************************************)
EXTENDS Naturals, Sequences

CONSTANTS
  AssetTokens,      \* stage tokens the issuer may hand out
  AssetKeys,        \* tenant-scoped content addresses
  AssetDigests,     \* content digests (shared by tenants)
  AssetReasons,     \* quarantine reasons
  AssetDescriptors, \* what may be staged: [key, media], media standing for type and length
  AssetDigestOf,    \* key -> digest
  MaxAssetFaults,   \* bound: failing file-system calls
  MaxAssetCrashes   \* bound: power losses

\* Media and reasons are never the marks of a missing or a torn file.
ASSUME VolumeAssumption ==
  /\ AssetDigestOf \in [AssetKeys -> AssetDigests]
  /\ AssetDescriptors # {}
  /\ \A d \in AssetDescriptors : d.key \in AssetKeys /\ d.media # "none"
  /\ "none" \notin AssetReasons /\ "torn" \notin AssetReasons
  /\ MaxAssetFaults \in Nat /\ MaxAssetCrashes \in Nat

VARIABLES
  vol, disk,        \* the volume as seen and as synchronised
  volumeJob,        \* the operation that holds the gate
  asset,            \* the descriptor of each token
  heldStages,       \* staged assets the caller holds
  assetReceipts,    \* receipts given: <<token, "committed" | "quarantined">>
  answer,           \* the last answer
  owed,             \* tokens whose last answer is a transient commit failure
  assetFaults, assetCrashes

assetVars ==
  <<vol, disk, volumeJob, asset, heldStages, assetReceipts, answer, owed, assetFaults, assetCrashes>>

\* STAGE_ENTRY_NAMES, in the order retire_stage and discard_stage remove them.
StageEntryNames ==
  <<"content", "manifest", "descriptor", "consumed", "reason",
    "publish-content", "publish-intent", "quarantine-intent">>

StageEntries == {StageEntryNames[i] : i \in 1..Len(StageEntryNames)}

EmptyStage == [e \in StageEntries |-> "none"]

NoJob == [op |-> "none"]

AssetInit ==
  /\ vol = [loc     |-> [t \in AssetTokens |-> "none"],
            ent     |-> [t \in AssetTokens |-> EmptyStage],
            locks   |-> {},
            tomb    |-> [t \in AssetTokens |-> "none"],
            content |-> [d \in AssetDigests |-> "none"],
            desc    |-> [k \in AssetKeys |-> "none"]]
  /\ disk = vol
  /\ volumeJob = NoJob
  /\ asset = [t \in AssetTokens |-> CHOOSE d \in AssetDescriptors : TRUE]
  /\ heldStages = {} /\ assetReceipts = {} /\ owed = {}
  /\ answer = [op |-> "none"]
  /\ assetFaults = 0 /\ assetCrashes = 0

----------------------------------------------------------------------------
(* Reading the volume *)

\* A file of the stage directory while it is under staging/ (or quarantine/).
InStage(t, e) == IF vol.loc[t] = "staging" THEN vol.ent[t][e] ELSE "none"
InQuarantine(t, e) == IF vol.loc[t] = "quarantine" THEN vol.ent[t][e] ELSE "none"

\* validate_stage_content and read_stage_record: manifest and content are whole.
StageIsWhole(t) == InStage(t, "manifest") = "ok" /\ InStage(t, "content") = "ok"

\* reject_consumed_stage: neither the tombstone nor the stage's own marker.
Unconsumed(t) == vol.tomb[t] = "none" /\ InStage(t, "consumed") = "none"

\* load_stage succeeds.
load_stage(t) == t \in vol.locks /\ Unconsumed(t) /\ StageIsWhole(t)

\* load_optional_committed and verify_content.
Committed(t) == vol.desc[asset[t].key]
VerifiedContent(t) == vol.content[AssetDigestOf[asset[t].key]] = "ok"

----------------------------------------------------------------------------
(* Steps of a job *)

Goto(at) == volumeJob' = [volumeJob EXCEPT !.at = at]

Transient == {"io", "indeterminate"}

\* The operation answers and releases the gate.
Answers(op, t, res) ==
  /\ volumeJob' = NoJob
  /\ answer' = [op |-> op, t |-> t, res |-> res, owed |-> t \in owed]
  /\ assetReceipts' = assetReceipts \cup
       (IF res \in {"committed", "quarantined"} THEN {<<t, res>>} ELSE {})
  /\ heldStages' = heldStages \cup (IF res = "staged" THEN {t} ELSE {})
  /\ asset' = asset
  /\ owed' = IF op = "commit" /\ res \in Transient THEN owed \cup {t} ELSE owed \ {t}

Finish(res) == Answers(volumeJob.op, volumeJob.t, res)

\* A file-system call of the job fails.
Faulty == assetFaults < MaxAssetFaults /\ assetFaults' = assetFaults + 1
Fails(res) == Faulty /\ Finish(res) /\ UNCHANGED <<vol, disk, assetCrashes>>

unchangedTalk == UNCHANGED <<asset, heldStages, assetReceipts, answer, owed, assetFaults, assetCrashes>>

\* write_or_reuse_file: a fresh file, written and synchronised; an existing one is
\* reused when its bytes are the same, and is an integrity failure otherwise.
Writes(e, v, next) ==
  /\ vol.ent[volumeJob.t][e] \in {"none", v}
  /\ vol' = [vol EXCEPT !.ent[volumeJob.t][e] = v]
  /\ Goto(next) /\ unchangedTalk /\ UNCHANGED disk

Mismatch(e, v) ==
  /\ vol.ent[volumeJob.t][e] \notin {"none", v}
  /\ Finish("integrity")
  /\ UNCHANGED <<vol, disk, assetFaults, assetCrashes>>

\* A call that changes what is seen; a call that synchronises a directory.
Does(v, next) == vol' = v /\ Goto(next) /\ unchangedTalk /\ UNCHANGED disk
Syncs(d, next) == disk' = d /\ Goto(next) /\ unchangedTalk /\ UNCHANGED vol

SyncedStage == [disk EXCEPT !.ent[volumeJob.t] = vol.ent[volumeJob.t]]

BeginJob(op, t, r, at) ==
  /\ volumeJob' = [op |-> op, t |-> t, reason |-> r, at |-> at]
  /\ unchangedTalk /\ UNCHANGED <<vol, disk>>

Refuses(op, t, res) == Answers(op, t, res) /\ UNCHANGED <<vol, disk, assetFaults, assetCrashes>>

----------------------------------------------------------------------------
(* Staging *)

\* stage: a fresh token for some content.
stage(t, d) ==
  /\ volumeJob = NoJob /\ t \notin heldStages
  /\ vol.loc[t] = "none" /\ t \notin vol.locks /\ vol.tomb[t] = "none"
  /\ volumeJob' = [op |-> "stage", t |-> t, reason |-> "none", at |-> "lock"]
  /\ asset' = [asset EXCEPT ![t] = d]
  /\ UNCHANGED <<vol, disk, heldStages, assetReceipts, answer, owed, assetFaults, assetCrashes>>

\* create_stage_directory: ensure_dir synchronises staging/; a failure after
\* that leaves the empty directory and its lock behind.
create_stage_directory ==
  /\ volumeJob.op = "stage"
  /\ \/ /\ volumeJob.at = "lock"
        /\ \/ Does([vol EXCEPT !.locks = @ \cup {volumeJob.t}], "dir")
           \/ Fails("io")
     \/ /\ volumeJob.at = "dir"
        /\ \/ /\ vol' = [vol EXCEPT !.loc[volumeJob.t] = "staging", !.ent[volumeJob.t] = EmptyStage]
              /\ disk' = [disk EXCEPT !.loc = vol'.loc]
              /\ Goto("sync-locks") /\ unchangedTalk
           \/ /\ Faulty /\ Finish("io")
              /\ vol' = [vol EXCEPT !.locks = @ \ {volumeJob.t}]
              /\ UNCHANGED <<disk, assetCrashes>>
     \/ /\ volumeJob.at = "sync-locks"
        /\ \/ Syncs([disk EXCEPT !.locks = vol.locks], "content")
           \/ Fails("io")

\* write_stage: the content (length and digest checked), the manifest, a sync;
\* any failure, of the source too, discards the stage.
write_stage ==
  /\ volumeJob.op = "stage"
  /\ \/ /\ volumeJob.at \in {"content", "manifest"}
        /\ Writes(volumeJob.at, "ok", IF volumeJob.at = "content" THEN "manifest" ELSE "sync-stage")
     \/ /\ volumeJob.at = "sync-stage"
        /\ disk' = SyncedStage
        /\ Finish("staged") /\ UNCHANGED <<vol, assetFaults, assetCrashes>>
     \/ /\ volumeJob.at \in {"content", "manifest", "sync-stage"}
        /\ Faulty /\ Goto("discard")
        /\ UNCHANGED <<vol, disk, asset, heldStages, assetReceipts, answer, owed, assetCrashes>>

\* finish_failed_stage: discard_stage, or else isolate_failed_stage, or else the
\* caller is told that the outcome is unknown.  The device that failed the write
\* may fail these calls too.
finish_failed_stage ==
  /\ volumeJob.op = "stage" /\ volumeJob.at = "discard"
  /\ \/ /\ vol' = [vol EXCEPT !.loc[volumeJob.t] = "none", !.ent[volumeJob.t] = EmptyStage,
                              !.locks = @ \ {volumeJob.t}]
        /\ disk' = [disk EXCEPT !.loc = vol'.loc, !.ent[volumeJob.t] = EmptyStage,
                                !.locks = vol'.locks]
        /\ Finish("io") /\ UNCHANGED <<assetFaults, assetCrashes>>
     \/ Goto("isolate") /\ unchangedTalk /\ UNCHANGED <<vol, disk>>

\* isolate_failed_stage: a recovery marker, a rename into quarantine/recovery, the
\* lock removed.
isolate_failed_stage ==
  /\ volumeJob.op = "stage" /\ volumeJob.at = "isolate"
  /\ \/ /\ vol' = [vol EXCEPT !.loc[volumeJob.t] = "recovery", !.locks = @ \ {volumeJob.t}]
        /\ disk' = [disk EXCEPT !.loc = vol'.loc, !.locks = vol'.locks]
        /\ Finish("io") /\ UNCHANGED <<assetFaults, assetCrashes>>
     \/ Finish("indeterminate") /\ UNCHANGED <<vol, disk, assetFaults, assetCrashes>>

----------------------------------------------------------------------------
(* Commit *)

\* publish_intent_ready: an earlier attempt left its intent and consumed the
\* stage; a torn intent or marker is an integrity failure.
consumed_marker_exists(t) == ~Unconsumed(t)
IntentIsTorn(t) ==
  \/ InStage(t, "publish-intent") = "torn"
  \/ /\ InStage(t, "publish-intent") = "ok"
     /\ "torn" \in {vol.tomb[t], InStage(t, "consumed")}
publish_intent_ready(t) ==
  /\ ~IntentIsTorn(t)
  /\ InStage(t, "publish-intent") = "ok" /\ consumed_marker_exists(t)

Matching(t) == Committed(t) = asset[t].media

\* finish_existing_commit begins: the descriptor is this one and reads back.
finish_existing_commit(t) ==
  VerifiedContent(t) /\ BeginJob("commit", t, "existing", "publish-intent")

\* reconcile_published_stage: the consumed stage must still be whole, and its
\* asset committed.
reconcile_published_stage(t) ==
  \/ /\ ~(t \in vol.locks /\ StageIsWhole(t))
     /\ Refuses("commit", t, "integrity")
  \/ /\ t \in vol.locks /\ StageIsWhole(t)
     /\ \/ Committed(t) = "none" /\ Refuses("commit", t, "indeterminate")
        \/ Committed(t) \notin {"none", asset[t].media} /\ Refuses("commit", t, "integrity")
        \/ Matching(t) /\ finish_existing_commit(t)

\* load_stage, reject_quarantine_claim and commit_leased.
commit_leased(t) ==
  LET leased == load_stage(t) /\ InStage(t, "reason") = "none" IN
  \/ ~leased /\ Refuses("commit", t, "integrity")
  \/ /\ leased
     /\ \/ Committed(t) \notin {"none", asset[t].media} /\ Refuses("commit", t, "conflict")
        \/ Matching(t) /\ finish_existing_commit(t)
        \/ Committed(t) = "none" /\ BeginJob("commit", t, "new", "publish-intent")

\* commit_after_reconciliation: what an intent on disk says of an earlier
\* attempt, then the checks on the stage and on what is committed already.
commit_request(t) ==
  /\ volumeJob = NoJob /\ t \in heldStages
  /\ \/ /\ IntentIsTorn(t) \/ (Matching(t) /\ ~VerifiedContent(t))
        /\ Refuses("commit", t, "integrity")
     \/ publish_intent_ready(t) /\ reconcile_published_stage(t)
     \/ ~IntentIsTorn(t) /\ ~publish_intent_ready(t) /\ commit_leased(t)

\* prepare_publish_intent: the intent is durable before anything is published.
prepare_publish_intent ==
  /\ volumeJob.op = "commit"
  /\ \/ /\ volumeJob.at = "publish-intent"
        /\ \/ Writes("publish-intent", "ok", "sync-intent")
           \/ Fails("io")
     \/ /\ volumeJob.at = "sync-intent"
        /\ \/ Syncs(SyncedStage, IF volumeJob.reason = "new" THEN "publish-content" ELSE "sync-content")
           \/ Fails("io")

\* install_content: a verified pending copy is linked to the content address
\* (or found there), then removed, and the parents are synchronised.
install_content ==
  LET d == AssetDigestOf[asset[volumeJob.t].key] IN
  /\ volumeJob.op = "commit"
  /\ \/ /\ volumeJob.at = "publish-content"
        /\ \/ Writes("publish-content", "ok", "link-content")
           \/ Mismatch("publish-content", "ok")
           \/ Fails("io")
     \/ /\ volumeJob.at = "link-content"
        /\ \/ Does([vol EXCEPT !.content[d] = "ok"], "drop-pending")
           \/ Fails("io")
     \/ /\ volumeJob.at = "drop-pending"
        /\ \/ Does([vol EXCEPT !.ent[volumeJob.t]["publish-content"] = "none"], "sync-stage")
           \/ Fails("io")
     \/ /\ volumeJob.at = "sync-stage"
        /\ \/ Syncs(SyncedStage, "sync-content")
           \/ Fails("io")

\* Mutant: the content directories are not synchronised before the descriptor.
ContentNotSynced == disk

\* sync_content_publication_parents and the verification of what is installed.
ContentSynced == [disk EXCEPT !.content = vol.content]

sync_content ==
  /\ volumeJob.op = "commit" /\ volumeJob.at = "sync-content"
  /\ \/ Syncs(ContentSynced,
              IF volumeJob.reason = "new" THEN "descriptor" ELSE "sync-descriptor")
     \/ Fails("indeterminate")

\* publish_descriptor: the gate has been held since no descriptor was found, so
\* the link always creates it.
publish_descriptor ==
  /\ volumeJob.op = "commit"
  /\ \/ /\ volumeJob.at = "descriptor"
        /\ \/ Writes("descriptor", "ok", "link-descriptor")
           \/ Mismatch("descriptor", "ok")
           \/ Fails("io")
     \/ /\ volumeJob.at = "link-descriptor"
        /\ \/ Does([vol EXCEPT !.desc[asset[volumeJob.t].key] = asset[volumeJob.t].media],
                   "drop-descriptor")
           \/ Fails("io")
     \/ /\ volumeJob.at = "drop-descriptor"
        /\ \/ Does([vol EXCEPT !.ent[volumeJob.t]["descriptor"] = "none"], "sync-descriptor")
           \/ Fails("indeterminate")

\* sync_descriptor_publication_parents, after a new link and for an existing one.
DescriptorSynced == [disk EXCEPT !.desc = vol.desc]

sync_descriptor ==
  /\ volumeJob.op = "commit" /\ volumeJob.at = "sync-descriptor"
  /\ \/ Syncs(DescriptorSynced, "tombstone")
     \/ Fails("indeterminate")

\* consume_stage: the tombstone, then the stage's own marker, each synchronised.
consume_stage ==
  /\ volumeJob.op = "commit"
  /\ \/ /\ volumeJob.at = "tombstone"
        /\ Does([vol EXCEPT !.tomb[volumeJob.t] = "ok"], "sync-consumed")
     \/ /\ volumeJob.at = "sync-consumed"
        /\ Syncs([disk EXCEPT !.tomb = vol.tomb], "consumed")
     \/ /\ volumeJob.at = "consumed"
        /\ Writes("consumed", "ok", "sync-marker")
     \/ /\ volumeJob.at = "sync-marker"
        /\ Syncs(SyncedStage, "retire")
     \/ /\ volumeJob.at \in {"tombstone", "sync-consumed", "consumed", "sync-marker"}
        /\ Fails("indeterminate")

\* retire_stage removes the entries in order, the directory, the lock, and
\* synchronises; it may stop anywhere and the receipt is given all the same.
retire_stage ==
  /\ volumeJob.op = "commit" /\ volumeJob.at = "retire"
  /\ Finish("committed")
  /\ \/ /\ vol' = [vol EXCEPT !.ent[volumeJob.t] = EmptyStage, !.loc[volumeJob.t] = "none",
                              !.locks = @ \ {volumeJob.t}]
        /\ disk' = [disk EXCEPT !.ent[volumeJob.t] = EmptyStage, !.loc = vol'.loc,
                                !.locks = vol'.locks]
        /\ UNCHANGED assetFaults
     \/ /\ Faulty
        /\ \E n \in 0..Len(StageEntryNames) :
             vol' = [vol EXCEPT !.ent[volumeJob.t] =
                       [e \in StageEntries |->
                          IF \E i \in 1..n : StageEntryNames[i] = e THEN "none" ELSE @[e]]]
        /\ UNCHANGED disk
  /\ UNCHANGED assetCrashes

----------------------------------------------------------------------------
(* Quarantine *)

\* publish_lineage_is_visible: this stage's intent stands and its asset is
\* readable: the commit may have happened.
Lineage(t) == IF InStage(t, "publish-intent") # "none"
              THEN InStage(t, "publish-intent") ELSE InQuarantine(t, "publish-intent")

\* validate_quarantine_record of a stage that has been moved already.
QuarantineIsWhole(t, r) ==
  /\ InQuarantine(t, "quarantine-intent") = r /\ InQuarantine(t, "reason") = r
  /\ InQuarantine(t, "manifest") = "ok" /\ InQuarantine(t, "content") = "ok"
  /\ vol.tomb[t] = "ok"

\* reconcile_quarantine_target: a move that was made is finished.
reconcile_quarantine_target(t, r) ==
  /\ InQuarantine(t, "quarantine-intent") # "none"
  /\ IF QuarantineIsWhole(t, r)
     THEN BeginJob("quarantine", t, r, "resync-quarantine")
     ELSE Refuses("quarantine", t, "integrity")

\* reconcile_staged_quarantine: a stage that was claimed and consumed is moved; an
\* intent with another reason, or a torn one, is an integrity failure.
reconcile_staged_quarantine(t, r) ==
  LET claimed == InStage(t, "quarantine-intent") IN
  /\ claimed # "none"
  /\ \/ /\ claimed # r \/ vol.tomb[t] = "torn"
        /\ Refuses("quarantine", t, "integrity")
     \/ /\ claimed = r /\ vol.tomb[t] = "ok"
        /\ IF t \in vol.locks /\ StageIsWhole(t)
           THEN BeginJob("quarantine", t, r, "rename")
           ELSE Refuses("quarantine", t, "integrity")

\* quarantine_new_stage: no intent, or one whose stage was not consumed yet.
quarantine_new_stage(t, r) ==
  /\ InQuarantine(t, "quarantine-intent") = "none"
  /\ \/ InStage(t, "quarantine-intent") = "none"
     \/ InStage(t, "quarantine-intent") = r /\ vol.tomb[t] = "none"
  /\ IF load_stage(t)
     THEN BeginJob("quarantine", t, r, "quarantine-intent")
     ELSE Refuses("quarantine", t, "integrity")

\* quarantine_after_reconciliation: refuse a visible publication, finish an
\* interrupted move, resume a claimed stage, or start.
quarantine_request(t, r) ==
  LET visible == Lineage(t) = "ok" /\ Committed(t) # "none"
      sound   == Matching(t) /\ VerifiedContent(t)
  IN
  /\ volumeJob = NoJob /\ t \in heldStages
  /\ \/ /\ Lineage(t) = "torn" \/ (visible /\ ~sound)
        /\ Refuses("quarantine", t, "integrity")
     \/ /\ visible /\ sound
        /\ Refuses("quarantine", t, "indeterminate")
     \/ /\ Lineage(t) # "torn" /\ ~visible
        /\ \/ reconcile_quarantine_target(t, r)
           \/ reconcile_staged_quarantine(t, r)
           \/ quarantine_new_stage(t, r)

\* prepare_quarantine_intent and prepare_quarantine_claim: the intent, the
\* reason and the tombstone are durable before the stage moves.
prepare_quarantine ==
  /\ volumeJob.op = "quarantine"
  /\ \/ /\ volumeJob.at = "quarantine-intent"
        /\ Writes("quarantine-intent", volumeJob.reason, "sync-intent")
     \/ /\ volumeJob.at = "sync-intent"
        /\ Syncs(SyncedStage, "reason")
     \/ /\ volumeJob.at = "reason"
        /\ \/ Writes("reason", volumeJob.reason, "sync-reason")
           \/ Mismatch("reason", volumeJob.reason)
     \/ /\ volumeJob.at = "sync-reason"
        /\ Syncs(SyncedStage, "tombstone")
     \/ /\ volumeJob.at = "tombstone"
        /\ Does([vol EXCEPT !.tomb[volumeJob.t] = "ok"], "sync-consumed")
     \/ /\ volumeJob.at = "sync-consumed"
        /\ Syncs([disk EXCEPT !.tomb = vol.tomb], "rename")
     \/ /\ volumeJob.at \in {"quarantine-intent", "sync-intent", "reason", "sync-reason",
                       "tombstone", "sync-consumed"}
        /\ Fails("io")

\* move_to_quarantine: rename, synchronise both parents, validate, drop the lock.
move_to_quarantine ==
  /\ volumeJob.op = "quarantine"
  /\ \/ /\ volumeJob.at = "rename"
        /\ Does([vol EXCEPT !.loc[volumeJob.t] = "quarantine"], "sync-quarantine")
     \/ /\ volumeJob.at = "sync-quarantine"
        /\ Syncs([disk EXCEPT !.loc = vol.loc], "validate")
     \/ /\ volumeJob.at = "validate"
        /\ LET whole == QuarantineIsWhole(volumeJob.t, volumeJob.reason)
               gone  == IF whole THEN {volumeJob.t} ELSE {} IN
           /\ Finish(IF whole THEN "quarantined" ELSE "indeterminate")
           /\ vol' = [vol EXCEPT !.locks = @ \ gone]
           /\ disk' = [disk EXCEPT !.locks = @ \ gone]
        /\ UNCHANGED <<assetFaults, assetCrashes>>
     \/ /\ volumeJob.at \in {"rename", "sync-quarantine", "validate"}
        /\ Fails("indeterminate")

\* finish_quarantine_recovery of a move that an earlier attempt made.
finish_quarantine_recovery ==
  /\ volumeJob.op = "quarantine"
  /\ \/ /\ volumeJob.at = "resync-quarantine"
        /\ Syncs([disk EXCEPT !.loc = vol.loc], "drop-lock")
     \/ /\ volumeJob.at = "drop-lock"
        /\ \/ /\ Finish("quarantined")
              /\ vol' = [vol EXCEPT !.locks = @ \ {volumeJob.t}]
              /\ disk' = [disk EXCEPT !.locks = vol'.locks]
              /\ UNCHANGED <<assetFaults, assetCrashes>>
           \/ Fails("io")
     \/ /\ volumeJob.at \in {"resync-quarantine", "drop-lock"}
        /\ Fails("indeterminate")

----------------------------------------------------------------------------
(* Power loss *)

\* What may be found after a power loss: each directory old or new, and the
\* file that was being written possibly torn.
Survivors ==
  { [loc |-> l, ent |-> [t \in AssetTokens |-> IF t \in new THEN vol.ent[t] ELSE disk.ent[t]],
     locks |-> k, tomb |-> b, content |-> c, desc |-> d] :
      l \in {vol.loc, disk.loc}, new \in SUBSET AssetTokens, k \in {vol.locks, disk.locks},
      b \in {vol.tomb, disk.tomb}, c \in {vol.content, disk.content},
      d \in {vol.desc, disk.desc} }

Torn(v) ==
  CASE volumeJob.op = "none" -> {v}
    [] volumeJob.op # "none" /\ volumeJob.at \in StageEntries /\ v.ent[volumeJob.t][volumeJob.at] = "none" ->
         {v, [v EXCEPT !.ent[volumeJob.t][volumeJob.at] = "torn"]}
    [] volumeJob.op # "none" /\ volumeJob.at = "tombstone" /\ v.tomb[volumeJob.t] = "none" ->
         {v, [v EXCEPT !.tomb[volumeJob.t] = "torn"]}
    [] OTHER -> {v}

PowerLoss ==
  /\ assetCrashes < MaxAssetCrashes
  /\ assetCrashes' = assetCrashes + 1
  /\ \E s \in Survivors : vol' \in Torn(s)
  /\ disk' = vol'
  /\ volumeJob' = NoJob /\ owed' = {}
  /\ UNCHANGED <<asset, heldStages, assetReceipts, answer, assetFaults>>

AssetNext ==
  \/ \E t \in AssetTokens, d \in AssetDescriptors : stage(t, d)
  \/ \E t \in AssetTokens : commit_request(t)
  \/ \E t \in AssetTokens, r \in AssetReasons : quarantine_request(t, r)
  \/ create_stage_directory \/ write_stage \/ finish_failed_stage
  \/ isolate_failed_stage
  \/ prepare_publish_intent \/ install_content \/ sync_content
  \/ publish_descriptor \/ sync_descriptor \/ consume_stage \/ retire_stage
  \/ prepare_quarantine \/ move_to_quarantine \/ finish_quarantine_recovery
  \/ PowerLoss

AssetSpec == AssetInit /\ [][AssetNext]_assetVars

----------------------------------------------------------------------------
(* Properties *)

\* A descriptor that can be found, after any power loss too, has its whole
\* content behind it: read_into and metadata never fail for a committed key.
AssetDescriptorsHaveContent ==
  \A k \in AssetKeys : vol.desc[k] # "none" => vol.content[AssetDigestOf[k]] = "ok"

\* A commit receipt stays true through power losses, a quarantined stage stays
\* in quarantine, and no token is ever given both receipts.  (Its tombstone may
\* be lost: a retry that finds it does not synchronise it again.)
AssetReceiptsAreTrue ==
  \A t \in AssetTokens :
    /\ <<t, "committed">> \in assetReceipts =>
         Committed(t) = asset[t].media /\ <<t, "quarantined">> \notin assetReceipts
    /\ <<t, "quarantined">> \in assetReceipts => vol.loc[t] = "quarantine"

\* What a commit answered survives every power loss, content included.
AssetsAreDurable == AssetDescriptorsHaveContent /\ AssetReceiptsAreTrue

\* A commit that failed on I/O leaves the stage retryable: repeating it, with
\* no power loss in between and no quarantine begun, is never an integrity failure
\* (unless an earlier power loss tore one of the stage's files: such a stage can
\* be neither committed nor, when the tear is in an intent, quarantined).
AssetFailuresAreRetryable ==
  answer.op = "commit" /\ answer.owed /\ answer.res = "integrity" =>
    \/ vol.ent[answer.t]["quarantine-intent"] # "none"
    \/ "torn" \in {vol.tomb[answer.t]} \cup {vol.ent[answer.t][e] : e \in StageEntries}

\* Neither a power loss nor a failed call takes back what the volume promised: what
\* was committed stays, and what was refused for a fault can be tried again.
AssetPromisesHold == AssetsAreDurable /\ AssetFailuresAreRetryable
=============================================================================
