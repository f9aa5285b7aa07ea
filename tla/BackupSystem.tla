---------------------------- MODULE BackupSystem ----------------------------
(***************************************************************************)
(* Backup runs and retention runs on one destination.  They share its      *)
(* files and nothing else: the code takes no lock, so what keeps a         *)
(* retention run away from a backup run is the operator, and               *)
(* "overlap" \in Allowed takes the operator's care away.                   *)
(***************************************************************************)
EXTENDS Writer, Retention

vars == <<destVars, runVars, freshVars, retentionVars>>

Init == DestInit /\ WriterInit /\ RetentionInit

NoRetention == gpc = "idle" \/ "overlap" \in Allowed
NoBackup == "overlap" \in Allowed \/ \A w \in Writers : ~Active(w)

\* The operator's care of the keys: the first run is alone until it has ended
\* or written its keyset, the others deduplicate and can open it.
KeysTended(dedup, opens) ==
  \/ "rekey" \in Allowed
  \/ keyset = NoKey /\ \A w \in Writers : ~Active(w)
  \/ keyset # NoKey /\ dedup /\ opens

BackupBegins(w) ==
  /\ NoRetention
  /\ \E dedup, opens, packed \in BOOLEAN :
       /\ KeysTended(dedup, opens)
       /\ \E sources \in (SUBSET Folders) \ {{}} :
            StartRun(w, dedup, opens, packed, sources)

RetentionBegins ==
  /\ NoBackup
  /\ \E policy \in Policies :
     \E folders \in {{}, Folders} \cup {{f} : f \in Folders} :
       StartRetention(policy, folders)

Next ==
  \/ \E w \in Writers : /\ BackupBegins(w) \/ RunStep(w) \/ Disturb(w)
                        /\ UNCHANGED retentionVars
  \/ /\ RetentionBegins \/ RetentionStep \/ RetentionCrash
     /\ UNCHANGED <<runVars, freshVars>>

Spec == Init /\ [][Next]_vars

\* A run's own steps are taken as long as its process lives; nothing obliges
\* anyone to start, cancel, pause, resume or kill a run.
FairSpec ==
  /\ Spec
  /\ \A w \in Writers : WF_vars(RunStep(w) /\ UNCHANGED retentionVars)
  /\ WF_vars(RetentionStep /\ UNCHANGED <<runVars, freshVars>>)

-----------------------------------------------------------------------------
\* Types.

Keys == Nat
BlobIdOf(C) == [key : Keys, of : C]
DataLoc == [id : BlobIdOf(Contents), pack : Nat, off : Nat]
Tree == [Files -> DataLoc \cup {NoLoc}]
BlobId == [key : Keys, of : Contents \cup Tree]
TreeLoc == [id : BlobIdOf(Tree), pack : Nat, off : Nat]
Pack == [path : Nat \ {NoPack}, body : Seq(BlobId)]
Record == [folder : Folders, time : Nat, key : Keys, root : TreeLoc,
           acl : SUBSET DataLoc]
Session == [key : Keys, reused : BOOLEAN, dedup : BOOLEAN, packed : BOOLEAN,
            sources : SUBSET Folders]
Job == [folder : Folders \cup {NoFolder}, prior : Tree, next : 1..(NFiles + 1),
        tree : Tree, root : TreeLoc, acl : SUBSET DataLoc]
Stages == {"idle", "keyset", "seed", "ready", "walk", "acl", "flush"}
GcStages == {"idle", "prune", "list objects", "objects", "list packs", "packs"}
GcMemory == [policy : Policies \cup {KeepAll}, folders : SUBSET Folders,
             victims : SUBSET Record, live : SUBSET BlobId,
             todo : SUBSET BlobId, livePacks : SUBSET Nat,
             todoPacks : SUBSET Pack, leftObjects : SUBSET BlobId,
             leftPacks : SUBSET Pack]

\* Every variable has its type.
TypeOK ==
  /\ keyset \in Keys
  /\ objects \subseteq BlobId
  /\ packs \subseteq Pack
  /\ records \subseteq Record
  /\ pc \in [Writers -> Stages]
  /\ ses \in [Writers -> Session]
  /\ cache \in [Writers -> SUBSET (DataLoc \cup TreeLoc)]
  /\ buf \in [Writers -> [Families -> [path : Nat, body : Seq(BlobId)]]]
  /\ job \in [Writers -> Job]
  /\ cancelled \in [Writers -> BOOLEAN]
  /\ paused \in [Writers -> BOOLEAN]
  /\ nextKey \in Nat \ {NoKey}
  /\ nextPack \in Nat \ {NoPack}
  /\ runs \in Nat
  /\ clock \in Nat
  /\ gpc \in GcStages
  /\ gc \in GcMemory
  /\ gruns \in Nat

-----------------------------------------------------------------------------
\* Safety.

\* Every backuprecord on the destination can be restored: the keyset there
\* decrypts it and every blob it reaches, and each of them is where the
\* record says it is (add_folder flushes before it writes the record,
\* gc_orphan_blobs deletes what no record refers to).
RecordsRestorable == \A r \in records : Restorable(r)

\* A blob the run knows the location of is on the destination or in one of
\* its own pack buffers.
InBuffer(w, l) ==
  \E fam \in Families : /\ buf[w][fam].path = l.pack
                        /\ l.off \in DOMAIN buf[w][fam].body
                        /\ buf[w][fam].body[l.off] = l.id
Backed(w, l) == OnDisk(l) \/ InBuffer(w, l)

\* Whatever a run would refer to if it finished now can be restored once its
\* buffers are flushed: its cache, the prior tree it takes over files from,
\* and the tree and the record it builds (_written_blobs, _prior_tree,
\* root_node).
Usable(w, l) == Backed(w, l) /\ l.id.key = ses[w].key
RunBacked(w) ==
  /\ \A l \in cache[w] : Backed(w, l)
  /\ \A l \in TreeLocs(job[w].prior) : OnDisk(l) /\ l.id.key = ses[w].key
  /\ \A l \in TreeLocs(job[w].tree) \cup job[w].acl : Usable(w, l)
  /\ pc[w] \in {"acl", "flush"} => /\ Usable(w, job[w].root)
                                  /\ job[w].root.id.of = job[w].tree
RunsBacked == \A w \in Writers : RunBacked(w)

\* When a sweep ends, each standalone object and each pack that no record
\* refers to is one that a failed listing hid or whose own unlink failed
\* (gc_orphan_blobs).
NothingLeftBehind ==
  SweepDone =>
    LET locs == UNION {LocsOf(r) : r \in records}
    IN  /\ objects \subseteq {l.id : l \in locs} \cup gc.leftObjects
        /\ \A p \in packs : p.path \in {l.pack : l \in locs} \/ p \in gc.leftPacks

\* A policy that keeps anything keeps the newest record of every folder: no
\* step removes it, except a backup that replaces it (prune_records).
NewestKept ==
  [][\A f \in Folders : \A r \in Latest(f) :
       \E s \in records' : SamePath(r, s)]_vars

\* Pruning leaves at every moment what the policy promises: a record goes
\* only while "last" newer ones stay, and for every kind of bucket either a
\* newer record of its bucket stays or "limits" newer buckets still have one
\* (select_retained, prune_records).  It holds of the records that remain,
\* whatever order they are unlinked in, which unlinks fail, and whatever
\* backups add meanwhile.
Justified(r, policy, rest) ==
  LET newer == {s \in rest : s.folder = r.folder /\ s.time > r.time}
  IN  /\ Cardinality(newer) >= policy.last
      /\ \A kind \in Kinds :
           LET buckets == {Bucket(s.time, kind) : s \in newer}
           IN  \/ Bucket(r.time, kind) \in buckets
               \/ Cardinality(buckets) >= policy.limits[kind]
PolicyHonoured ==
  [][\A r \in records :
       \/ \E s \in records' : SamePath(r, s)
       \/ Justified(r, gc.policy, records')]_vars

-----------------------------------------------------------------------------
\* What a destination promises, see SnapshotStore.

ViewOf(tree) == [f \in Files |-> tree[f].id.of]
SnapshotOf(r) ==
  [folder |-> r.folder, time |-> r.time, view |-> ViewOf(TreeOf(r))]

Store == INSTANCE SnapshotStore WITH
  Walkers <- Writers,
  NoContent <- NoLoc.id.of,
  Times <- 1..MaxTime,
  snaps <- {SnapshotOf(r) : r \in {s \in records : Restorable(s)}},
  drafts <- [w \in Writers |-> [folder |-> job[w].folder,
                                view |-> ViewOf(job[w].tree)]]

\* With an operator who keeps runs apart and keys alone, backup and retention
\* implement the store: what can be restored changes by whole snapshots,
\* each of them exactly what its run walked, however runs interleave, are
\* cancelled or die (add_folder, apply_retention).
ImplementsStore == Store!Spec

-----------------------------------------------------------------------------
\* Why it works: the inductive invariant behind RecordsRestorable.

\* One key serves the destination.  A run with a fresh key is alone until it
\* has written its keyset.
KeyAgrees(w) ==
  CASE pc[w] = "idle" -> TRUE
    [] pc[w] = "keyset" /\ ~ses[w].reused ->
         /\ ses[w].key # NoKey
         /\ keyset = NoKey
         /\ \A v \in Writers : Active(v) => v = w
    [] OTHER -> ses[w].key = keyset /\ keyset # NoKey
KeysAgree ==
  /\ \A w \in Writers : KeyAgrees(w)
  /\ \A r \in records : r.key = keyset /\ keyset # NoKey

\* A buffer that holds something has a pack path, a walk has a folder, and an
\* idle run nothing.
BuffersNamed ==
  \A w \in Writers : \A fam \in Families :
    buf[w][fam].body # <<>> => buf[w][fam].path # NoPack
FoldersNamed ==
  \A w \in Writers :
    pc[w] \in {"walk", "acl", "flush"} => job[w].folder \in Folders
IdleIsClean ==
  \A w \in Writers :
    ~Active(w) => /\ cache[w] = {}
                  /\ buf[w] = EmptyBuffers
                  /\ job[w] = NoJob
                  /\ ~paused[w]

\* No root ACL, which retention would not see.
NoAcls == /\ \A r \in records : r.acl = {}
          /\ \A w \in Writers : job[w].acl = {}

\* Retention is alone, and what it collected covers every record.
RetentionAlone == gpc # "idle" => \A w \in Writers : ~Active(w)
SweepInformed ==
  \A r \in records : \A l \in LocsOf(r) :
    /\ gpc \in {"list objects", "objects"} => l.id \in gc.live
    /\ gpc = "objects" => l.id \notin gc.todo
    /\ gpc \in {"list packs", "packs"} => l.pack \in gc.livePacks
    /\ gpc = "packs" => \A p \in gc.todoPacks : p.path # l.pack

Consistent ==
  /\ KeysAgree
  /\ BuffersNamed
  /\ FoldersNamed
  /\ IdleIsClean
  /\ NoAcls
  /\ RetentionAlone
  /\ SweepInformed
  /\ RunsBacked
  /\ RecordsRestorable

-----------------------------------------------------------------------------
\* What the repository says of cases the code does not keep from happening, each
\* refuted by TLC when Allowed holds what it names; the last one by a run.

\* init_plan: "Don't overwrite an existing valid keyset" ("rekey").
KeysetKept == [][keyset # NoKey => keyset' = keyset]_vars

\* _collect_referenced_blobs: "Don't lose blobs on a single corrupt record"
\* ("readError").  No step makes a record that stays unrestorable.
SweepSparesRecords ==
  [][\A r \in records \cap records' : Restorable(r) => Restorable(r)']_vars

\* gc_orphan_blobs deletes objects "whose blob_id isn't referenced by any
\* surviving record": no step takes a blob away from a record that stays.
SweepSparesReferenced ==
  [][\A r \in records \cap records' :
       \A l \in LocsOf(r) : OnDisk(l) => OnDisk(l)']_vars

-----------------------------------------------------------------------------
\* Liveness.

\* Once cancelled, a run ends, even when it was paused before or after
\* (cancel, pause, _check_cancel).
CancelEndsRun == \A w \in Writers : cancelled[w] ~> ~Active(w)

\* Nothing is ever stuck by itself: a backup run ends unless it stays paused,
\* and so does a retention run, whatever fails on its way (build_backup,
\* prune_records, gc_orphan_blobs).
EverythingEnds ==
  /\ \A w \in Writers : []<>(~Active(w) \/ paused[w])
  /\ []<>(gpc = "idle")
=============================================================================
