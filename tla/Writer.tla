------------------------------- MODULE Writer -------------------------------
(***************************************************************************)
(* Backup runs (arq_writer/backup.py, class Backup) against one computer   *)
(* subtree.  A run is a process: it chooses its keys, writes the keyset,   *)
(* seeds its blob cache from the destination, walks each source folder in  *)
(* name order writing blobs, flushes its packs and only then writes the    *)
(* folder's backuprecord.  Another thread may cancel, pause or resume it   *)
(* at any time, and it may die at any time with everything in memory lost. *)
(* Nothing on the destination tells one process that another is at work.   *)
(***************************************************************************)
EXTENDS Destination

CONSTANTS
  Writers,    \* concurrent runs
  Large,      \* contents whose blob exceeds large_blob_threshold
  MaxPack,    \* max_pack_bytes, in blobs
  MaxRuns,    \* bound: runs started
  MaxTime     \* bound: the clock stops here

ASSUME WriterAssumption ==
  /\ MaxPack \in Nat
  /\ MaxRuns \in Nat
  /\ MaxTime \in Nat
  /\ Large \subseteq Contents

VARIABLES
  pc,         \* where each run is
  ses,        \* what the run chose when it began
  cache,      \* _written_blobs: locations the run may reuse
  buf,        \* PackBuilder buffers, one per pack family
  job,        \* the add_folder call in progress
  cancelled,  \* Backup._cancelled
  paused,     \* Backup._paused
  nextKey,    \* fresh keys are numbered
  nextPack,   \* fresh pack paths are numbered
  runs,       \* runs started
  clock       \* time of the newest record written

runVars == <<pc, ses, cache, buf, job, cancelled, paused>>
freshVars == <<nextKey, nextPack, runs, clock>>

FlushOrder == <<"blob", "tree", "large">>
Families == {"blob", "tree", "large"}

NoSession == [key |-> NoKey, reused |-> FALSE, dedup |-> FALSE,
              packed |-> FALSE, sources |-> {}]
EmptyBuffer == [path |-> NoPack, body |-> <<>>]
EmptyBuffers == [fam \in Families |-> EmptyBuffer]
NoFolder == "none"
\* A folder is named by a UUID.
ASSUME FolderAssumption == NoFolder \notin Folders
NoRoot == Standalone(Blob(NoKey, EmptyTree))
NoJob == [folder |-> NoFolder, prior |-> EmptyTree, next |-> 1,
          tree |-> EmptyTree, root |-> NoRoot, acl |-> {}]

Active(w) == pc[w] # "idle"

WriterInit ==
  /\ pc = [w \in Writers |-> "idle"]
  /\ ses = [w \in Writers |-> NoSession]
  /\ cache = [w \in Writers |-> {}]
  /\ buf = [w \in Writers |-> EmptyBuffers]
  /\ job = [w \in Writers |-> NoJob]
  /\ cancelled = [w \in Writers |-> FALSE]
  /\ paused = [w \in Writers |-> FALSE]
  /\ nextKey = 1
  /\ nextPack = 1
  /\ runs = 0
  /\ clock = 0

-----------------------------------------------------------------------------
\* Beginning a run.

\* Mutant: a loaded keyset is noted, fresh keys are drawn all the same.
StartRunDrawing(w, dedup, opens, packed, sources) ==
  /\ pc[w] = "idle"
  /\ runs < MaxRuns
  /\ pc' = [pc EXCEPT ![w] = "keyset"]
  /\ ses' = [ses EXCEPT ![w] =
       [key |-> nextKey, reused |-> dedup /\ opens /\ keyset # NoKey,
        dedup |-> dedup, packed |-> packed, sources |-> sources]]
  /\ nextKey' = nextKey + 1
  /\ runs' = runs + 1
  /\ UNCHANGED <<destVars, cache, buf, job, cancelled, paused, nextPack,
                 clock>>

\* Backup.__init__: a deduplicating run takes the keys of the keyset it finds
\* and can open (_try_load_existing_keyset: any error counts as "no keyset");
\* every other run draws fresh ones.
StartRun(w, dedup, opens, packed, sources) ==
  LET reused == dedup /\ opens /\ keyset # NoKey
  IN  /\ pc[w] = "idle"
      /\ runs < MaxRuns
      /\ pc' = [pc EXCEPT ![w] = "keyset"]
      /\ ses' = [ses EXCEPT ![w] =
           [key |-> IF reused THEN keyset ELSE nextKey, reused |-> reused,
            dedup |-> dedup, packed |-> packed, sources |-> sources]]
      /\ nextKey' = IF reused THEN nextKey ELSE nextKey + 1
      /\ runs' = runs + 1
      /\ UNCHANGED <<destVars, cache, buf, job, cancelled, paused, nextPack,
                     clock>>

\* init_plan, first half: the keyset is written unless it was reused.
WriteKeyset(w) ==
  /\ pc[w] = "keyset"
  /\ keyset' = IF ses[w].reused THEN keyset ELSE ses[w].key
  /\ pc' = [pc EXCEPT ![w] = "seed"]
  /\ UNCHANGED <<objects, packs, records, ses, cache, buf, job, cancelled,
                 paused, freshVars>>

\* Records the run can decrypt.
SeedRecords(w) ==
  {r \in UNION {Latest(f) : f \in Folders} : r.key = ses[w].key}

\* Every location the records lead to.  A tree's own location is taken before
\* the tree is fetched; one that cannot be read gives nothing more.  The ACL
\* of a record's root node is not harvested.
Harvest(recs, trees) ==
  {r.root : r \in recs} \cup
  UNION {TreeLocs(TreeOf(r)) : r \in {s \in trees : OnDisk(s.root)}}

\* init_plan, second half: seed_existing_destination.  The standalone
\* listing comes first and wins.  Of two packed locations of one blob the
\* code keeps the first it meets; here the run may use either.
Seed(w) ==
  /\ pc[w] = "seed"
  /\ \E listed \in Readable(objects) :
     \E recs \in Readable(SeedRecords(w)) :
     \E trees \in Readable(recs) :
       cache' = [cache EXCEPT ![w] =
         IF ~ses[w].dedup THEN {}
         ELSE {Standalone(id) : id \in listed} \cup
              {l \in Harvest(recs, trees) : l.id \notin listed}]
  /\ pc' = [pc EXCEPT ![w] = "ready"]
  /\ UNCHANGED <<destVars, ses, buf, job, cancelled, paused, freshVars>>

-----------------------------------------------------------------------------
\* _write_blob and PackBuilder.

Cached(w, id) == {l \in cache[w] : l.id = id}

\* PackBuilder.add flushes first when the blob would overflow the pack.
Overflows(w, fam) ==
  LET body == buf[w][fam].body
  IN  body # <<>> /\ Len(body) + 1 > MaxPack
FreshPack(w, fam) == buf[w][fam].body = <<>> \/ Overflows(w, fam)

\* Mutant: the offset goes on from the full pack.
NewLocKeepingOffset(w, id, fam) ==
  IF ~ses[w].packed THEN Standalone(id)
  ELSE Packed(id, IF FreshPack(w, fam) THEN nextPack ELSE buf[w][fam].path,
              Len(buf[w][fam].body) + 1)

NewLoc(w, id, fam) ==
  IF ~ses[w].packed THEN Standalone(id)
  ELSE IF FreshPack(w, fam) THEN Packed(id, nextPack, 1)
  ELSE Packed(id, buf[w][fam].path, Len(buf[w][fam].body) + 1)

\* The locations _write_blob may return for a blob.
BlobLocs(w, id, fam) ==
  IF Cached(w, id) # {} THEN Cached(w, id) ELSE {NewLoc(w, id, fam)}

\* Mutant: the path is not drawn anew.
AppendToPackSamePath(w, l, fam) ==
  /\ packs' = IF Overflows(w, fam) THEN packs \cup {buf[w][fam]} ELSE packs
  /\ buf' = [buf EXCEPT ![w][fam].body =
       IF FreshPack(w, fam) THEN <<l.id>> ELSE Append(@, l.id)]
  /\ UNCHANGED <<objects, nextPack>>

\* The PackBuilder after the blob at l was appended, its pack flushed before
\* when it was full.  A pack path is drawn when its first blob arrives.
AppendToPack(w, l, fam) ==
  /\ packs' = IF Overflows(w, fam) THEN packs \cup {buf[w][fam]} ELSE packs
  /\ buf' = [buf EXCEPT ![w][fam] =
       [path |-> l.pack,
        body |-> IF FreshPack(w, fam) THEN <<l.id>> ELSE Append(@.body, l.id)]]
  /\ nextPack' = IF FreshPack(w, fam) THEN nextPack + 1 ELSE nextPack
  /\ UNCHANGED objects

\* _write_blob, once it settled on l: a cached blob is not written again.
StoreBlob(w, l, fam) ==
  /\ cache' = [cache EXCEPT ![w] = @ \cup {l}]
  /\ IF Cached(w, l.id) # {}
     THEN UNCHANGED <<objects, packs, buf, nextPack>>
     ELSE IF ses[w].packed
     THEN AppendToPack(w, l, fam)
     ELSE /\ objects' = objects \cup {l.id}
          /\ UNCHANGED <<packs, buf, nextPack>>

ContentFamily(c) == IF c \in Large THEN "large" ELSE "blob"

-----------------------------------------------------------------------------
\* Walking one source folder (add_folder, _walk, _walk_file, _walk_dir).

\* PriorTreeIndex: the tree of the folder's latest record, when the run
\* reuses the keyset and that tree can be read.
PriorTrees(w, folder) ==
  LET usable == {r \in Latest(folder) : r.key = ses[w].key /\ OnDisk(r.root)}
      trees == {TreeOf(r) : r \in usable}
  IN  IF ~(ses[w].dedup /\ ses[w].reused) \/ usable = {} THEN {EmptyTree}
      ELSE IF "readError" \in Allowed THEN trees \cup {EmptyTree} ELSE trees

BeginFolder(w, folder) ==
  /\ pc[w] = "ready"
  /\ folder \in ses[w].sources
  /\ \E tree \in PriorTrees(w, folder) :
       job' = [job EXCEPT ![w] =
         [NoJob EXCEPT !.folder = folder, !.prior = tree]]
  /\ pc' = [pc EXCEPT ![w] = "walk"]
  /\ UNCHANGED <<destVars, ses, cache, buf, cancelled, paused, freshVars>>

\* _check_cancel lets the walker into the next entry.
MayWalk(w) ==
  /\ pc[w] = "walk"
  /\ job[w].next <= NFiles
  /\ ~cancelled[w]
  /\ ~paused[w]

\* The job after its next file was given location l.
WithFile(j, l) == [j EXCEPT !.next = j.next + 1,
                            !.tree = [j.tree EXCEPT ![j.next] = l]]

\* Special, too large, or unreadable: the file is left out.
SkipFile(w) ==
  /\ MayWalk(w)
  /\ job' = [job EXCEPT ![w].next = @ + 1]
  /\ UNCHANGED <<destVars, pc, ses, cache, buf, cancelled, paused, freshVars>>

\* The file's stat matches its node in the prior tree: its locations are
\* taken over unread, and nobody looks whether they are still there.
ReuseFile(w) ==
  /\ MayWalk(w)
  /\ job[w].prior[job[w].next] # NoLoc
  /\ LET l == job[w].prior[job[w].next]
     IN  /\ job' = [job EXCEPT ![w] = WithFile(@, l)]
         /\ cache' = [cache EXCEPT ![w] =
              IF Cached(w, l.id) = {} THEN @ \cup {l} ELSE @]
  /\ UNCHANGED <<destVars, pc, ses, buf, cancelled, paused, freshVars>>

\* The file is read and its content stored.
StoreFile(w, content) ==
  /\ MayWalk(w)
  /\ \E l \in BlobLocs(w, Blob(ses[w].key, content), ContentFamily(content)) :
       /\ StoreBlob(w, l, ContentFamily(content))
       /\ job' = [job EXCEPT ![w] = WithFile(@, l)]
  /\ UNCHANGED <<keyset, records, pc, ses, cancelled, paused, nextKey,
                 runs, clock>>

\* _check_cancel raises BackupCancelled: the run ends, its buffers with it.
End(w) ==
  /\ pc' = [pc EXCEPT ![w] = "idle"]
  /\ ses' = [ses EXCEPT ![w] = NoSession]
  /\ cache' = [cache EXCEPT ![w] = {}]
  /\ buf' = [buf EXCEPT ![w] = EmptyBuffers]
  /\ job' = [job EXCEPT ![w] = NoJob]
  /\ cancelled' = [cancelled EXCEPT ![w] = FALSE]
  /\ paused' = [paused EXCEPT ![w] = FALSE]

\* Mutant: a pause hides the cancel.
ObserveCancelUnlessPaused(w) ==
  /\ pc[w] = "walk"
  /\ job[w].next <= NFiles
  /\ cancelled[w]
  /\ ~paused[w]
  /\ End(w)
  /\ UNCHANGED <<destVars, freshVars>>

ObserveCancel(w) ==
  /\ pc[w] = "walk"
  /\ job[w].next <= NFiles
  /\ cancelled[w]
  /\ End(w)
  /\ UNCHANGED <<destVars, freshVars>>

\* Mutant: the prior tree is stored in place of the one walked.
StoreTreeOfPrior(w) ==
  /\ pc[w] = "walk"
  /\ job[w].next > NFiles
  /\ \E l \in BlobLocs(w, Blob(ses[w].key, job[w].prior), "tree") :
       /\ StoreBlob(w, l, "tree")
       /\ job' = [job EXCEPT ![w].root = l]
  /\ pc' = [pc EXCEPT ![w] = "acl"]
  /\ UNCHANGED <<keyset, records, ses, cancelled, paused, nextKey,
                 runs, clock>>

\* _walk_dir after its last entry: the tree blob.  No cancel is seen here.
StoreTree(w) ==
  /\ pc[w] = "walk"
  /\ job[w].next > NFiles
  /\ \E l \in BlobLocs(w, Blob(ses[w].key, job[w].tree), "tree") :
       /\ StoreBlob(w, l, "tree")
       /\ job' = [job EXCEPT ![w].root = l]
  /\ pc' = [pc EXCEPT ![w] = "acl"]
  /\ UNCHANGED <<keyset, records, ses, cancelled, paused, nextKey,
                 runs, clock>>

\* The root directory's ACL blob, when it has one.
StoreRootAcl(w, content) ==
  /\ pc[w] = "acl"
  /\ "rootAcl" \in Allowed
  /\ \E l \in BlobLocs(w, Blob(ses[w].key, content), ContentFamily(content)) :
       /\ StoreBlob(w, l, ContentFamily(content))
       /\ job' = [job EXCEPT ![w].acl = {l}]
  /\ pc' = [pc EXCEPT ![w] = "flush"]
  /\ UNCHANGED <<keyset, records, ses, cancelled, paused, nextKey,
                 runs, clock>>

NoRootAcl(w) ==
  /\ pc[w] = "acl"
  /\ pc' = [pc EXCEPT ![w] = "flush"]
  /\ UNCHANGED <<destVars, ses, cache, buf, job, cancelled, paused, freshVars>>

-----------------------------------------------------------------------------
\* Finishing a folder.

\* Mutant: two pack families are forgotten.
FlushedBlobs(w) == buf[w]["blob"].body = <<>>

Flushed(w) == \A fam \in Families : buf[w][fam].body = <<>>

\* Mutant: the buffer survives its flush.
FlushPackKeepingBuffer(w) ==
  /\ pc[w] = "flush"
  /\ \E fam \in Families : /\ buf[w][fam].body # <<>>
                           /\ packs' = packs \cup {buf[w][fam]}
  /\ UNCHANGED <<keyset, objects, records, runVars, freshVars>>

\* flush_packs: blob, tree, large, each when it holds something.
FlushPack(w) ==
  /\ pc[w] = "flush"
  /\ \E i \in 1..3 :
       LET fam == FlushOrder[i]
       IN  /\ buf[w][fam].body # <<>>
           /\ \A k \in 1..(i - 1) : buf[w][FlushOrder[k]].body = <<>>
           /\ packs' = packs \cup {buf[w][fam]}
           /\ buf' = [buf EXCEPT ![w][fam] = EmptyBuffer]
  /\ UNCHANGED <<keyset, objects, records, pc, ses, cache, job, cancelled,
                 paused, freshVars>>

\* The record, named by the second it is written in: another record of the
\* folder from the same second is replaced.
NewRecord(w, t) ==
  [folder |-> job[w].folder, time |-> t, key |-> ses[w].key,
   root |-> job[w].root, acl |-> job[w].acl]

WriteRecord(w, t) ==
  /\ pc[w] = "flush"
  /\ Flushed(w)
  /\ clock <= t
  /\ clock' = t
  /\ records' = {r \in records : ~SamePath(r, NewRecord(w, t))}
                  \cup {NewRecord(w, t)}
  /\ ses' = [ses EXCEPT ![w].sources = @ \ {job[w].folder}]
  /\ job' = [job EXCEPT ![w] = NoJob]
  /\ pc' = [pc EXCEPT ![w] = "ready"]
  /\ UNCHANGED <<keyset, objects, packs, cache, buf, cancelled, paused,
                 nextKey, nextPack, runs>>

\* Every source done: the run returns.
FinishRun(w) ==
  /\ pc[w] = "ready"
  /\ ses[w].sources = {}
  /\ End(w)
  /\ UNCHANGED <<destVars, freshVars>>

-----------------------------------------------------------------------------
\* What other threads and the world do to a run.

Cancel(w) ==
  /\ Active(w)
  /\ cancelled' = [cancelled EXCEPT ![w] = TRUE]
  /\ paused' = [paused EXCEPT ![w] = FALSE]
  /\ UNCHANGED <<destVars, pc, ses, cache, buf, job, freshVars>>

Pause(w) ==
  /\ Active(w)
  /\ paused' = [paused EXCEPT ![w] = TRUE]
  /\ UNCHANGED <<destVars, pc, ses, cache, buf, job, cancelled, freshVars>>

Resume(w) ==
  /\ paused[w]
  /\ paused' = [paused EXCEPT ![w] = FALSE]
  /\ UNCHANGED <<destVars, pc, ses, cache, buf, job, cancelled, freshVars>>

\* The process is killed, or a write to the destination raises.
Crash(w) ==
  /\ Active(w)
  /\ End(w)
  /\ UNCHANGED <<destVars, freshVars>>

-----------------------------------------------------------------------------
\* The steps a run takes by itself, and those it suffers.
RunStep(w) ==
  \/ WriteKeyset(w)
  \/ Seed(w)
  \/ \E folder \in Folders : BeginFolder(w, folder)
  \/ SkipFile(w)
  \/ ReuseFile(w)
  \/ \E c \in Contents : StoreFile(w, c)
  \/ ObserveCancel(w)
  \/ StoreTree(w)
  \/ \E c \in Contents : StoreRootAcl(w, c)
  \/ NoRootAcl(w)
  \/ FlushPack(w)
  \/ \E t \in 1..MaxTime : WriteRecord(w, t)
  \/ FinishRun(w)

Disturb(w) == Cancel(w) \/ Pause(w) \/ Resume(w) \/ Crash(w)
=============================================================================
