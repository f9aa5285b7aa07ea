------------------------ MODULE BackupSafety_proofs ------------------------
(***************************************************************************)
(* BackupSystem is well typed, for every number of runs, folders, files    *)
(* and contents, whatever happens; and every record stays restorable as    *)
(* long as the operator keeps keys and runs apart, reads do not fail and   *)
(* no root directory has an ACL.  The argument for the second is the       *)
(* invariant Consistent: one key serves the destination, whatever a run    *)
(* holds on to is on disk or in its own buffers, and while a retention run *)
(* deletes, what it collected still covers every record.                   *)
(*                                                                         *)
(* What backups and retention promise beyond that: pruning honours its     *)
(* policy and keeps the newest record, a sweep accounts for what it leaves *)
(* behind, and both implement SnapshotStore.  The first two hold though    *)
(* runs overlap: they need one key and readable records only, because a    *)
(* record that cannot be opened counts as the oldest.                      *)
(***************************************************************************)
EXTENDS BackupSystem, TLAPS, FiniteSetTheorems, WellFoundedInduction

(* Types. *)
USE DestinationAssumption, WriterAssumption, RetentionAssumption

-----------------------------------------------------------------------------
\* Locations and trees have their types.
LEMMA NoLocFacts ==
  /\ \A key \in Keys, c \in Contents : Blob(key, c) \in BlobIdOf(Contents)
  /\ \A key \in Keys, tree \in Tree : Blob(key, tree) \in BlobIdOf(Tree)
  /\ EmptyTree \in Tree
  /\ NoRoot \in TreeLoc
  /\ NoJob \in Job
PROOF
  <1>1. \A key \in Keys, c \in Contents : Blob(key, c) \in BlobIdOf(Contents)
    BY DEF Blob, BlobIdOf
  <1>2. \A key \in Keys, tree \in Tree : Blob(key, tree) \in BlobIdOf(Tree)
    BY DEF Blob, BlobIdOf
  <1>3. EmptyTree \in Tree
    BY DEF EmptyTree, Tree
  <1>4. NoRoot \in TreeLoc
    BY <1>2, <1>3 DEF NoRoot, Standalone, TreeLoc, Keys, NoKey, NoPack
  <1>5. NoJob \in Job
    BY <1>3, <1>4 DEF NoJob, Job
  <1> QED BY <1>1, <1>2, <1>3, <1>4, <1>5

\* The variables start with their types.
LEMMA InitTyped == Init => TypeOK
PROOF
  <1> SUFFICES ASSUME Init PROVE TypeOK
    OBVIOUS
  <1> USE DEF Init, DestInit, WriterInit, RetentionInit
  <1>1. keyset \in Keys /\ objects \subseteq BlobId /\ packs \subseteq Pack
        /\ records \subseteq Record
    BY DEF Keys, NoKey
  <1>2. /\ pc \in [Writers -> Stages]
        /\ ses \in [Writers -> Session]
        /\ cache \in [Writers -> SUBSET (DataLoc \cup TreeLoc)]
    BY DEF Stages, Session, NoSession, Keys, NoKey
  <1>3. buf \in [Writers -> [Families -> [path : Nat, body : Seq(BlobId)]]]
    BY DEF EmptyBuffers, EmptyBuffer, NoPack
  <1>4. job \in [Writers -> Job]
    BY NoLocFacts
  <1>5. gc \in GcMemory
    BY DEF GcMemory, NoGc
  <1> QED
    BY <1>1, <1>2, <1>3, <1>4, <1>5
    DEF TypeOK, NoKey, NoPack, GcStages
-----------------------------------------------------------------------------
\* What the helpers of a run return.

\* The locations in a tree are those of file contents.
LEMMA TreeLocsTyped ==
  ASSUME NEW tree \in Tree
  PROVE  TreeLocs(tree) \subseteq DataLoc
BY DEF TreeLocs, Tree

\* A record's root is the location of a tree.
LEMMA RecordLocsTyped ==
  ASSUME NEW r \in Record
  PROVE  r.root \in TreeLoc /\ TreeOf(r) \in Tree
BY DEF Record, TreeLoc, BlobIdOf, TreeOf

\* What seeding harvests from records are locations.
LEMMA HarvestTyped ==
  ASSUME NEW recs \in SUBSET Record, NEW trees \in SUBSET recs
  PROVE  Harvest(recs, trees) \subseteq DataLoc \cup TreeLoc
BY TreeLocsTyped, RecordLocsTyped DEF Harvest

\* A listed object is the location of a blob.
LEMMA StandaloneTyped ==
  ASSUME NEW id \in BlobId
  PROVE  Standalone(id) \in DataLoc \cup TreeLoc
BY DEF Standalone, BlobId, DataLoc, TreeLoc, BlobIdOf, NoPack

\* Giving the next file a location leaves a job.
LEMMA WithFileTyped ==
  ASSUME NEW j \in Job, NEW l \in DataLoc, j.next \in Files
  PROVE  WithFile(j, l) \in Job
PROOF
  <1>1. [j.tree EXCEPT ![j.next] = l] \in Tree
    BY DEF Job, Tree
  <1>2. j.next + 1 \in 1..(NFiles + 1)
    BY DEF Files
  <1> QED
    BY <1>1, <1>2 DEF WithFile, Job

\* A walker that may enter has a file to enter.
LEMMA MayWalkFacts ==
  ASSUME TypeOK, NEW w \in Writers, MayWalk(w)
  PROVE  job[w] \in Job /\ job[w].next \in Files
BY DEF TypeOK, MayWalk, Job, Files

\* A blob's location names the blob.
LEMMA BlobLocsTyped ==
  ASSUME TypeOK, NEW w \in Writers, NEW C, NEW id \in BlobIdOf(C),
         NEW fam \in Families, NEW l \in BlobLocs(w, id, fam)
  PROVE  l \in [id : BlobIdOf(C), pack : Nat, off : Nat] /\ l.id = id
PROOF
  <1>1. CASE Cached(w, id) # {}
    <2>1. l \in DataLoc \cup TreeLoc /\ l.id = id
      BY <1>1 DEF BlobLocs, Cached, TypeOK
    <2> QED
      BY <2>1 DEF DataLoc, TreeLoc
  <1>2. CASE Cached(w, id) = {}
    <2>1. l = NewLoc(w, id, fam)
      BY <1>2 DEF BlobLocs
    <2>2. buf[w][fam].path \in Nat /\ Len(buf[w][fam].body) \in Nat
      BY DEF TypeOK
    <2>3. nextPack \in Nat
      BY DEF TypeOK
    <2> QED
      BY <2>1, <2>2, <2>3 DEF NewLoc, Standalone, Packed, NoPack
  <1> QED BY <1>1, <1>2

-----------------------------------------------------------------------------
\* Types are preserved, together with the names of buffers and folders: a pack
\* is only as well named as the buffer it was flushed from, and a record as the
\* walk it ends.

Typed == TypeOK /\ BuffersNamed /\ FoldersNamed

\* A buffer that holds something may become a pack.
LEMMA BufferIsPack ==
  ASSUME Typed, NEW w \in Writers, NEW fam \in Families,
         buf[w][fam].body # <<>>
  PROVE  buf[w][fam] \in Pack
BY DEF Typed, TypeOK, BuffersNamed, Pack

\* _write_blob keeps the types of all it writes.
LEMMA StoreBlobTyped ==
  ASSUME Typed, NEW w \in Writers, NEW C, C = Contents \/ C = Tree,
         NEW id \in BlobIdOf(C), NEW fam \in Families,
         NEW l \in BlobLocs(w, id, fam), StoreBlob(w, l, fam)
  PROVE  /\ objects' \subseteq BlobId
         /\ packs' \subseteq Pack
         /\ cache' \in [Writers -> SUBSET (DataLoc \cup TreeLoc)]
         /\ buf' \in [Writers -> [Families -> [path : Nat, body : Seq(BlobId)]]]
         /\ nextPack' \in Nat \ {NoPack}
         /\ BuffersNamed'
PROOF
  <1>1. l \in [id : BlobIdOf(C), pack : Nat, off : Nat] /\ l.id = id
    BY BlobLocsTyped DEF Typed
  <1>2. l \in DataLoc \cup TreeLoc
    BY <1>1 DEF DataLoc, TreeLoc
  <1>3. id \in BlobId
    BY DEF BlobId, BlobIdOf
  <1>4. cache' \in [Writers -> SUBSET (DataLoc \cup TreeLoc)]
    BY <1>2 DEF StoreBlob, Typed, TypeOK
  <1>5. CASE Cached(w, l.id) # {} \/ ~ses[w].packed
    <2>1. objects' \subseteq BlobId /\ UNCHANGED <<packs, buf, nextPack>>
      BY <1>1, <1>3, <1>5 DEF StoreBlob, Typed, TypeOK
    <2> QED
      BY <1>4, <2>1 DEF Typed, TypeOK, BuffersNamed
  <1>6. CASE Cached(w, l.id) = {} /\ ses[w].packed
    <2>1. AppendToPack(w, l, fam) /\ l = NewLoc(w, id, fam)
      BY <1>1, <1>6 DEF StoreBlob, BlobLocs
    <2>2. packs' \subseteq Pack
      <3>1. Overflows(w, fam) => buf[w][fam] \in Pack
        BY BufferIsPack DEF Overflows
      <3> QED
        BY <2>1, <3>1 DEF AppendToPack, Typed, TypeOK
    <2>3. nextPack' \in Nat \ {NoPack}
      BY <2>1 DEF AppendToPack, Typed, TypeOK, NoPack
    <2> DEFINE old == buf[w][fam].body
               new == IF FreshPack(w, fam) THEN <<l.id>> ELSE Append(old, l.id)
    <2>4. new \in Seq(BlobId) /\ l.pack \in Nat /\ l.pack # NoPack
      <3>1. new \in Seq(BlobId)
        BY <1>1, <1>3 DEF Typed, TypeOK
      <3>2. CASE FreshPack(w, fam)
        BY <1>6, <2>1, <3>1, <3>2 DEF NewLoc, Packed, Typed, TypeOK
      <3>3. CASE ~FreshPack(w, fam)
        BY <1>6, <2>1, <3>1, <3>3
        DEF NewLoc, Packed, FreshPack, Typed, TypeOK, BuffersNamed
      <3> QED BY <3>2, <3>3
    <2>5. buf' = [buf EXCEPT ![w][fam] = [path |-> l.pack, body |-> new]]
      BY <2>1 DEF AppendToPack, Typed, TypeOK
    <2>6. buf' \in [Writers -> [Families -> [path : Nat, body : Seq(BlobId)]]]
      <3> HIDE DEF new
      <3> QED BY <2>4, <2>5 DEF Typed, TypeOK
    <2>7. BuffersNamed'
      <3> HIDE DEF new
      <3> QED BY <2>4, <2>5 DEF Typed, TypeOK, BuffersNamed
    <2>8. objects' \subseteq BlobId
      BY <2>1 DEF AppendToPack, Typed, TypeOK
    <2> QED BY <1>4, <2>2, <2>3, <2>6, <2>7, <2>8
  <1> QED BY <1>5, <1>6

\* FlushPack flushes one buffer that holds something.
LEMMA FlushPackFacts ==
  ASSUME NEW w \in Writers, FlushPack(w)
  PROVE  \E fam \in Families : /\ buf[w][fam].body # <<>>
                              /\ packs' = packs \cup {buf[w][fam]}
                              /\ buf' = [buf EXCEPT ![w][fam] = EmptyBuffer]
PROOF
  <1>1. PICK i \in 1..3 :
          /\ buf[w][FlushOrder[i]].body # <<>>
          /\ packs' = packs \cup {buf[w][FlushOrder[i]]}
          /\ buf' = [buf EXCEPT ![w][FlushOrder[i]] = EmptyBuffer]
    BY DEF FlushPack
  <1>2. FlushOrder[i] \in Families
    <2>1. i = 1 \/ i = 2 \/ i = 3
      OBVIOUS
    <2> QED BY <2>1 DEF FlushOrder, Families
  <1> QED BY <1>1, <1>2

\* What a run starts from and ends with.
LEMMA EndTyped ==
  ASSUME Typed, NEW w \in Writers, End(w),
         UNCHANGED <<destVars, freshVars, retentionVars>>
  PROVE  Typed'
PROOF
  <1> USE DEF Typed, TypeOK, End, destVars, freshVars, retentionVars
  <1>1. NoSession \in Session /\ NoJob \in Job
    BY NoLocFacts DEF NoSession, Session, Keys, NoKey
  <1>2. EmptyBuffers \in [Families -> [path : Nat, body : Seq(BlobId)]]
    BY DEF EmptyBuffers, EmptyBuffer, NoPack
  <1>3. TypeOK'
    BY <1>1, <1>2 DEF Stages
  <1>4. BuffersNamed'
    BY DEF BuffersNamed, EmptyBuffers, EmptyBuffer
  <1>5. FoldersNamed'
    BY DEF FoldersNamed
  <1> QED BY <1>3, <1>4, <1>5

\* A prior tree is a tree.
LEMMA PriorTreesTyped ==
  ASSUME TypeOK, NEW w \in Writers, NEW folder \in Folders,
         NEW tree \in PriorTrees(w, folder)
  PROVE  tree \in Tree
PROOF
  <1>1. \A r \in Latest(folder) : TreeOf(r) \in Tree
    BY RecordLocsTyped DEF Latest, RecordsOf, TypeOK
  <1> QED BY <1>1, NoLocFacts DEF PriorTrees

\* Every step of a run keeps the types.
LEMMA WriterTyped ==
  ASSUME Typed, NEW w \in Writers, UNCHANGED retentionVars,
         BackupBegins(w) \/ RunStep(w) \/ Disturb(w)
  PROVE  Typed'
PROOF
  <1> USE DEF Typed, retentionVars, destVars, freshVars
  <1>1. ASSUME NEW dedup \in BOOLEAN, NEW opens \in BOOLEAN,
               NEW packed \in BOOLEAN, NEW sources \in SUBSET Folders,
               StartRun(w, dedup, opens, packed, sources)
        PROVE  Typed'
    BY <1>1
    DEF TypeOK, BuffersNamed, FoldersNamed, StartRun, Session, Stages, Keys, NoKey
  <1>2. CASE WriteKeyset(w)
    BY <1>2
    DEF TypeOK, BuffersNamed, FoldersNamed, WriteKeyset, Session, Stages
  <1>3. CASE Seed(w)
    <2>1. PICK listed \in Readable(objects) :
          \E recs \in Readable(SeedRecords(w)) : \E trees \in Readable(recs) :
            cache' = [cache EXCEPT ![w] =
              IF ~ses[w].dedup THEN {}
              ELSE {Standalone(id) : id \in listed} \cup
                   {l \in Harvest(recs, trees) : l.id \notin listed}]
      BY <1>3 DEF Seed
    <2>2. PICK recs \in Readable(SeedRecords(w)) : \E trees \in Readable(recs) :
            cache' = [cache EXCEPT ![w] =
              IF ~ses[w].dedup THEN {}
              ELSE {Standalone(id) : id \in listed} \cup
                   {l \in Harvest(recs, trees) : l.id \notin listed}]
      BY <2>1
    <2>3. PICK trees \in Readable(recs) :
            cache' = [cache EXCEPT ![w] =
              IF ~ses[w].dedup THEN {}
              ELSE {Standalone(id) : id \in listed} \cup
                   {l \in Harvest(recs, trees) : l.id \notin listed}]
      BY <2>2
    <2>4. {Standalone(id) : id \in listed} \subseteq DataLoc \cup TreeLoc
      BY StandaloneTyped DEF Readable, TypeOK
    <2>5. Harvest(recs, trees) \subseteq DataLoc \cup TreeLoc
      <3>1. SeedRecords(w) \subseteq Record
        BY DEF SeedRecords, Latest, RecordsOf, TypeOK
      <3>2. recs \in SUBSET Record /\ trees \in SUBSET recs
        BY <3>1 DEF Readable
      <3> QED BY <3>2, HarvestTyped
    <2>6. cache' \in [Writers -> SUBSET (DataLoc \cup TreeLoc)]
      BY <2>3, <2>4, <2>5 DEF TypeOK
    <2> QED BY <1>3, <2>6 DEF TypeOK, BuffersNamed, FoldersNamed, Seed, Stages
  <1>4. ASSUME NEW folder \in Folders, BeginFolder(w, folder)
        PROVE  Typed'
    <2>1. PICK tree \in PriorTrees(w, folder) :
            job' = [job EXCEPT ![w] =
              [NoJob EXCEPT !.folder = folder, !.prior = tree]]
      BY <1>4 DEF BeginFolder
    <2>2. [NoJob EXCEPT !.folder = folder, !.prior = tree] \in Job
      BY PriorTreesTyped, NoLocFacts DEF Job
    <2>3. job' \in [Writers -> Job]
      BY <2>1, <2>2 DEF TypeOK
    <2> QED
      BY <1>4, <2>3
      DEF TypeOK, BuffersNamed, FoldersNamed, BeginFolder, Stages
  <1>5. CASE SkipFile(w)
    <2>1. [job[w] EXCEPT !.next = @ + 1] \in Job
      BY <1>5, MayWalkFacts DEF SkipFile, Job, Files
    <2>2. job' = [job EXCEPT ![w] = [job[w] EXCEPT !.next = @ + 1]]
      BY <1>5 DEF SkipFile, TypeOK
    <2> QED
      BY <1>5, <2>1, <2>2
      DEF MayWalk, TypeOK, BuffersNamed, FoldersNamed, SkipFile
  <1>6. CASE ReuseFile(w)
    <2> DEFINE l == job[w].prior[job[w].next]
    <2>1. job[w] \in Job /\ job[w].next \in Files
      BY <1>6, MayWalkFacts DEF ReuseFile
    <2>2. l \in DataLoc
      BY <1>6, <2>1 DEF ReuseFile, Job, Tree
    <2>3. WithFile(job[w], l) \in Job
      BY <2>1, <2>2, WithFileTyped
    <2>4. job' \in [Writers -> Job]
      BY <1>6, <2>3 DEF ReuseFile, TypeOK
    <2>5. cache' \in [Writers -> SUBSET (DataLoc \cup TreeLoc)]
      BY <1>6, <2>2 DEF ReuseFile, TypeOK
    <2>6. FoldersNamed'
      BY <1>6 DEF FoldersNamed, ReuseFile, MayWalk, WithFile, TypeOK
    <2> QED BY <1>6, <2>4, <2>5, <2>6 DEF TypeOK, BuffersNamed, ReuseFile
  <1>7. ASSUME NEW c \in Contents, StoreFile(w, c)
        PROVE  Typed'
    <2> DEFINE id == Blob(ses[w].key, c)
               fam == ContentFamily(c)
    <2>1. id \in BlobIdOf(Contents) /\ fam \in Families
      BY NoLocFacts DEF TypeOK, Session, ContentFamily, Families
    <2>2. PICK l \in BlobLocs(w, id, fam) :
            /\ StoreBlob(w, l, fam)
            /\ job' = [job EXCEPT ![w] = WithFile(@, l)]
      BY <1>7 DEF StoreFile
    <2>3. l \in DataLoc
      BY <2>1, <2>2, BlobLocsTyped DEF DataLoc
    <2>4. WithFile(job[w], l) \in Job
      BY <1>7, <2>3, MayWalkFacts, WithFileTyped DEF StoreFile
    <2>5. job' \in [Writers -> Job]
      BY <2>2, <2>4 DEF TypeOK
    <2>6. FoldersNamed'
      BY <1>7, <2>2, <2>4
      DEF FoldersNamed, StoreFile, MayWalk, WithFile, TypeOK
    <2> HIDE DEF id, fam
    <2> QED
      BY <1>7, <2>1, <2>2, <2>5, <2>6, StoreBlobTyped DEF TypeOK, StoreFile
  <1>8. CASE ObserveCancel(w)
    BY <1>8, EndTyped DEF ObserveCancel
  <1>9. CASE StoreTree(w)
    <2> DEFINE id == Blob(ses[w].key, job[w].tree)
    <2>1. id \in BlobIdOf(Tree) /\ "tree" \in Families
      BY NoLocFacts DEF TypeOK, Session, Job, Families
    <2>2. PICK l \in BlobLocs(w, id, "tree") :
            /\ StoreBlob(w, l, "tree")
            /\ job' = [job EXCEPT ![w].root = l]
      BY <1>9 DEF StoreTree
    <2>3. l \in TreeLoc
      BY <2>1, <2>2, BlobLocsTyped DEF TreeLoc
    <2>4. job' \in [Writers -> Job]
      BY <2>2, <2>3, ZenonT(40) DEF TypeOK, Job
    <2>5. pc' \in [Writers -> Stages]
      BY <1>9 DEF TypeOK, StoreTree, Stages
    <2>6. FoldersNamed'
      BY <1>9, <2>2 DEF FoldersNamed, StoreTree, TypeOK
    <2> HIDE DEF id
    <2> QED
      BY <1>9, <2>1, <2>2, <2>4, <2>5, <2>6, StoreBlobTyped
      DEF TypeOK, StoreTree
  <1>10. ASSUME NEW c \in Contents, StoreRootAcl(w, c)
         PROVE  Typed'
    <2> DEFINE id == Blob(ses[w].key, c)
               fam == ContentFamily(c)
    <2>1. id \in BlobIdOf(Contents) /\ fam \in Families
      BY NoLocFacts DEF TypeOK, Session, ContentFamily, Families
    <2>2. PICK l \in BlobLocs(w, id, fam) :
            /\ StoreBlob(w, l, fam)
            /\ job' = [job EXCEPT ![w].acl = {l}]
      BY <1>10 DEF StoreRootAcl
    <2>3. l \in DataLoc
      BY <2>1, <2>2, BlobLocsTyped DEF DataLoc
    <2>4. job' \in [Writers -> Job]
      BY <2>2, <2>3, ZenonT(40) DEF TypeOK, Job
    <2>5. pc' \in [Writers -> Stages]
      BY <1>10 DEF TypeOK, StoreRootAcl, Stages
    <2>6. FoldersNamed'
      BY <1>10, <2>2 DEF FoldersNamed, StoreRootAcl, TypeOK
    <2> HIDE DEF id, fam
    <2> QED
      BY <1>10, <2>1, <2>2, <2>4, <2>5, <2>6, StoreBlobTyped
      DEF TypeOK, StoreRootAcl
  <1>11. CASE NoRootAcl(w)
    BY <1>11 DEF TypeOK, BuffersNamed, FoldersNamed, NoRootAcl, Stages
  <1>12. CASE FlushPack(w)
    <2>1. PICK fam \in Families :
            /\ buf[w][fam].body # <<>>
            /\ packs' = packs \cup {buf[w][fam]}
            /\ buf' = [buf EXCEPT ![w][fam] = EmptyBuffer]
      BY <1>12, FlushPackFacts
    <2>2. packs' \subseteq Pack
      BY <2>1, BufferIsPack DEF TypeOK
    <2>3. EmptyBuffer \in [path : Nat, body : Seq(BlobId)]
      BY DEF EmptyBuffer, NoPack
    <2>4. buf' \in [Writers -> [Families -> [path : Nat, body : Seq(BlobId)]]]
      BY <2>1, <2>3 DEF TypeOK
    <2>5. BuffersNamed'
      BY <2>1 DEF TypeOK, BuffersNamed, FoldersNamed, EmptyBuffer
    <2> QED BY <1>12, <2>2, <2>4, <2>5 DEF TypeOK, FoldersNamed, FlushPack
  <1>13. ASSUME NEW t \in 1..MaxTime, WriteRecord(w, t)
         PROVE  Typed'
    <2>1. NewRecord(w, t) \in Record
      BY <1>13
      DEF WriteRecord, NewRecord, Record, TypeOK, FoldersNamed, Job, Session
    <2>2. records' \subseteq Record
      BY <1>13, <2>1 DEF WriteRecord, TypeOK
    <2>3. job' \in [Writers -> Job]
      BY <1>13, NoLocFacts DEF WriteRecord, TypeOK
    <2>4. ses' \in [Writers -> Session]
      BY <1>13, ZenonT(40) DEF WriteRecord, TypeOK, Session
    <2> QED
      BY <1>13, <2>2, <2>3, <2>4
      DEF WriteRecord, TypeOK, BuffersNamed, FoldersNamed, Stages
  <1>14. CASE FinishRun(w)
    BY <1>14, EndTyped DEF FinishRun
  <1>15. CASE Disturb(w)
    <2>1. CASE Crash(w)
      BY <2>1, EndTyped DEF Crash
    <2>2. CASE Cancel(w) \/ Pause(w) \/ Resume(w)
      BY <2>2 DEF Cancel, Pause, Resume, TypeOK, BuffersNamed, FoldersNamed
    <2> QED BY <1>15, <2>1, <2>2 DEF Disturb
  <1> QED
    BY <1>1, <1>2, <1>3, <1>4, <1>5, <1>6, <1>7, <1>8, <1>9, <1>10, <1>11,
       <1>12, <1>13, <1>14, <1>15 DEF BackupBegins, RunStep

-----------------------------------------------------------------------------
\* What the helpers of a retention run return.

\* What retention collects are locations.
LEMMA CollectedTyped ==
  ASSUME NEW recs \in SUBSET Record, NEW trees \in SUBSET recs
  PROVE  /\ Collected(recs, trees) \subseteq DataLoc \cup TreeLoc
         /\ \A l \in Collected(recs, trees) : l.id \in BlobId /\ l.pack \in Nat
PROOF
  <1>1. Collected(recs, trees) \subseteq DataLoc \cup TreeLoc
    BY TreeLocsTyped, RecordLocsTyped DEF Collected
  <1>2. \A l \in DataLoc \cup TreeLoc : l.id \in BlobId /\ l.pack \in Nat
    BY DEF DataLoc, TreeLoc, BlobId, BlobIdOf
  <1> QED BY <1>1, <1>2

\* A retention run starts with an empty memory.
LEMMA GcTyped ==
  NoGc \in GcMemory
BY DEF NoGc, GcMemory

\* Every step of a retention run keeps the types.
LEMMA RetentionTyped ==
  ASSUME Typed, UNCHANGED <<runVars, freshVars>>,
         RetentionBegins \/ RetentionStep \/ RetentionCrash
  PROVE  Typed'
PROOF
  <1> USE DEF runVars, freshVars, destVars
  <1>1. /\ BuffersNamed' /\ FoldersNamed'
        /\ pc' \in [Writers -> Stages]
        /\ ses' \in [Writers -> Session]
        /\ cache' \in [Writers -> SUBSET (DataLoc \cup TreeLoc)]
        /\ buf' \in [Writers -> [Families -> [path : Nat, body : Seq(BlobId)]]]
        /\ job' \in [Writers -> Job]
        /\ cancelled' \in [Writers -> BOOLEAN]
        /\ paused' \in [Writers -> BOOLEAN]
        /\ nextKey' \in Nat \ {NoKey}
        /\ nextPack' \in Nat \ {NoPack}
        /\ runs' \in Nat
        /\ clock' \in Nat
    BY DEF Typed, TypeOK, BuffersNamed, FoldersNamed
  <1> DEFINE Rest == /\ keyset' \in Keys
                     /\ objects' \subseteq BlobId
                     /\ packs' \subseteq Pack
                     /\ records' \subseteq Record
                     /\ gpc' \in GcStages
                     /\ gc' \in GcMemory
                     /\ gruns' \in Nat
  <1> SUFFICES Rest
    BY <1>1 DEF Typed, TypeOK
  <1>2. /\ keyset \in Keys /\ objects \subseteq BlobId /\ packs \subseteq Pack
        /\ records \subseteq Record /\ gpc \in GcStages /\ gc \in GcMemory
        /\ gruns \in Nat
    BY DEF Typed, TypeOK
  <1>3. ASSUME NEW policy \in Policies, NEW folders \in SUBSET Folders,
               StartRetention(policy, folders)
        PROVE  Rest
    <2>1. [NoGc EXCEPT !.policy = policy, !.folders = folders] \in GcMemory
      BY GcTyped DEF GcMemory
    <2> QED BY <1>2, <1>3, <2>1 DEF StartRetention, GcStages
  <1>4. ASSUME NEW folder \in Folders, SelectVictims(folder)
        PROVE  Rest
    <2>1. PICK recs \in Readable(RecordsOf(folder)) :
          \E opened \in Readable({r \in recs : r.key = keyset}) :
            LET date == [r \in recs |-> IF r \in opened THEN r.time ELSE 0]
            IN  gc' = [gc EXCEPT
                  !.folders = @ \ {folder},
                  !.victims = recs \ SelectRetained(recs, date, gc.policy)]
      BY <1>4 DEF SelectVictims
    <2>2. recs \subseteq Record
      BY <1>2 DEF Readable, RecordsOf
    <2>3. \E kept : gc' = [gc EXCEPT !.folders = @ \ {folder},
                                    !.victims = recs \ kept]
      BY <2>1
    <2>4. gc' \in GcMemory
      BY <1>2, <2>2, <2>3 DEF GcMemory
    <2> QED BY <1>2, <1>4, <2>4 DEF SelectVictims
  <1>5. ASSUME NEW v \in gc.victims, UnlinkRecord(v) \/ UnlinkRecordFails(v)
        PROVE  Rest
    BY <1>2, <1>5 DEF UnlinkRecord, UnlinkRecordFails, GcMemory
  <1>6. ASSUME NEW recs \in Readable(Decryptable), NEW trees \in Readable(recs)
        PROVE  /\ {l.id : l \in Collected(recs, trees)} \subseteq BlobId
               /\ {l.pack : l \in Collected(recs, trees)} \subseteq Nat
    <2>1. recs \in SUBSET Record /\ trees \in SUBSET recs
      BY <1>2 DEF Readable, Decryptable
    <2> QED BY <2>1, CollectedTyped
  <1>7. CASE CollectBlobs
    <2>1. PICK recs \in Readable(Decryptable) : \E trees \in Readable(recs) :
            gc' = [gc EXCEPT !.live = {l.id : l \in Collected(recs, trees)}]
      BY <1>7 DEF CollectBlobs
    <2>2. PICK live \in SUBSET BlobId : gc' = [gc EXCEPT !.live = live]
      BY <1>6, <2>1
    <2> QED BY <1>2, <1>7, <2>2 DEF CollectBlobs, GcMemory, GcStages
  <1>8. CASE SkipGc \/ FinishRetention \/ RetentionCrash
    BY <1>2, <1>8, GcTyped
    DEF SkipGc, FinishRetention, RetentionCrash, GcStages
  <1>9. CASE ListObjects
    <2>1. PICK todo \in SUBSET BlobId, left \in SUBSET BlobId :
            gc' = [gc EXCEPT !.todo = todo, !.leftObjects = left]
      BY <1>2, <1>9 DEF ListObjects, Listable
    <2> QED BY <1>2, <1>9, <2>1 DEF ListObjects, GcMemory, GcStages
  <1>10. ASSUME NEW id \in gc.todo, DeleteObject(id) \/ DeleteObjectFails(id)
         PROVE  Rest
    <2>1. PICK left \in SUBSET BlobId :
            gc' = [gc EXCEPT !.todo = @ \ {id}, !.leftObjects = left]
      BY <1>2, <1>10 DEF DeleteObject, DeleteObjectFails, GcMemory
    <2>2. objects' \subseteq BlobId
      BY <1>2, <1>10 DEF DeleteObject, DeleteObjectFails
    <2> QED BY <1>2, <1>10, <2>1, <2>2 DEF DeleteObject, DeleteObjectFails, GcMemory
  <1>11. CASE CollectPacks
    <2>1. PICK recs \in Readable(Decryptable) : \E trees \in Readable(recs) :
            gc' = [gc EXCEPT
              !.livePacks = {l.pack : l \in Collected(recs, trees)}]
      BY <1>11 DEF CollectPacks
    <2>2. PICK live \in SUBSET Nat : gc' = [gc EXCEPT !.livePacks = live]
      BY <1>6, <2>1
    <2> QED BY <1>2, <1>11, <2>2 DEF CollectPacks, GcMemory, GcStages
  <1>12. CASE ListPacks
    <2>1. PICK todo \in SUBSET Pack, left \in SUBSET Pack :
            gc' = [gc EXCEPT !.todoPacks = todo, !.leftPacks = left]
      BY <1>2, <1>12 DEF ListPacks, Listable
    <2> QED BY <1>2, <1>12, <2>1 DEF ListPacks, GcMemory, GcStages
  <1>13. ASSUME NEW p \in gc.todoPacks, DeletePack(p) \/ DeletePackFails(p)
         PROVE  Rest
    <2>1. PICK left \in SUBSET Pack :
            gc' = [gc EXCEPT !.todoPacks = @ \ {p}, !.leftPacks = left]
      BY <1>2, <1>13 DEF DeletePack, DeletePackFails, GcMemory
    <2>2. packs' \subseteq Pack
      BY <1>2, <1>13 DEF DeletePack, DeletePackFails
    <2> QED BY <1>2, <1>13, <2>1, <2>2 DEF DeletePack, DeletePackFails, GcMemory
  <1> HIDE DEF Rest
  <1>14. RetentionBegins => Rest
    BY <1>3 DEF RetentionBegins
  <1> QED
    BY <1>4, <1>5, <1>7, <1>8, <1>9, <1>10, <1>11, <1>12, <1>13, <1>14
    DEF RetentionStep

\* A stuttering step preserves the types.
LEMMA StutterTyped ==
  ASSUME Typed, UNCHANGED vars
  PROVE  Typed'
BY DEF Typed, TypeOK, BuffersNamed, FoldersNamed, vars, destVars, runVars,
       freshVars, retentionVars

\* At first no buffer holds anything and nobody walks.
LEMMA InitNamed == Init => BuffersNamed /\ FoldersNamed
BY DEF Init, WriterInit, BuffersNamed, FoldersNamed, EmptyBuffers, EmptyBuffer

\* Types are preserved by every step.
LEMMA NextTyped == Typed /\ [Next]_vars => Typed'
BY WriterTyped, RetentionTyped, StutterTyped DEF Next

\* Backup and retention runs, whatever the environment does, keep their types:
\* in particular every record's root is a tree and every pack has a path.
THEOREM TypeCorrect == Spec => []TypeOK
PROOF
  <1>1. Init => Typed
    BY InitTyped, InitNamed DEF Typed
  <1>2. Typed => TypeOK
    BY DEF Typed
  <1> QED
    BY <1>1, <1>2, NextTyped, PTL DEF Spec

-----------------------------------------------------------------------------
(* Safety. *)

Safe == Typed /\ Consistent

BackupStep(w) ==
  /\ BackupBegins(w) \/ RunStep(w) \/ Disturb(w)
  /\ UNCHANGED retentionVars

-----------------------------------------------------------------------------
\* The disk.

\* Without read errors a reader sees everything.
LEMMA ReadableFacts ==
  ASSUME Allowed \subseteq {"listError"}, NEW S
  PROVE  Readable(S) = {S}
BY DEF Readable

\* A location stays on disk while the disk only grows.
LEMMA OnDiskGrows ==
  ASSUME objects \subseteq objects', packs \subseteq packs',
         NEW l, OnDisk(l)
  PROVE  OnDisk(l)'
BY DEF OnDisk

\* A tree without files leads nowhere.
LEMMA EmptyTreeLocs == TreeLocs(EmptyTree) = {}
BY DEF TreeLocs, EmptyTree

\* A run nobody touched is as well backed as before.
LEMMA RunBackedGrows ==
  ASSUME objects \subseteq objects', packs \subseteq packs',
         NEW v \in Writers, RunBacked(v),
         pc'[v] = pc[v], ses'[v] = ses[v], cache'[v] = cache[v],
         buf'[v] = buf[v], job'[v] = job[v]
  PROVE  RunBacked(v)'
PROOF
  <1>1. \A l : Backed(v, l) => Backed(v, l)'
    BY OnDiskGrows DEF Backed, InBuffer
  <1> QED BY <1>1, OnDiskGrows DEF RunBacked, Usable

\* A run that holds nothing is backed.
LEMMA EmptyRunBacked ==
  ASSUME NEW v \in Writers, cache[v] = {}, job[v] = NoJob,
         pc[v] \notin {"acl", "flush"}
  PROVE  RunBacked(v)
BY EmptyTreeLocs DEF RunBacked, NoJob

-----------------------------------------------------------------------------
\* What a step of one run leaves alone.

\* The disk only grows under a run, and other runs stay as they are.
LEMMA WriterFrame ==
  ASSUME Typed, NEW w \in Writers, BackupStep(w)
  PROVE  /\ objects \subseteq objects' /\ packs \subseteq packs'
         /\ \A v \in Writers \ {w} :
              /\ pc'[v] = pc[v] /\ ses'[v] = ses[v] /\ cache'[v] = cache[v]
              /\ buf'[v] = buf[v] /\ job'[v] = job[v]
PROOF
  <1> DEFINE Frame == /\ objects \subseteq objects' /\ packs \subseteq packs'
                      /\ \A v \in Writers \ {w} :
                           /\ pc'[v] = pc[v] /\ ses'[v] = ses[v]
                           /\ cache'[v] = cache[v] /\ buf'[v] = buf[v]
                           /\ job'[v] = job[v]
  <1> SUFFICES Frame
    OBVIOUS
  <1> USE DEF destVars, Typed
  <1>1. ASSUME NEW d \in BOOLEAN, NEW o \in BOOLEAN, NEW p \in BOOLEAN,
               NEW sources \in SUBSET Folders, StartRun(w, d, o, p, sources)
        PROVE  Frame
    BY <1>1 DEF StartRun, TypeOK
  <1>2. CASE WriteKeyset(w) \/ Seed(w) \/ NoRootAcl(w)
    BY <1>2 DEF WriteKeyset, Seed, NoRootAcl, TypeOK
  <1>3. ASSUME NEW folder \in Folders, BeginFolder(w, folder)
        PROVE  Frame
    BY <1>3 DEF BeginFolder, TypeOK
  <1>4. CASE SkipFile(w) \/ ReuseFile(w)
    BY <1>4 DEF SkipFile, ReuseFile, TypeOK
  <1>5. ASSUME NEW l, NEW fam, StoreBlob(w, l, fam)
        PROVE  /\ objects \subseteq objects' /\ packs \subseteq packs'
               /\ \A v \in Writers \ {w} : /\ cache'[v] = cache[v]
                                           /\ buf'[v] = buf[v]
    BY <1>5 DEF StoreBlob, AppendToPack, TypeOK
  <1>6. ASSUME NEW c \in Contents, StoreFile(w, c) \/ StoreRootAcl(w, c)
        PROVE  Frame
    BY <1>5, <1>6 DEF StoreFile, StoreRootAcl, TypeOK
  <1>7. CASE StoreTree(w)
    BY <1>5, <1>7 DEF StoreTree, TypeOK
  <1>8. CASE ObserveCancel(w) \/ FinishRun(w) \/ Crash(w)
    BY <1>8 DEF ObserveCancel, FinishRun, Crash, End, TypeOK
  <1>9. CASE FlushPack(w)
    BY <1>9, FlushPackFacts DEF FlushPack, TypeOK
  <1>10. ASSUME NEW t \in 1..MaxTime, WriteRecord(w, t)
         PROVE  Frame
    BY <1>10 DEF WriteRecord, TypeOK
  <1>11. CASE Cancel(w) \/ Pause(w) \/ Resume(w)
    BY <1>11 DEF Cancel, Pause, Resume
  <1> HIDE DEF Frame, Typed
  <1>12. CASE BackupBegins(w)
    BY <1>1, <1>12 DEF BackupBegins
  <1>13. CASE RunStep(w)
    BY <1>2, <1>3, <1>4, <1>6, <1>7, <1>8, <1>9, <1>10, <1>13 DEF RunStep
  <1> QED
    BY <1>8, <1>11, <1>12, <1>13 DEF BackupStep, Disturb

-----------------------------------------------------------------------------
\* Who is at work, and with which key.

\* Whoever steps is at work already or begins, and retention is idle.
LEMMA BackupAlone ==
  ASSUME Safe, Allowed \subseteq {"listError"}, NEW w \in Writers, BackupStep(w)
  PROVE  gpc = "idle" /\ gpc' = "idle"
PROOF
  <1>1. BackupBegins(w) => gpc = "idle"
    BY DEF BackupBegins, NoRetention
  <1>2. RunStep(w) => Active(w)
    BY DEF RunStep, Active, WriteKeyset, Seed, BeginFolder, SkipFile,
           ReuseFile, StoreFile, MayWalk, ObserveCancel, StoreTree,
           StoreRootAcl, NoRootAcl, FlushPack, WriteRecord, FinishRun
  <1>3. Disturb(w) => Active(w)
    BY DEF Disturb, Cancel, Pause, Resume, Crash, Safe, Consistent,
           IdleIsClean
  <1>4. Active(w) => gpc = "idle"
    BY DEF Safe, Consistent, RetentionAlone
  <1> QED
    BY <1>1, <1>2, <1>3, <1>4 DEF BackupStep, retentionVars

\* The keys still agree when a run that knows the key goes on or ends.
LEMMA KeysKept ==
  ASSUME KeysAgree, NEW w \in Writers, Active(w), keyset' = keyset,
         \A v \in Writers \ {w} : pc'[v] = pc[v] /\ ses'[v] = ses[v],
         \A r \in records' : r \in records \/ (r.key = keyset /\ keyset # NoKey),
         \/ pc'[w] = "idle"
         \/ /\ pc[w] # "keyset" /\ pc'[w] # "keyset"
            /\ ses'[w].key = ses[w].key
  PROVE  KeysAgree'
PROOF
  <1>1. KeyAgrees(w)'
    BY DEF KeysAgree, KeyAgrees, Active
  <1>2. ASSUME NEW v \in Writers \ {w}
        PROVE  KeyAgrees(v)'
    BY DEF KeysAgree, KeyAgrees, Active
  <1>3. \A r \in records' : r.key = keyset' /\ keyset' # NoKey
    BY DEF KeysAgree
  <1> QED BY <1>1, <1>2, <1>3 DEF KeysAgree

\* A run that draws keys is alone; any other takes those of the keyset.
LEMMA StartKeys ==
  ASSUME Typed, KeysAgree, "rekey" \notin Allowed,
         NEW w \in Writers, BackupStep(w),
         NEW d \in BOOLEAN, NEW o \in BOOLEAN, NEW p \in BOOLEAN,
         NEW sources \in SUBSET Folders, KeysTended(d, o),
         StartRun(w, d, o, p, sources)
  PROVE  KeysAgree'
PROOF
  <1> USE DEF Typed
  <1>1. /\ pc[w] = "idle" /\ pc'[w] = "keyset"
        /\ keyset' = keyset /\ records' = records
    BY DEF StartRun, TypeOK, destVars
  <1>2. CASE keyset # NoKey /\ d /\ o
    <2>1. ses'[w].key = keyset /\ ses'[w].reused
      BY <1>2 DEF StartRun, TypeOK
    <2>2. \A v \in Writers \ {w} : KeyAgrees(v)'
      BY <1>1, <1>2, <2>1, WriterFrame DEF KeysAgree, KeyAgrees, Active
    <2>3. KeyAgrees(w)'
      BY <1>1, <1>2, <2>1 DEF KeyAgrees
    <2> QED BY <1>1, <2>2, <2>3 DEF KeysAgree
  <1>3. CASE keyset = NoKey /\ \A v \in Writers : ~Active(v)
    <2>1. ses'[w].key = nextKey /\ ~ses'[w].reused
      BY <1>3 DEF StartRun, TypeOK
    <2>2. \A v \in Writers \ {w} : pc'[v] = "idle"
      BY <1>3, WriterFrame DEF Active
    <2>3. KeyAgrees(w)'
      BY <1>1, <1>3, <2>1, <2>2 DEF KeyAgrees, Active, TypeOK
    <2>4. \A v \in Writers \ {w} : KeyAgrees(v)'
      BY <2>2 DEF KeyAgrees
    <2> QED BY <1>1, <1>3, <2>3, <2>4 DEF KeysAgree
  <1> QED BY <1>2, <1>3 DEF KeysTended

\* Keys agree after every step of a run.
LEMMA BackupKeys ==
  ASSUME Typed, KeysAgree, "rekey" \notin Allowed,
         NEW w \in Writers, BackupStep(w)
  PROVE  KeysAgree'
PROOF
  <1> USE DEF Typed
  <1>1. \A v \in Writers \ {w} : pc'[v] = pc[v] /\ ses'[v] = ses[v]
    BY WriterFrame
  <1>2. CASE WriteKeyset(w)
    <2>1. CASE ses[w].reused
      <3>1. keyset' = keyset /\ ses' = ses /\ records' = records
        BY <1>2, <2>1 DEF WriteKeyset
      <3>2. pc[w] = "keyset" /\ pc'[w] = "seed"
        BY <1>2 DEF WriteKeyset, TypeOK
      <3>3. KeyAgrees(w)'
        BY <2>1, <3>1, <3>2 DEF KeysAgree, KeyAgrees
      <3>4. \A v \in Writers \ {w} : KeyAgrees(v)'
        BY <1>1, <3>1, <3>2 DEF KeysAgree, KeyAgrees, Active
      <3> QED BY <3>1, <3>3, <3>4 DEF KeysAgree
    <2>2. CASE ~ses[w].reused
      <3>1. /\ keyset' = ses[w].key /\ ses' = ses /\ records' = records
            /\ pc[w] = "keyset" /\ pc'[w] = "seed"
        BY <1>2, <2>2 DEF WriteKeyset, TypeOK
      <3>2. /\ ses[w].key # NoKey /\ keyset = NoKey
            /\ \A v \in Writers \ {w} : pc[v] = "idle"
        BY <2>2, <3>1 DEF KeysAgree, KeyAgrees, Active
      <3>3. records = {}
        BY <3>2 DEF KeysAgree
      <3>4. KeyAgrees(w)'
        BY <3>1, <3>2 DEF KeyAgrees
      <3>5. \A v \in Writers \ {w} : KeyAgrees(v)'
        BY <1>1, <3>2 DEF KeyAgrees
      <3> QED BY <3>1, <3>3, <3>4, <3>5 DEF KeysAgree
    <2> QED BY <2>1, <2>2
  <1>3. CASE \/ Seed(w) \/ SkipFile(w) \/ ReuseFile(w) \/ NoRootAcl(w)
             \/ FlushPack(w) \/ StoreTree(w)
             \/ \E folder \in Folders : BeginFolder(w, folder)
             \/ \E c \in Contents : StoreFile(w, c)
             \/ \E c \in Contents : StoreRootAcl(w, c)
    <2>1. /\ Active(w) /\ pc[w] # "keyset" /\ pc'[w] # "keyset"
          /\ keyset' = keyset /\ records' = records /\ ses' = ses
      BY <1>3
      DEF Seed, SkipFile, ReuseFile, NoRootAcl, FlushPack, StoreTree,
          BeginFolder, StoreFile, StoreRootAcl, MayWalk, Active, TypeOK,
          destVars
    <2> QED BY <1>1, <2>1, KeysKept
  <1>4. ASSUME NEW t \in 1..MaxTime, WriteRecord(w, t)
        PROVE  KeysAgree'
    <2>1. /\ pc[w] = "flush" /\ pc'[w] = "ready" /\ keyset' = keyset
          /\ ses'[w].key = ses[w].key
          /\ records' \subseteq records \cup {NewRecord(w, t)}
      BY <1>4 DEF WriteRecord, TypeOK
    <2>2. NewRecord(w, t).key = keyset /\ keyset # NoKey
      BY <2>1 DEF NewRecord, KeysAgree, KeyAgrees
    <2> QED BY <1>1, <2>1, <2>2, KeysKept DEF Active
  <1>5. CASE ObserveCancel(w) \/ FinishRun(w) \/ Crash(w)
    <2>1. /\ Active(w) /\ pc'[w] = "idle"
          /\ keyset' = keyset /\ records' = records
      BY <1>5
      DEF ObserveCancel, FinishRun, Crash, End, Active, TypeOK, destVars
    <2> QED BY <1>1, <2>1, KeysKept
  <1>6. CASE Cancel(w) \/ Pause(w) \/ Resume(w)
    BY <1>6 DEF Cancel, Pause, Resume, destVars, KeysAgree, KeyAgrees, Active
  <1> HIDE DEF Typed
  <1>7. CASE BackupBegins(w)
    BY <1>7, StartKeys DEF BackupBegins
  <1>8. CASE RunStep(w)
    BY <1>2, <1>3, <1>4, <1>5, <1>8 DEF RunStep
  <1> QED BY <1>5, <1>6, <1>7, <1>8 DEF BackupStep, Disturb

\* An idle run keeps nothing, and no root ACL appears.
LEMMA BackupClean ==
  ASSUME Safe, Allowed \subseteq {"listError"}, NEW w \in Writers, BackupStep(w)
  PROVE  IdleIsClean' /\ NoAcls'
PROOF
  <1> DEFINE Clean == IdleIsClean' /\ NoAcls'
  <1> SUFFICES Clean
    OBVIOUS
  <1> USE DEF Safe, Consistent, Typed, destVars
  <1>1. \A v \in Writers \ {w} :
          /\ pc'[v] = pc[v] /\ cache'[v] = cache[v]
          /\ buf'[v] = buf[v] /\ job'[v] = job[v]
    BY WriterFrame
  <1>2. ASSUME NEW d \in BOOLEAN, NEW o \in BOOLEAN, NEW p \in BOOLEAN,
               NEW sources \in SUBSET Folders, StartRun(w, d, o, p, sources)
        PROVE  Clean
    BY <1>2 DEF StartRun, IdleIsClean, NoAcls, Active, TypeOK
  <1>3. CASE WriteKeyset(w) \/ Seed(w) \/ NoRootAcl(w)
    <2>1. CASE WriteKeyset(w)
      BY <2>1 DEF WriteKeyset, IdleIsClean, NoAcls, Active, TypeOK
    <2>2. CASE Seed(w)
      BY <2>2 DEF Seed, IdleIsClean, NoAcls, Active, TypeOK
    <2>3. CASE NoRootAcl(w)
      BY <2>3 DEF NoRootAcl, IdleIsClean, NoAcls, Active, TypeOK
    <2> QED BY <1>3, <2>1, <2>2, <2>3
  <1>4. ASSUME NEW v \in Writers \ {w}, paused' = [paused EXCEPT ![w] = paused'[w]]
        PROVE  /\ ~Active(v)' => /\ cache'[v] = {} /\ buf'[v] = EmptyBuffers
                                 /\ job'[v] = NoJob /\ ~paused'[v]
               /\ job'[v].acl = {}
    BY <1>1, <1>4 DEF IdleIsClean, NoAcls, Active, TypeOK
  <1>5. ASSUME Active(w)', paused' = [paused EXCEPT ![w] = paused'[w]],
               records' = records, job'[w].acl = {}
        PROVE  Clean
    BY <1>4, <1>5 DEF IdleIsClean, NoAcls
  <1>6. ASSUME NEW folder \in Folders, BeginFolder(w, folder)
        PROVE  Clean
    <2>1. job'[w].acl = {}
      BY <1>6 DEF BeginFolder, TypeOK, NoJob
    <2>2. Active(w)' /\ paused' = paused /\ records' = records
      BY <1>6 DEF BeginFolder, Active, TypeOK
    <2> QED BY <1>5, <2>1, <2>2 DEF TypeOK
  <1>7. CASE SkipFile(w) \/ ReuseFile(w) \/ \E c \in Contents : StoreFile(w, c)
    <2>1. \A l : WithFile(job[w], l).acl = job[w].acl
      BY DEF WithFile, TypeOK, Job
    <2>2. \/ job' = [job EXCEPT ![w].next = @ + 1]
          \/ \E l : job' = [job EXCEPT ![w] = WithFile(job[w], l)]
      BY <1>7 DEF SkipFile, ReuseFile, StoreFile, TypeOK
    <2>3. job'[w].acl = job[w].acl
      BY <2>1, <2>2 DEF TypeOK, Job
    <2>4. Active(w)' /\ paused' = paused /\ records' = records
      BY <1>7 DEF SkipFile, ReuseFile, StoreFile, MayWalk, Active, TypeOK
    <2> QED BY <1>5, <2>3, <2>4 DEF TypeOK, NoAcls
  <1>8. CASE StoreTree(w) \/ FlushPack(w)
    <2>1. job'[w].acl = job[w].acl
      BY <1>8 DEF StoreTree, FlushPack, TypeOK, Job
    <2>2. Active(w)' /\ paused' = paused /\ records' = records
      BY <1>8 DEF StoreTree, FlushPack, Active, TypeOK
    <2> QED BY <1>5, <2>1, <2>2 DEF TypeOK, NoAcls
  <1>9. ASSUME NEW c \in Contents, StoreRootAcl(w, c)
        PROVE  Clean
    BY <1>9 DEF StoreRootAcl
  <1>10. ASSUME NEW t \in 1..MaxTime, WriteRecord(w, t)
         PROVE  Clean
    <2>1. /\ pc'[w] = "ready" /\ job'[w] = NoJob /\ paused' = paused
          /\ records' \subseteq records \cup {NewRecord(w, t)}
      BY <1>10 DEF WriteRecord, TypeOK
    <2>2. \A r \in records' : r.acl = {}
      BY <2>1 DEF NewRecord, NoAcls
    <2>3. \A v \in Writers : job'[v].acl = {}
      BY <1>1, <2>1 DEF NoJob, NoAcls
    <2>4. IdleIsClean'
      BY <1>1, <2>1 DEF IdleIsClean, Active
    <2> QED BY <2>2, <2>3, <2>4 DEF NoAcls
  <1>11. CASE ObserveCancel(w) \/ FinishRun(w) \/ Crash(w)
    <2>1. /\ cache'[w] = {} /\ buf'[w] = EmptyBuffers /\ job'[w] = NoJob
          /\ ~paused'[w] /\ records' = records
          /\ paused' = [paused EXCEPT ![w] = FALSE]
      BY <1>11 DEF ObserveCancel, FinishRun, Crash, End, TypeOK
    <2>2. \A v \in Writers : job'[v].acl = {}
      BY <1>1, <2>1 DEF NoJob, NoAcls
    <2>3. IdleIsClean'
      BY <1>1, <2>1 DEF IdleIsClean, Active
    <2> QED BY <2>1, <2>2, <2>3 DEF NoAcls
  <1>12. CASE Cancel(w) \/ Pause(w) \/ Resume(w)
    <2>1. /\ Active(w) /\ UNCHANGED <<pc, cache, buf, job, records>>
          /\ paused' = [paused EXCEPT ![w] = paused'[w]]
      BY <1>12 DEF Cancel, Pause, Resume, IdleIsClean, TypeOK
    <2> QED BY <1>5, <2>1 DEF Active, NoAcls
  <1> HIDE DEF Clean, Typed, Safe, Consistent
  <1>13. CASE BackupBegins(w)
    BY <1>2, <1>13 DEF BackupBegins
  <1>14. CASE RunStep(w)
    BY <1>3, <1>6, <1>7, <1>8, <1>9, <1>10, <1>11, <1>14 DEF RunStep
  <1> QED BY <1>11, <1>12, <1>13, <1>14 DEF BackupStep, Disturb

\* Retention being idle, it disturbs nothing.
LEMMA BackupSpares ==
  ASSUME Safe, Allowed \subseteq {"listError"}, NEW w \in Writers, BackupStep(w)
  PROVE  RetentionAlone' /\ SweepInformed'
BY BackupAlone DEF RetentionAlone, SweepInformed

-----------------------------------------------------------------------------
\* Records.

\* With every buffer empty, what is backed is on disk.
LEMMA FlushedIsOnDisk ==
  ASSUME NEW w \in Writers, Flushed(w), NEW l, Backed(w, l)
  PROVE  OnDisk(l)
PROOF
  <1>1. \A fam \in Families : DOMAIN buf[w][fam].body = {}
    BY DEF Flushed
  <1> QED BY <1>1 DEF Backed, InBuffer

\* A record stays restorable while the disk grows under the same keyset.
LEMMA RestorableKept ==
  ASSUME objects \subseteq objects', packs \subseteq packs',
         keyset' = keyset, NEW r, Restorable(r)
  PROVE  Restorable(r)'
BY OnDiskGrows DEF Restorable, LocsOf, TreeLocs, TreeOf

\* The record a run writes is restorable: its run flushed before.
LEMMA NewRecordRestorable ==
  ASSUME Safe, Allowed \subseteq {"listError"}, NEW w \in Writers, NEW t \in 1..MaxTime,
         pc[w] = "flush", Flushed(w)
  PROVE  Restorable(NewRecord(w, t))
PROOF
  <1> DEFINE r == NewRecord(w, t)
  <1>1. /\ r.key = ses[w].key /\ r.root = job[w].root /\ r.acl = {}
        /\ TreeOf(r) = job[w].tree
    BY DEF Safe, Consistent, RunsBacked, RunBacked, NewRecord, TreeOf, NoAcls
  <1>2. ses[w].key = keyset
    BY DEF Safe, Consistent, KeysAgree, KeyAgrees
  <1>3. \A l \in LocsOf(r) : Usable(w, l)
    <2> HIDE DEF r
    <2> QED
      BY <1>1 DEF Safe, Consistent, RunsBacked, RunBacked, LocsOf
  <1> HIDE DEF r
  <1>4. Restorable(r)
    BY <1>1, <1>2, <1>3, FlushedIsOnDisk DEF Restorable, Usable
  <1> QED BY <1>4 DEF r

\* Every step of a run keeps every record restorable.
LEMMA BackupRecords ==
  ASSUME Safe, Allowed \subseteq {"listError"}, NEW w \in Writers, BackupStep(w)
  PROVE  RecordsRestorable'
PROOF
  <1> USE DEF Safe, Consistent
  <1>1. objects \subseteq objects' /\ packs \subseteq packs'
    BY WriterFrame
  <1>2. CASE keyset' = keyset /\ records' \subseteq records
    BY <1>1, <1>2, RestorableKept DEF RecordsRestorable
  <1>3. CASE WriteKeyset(w) /\ keyset' # keyset
    <2>1. pc[w] = "keyset" /\ ~ses[w].reused /\ records' = records
      BY <1>3 DEF WriteKeyset
    <2>2. records = {}
      BY <2>1 DEF KeysAgree, KeyAgrees
    <2> QED BY <2>1, <2>2 DEF RecordsRestorable
  <1>4. ASSUME NEW t \in 1..MaxTime, WriteRecord(w, t)
        PROVE  RecordsRestorable'
    <2>1. Restorable(NewRecord(w, t))
      BY <1>4, NewRecordRestorable DEF WriteRecord
    <2>2. /\ keyset' = keyset
          /\ \A r \in records' : r \in records \/ r = NewRecord(w, t)
      BY <1>4 DEF WriteRecord
    <2>3. \A r \in records' : Restorable(r)
      BY <2>1, <2>2 DEF RecordsRestorable
    <2> QED BY <1>1, <2>2, <2>3, RestorableKept DEF RecordsRestorable
  <1>5. \/ keyset' = keyset /\ records' \subseteq records
        \/ WriteKeyset(w) /\ keyset' # keyset
        \/ \E t \in 1..MaxTime : WriteRecord(w, t)
    <2>1. BackupBegins(w) => keyset' = keyset /\ records' = records
      BY DEF BackupBegins, StartRun, destVars
    <2>2. WriteKeyset(w) => records' = records
      BY DEF WriteKeyset
    <2>3. RunStep(w) => \/ WriteKeyset(w)
                        \/ \E t \in 1..MaxTime : WriteRecord(w, t)
                        \/ keyset' = keyset /\ records' = records
      BY DEF RunStep, Seed, SkipFile, ReuseFile, NoRootAcl, FlushPack,
             StoreTree, BeginFolder, StoreFile, StoreRootAcl, ObserveCancel,
             FinishRun, destVars
    <2>4. Disturb(w) => keyset' = keyset /\ records' = records
      BY DEF Disturb, Cancel, Pause, Resume, Crash, destVars
    <2> QED BY <2>1, <2>2, <2>3, <2>4 DEF BackupStep
  <1> QED BY <1>2, <1>3, <1>4, <1>5

-----------------------------------------------------------------------------
\* What a run holds on to.

\* A buffer that becomes a pack keeps what it held reachable.
LEMMA BufferReachesDisk ==
  ASSUME Typed, NEW w \in Writers, NEW fam \in Families,
         buf[w][fam] \in packs',
         NEW l, l.pack = buf[w][fam].path, l.off \in DOMAIN buf[w][fam].body,
         buf[w][fam].body[l.off] = l.id
  PROVE  OnDisk(l)'
PROOF
  <1>1. buf[w][fam].body # <<>>
    OBVIOUS
  <1>2. l.pack # NoPack
    BY <1>1 DEF Typed, BuffersNamed
  <1> QED BY <1>2 DEF OnDisk

\* PackBuilder.add loses nothing: what the run could reach it still can, and
\* the blob at l is where l says.
LEMMA AppendToPackBacks ==
  ASSUME Typed, NEW w \in Writers, ses[w].packed, NEW id,
         NEW fam \in Families, NEW l, l = NewLoc(w, id, fam),
         AppendToPack(w, l, fam)
  PROVE  /\ Backed(w, l)'
         /\ \A m : Backed(w, m) => Backed(w, m)'
PROOF
  <1> DEFINE old == buf[w][fam].body
  <1>1. old \in Seq(BlobId)
    BY DEF Typed, TypeOK
  <1>2. /\ objects' = objects /\ packs \subseteq packs'
        /\ Overflows(w, fam) => buf[w][fam] \in packs'
    BY DEF AppendToPack
  <1>3. \A f \in Families \ {fam} : buf'[w][f] = buf[w][f]
    BY DEF AppendToPack, Typed, TypeOK
  <1>4. CASE FreshPack(w, fam)
    <2>1. l = Packed(id, nextPack, 1)
      BY <1>4 DEF NewLoc
    <2>2. buf'[w][fam] = [path |-> nextPack, body |-> <<id>>]
      BY <1>4, <2>1 DEF AppendToPack, Packed, Typed, TypeOK
    <2>3. InBuffer(w, l)'
      BY <2>1, <2>2 DEF InBuffer, Packed
    <2>4. ASSUME NEW m, InBuffer(w, m)
          PROVE  Backed(w, m)'
      <3>1. PICK f \in Families : /\ buf[w][f].path = m.pack
                                  /\ m.off \in DOMAIN buf[w][f].body
                                  /\ buf[w][f].body[m.off] = m.id
        BY <2>4 DEF InBuffer
      <3>2. CASE f # fam
        BY <1>3, <3>1, <3>2 DEF InBuffer, Backed
      <3>3. CASE f = fam
        <4>1. old # <<>>
          BY <3>1, <3>3
        <4>2. buf[w][fam] \in packs'
          BY <1>2, <1>4, <4>1 DEF FreshPack
        <4>3. OnDisk(m)'
          BY <3>1, <3>3, <4>2, BufferReachesDisk
        <4> QED BY <4>3 DEF Backed
      <3> QED BY <3>2, <3>3
    <2> QED BY <1>2, <2>3, <2>4, OnDiskGrows DEF Backed
  <1>5. CASE ~FreshPack(w, fam)
    <2>1. l = Packed(id, buf[w][fam].path, Len(old) + 1)
      BY <1>5 DEF NewLoc
    <2>2. buf'[w][fam] = [path |-> buf[w][fam].path, body |-> Append(old, id)]
      <3>1. l.pack = buf[w][fam].path /\ l.id = id
        BY <2>1 DEF Packed
      <3>2. buf' = [buf EXCEPT ![w][fam] =
                     [path |-> l.pack, body |-> Append(old, l.id)]]
        BY <1>5 DEF AppendToPack
      <3> QED BY <3>1, <3>2 DEF Typed, TypeOK
    <2>3. /\ Len(old) + 1 \in DOMAIN Append(old, id)
          /\ Append(old, id)[Len(old) + 1] = id
          /\ \A i \in DOMAIN old : /\ i \in DOMAIN Append(old, id)
                                   /\ Append(old, id)[i] = old[i]
      <3> HIDE DEF old
      <3> DEFINE new == Append(old, id)
      <3>1. Len(new) = Len(old) + 1 /\ DOMAIN new = 1..Len(new)
        BY <1>1
      <3> QED BY <1>1, <3>1
    <2>4. InBuffer(w, l)'
      BY <2>1, <2>2, <2>3 DEF InBuffer, Packed
    <2>5. ASSUME NEW m, InBuffer(w, m)
          PROVE  InBuffer(w, m)'
      BY <1>3, <2>2, <2>3, <2>5, SMTT(30) DEF InBuffer
    <2> QED BY <1>2, <2>4, <2>5, OnDiskGrows DEF Backed
  <1> QED BY <1>4, <1>5

\* _write_blob answers with a location its run can vouch for.
LEMMA StoreBlobBacks ==
  ASSUME Typed, NEW w \in Writers, RunBacked(w), NEW id,
         NEW fam \in Families, NEW l \in BlobLocs(w, id, fam),
         StoreBlob(w, l, fam)
  PROVE  /\ l.id = id
         /\ Backed(w, l)'
         /\ \A m : Backed(w, m) => Backed(w, m)'
         /\ cache'[w] = cache[w] \cup {l}
PROOF
  <1>1. cache'[w] = cache[w] \cup {l}
    BY DEF StoreBlob, Typed, TypeOK
  <1>2. CASE Cached(w, id) # {}
    <2>1. l \in cache[w] /\ l.id = id
      BY <1>2 DEF BlobLocs, Cached
    <2>2. UNCHANGED <<objects, packs, buf>>
      BY <1>2, <2>1 DEF StoreBlob
    <2>3. \A m : Backed(w, m) => Backed(w, m)'
      BY <2>2, OnDiskGrows DEF Backed, InBuffer
    <2> QED BY <1>1, <2>1, <2>3 DEF RunBacked
  <1>3. CASE Cached(w, id) = {}
    <2>1. l = NewLoc(w, id, fam) /\ l.id = id
      BY <1>3 DEF BlobLocs, NewLoc, Standalone, Packed
    <2>2. CASE ses[w].packed
      <3>1. AppendToPack(w, l, fam)
        BY <1>3, <2>1, <2>2 DEF StoreBlob
      <3> QED BY <1>1, <2>1, <2>2, <3>1, AppendToPackBacks
    <2>3. CASE ~ses[w].packed
      <3>1. /\ objects' = objects \cup {id} /\ packs' = packs /\ buf' = buf
            /\ l = Standalone(id)
        BY <1>3, <2>1, <2>3 DEF StoreBlob, NewLoc
      <3>2. OnDisk(l)'
        BY <3>1 DEF OnDisk, Standalone
      <3>3. \A m : Backed(w, m) => Backed(w, m)'
        BY <3>1, OnDiskGrows DEF Backed, InBuffer
      <3> QED BY <1>1, <2>1, <3>2, <3>3 DEF Backed
    <2> QED BY <2>2, <2>3
  <1> QED BY <1>2, <1>3

\* flush_packs moves a buffer to disk and loses nothing.
LEMMA FlushPackBacks ==
  ASSUME Typed, NEW w \in Writers, FlushPack(w)
  PROVE  \A m : Backed(w, m) => Backed(w, m)'
PROOF
  <1>1. PICK fam \in Families :
          /\ buf[w][fam].body # <<>>
          /\ packs' = packs \cup {buf[w][fam]}
          /\ buf' = [buf EXCEPT ![w][fam] = EmptyBuffer]
    BY FlushPackFacts
  <1>2. objects' = objects /\ packs \subseteq packs'
    BY <1>1 DEF FlushPack
  <1>3. ASSUME NEW m, InBuffer(w, m)
        PROVE  Backed(w, m)'
    <2>1. PICK f \in Families : /\ buf[w][f].path = m.pack
                                /\ m.off \in DOMAIN buf[w][f].body
                                /\ buf[w][f].body[m.off] = m.id
      BY <1>3 DEF InBuffer
    <2>2. CASE f # fam
      BY <1>1, <2>1, <2>2 DEF Backed, InBuffer, Typed, TypeOK
    <2>3. CASE f = fam
      BY <1>1, <2>1, <2>3, BufferReachesDisk DEF Backed
    <2> QED BY <2>2, <2>3
  <1> QED BY <1>2, <1>3, OnDiskGrows DEF Backed

\* A file's node is all that WithFile adds.
LEMMA WithFileFacts ==
  ASSUME NEW j \in Job, NEW l
  PROVE  /\ WithFile(j, l).prior = j.prior
         /\ WithFile(j, l).acl = j.acl
         /\ TreeLocs(WithFile(j, l).tree) \subseteq TreeLocs(j.tree) \cup {l}
PROOF
  <1>1. WithFile(j, l).prior = j.prior /\ WithFile(j, l).acl = j.acl
    BY DEF WithFile, Job
  <1>2. WithFile(j, l).tree = [j.tree EXCEPT ![j.next] = l]
    BY DEF WithFile, Job
  <1>3. j.tree \in Tree
    BY DEF Job
  <1> QED BY <1>1, <1>2, <1>3 DEF TreeLocs, Tree

\* A walking run that adds a file at a usable location is still backed.
LEMMA WalkBacked ==
  ASSUME objects \subseteq objects', packs \subseteq packs',
         NEW w \in Writers, RunBacked(w),
         \A m : Backed(w, m) => Backed(w, m)',
         ses' = ses, NEW l, Usable(w, l)',
         cache'[w] \subseteq cache[w] \cup {l},
         job[w] \in Job, job'[w] = WithFile(job[w], l), pc'[w] = "walk"
  PROVE  RunBacked(w)'
PROOF
  <1>1. \A m : Usable(w, m) => Usable(w, m)'
    BY DEF Usable
  <1>2. /\ job'[w].prior = job[w].prior /\ job'[w].acl = job[w].acl
        /\ TreeLocs(job'[w].tree) \subseteq TreeLocs(job[w].tree) \cup {l}
    <2>1. /\ WithFile(job[w], l).prior = job[w].prior /\ WithFile(job[w], l).acl = job[w].acl
          /\ TreeLocs(WithFile(job[w], l).tree) \subseteq TreeLocs(job[w].tree) \cup {l}
      BY WithFileFacts, Zenon
    <2>2. job'[w] = WithFile(job[w], l)
      OBVIOUS
    <2> QED BY <2>1, <2>2
  <1>3. \A m \in cache'[w] : Backed(w, m)'
    BY DEF RunBacked, Usable
  <1>4. \A m \in TreeLocs(job'[w].prior) : OnDisk(m)' /\ m.id.key = ses'[w].key
    BY <1>2, OnDiskGrows DEF RunBacked
  <1>5. \A m \in TreeLocs(job'[w].tree) \cup job'[w].acl : Usable(w, m)'
    BY <1>1, <1>2 DEF RunBacked
  <1> QED BY <1>3, <1>4, <1>5 DEF RunBacked

\* What a run seeds its cache with is on disk: objects that were listed and
\* locations that restorable records lead to.
LEMMA SeedBacked ==
  ASSUME Safe, Allowed \subseteq {"listError"}, NEW w \in Writers, Seed(w)
  PROVE  RunBacked(w)'
PROOF
  <1> USE DEF Safe, Consistent
  <1>1. \/ cache'[w] = {}
        \/ cache'[w] = {Standalone(id) : id \in objects} \cup
             {l \in Harvest(SeedRecords(w), SeedRecords(w)) : l.id \notin objects}
    BY ReadableFacts DEF Seed, Typed, TypeOK
  <1>2. \A id \in objects : OnDisk(Standalone(id))
    BY DEF OnDisk, Standalone
  <1>3. \A l \in Harvest(SeedRecords(w), SeedRecords(w)) : OnDisk(l)
    <2>1. SeedRecords(w) \subseteq records
      BY DEF SeedRecords, Latest, RecordsOf
    <2>2. \A r \in SeedRecords(w) : \A l \in {r.root} \cup TreeLocs(TreeOf(r)) :
            OnDisk(l)
      BY <2>1 DEF RecordsRestorable, Restorable, LocsOf
    <2> QED BY <2>2 DEF Harvest
  <1>4. \A l \in cache'[w] : OnDisk(l)
    BY <1>1, <1>2, <1>3
  <1>5. /\ objects' = objects /\ packs' = packs /\ job' = job /\ ses' = ses
        /\ buf' = buf /\ pc'[w] = "ready"
    BY DEF Seed, destVars, Typed, TypeOK
  <1>6. \A l : Backed(w, l) => Backed(w, l)'
    BY <1>5, OnDiskGrows DEF Backed, InBuffer
  <1> QED
    BY <1>4, <1>5, <1>6, OnDiskGrows
    DEF RunsBacked, RunBacked, Usable, Backed

\* The prior tree a walk starts with is that of a restorable record.
LEMMA BeginFolderBacked ==
  ASSUME Safe, Allowed \subseteq {"listError"}, NEW w \in Writers, NEW folder \in Folders,
         BeginFolder(w, folder)
  PROVE  RunBacked(w)'
PROOF
  <1> USE DEF Safe, Consistent
  <1>1. PICK tree \in PriorTrees(w, folder) :
          job' = [job EXCEPT ![w] =
            [NoJob EXCEPT !.folder = folder, !.prior = tree]]
    BY DEF BeginFolder
  <1>2. job'[w] = [NoJob EXCEPT !.folder = folder, !.prior = tree]
    BY <1>1 DEF Typed, TypeOK
  <1>3. /\ job'[w].prior = tree /\ job'[w].tree = EmptyTree
        /\ job'[w].acl = {}
    BY <1>2 DEF NoJob
  <1>4. \A l \in TreeLocs(tree) : OnDisk(l) /\ l.id.key = ses[w].key
    <2>1. CASE tree = EmptyTree
      BY <2>1, EmptyTreeLocs
    <2>2. CASE tree # EmptyTree
      <3>1. PICK r \in Latest(folder) : r.key = ses[w].key /\ tree = TreeOf(r)
        BY <1>1, <2>2 DEF PriorTrees
      <3>2. Restorable(r)
        BY <3>1 DEF Latest, RecordsOf, RecordsRestorable
      <3> QED BY <3>1, <3>2 DEF Restorable, LocsOf
    <2> QED BY <2>1, <2>2
  <1>5. /\ objects' = objects /\ packs' = packs /\ cache' = cache
        /\ ses' = ses /\ buf' = buf /\ pc'[w] = "walk"
    BY DEF BeginFolder, destVars, Typed, TypeOK
  <1>6. \A l : Backed(w, l) => Backed(w, l)'
    BY <1>5, OnDiskGrows DEF Backed, InBuffer
  <1> QED
    BY <1>3, <1>4, <1>5, <1>6, EmptyTreeLocs, OnDiskGrows
    DEF RunsBacked, RunBacked, Usable, Backed

\* Every step of a run keeps every run backed.
LEMMA BackupBacked ==
  ASSUME Safe, Allowed \subseteq {"listError"}, NEW w \in Writers, BackupStep(w)
  PROVE  RunsBacked'
PROOF
  <1> USE DEF Safe, Consistent, destVars
  <1>1. /\ objects \subseteq objects' /\ packs \subseteq packs'
        /\ RunBacked(w)
    BY WriterFrame DEF RunsBacked
  <1>2. \A v \in Writers \ {w} : RunBacked(v)'
    BY <1>1, WriterFrame, RunBackedGrows DEF RunsBacked
  <1> SUFFICES RunBacked(w)'
    BY <1>2 DEF RunsBacked
  <1>3. ASSUME NEW d \in BOOLEAN, NEW o \in BOOLEAN, NEW p \in BOOLEAN,
               NEW sources \in SUBSET Folders, StartRun(w, d, o, p, sources)
        PROVE  RunBacked(w)'
    <2>1. /\ cache'[w] = {} /\ job'[w] = NoJob /\ pc'[w] = "keyset"
      BY <1>3 DEF StartRun, IdleIsClean, Active, Typed, TypeOK
    <2> QED BY <2>1, EmptyTreeLocs DEF RunBacked, NoJob
  <1>4. ASSUME UNCHANGED <<objects, packs, cache, buf, ses>>,
               TreeLocs(job'[w].tree) = TreeLocs(job[w].tree),
               job'[w].prior = job[w].prior, job'[w].acl = job[w].acl,
               pc'[w] \in {"acl", "flush"} => job' = job
                                            /\ pc[w] \in {"acl", "flush"}
        PROVE  RunBacked(w)'
    <2>1. \A l : Backed(w, l) => Backed(w, l)'
      BY <1>4, OnDiskGrows DEF Backed, InBuffer
    <2>2. \A l : Usable(w, l) => Usable(w, l)'
      BY <1>4, <2>1 DEF Usable
    <2>3. pc'[w] \in {"acl", "flush"} =>
            Usable(w, job[w].root)' /\ job'[w].root.id.of = job'[w].tree
      BY <1>1, <1>4 DEF RunBacked, Usable, Backed, InBuffer, OnDisk
    <2> QED BY <1>1, <1>4, <2>1, <2>2, <2>3, OnDiskGrows DEF RunBacked
  <1>5. CASE WriteKeyset(w) \/ NoRootAcl(w) \/ SkipFile(w)
             \/ Cancel(w) \/ Pause(w) \/ Resume(w)
    <2>1. UNCHANGED <<objects, packs, cache, buf, ses>>
      BY <1>5 DEF WriteKeyset, NoRootAcl, SkipFile, Cancel, Pause, Resume
    <2>2. /\ job'[w].tree = job[w].tree /\ job'[w].prior = job[w].prior
          /\ job'[w].acl = job[w].acl
      BY <1>5
      DEF WriteKeyset, NoRootAcl, SkipFile, Cancel, Pause, Resume, Typed,
          TypeOK, Job
    <2>3. pc'[w] \in {"acl", "flush"} => job' = job /\ pc[w] \in {"acl", "flush"}
      BY <1>5
      DEF WriteKeyset, NoRootAcl, SkipFile, MayWalk, Cancel, Pause, Resume,
          Typed, TypeOK
    <2> QED BY <1>4, <2>1, <2>2, <2>3
  <1>6. CASE ReuseFile(w)
    <2>1. PICK l : l = job[w].prior[job[w].next]
      OBVIOUS
    <2>2. job[w] \in Job /\ job[w].next \in Files /\ l # NoLoc
      BY <1>6, <2>1, MayWalkFacts DEF ReuseFile, Typed
    <2>3. l \in TreeLocs(job[w].prior)
      BY <2>1, <2>2 DEF TreeLocs
    <2>4. OnDisk(l) /\ l.id.key = ses[w].key
      BY <1>1, <2>3 DEF RunBacked
    <2>5. /\ objects' = objects /\ packs' = packs /\ buf' = buf /\ ses' = ses
          /\ pc'[w] = "walk" /\ job'[w] = WithFile(job[w], l)
          /\ cache'[w] \subseteq cache[w] \cup {l}
      BY <1>6, <2>1 DEF ReuseFile, MayWalk, Typed, TypeOK
    <2>6. \A m : Backed(w, m) => Backed(w, m)'
      BY <2>5, OnDiskGrows DEF Backed, InBuffer
    <2>7. Usable(w, l)'
      BY <2>4, <2>5, <2>6 DEF Usable, Backed
    <2> QED BY <1>1, <2>2, <2>5, <2>6, <2>7, WalkBacked
  <1>7. ASSUME NEW c \in Contents, StoreFile(w, c)
        PROVE  RunBacked(w)'
    <2> DEFINE id == Blob(ses[w].key, c)
               fam == ContentFamily(c)
    <2>1. PICK l \in BlobLocs(w, id, fam) :
            /\ StoreBlob(w, l, fam)
            /\ job' = [job EXCEPT ![w] = WithFile(@, l)]
      BY <1>7 DEF StoreFile
    <2>2. fam \in Families /\ id.key = ses[w].key
      BY DEF ContentFamily, Families, Blob
    <2>3. /\ job[w] \in Job /\ job'[w] = WithFile(job[w], l) /\ ses' = ses
          /\ pc'[w] = "walk"
      BY <1>7, <2>1 DEF StoreFile, MayWalk, Typed, TypeOK
    <2> HIDE DEF id, fam
    <2>4. /\ l.id = id /\ Backed(w, l)'
          /\ \A m : Backed(w, m) => Backed(w, m)'
          /\ cache'[w] = cache[w] \cup {l}
      BY <1>1, <2>1, <2>2, StoreBlobBacks
    <2>5. Usable(w, l)'
      BY <2>2, <2>3, <2>4 DEF Usable
    <2> QED BY <1>1, <2>3, <2>4, <2>5, WalkBacked
  <1>8. CASE StoreTree(w)
    <2> DEFINE id == Blob(ses[w].key, job[w].tree)
    <2>1. PICK l \in BlobLocs(w, id, "tree") :
            StoreBlob(w, l, "tree") /\ job' = [job EXCEPT ![w].root = l]
      BY <1>8 DEF StoreTree
    <2>2. "tree" \in Families /\ id.key = ses[w].key /\ id.of = job[w].tree
      BY DEF Families, Blob
    <2>3. /\ job'[w].root = l /\ job'[w].tree = job[w].tree
          /\ job'[w].prior = job[w].prior /\ job'[w].acl = job[w].acl
          /\ ses' = ses
      BY <1>8, <2>1 DEF StoreTree, Typed, TypeOK, Job
    <2> HIDE DEF id
    <2>4. /\ l.id = id /\ Backed(w, l)'
          /\ \A m : Backed(w, m) => Backed(w, m)'
          /\ cache'[w] = cache[w] \cup {l}
      BY <1>1, <2>1, <2>2, StoreBlobBacks
    <2>5. Usable(w, l)'
      BY <2>2, <2>3, <2>4 DEF Usable
    <2>6. \A m : Usable(w, m) => Usable(w, m)'
      BY <2>3, <2>4 DEF Usable
    <2>7. \A m \in cache'[w] : Backed(w, m)'
      BY <1>1, <2>4 DEF RunBacked
    <2>8. Usable(w, job[w].root)' /\ job'[w].root.id.of = job'[w].tree
      BY <2>2, <2>3, <2>4, <2>5 DEF Usable, Backed, InBuffer, OnDisk
    <2> QED
      BY <1>1, <2>3, <2>6, <2>7, <2>8, OnDiskGrows DEF RunBacked
  <1>9. ASSUME NEW c \in Contents, StoreRootAcl(w, c)
        PROVE  RunBacked(w)'
    BY <1>9 DEF StoreRootAcl
  <1>10. CASE FlushPack(w)
    <2>1. \A m : Backed(w, m) => Backed(w, m)'
      BY <1>10, FlushPackBacks
    <2>2. ses' = ses /\ job' = job /\ cache' = cache /\ pc' = pc
      BY <1>10 DEF FlushPack
    <2>3. \A m : Usable(w, m) => Usable(w, m)'
      BY <2>1, <2>2 DEF Usable
    <2>4. Usable(w, job[w].root) => Usable(w, job[w].root)'
      BY <2>2, <2>3 DEF Usable, Backed, InBuffer, OnDisk
    <2> QED BY <1>1, <2>1, <2>2, <2>3, <2>4, OnDiskGrows DEF RunBacked
  <1>11. ASSUME NEW t \in 1..MaxTime, WriteRecord(w, t)
         PROVE  RunBacked(w)'
    <2>1. /\ UNCHANGED <<objects, packs, cache, buf>>
          /\ job'[w] = NoJob /\ pc'[w] = "ready"
      BY <1>11 DEF WriteRecord, Typed, TypeOK
    <2>2. \A l : Backed(w, l) => Backed(w, l)'
      BY <2>1, OnDiskGrows DEF Backed, InBuffer
    <2> QED BY <1>1, <2>1, <2>2, EmptyTreeLocs DEF RunBacked, NoJob
  <1>12. CASE ObserveCancel(w) \/ FinishRun(w) \/ Crash(w)
    <2>1. cache'[w] = {} /\ job'[w] = NoJob /\ pc'[w] = "idle"
      BY <1>12 DEF ObserveCancel, FinishRun, Crash, End, Typed, TypeOK
    <2> QED BY <2>1, EmptyTreeLocs DEF RunBacked, NoJob
  <1> HIDE DEF Safe, Consistent
  <1>13. CASE BackupBegins(w)
    BY <1>3, <1>13 DEF BackupBegins
  <1>14. CASE RunStep(w)
    BY <1>5, <1>6, <1>7, <1>8, <1>9, <1>10, <1>11, <1>12, <1>14, SeedBacked,
       BeginFolderBacked DEF RunStep
  <1> QED BY <1>5, <1>12, <1>13, <1>14 DEF BackupStep, Disturb

-----------------------------------------------------------------------------
\* Retention.

SweepStep ==
  /\ RetentionBegins \/ RetentionStep \/ RetentionCrash
  /\ UNCHANGED <<runVars, freshVars>>

\* While retention is at work no run is, and none has anything to lose.
LEMMA SweepAlone ==
  ASSUME Safe, Allowed \subseteq {"listError"}, SweepStep
  PROVE  /\ \A w \in Writers : ~Active(w)
         /\ RetentionAlone' /\ IdleIsClean' /\ RunsBacked'
PROOF
  <1> USE DEF Safe, Consistent
  <1>1. RetentionBegins => \A w \in Writers : ~Active(w)
    BY DEF RetentionBegins, NoBackup
  <1>2. RetentionStep \/ RetentionCrash => gpc # "idle"
    BY DEF RetentionStep, RetentionCrash, SelectVictims, UnlinkRecord,
           UnlinkRecordFails, CollectBlobs, SkipGc, PruneDone, ListObjects,
           DeleteObject, DeleteObjectFails, CollectPacks, ListPacks,
           DeletePack, DeletePackFails, FinishRetention, SweepDone
  <1>3. \A w \in Writers : ~Active(w)
    BY <1>1, <1>2 DEF SweepStep, RetentionAlone
  <1>4. /\ pc' = pc /\ cache' = cache /\ buf' = buf /\ job' = job
        /\ paused' = paused
    BY DEF SweepStep, runVars
  <1>5. RetentionAlone' /\ IdleIsClean'
    BY <1>3, <1>4 DEF RetentionAlone, Active, IdleIsClean
  <1>6. ASSUME NEW w \in Writers
        PROVE  RunBacked(w)'
    <2>1. pc'[w] = "idle" /\ cache'[w] = {} /\ job'[w] = NoJob
      BY <1>3, <1>4 DEF Active, IdleIsClean
    <2> QED BY <2>1, EmptyTreeLocs DEF RunBacked, NoJob
  <1> QED BY <1>3, <1>5, <1>6 DEF RunsBacked

\* Records only go, and the keyset stays.
LEMMA SweepFrame ==
  ASSUME SweepStep
  PROVE  /\ keyset' = keyset /\ records' \subseteq records
         /\ pc' = pc /\ ses' = ses /\ job' = job
PROOF
  <1>1. RetentionBegins => keyset' = keyset /\ records' = records
    BY DEF RetentionBegins, StartRetention, destVars
  <1>2. RetentionStep \/ RetentionCrash =>
          keyset' = keyset /\ records' \subseteq records
    BY DEF RetentionStep, RetentionCrash, SelectVictims, UnlinkRecord,
           UnlinkRecordFails, CollectBlobs, SkipGc, ListObjects, DeleteObject,
           DeleteObjectFails, CollectPacks, ListPacks, DeletePack,
           DeletePackFails, FinishRetention, destVars
  <1> QED BY <1>1, <1>2 DEF SweepStep, runVars

\* So the keys still agree.
LEMMA SweepKeys ==
  ASSUME KeysAgree, SweepStep
  PROVE  KeysAgree'
BY SweepFrame DEF KeysAgree, KeyAgrees, Active

\* And there is still no root ACL.
LEMMA SweepKeeps ==
  ASSUME Safe, SweepStep
  PROVE  /\ keyset' = keyset /\ records' \subseteq records
         /\ KeysAgree' /\ NoAcls'
BY SweepFrame, SweepKeys DEF Safe, Consistent, NoAcls

\* What is collected are the locations of all records.
LEMMA CollectedAll ==
  ASSUME Safe, Allowed \subseteq {"listError"}, NEW recs \in Readable(Decryptable),
         NEW trees \in Readable(recs), NEW r \in records, NEW l \in LocsOf(r)
  PROVE  l \in Collected(recs, trees)
PROOF
  <1>1. recs = records /\ trees = records
    <2>1. Decryptable = records
      BY DEF Safe, Consistent, KeysAgree, Decryptable
    <2> QED BY <2>1, ReadableFacts
  <1>2. OnDisk(r.root) /\ r.acl = {}
    BY DEF Safe, Consistent, RecordsRestorable, Restorable, LocsOf, NoAcls
  <1> QED BY <1>1, <1>2 DEF Collected, LocsOf

\* What retention has collected covers every record, and what it has yet to
\* delete none.
LEMMA SweepCovers ==
  ASSUME Safe, Allowed \subseteq {"listError"}, SweepStep
  PROVE  SweepInformed'
PROOF
  <1> USE DEF Safe, Consistent
  <1> SUFFICES SweepInformed'
    OBVIOUS
  <1>1. gc \in GcMemory
    BY DEF Typed, TypeOK
  <1>2. records' \subseteq records
    BY SweepKeeps
  <1>3. CASE gpc' \in {"idle", "prune"}
    BY <1>3 DEF SweepInformed
  <1>4. CASE CollectBlobs
    <2>1. PICK recs \in Readable(Decryptable) : \E trees \in Readable(recs) :
            gc' = [gc EXCEPT !.live = {l.id : l \in Collected(recs, trees)}]
      BY <1>4 DEF CollectBlobs
    <2>2. PICK trees \in Readable(recs) :
            gc' = [gc EXCEPT !.live = {l.id : l \in Collected(recs, trees)}]
      BY <2>1
    <2>3. gc'.live = {l.id : l \in Collected(recs, trees)}
      BY <1>1, <2>2 DEF GcMemory
    <2>4. gpc' = "list objects" /\ records' = records
      BY <1>4 DEF CollectBlobs, destVars
    <2> QED
      BY <2>3, <2>4, CollectedAll
      DEF SweepInformed, LocsOf, TreeLocs, TreeOf
  <1>5. CASE ListObjects
    <2>1. /\ gpc = "list objects" /\ gpc' = "objects" /\ records' = records
          /\ gc'.todo \cap gc.live = {} /\ gc'.live = gc.live
      BY <1>1, <1>5 DEF ListObjects, destVars, GcMemory
    <2> QED BY <2>1 DEF SweepInformed, LocsOf, TreeLocs, TreeOf
  <1>6. ASSUME NEW id \in gc.todo, DeleteObject(id) \/ DeleteObjectFails(id)
        PROVE  SweepInformed'
    <2>1. /\ gpc = "objects" /\ gpc' = "objects" /\ records' = records
          /\ gc'.todo \subseteq gc.todo /\ gc'.live = gc.live
      BY <1>1, <1>6 DEF DeleteObject, DeleteObjectFails, destVars, GcMemory
    <2> QED BY <2>1 DEF SweepInformed, LocsOf, TreeLocs, TreeOf
  <1>7. CASE CollectPacks
    <2>1. PICK recs \in Readable(Decryptable) : \E trees \in Readable(recs) :
            gc' = [gc EXCEPT
              !.livePacks = {l.pack : l \in Collected(recs, trees)}]
      BY <1>7 DEF CollectPacks
    <2>2. PICK trees \in Readable(recs) :
            gc' = [gc EXCEPT
              !.livePacks = {l.pack : l \in Collected(recs, trees)}]
      BY <2>1
    <2>3. gc'.livePacks = {l.pack : l \in Collected(recs, trees)}
      BY <1>1, <2>2 DEF GcMemory
    <2>4. gpc' = "list packs" /\ records' = records
      BY <1>7 DEF CollectPacks, destVars
    <2> QED
      BY <2>3, <2>4, CollectedAll
      DEF SweepInformed, LocsOf, TreeLocs, TreeOf
  <1>8. CASE ListPacks
    <2>1. /\ gpc = "list packs" /\ gpc' = "packs" /\ records' = records
          /\ \A p \in gc'.todoPacks : p.path \notin gc.livePacks
          /\ gc'.livePacks = gc.livePacks
      BY <1>1, <1>8 DEF ListPacks, destVars, GcMemory
    <2> QED BY <2>1 DEF SweepInformed, LocsOf, TreeLocs, TreeOf
  <1>9. ASSUME NEW p \in gc.todoPacks, DeletePack(p) \/ DeletePackFails(p)
        PROVE  SweepInformed'
    <2>1. /\ gpc = "packs" /\ gpc' = "packs" /\ records' = records
          /\ gc'.todoPacks \subseteq gc.todoPacks
          /\ gc'.livePacks = gc.livePacks
      BY <1>1, <1>9 DEF DeletePack, DeletePackFails, destVars, GcMemory
    <2> QED BY <2>1 DEF SweepInformed, LocsOf, TreeLocs, TreeOf
  <1> HIDE DEF Safe, Consistent
  <1>10. RetentionBegins => gpc' = "prune"
    BY DEF RetentionBegins, StartRetention
  <1>11. RetentionStep =>
           \/ gpc' \in {"idle", "prune"}
           \/ CollectBlobs \/ ListObjects \/ CollectPacks \/ ListPacks
           \/ \E id \in gc.todo : DeleteObject(id) \/ DeleteObjectFails(id)
           \/ \E p \in gc.todoPacks : DeletePack(p) \/ DeletePackFails(p)
    BY DEF RetentionStep, SelectVictims, UnlinkRecord, UnlinkRecordFails,
           SkipGc, FinishRetention
  <1> QED
    BY <1>3, <1>4, <1>5, <1>6, <1>7, <1>8, <1>9, <1>10, <1>11
    DEF SweepStep, RetentionCrash

\* Nothing a record needs is deleted.
LEMMA SweepRecords ==
  ASSUME Safe, Allowed \subseteq {"listError"}, SweepStep
  PROVE  RecordsRestorable'
PROOF
  <1> USE DEF Safe, Consistent
  <1>1. keyset' = keyset /\ records' \subseteq records
    BY SweepKeeps
  <1>2. ASSUME NEW r \in records, NEW l \in LocsOf(r)
        PROVE  OnDisk(l)'
    <2>1. OnDisk(l)
      BY <1>2 DEF RecordsRestorable, Restorable
    <2>2. CASE objects' = objects /\ packs' = packs
      BY <2>1, <2>2, OnDiskGrows
    <2>3. ASSUME NEW id \in gc.todo, DeleteObject(id)
          PROVE  OnDisk(l)'
      <3>1. gpc = "objects" /\ objects' = objects \ {id} /\ packs' = packs
        BY <2>3 DEF DeleteObject
      <3>2. l.id # id
        BY <1>2, <2>3, <3>1 DEF SweepInformed
      <3> QED BY <2>1, <3>1, <3>2 DEF OnDisk
    <2>4. ASSUME NEW p \in gc.todoPacks, DeletePack(p)
          PROVE  OnDisk(l)'
      <3>1. gpc = "packs" /\ objects' = objects /\ packs' = packs \ {p}
        BY <2>4 DEF DeletePack
      <3>2. p.path # l.pack
        BY <1>2, <2>4, <3>1 DEF SweepInformed
      <3> QED BY <2>1, <3>1, <3>2 DEF OnDisk
    <2>5. \/ objects' = objects /\ packs' = packs
          \/ \E id \in gc.todo : DeleteObject(id)
          \/ \E p \in gc.todoPacks : DeletePack(p)
      <3>1. RetentionBegins \/ RetentionCrash =>
              objects' = objects /\ packs' = packs
        BY DEF RetentionBegins, StartRetention, RetentionCrash, destVars
      <3>2. RetentionStep => \/ objects' = objects /\ packs' = packs
                             \/ \E id \in gc.todo : DeleteObject(id)
                             \/ \E p \in gc.todoPacks : DeletePack(p)
        BY DEF RetentionStep, SelectVictims, UnlinkRecord, UnlinkRecordFails,
               CollectBlobs, SkipGc, ListObjects, DeleteObjectFails,
               CollectPacks, ListPacks, DeletePackFails, FinishRetention,
               destVars
      <3> QED BY <3>1, <3>2 DEF SweepStep
    <2> QED BY <2>2, <2>3, <2>4, <2>5
  <1> QED
    BY <1>1, <1>2
    DEF RecordsRestorable, Restorable, LocsOf, TreeLocs, TreeOf

-----------------------------------------------------------------------------
\* The whole.

\* The invariant holds of the empty destination.
LEMMA InitSafe == Init => Safe
PROOF
  <1> SUFFICES ASSUME Init PROVE Safe
    OBVIOUS
  <1> USE DEF Init, DestInit, WriterInit, RetentionInit
  <1>1. Typed
    BY InitTyped, InitNamed DEF Typed
  <1>2. KeysAgree /\ RetentionAlone /\ SweepInformed /\ RecordsRestorable
    BY DEF KeysAgree, KeyAgrees, RetentionAlone, SweepInformed, Active,
           RecordsRestorable
  <1>3. IdleIsClean /\ NoAcls
    BY DEF IdleIsClean, NoAcls, NoJob
  <1>4. RunsBacked
    BY EmptyRunBacked DEF RunsBacked
  <1> QED BY <1>1, <1>2, <1>3, <1>4 DEF Safe, Consistent, Typed

\* The invariant is inductive.
LEMMA NextSafe ==
  ASSUME Allowed \subseteq {"listError"}, Safe, [Next]_vars
  PROVE  Safe'
PROOF
  <1>1. Typed'
    BY NextTyped DEF Safe
  <1> SUFFICES Consistent'
    BY <1>1 DEF Safe
  <1>2. ASSUME NEW w \in Writers, BackupStep(w)
        PROVE  Consistent'
    <2>1. KeysAgree'
      BY <1>2, BackupKeys DEF Safe, Consistent
    <2> QED
      BY <1>1, <1>2, <2>1, BackupClean, BackupSpares, BackupRecords,
         BackupBacked DEF Consistent, Typed
  <1>3. CASE SweepStep
    BY <1>1, <1>3, SweepAlone, SweepKeeps, SweepCovers, SweepRecords
    DEF Consistent, Typed
  <1>4. CASE UNCHANGED vars
    <2>1. /\ objects' = objects /\ packs' = packs /\ keyset' = keyset
          /\ records' = records /\ pc' = pc /\ ses' = ses /\ cache' = cache
          /\ buf' = buf /\ job' = job /\ gpc' = gpc /\ gc' = gc
          /\ paused' = paused
      BY <1>4 DEF vars, destVars, runVars, retentionVars
    <2>2. RunsBacked'
      BY <2>1, RunBackedGrows DEF Safe, Consistent, RunsBacked
    <2>3. RecordsRestorable'
      BY <2>1, RestorableKept DEF Safe, Consistent, RecordsRestorable
    <2>4. KeysAgree' /\ IdleIsClean' /\ NoAcls' /\ RetentionAlone'
      BY <2>1
      DEF Safe, Consistent, KeysAgree, KeyAgrees, IdleIsClean, NoAcls,
          RetentionAlone, Active
    <2>5. SweepInformed'
      BY <2>1 DEF Safe, Consistent, SweepInformed, LocsOf, TreeLocs, TreeOf
    <2> QED BY <1>1, <2>2, <2>3, <2>4, <2>5 DEF Consistent, Typed
  <1> QED BY <1>2, <1>3, <1>4 DEF Next, BackupStep, SweepStep

\* The inductive invariant of the system: one key, backed runs, an informed
\* sweep, restorable records.
THEOREM AlwaysConsistent ==
  ASSUME Allowed \subseteq {"listError"}
  PROVE  Spec => []Consistent
PROOF
  <1>1. Init => Safe
    BY InitSafe
  <1>2. Safe /\ [Next]_vars => Safe'
    BY NextSafe
  <1>3. Safe => Consistent
    BY DEF Safe
  <1> QED BY <1>1, <1>2, <1>3, PTL DEF Spec

\* Every record on the destination can be restored, however many runs write,
\* prune, are cancelled or die, and in whatever order.
THEOREM RecordsStayRestorable ==
  ASSUME Allowed \subseteq {"listError"}
  PROVE  Spec => []RecordsRestorable
PROOF
  <1>1. Spec => []Consistent
    BY AlwaysConsistent
  <1>2. Consistent => RecordsRestorable
    BY DEF Consistent
  <1> QED BY <1>1, <1>2, PTL

\* Nothing a live run would refer to is lost under it.
THEOREM RunsStayBacked ==
  ASSUME Allowed \subseteq {"listError"}
  PROVE  Spec => []RunsBacked
PROOF
  <1>1. Spec => []Consistent
    BY AlwaysConsistent
  <1>2. Consistent => RunsBacked
    BY DEF Consistent
  <1> QED BY <1>1, <1>2, PTL

-----------------------------------------------------------------------------
\* Numbers and finite sets.

\* A set of numbers has a least element.
LEMMA LeastNatural ==
  ASSUME NEW T, T \subseteq Nat, T # {}
  PROVE  \E n \in T : \A m \in T : n <= m
PROOF
  <1> DEFINE R == {pair \in Nat \X Nat : pair[1] < pair[2]}
  <1>1. R = OpToRel(<, Nat)
    BY Zenon DEF OpToRel
  <1>2. IsWellFoundedOn(R, Nat)
    BY <1>1, NatLessThanWellFounded, Zenon
  <1>3. \A m, n \in Nat : m < n => <<m, n>> \in R
    OBVIOUS
  <1> HIDE DEF R
  <1>4. PICK n \in T : \A m \in T : ~(<<m, n>> \in R)
    BY <1>2, WFMin, Zenon
  <1>5. \A m \in T : m \in Nat /\ n \in Nat /\ ~(m < n)
    BY <1>3, <1>4
  <1> QED BY <1>5

\* A bounded set of numbers has a greatest.
LEMMA GreatestNatural ==
  ASSUME NEW T, T \subseteq Nat, T # {},
         NEW bound \in Nat, \A t \in T : t <= bound
  PROVE  \E n \in T : \A m \in T : m <= n
PROOF
  <1> DEFINE U == {n \in Nat : \A m \in T : m <= n}
  <1>1. PICK u \in U : \A n \in U : u <= n
    <2>1. U \subseteq Nat /\ bound \in U
      OBVIOUS
    <2> HIDE DEF U
    <2> QED BY <2>1, LeastNatural
  <1>2. ASSUME u \notin T
        PROVE  FALSE
    <2>1. PICK t \in T : TRUE
      OBVIOUS
    <2>2. \A m \in T : m \in Nat /\ m <= u /\ m # u
      BY <1>1, <1>2
    <2>3. u \in Nat /\ u - 1 \in Nat
      BY <2>1, <2>2
    <2>4. u - 1 \in U
      BY <2>2, <2>3
    <2> QED BY <1>1, <2>3, <2>4
  <1> QED BY <1>1, <1>2

\* A later time never falls into an earlier bucket.
LEMMA BucketMonotone ==
  ASSUME NEW s \in Nat, NEW t \in Nat, NEW kind \in Nat \ {0}, s <= t
  PROVE  Bucket(s, kind) \in Nat /\ Bucket(s, kind) <= Bucket(t, kind)
BY DEF Bucket

BucketsOf(recs, kind) == {Bucket(s.time, kind) : s \in recs}

\* Finitely many records have finitely many buckets.
LEMMA BucketsFinite ==
  ASSUME NEW recs, IsFiniteSet(recs), NEW kind
  PROVE  IsFiniteSet(BucketsOf(recs, kind))
PROOF
  <1> DEFINE T == {Bucket(s.time, kind) : s \in recs}
             f == [s \in recs |-> Bucket(s.time, kind)]
  <1>1. f \in Surjection(recs, T)
    BY DEF Surjection
  <1> HIDE DEF f, T
  <1>2. IsFiniteSet(T)
    BY <1>1, FS_Surjection
  <1> QED BY <1>2 DEF T, BucketsOf

\* A finite subset has a numeric size, no greater than its superset's.
LEMMA SubsetSize ==
  ASSUME NEW S, IsFiniteSet(S), NEW T, T \subseteq S
  PROVE  /\ IsFiniteSet(T)
         /\ Cardinality(T) \in Nat /\ Cardinality(S) \in Nat
         /\ Cardinality(T) <= Cardinality(S)
BY FS_Subset, FS_CardinalityType

-----------------------------------------------------------------------------
\* The policy.

Policy == [last : Nat \cup {NoLimit}, limits : [Kinds -> Nat]]
NewerIn(recs, r) == {s \in recs : s.folder = r.folder /\ s.time > r.time}
OnePerPath(recs) == \A r, s \in recs : SamePath(r, s) => r = s

\* What justifies a removal is not lost while records come, or are replaced
\* at their paths.
LEMMA JustifiedGrows ==
  ASSUME NEW rest, NEW more, IsFiniteSet(more), OnePerPath(rest),
         \A s \in rest : \E t \in more : SamePath(s, t),
         NEW policy \in Policy, NEW r, Justified(r, policy, rest)
  PROVE  Justified(r, policy, more)
PROOF
  <1> DEFINE old == NewerIn(rest, r)
             new == NewerIn(more, r)
             f == [s \in old |-> CHOOSE t \in more : SamePath(s, t)]
  <1>1. \A s \in old : f[s] \in new /\ SamePath(s, f[s])
    <2> SUFFICES ASSUME NEW s \in old
                 PROVE  f[s] \in new /\ SamePath(s, f[s])
      OBVIOUS
    <2>1. \E t \in more : SamePath(s, t)
      BY DEF NewerIn
    <2>2. f[s] \in more /\ SamePath(s, f[s])
      BY <2>1
    <2> QED BY <2>2 DEF NewerIn, SamePath
  <1>2. IsFiniteSet(new)
    BY SubsetSize DEF NewerIn
  <1>3. f \in Injection(old, new)
    <2>1. f \in [old -> new]
      BY <1>1
    <2>2. \A s, t \in old : f[s] = f[t] => s = t
      BY <1>1 DEF SamePath, OnePerPath, NewerIn
    <2> QED BY <2>1, <2>2 DEF Injection, IsInjective
  <1> HIDE DEF f
  <1>4. /\ IsFiniteSet(old) /\ Cardinality(old) <= Cardinality(new)
        /\ Cardinality(old) \in Nat /\ Cardinality(new) \in Nat
    BY <1>2, <1>3, FS_Injection, FS_CardinalityType
  <1>5. ASSUME NEW kind \in Kinds
        PROVE  /\ BucketsOf(old, kind) \subseteq BucketsOf(new, kind)
               /\ Cardinality(BucketsOf(old, kind))
                    <= Cardinality(BucketsOf(new, kind))
               /\ Cardinality(BucketsOf(old, kind)) \in Nat
               /\ Cardinality(BucketsOf(new, kind)) \in Nat
    <2>1. BucketsOf(old, kind) \subseteq BucketsOf(new, kind)
      BY <1>1 DEF BucketsOf, SamePath
    <2>2. IsFiniteSet(BucketsOf(new, kind))
      BY <1>2, BucketsFinite
    <2> HIDE DEF old, new
    <2> QED BY <2>1, <2>2, SubsetSize
  <1>6. Cardinality(old) >= policy.last => Cardinality(new) >= policy.last
    <2>1. policy.last \in Int
      BY DEF Policy, NoLimit
    <2> HIDE DEF old, new
    <2> QED BY <1>4, <2>1
  <1>7. ASSUME NEW kind \in Kinds,
               \/ Bucket(r.time, kind) \in BucketsOf(old, kind)
               \/ Cardinality(BucketsOf(old, kind)) >= policy.limits[kind]
        PROVE  \/ Bucket(r.time, kind) \in BucketsOf(new, kind)
               \/ Cardinality(BucketsOf(new, kind)) >= policy.limits[kind]
    <2>1. policy.limits[kind] \in Nat
      BY DEF Policy
    <2> HIDE DEF old, new
    <2> QED BY <1>5, <1>7, <2>1
  <1>8. Cardinality(old) >= policy.last
    BY DEF Justified, NewerIn
  <1>9. \A kind \in Kinds :
          \/ Bucket(r.time, kind) \in BucketsOf(old, kind)
          \/ Cardinality(BucketsOf(old, kind)) >= policy.limits[kind]
    BY DEF Justified, NewerIn, BucketsOf
  <1>10. Cardinality(new) >= policy.last
    BY <1>6, <1>8
  <1>11. \A kind \in Kinds :
           \/ Bucket(r.time, kind) \in BucketsOf(new, kind)
           \/ Cardinality(BucketsOf(new, kind)) >= policy.limits[kind]
    BY <1>7, <1>9
  <1> QED BY <1>10, <1>11 DEF Justified, NewerIn, BucketsOf

-----------------------------------------------------------------------------
\* What select_retained keeps.

\* The records of one folder, as prune_records sees them when each can be
\* read: dated by their own times.
Listing(recs) ==
  /\ IsFiniteSet(recs)
  /\ OnePerPath(recs)
  /\ \A r, s \in recs : r.folder = s.folder
  /\ \A r \in recs : r.time \in 0..MaxTime
OwnDates(recs) == [r \in recs |-> r.time]
Kept(recs, policy) == SelectRetained(recs, OwnDates(recs), policy)

\* Of those newer in the order of select_retained, each is newer by its time.
LEMMA NewerByTime ==
  ASSUME NEW recs, Listing(recs), NEW r \in recs
  PROVE  Newer(recs, OwnDates(recs), r) = NewerIn(recs, r)
BY DEF Newer, NewerIn, OwnDates, Listing

\* The times of some records have a greatest.
LEMMA NewestOf ==
  ASSUME NEW recs, Listing(recs), NEW some, some \subseteq recs, some # {}
  PROVE  \E r \in some : \A s \in some : s.time <= r.time
PROOF
  <1> DEFINE T == {r.time : r \in some}
  <1>1. T \subseteq Nat /\ T # {} /\ \A t \in T : t <= MaxTime
    BY DEF Listing
  <1>2. MaxTime \in Nat
    BY WriterAssumption
  <1> HIDE DEF T
  <1>3. PICK n \in T : \A m \in T : m <= n
    BY <1>1, <1>2, GreatestNatural
  <1> QED BY <1>3 DEF T

\* The newest "last" records are kept whenever there are that many.
LEMMA LastKept ==
  ASSUME NEW recs, Listing(recs), NEW policy \in Policy, policy # KeepAll,
         NEW v \in recs, Cardinality(NewerIn(recs, v)) >= policy.last
  PROVE  Cardinality(NewerIn(Kept(recs, policy), v)) >= policy.last
PROOF
  <1> DEFINE newer == NewerIn(recs, v)
             top == {r \in newer : Cardinality(NewerIn(recs, r)) < policy.last}
             kept == NewerIn(Kept(recs, policy), v)
  <1>1. /\ IsFiniteSet(newer) /\ IsFiniteSet(top) /\ IsFiniteSet(kept)
        /\ Cardinality(newer) \in Nat /\ Cardinality(top) \in Nat
        /\ Cardinality(kept) \in Nat
    <2>1. newer \subseteq recs /\ top \subseteq recs /\ kept \subseteq recs
      BY DEF NewerIn, Kept, SelectRetained
    <2> QED BY <2>1, SubsetSize DEF Listing
  <1>2. policy.last \in Int
    BY DEF Policy, NoLimit
  <1>3. top \subseteq kept
    <2> SUFFICES ASSUME NEW r \in top
                 PROVE  r \in kept
      OBVIOUS
    <2>1. r \in recs /\ r \in NewerIn(recs, v)
      BY DEF NewerIn
    <2>2. Cardinality(Newer(recs, OwnDates(recs), r)) < policy.last
      BY <2>1, NewerByTime
    <2>3. r \in Kept(recs, policy)
      BY <2>1, <2>2 DEF Kept, SelectRetained
    <2> QED BY <2>1, <2>3 DEF NewerIn
  <1>4. Cardinality(top) <= Cardinality(kept)
    <2> HIDE DEF top, kept
    <2> QED BY <1>1, <1>3, SubsetSize
  <1>5. ASSUME Cardinality(top) < policy.last
        PROVE  FALSE
    <2>1. newer \ top # {}
      <3> HIDE DEF top
      <3>1. newer # top
        BY <1>1, <1>2, <1>5
      <3>2. top \subseteq newer
        BY DEF top
      <3> QED BY <3>1, <3>2
    <2>2. PICK m \in newer \ top : \A s \in newer \ top : s.time <= m.time
      BY <2>1, NewestOf DEF NewerIn
    <2>3. NewerIn(recs, m) \subseteq top
      BY <2>2 DEF NewerIn, Listing
    <2>4. Cardinality(NewerIn(recs, m)) <= Cardinality(top)
          /\ Cardinality(NewerIn(recs, m)) \in Nat
      <3> HIDE DEF top
      <3> QED BY <1>1, <2>3, SubsetSize
    <2>5. Cardinality(NewerIn(recs, m)) < policy.last
      BY <1>1, <1>2, <1>5, <2>4
    <2> QED BY <2>2, <2>5
  <1> QED BY <1>1, <1>2, <1>4, <1>5

\* A record that heads one of the newest buckets stays: a bucket is lost only
\* while a newer record of it, or as many newer buckets as its limit, stay.
LEMMA HeadsKept ==
  ASSUME NEW recs, Listing(recs), NEW policy \in Policy, policy # KeepAll,
         NEW kind \in Kinds, NEW v \in recs,
         ~HeadsBucket(recs, OwnDates(recs), policy, v, kind)
  PROVE  LET buckets == BucketsOf(NewerIn(Kept(recs, policy), v), kind)
         IN  \/ Bucket(v.time, kind) \in buckets
             \/ Cardinality(buckets) >= policy.limits[kind]
PROOF
  <1> DEFINE newer == NewerIn(recs, v)
             heads == {r \in newer :
                         HeadsBucket(recs, OwnDates(recs), policy, r, kind)}
             all == BucketsOf(newer, kind)
             top == BucketsOf(heads, kind)
             kept == BucketsOf(NewerIn(Kept(recs, policy), v), kind)
             limit == policy.limits[kind]
  <1>1. limit \in Nat /\ kind \in Nat \ {0}
    BY RetentionAssumption DEF Policy
  <1>2. \A r \in recs : r.time \in Nat
    BY DEF Listing
  <1>3. /\ IsFiniteSet(all) /\ IsFiniteSet(top) /\ IsFiniteSet(kept)
        /\ Cardinality(all) \in Nat /\ Cardinality(top) \in Nat
        /\ Cardinality(kept) \in Nat
    <2>1. /\ newer \subseteq recs /\ heads \subseteq recs
          /\ NewerIn(Kept(recs, policy), v) \subseteq recs
      BY DEF NewerIn, Kept, SelectRetained
    <2>2. /\ IsFiniteSet(newer) /\ IsFiniteSet(heads)
          /\ IsFiniteSet(NewerIn(Kept(recs, policy), v))
      BY <2>1, SubsetSize DEF Listing
    <2>3. IsFiniteSet(all) /\ IsFiniteSet(top) /\ IsFiniteSet(kept)
      <3> HIDE DEF newer, heads
      <3> QED BY <2>2, BucketsFinite
    <2> HIDE DEF all, top, kept
    <2> QED BY <2>3, FS_CardinalityType
  <1>4. top \subseteq kept /\ top \subseteq all
    <2>1. heads \subseteq NewerIn(Kept(recs, policy), v)
      BY DEF NewerIn, Kept, SelectRetained
    <2> QED BY <2>1 DEF BucketsOf
  <1>5. \A r \in recs :
          HeadsBucket(recs, OwnDates(recs), policy, r, kind) <=>
            /\ Bucket(r.time, kind) \notin BucketsOf(NewerIn(recs, r), kind)
            /\ Cardinality(BucketsOf(NewerIn(recs, r), kind)) < limit
    <2> SUFFICES ASSUME NEW r \in recs
                 PROVE  HeadsBucket(recs, OwnDates(recs), policy, r, kind) <=>
            /\ Bucket(r.time, kind) \notin BucketsOf(NewerIn(recs, r), kind)
            /\ Cardinality(BucketsOf(NewerIn(recs, r), kind)) < limit
      OBVIOUS
    <2>1. {Bucket(OwnDates(recs)[s], kind) : s \in NewerIn(recs, r)}
            = BucketsOf(NewerIn(recs, r), kind)
      BY DEF OwnDates, BucketsOf, NewerIn
    <2>2. OwnDates(recs)[r] = r.time
      BY DEF OwnDates
    <2> QED BY <2>1, <2>2, NewerByTime DEF HeadsBucket
  <1>6. ASSUME Cardinality(top) < limit
        PROVE  all \subseteq top
    <2> SUFFICES ASSUME all \ top # {} PROVE FALSE
      OBVIOUS
    <2>1. PICK b \in all \ top : \A c \in all \ top : c <= b
      <3>1. MaxTime \in Nat /\ Bucket(MaxTime, kind) \in Nat
        BY <1>1, BucketMonotone, WriterAssumption
      <3>2. \A c \in all : c \in Nat /\ c <= Bucket(MaxTime, kind)
        BY <1>1, <3>1, BucketMonotone DEF BucketsOf, NewerIn, Listing
      <3> HIDE DEF all, top
      <3> QED BY <3>1, <3>2, GreatestNatural
    <2> DEFINE mine == {r \in newer : Bucket(r.time, kind) = b}
    <2>2. PICK h \in mine : \A s \in mine : s.time <= h.time
      <3>1. mine # {} /\ mine \subseteq recs
        BY <2>1 DEF BucketsOf, NewerIn
      <3> HIDE DEF mine
      <3> QED BY <3>1, NewestOf
    <2>3. h \in recs /\ h \in newer /\ Bucket(h.time, kind) = b
      BY <2>2 DEF NewerIn
    <2>4. ASSUME NEW s \in NewerIn(recs, h)
          PROVE  Bucket(s.time, kind) \in top /\ Bucket(s.time, kind) # b
      <3>1. s \in newer /\ s.time > h.time /\ h.time \in Nat /\ s.time \in Nat
        BY <1>2, <2>3, <2>4 DEF NewerIn
      <3>2. s \notin mine
        BY <2>2, <3>1
      <3>3. Bucket(s.time, kind) # b
        BY <3>1, <3>2
      <3>4. /\ Bucket(s.time, kind) \in Nat /\ b \in Nat
            /\ b <= Bucket(s.time, kind)
        BY <1>1, <2>3, <3>1, BucketMonotone
      <3>5. Bucket(s.time, kind) \in all
        BY <3>1 DEF BucketsOf
      <3> HIDE DEF all, top
      <3> QED BY <2>1, <3>3, <3>4, <3>5
    <2>5. /\ BucketsOf(NewerIn(recs, h), kind) \subseteq top
          /\ b \notin BucketsOf(NewerIn(recs, h), kind)
      BY <2>4 DEF BucketsOf
    <2>6. Cardinality(BucketsOf(NewerIn(recs, h), kind)) < limit
      <3> HIDE DEF top, limit
      <3> QED BY <1>1, <1>3, <1>6, <2>5, SubsetSize
    <2>7. h \in heads
      BY <1>5, <2>3, <2>5, <2>6
    <2>8. b \in top
      BY <2>3, <2>7 DEF BucketsOf
    <2> QED BY <2>1, <2>8
  <1>7. CASE Cardinality(top) < limit
    <2>1. all = top
      <3> HIDE DEF all, top
      <3> QED BY <1>4, <1>6, <1>7
    <2>2. Bucket(v.time, kind) \in all
      BY <1>5, <1>7, <2>1
    <2> QED BY <1>4, <2>1, <2>2
  <1>8. CASE ~(Cardinality(top) < limit)
    <2>1. Cardinality(top) <= Cardinality(kept)
      <3> HIDE DEF top, kept
      <3> QED BY <1>3, <1>4, SubsetSize
    <2>2. Cardinality(kept) >= limit
      <3> HIDE DEF top, kept, limit
      <3> QED BY <1>1, <1>3, <1>8, <2>1
    <2> QED BY <2>2
  <1> QED BY <1>7, <1>8

\* Whatever is not kept is justified by what is.
LEMMA SelectJustified ==
  ASSUME NEW recs, Listing(recs), NEW policy \in Policy,
         NEW v \in recs \ Kept(recs, policy)
  PROVE  /\ policy # KeepAll
         /\ Justified(v, policy, Kept(recs, policy))
PROOF
  <1>1. policy # KeepAll
    BY DEF Kept, SelectRetained
  <1>2. /\ ~(Cardinality(NewerIn(recs, v)) < policy.last)
        /\ \A kind \in Kinds :
             ~HeadsBucket(recs, OwnDates(recs), policy, v, kind)
    BY <1>1, NewerByTime DEF Kept, SelectRetained
  <1>3. Cardinality(NewerIn(recs, v)) >= policy.last
    <2>1. policy.last \in Int
      BY DEF Policy, NoLimit
    <2>2. Cardinality(NewerIn(recs, v)) \in Nat
      BY SubsetSize DEF NewerIn, Listing
    <2> QED BY <1>2, <2>1, <2>2
  <1>4. Cardinality(NewerIn(Kept(recs, policy), v)) >= policy.last
    BY <1>1, <1>3, LastKept
  <1>5. \A kind \in Kinds :
          LET buckets == BucketsOf(NewerIn(Kept(recs, policy), v), kind)
          IN  \/ Bucket(v.time, kind) \in buckets
              \/ Cardinality(buckets) >= policy.limits[kind]
    BY <1>1, <1>2, HeadsKept
  <1> QED BY <1>1, <1>4, <1>5 DEF Justified, NewerIn, BucketsOf

-----------------------------------------------------------------------------
\* The invariant behind pruning.

\* What stays when every victim has gone.
Remaining == {s \in records : \A u \in gc.victims : ~SamePath(s, u)}

\* Records are finitely many, one per path.
RecordsListed ==
  /\ IsFiniteSet(records)
  /\ OnePerPath(records)
  /\ \A r \in records : r.time \in 0..MaxTime

\* Every record chosen to go is justified by those that would remain, though
\* others are unlinked before it and backups write in between.
VictimsJustified ==
  \A v \in gc.victims :
    gc.policy # KeepAll /\ Justified(v, gc.policy, Remaining)

Prudent == Typed /\ KeysAgree /\ RecordsListed /\ VictimsJustified

\* One key, and records that can be read.
Legible == "rekey" \notin Allowed /\ "readError" \notin Allowed

\* Under a run's step the records change by WriteRecord alone.
LEMMA BackupRecordStep ==
  ASSUME NEW w \in Writers, BackupStep(w)
  PROVE  /\ gc' = gc /\ gpc' = gpc
         /\ \/ records' = records
            \/ \E t \in 1..MaxTime : WriteRecord(w, t)
PROOF
  <1>1. BackupBegins(w) => records' = records
    BY DEF BackupBegins, StartRun, destVars
  <1>2. RunStep(w) => \/ records' = records
                      \/ \E t \in 1..MaxTime : WriteRecord(w, t)
    BY DEF RunStep, WriteKeyset, Seed, SkipFile, ReuseFile, NoRootAcl,
           FlushPack, StoreTree, BeginFolder, StoreFile, StoreRootAcl,
           ObserveCancel, FinishRun, destVars
  <1>3. Disturb(w) => records' = records
    BY DEF Disturb, Cancel, Pause, Resume, Crash, destVars
  <1> QED BY <1>1, <1>2, <1>3 DEF BackupStep, retentionVars

\* Under a retention run's step they change by UnlinkRecord alone.
LEMMA SweepRecordStep ==
  ASSUME Typed, SweepStep
  PROVE  \/ records' = records /\ gc'.victims = {}
         \/ /\ records' = records
            /\ gc'.victims = gc.victims /\ gc'.policy = gc.policy
         \/ \E folder \in Folders : SelectVictims(folder)
         \/ \E v \in gc.victims : UnlinkRecord(v) \/ UnlinkRecordFails(v)
PROOF
  <1> DEFINE Same == /\ records' = records
                     /\ gc'.victims = gc.victims /\ gc'.policy = gc.policy
             Reset == records' = records /\ gc'.victims = {}
  <1>1. gc \in GcMemory
    BY DEF Typed, TypeOK
  <1>2. RetentionBegins => Reset
    BY DEF RetentionBegins, StartRetention, NoGc, destVars
  <1>3. SkipGc \/ FinishRetention \/ RetentionCrash => Reset
    BY DEF SkipGc, FinishRetention, RetentionCrash, NoGc, destVars
  <1>4. CollectBlobs => Same
    BY <1>1 DEF CollectBlobs, GcMemory, destVars
  <1>5. CollectPacks => Same
    BY <1>1 DEF CollectPacks, GcMemory, destVars
  <1>6. ListObjects \/ ListPacks => Same
    BY <1>1 DEF ListObjects, ListPacks, GcMemory, destVars
  <1>7. \A id \in gc.todo : DeleteObject(id) \/ DeleteObjectFails(id) => Same
    BY <1>1 DEF DeleteObject, DeleteObjectFails, GcMemory, destVars
  <1>8. \A p \in gc.todoPacks : DeletePack(p) \/ DeletePackFails(p) => Same
    BY <1>1 DEF DeletePack, DeletePackFails, GcMemory, destVars
  <1> HIDE DEF Same, Reset
  <1>9. RetentionBegins \/ RetentionStep \/ RetentionCrash =>
          \/ Reset \/ Same
          \/ \E folder \in Folders : SelectVictims(folder)
          \/ \E v \in gc.victims : UnlinkRecord(v) \/ UnlinkRecordFails(v)
    BY <1>2, <1>3, <1>4, <1>5, <1>6, <1>7, <1>8 DEF RetentionStep
  <1> QED BY <1>9 DEF SweepStep, Same, Reset

\* The listing of a folder, and what is chosen from it.
LEMMA FolderListed ==
  ASSUME RecordsListed, NEW folder \in Folders
  PROVE  Listing(RecordsOf(folder))
PROOF
  <1>1. IsFiniteSet(RecordsOf(folder))
    BY SubsetSize DEF RecordsListed, RecordsOf
  <1> QED BY <1>1 DEF RecordsListed, Listing, RecordsOf, OnePerPath

\* A record replaces the one at its path and nothing else.
LEMMA WriteListed ==
  ASSUME RecordsListed, NEW w \in Writers, NEW t \in 1..MaxTime,
         WriteRecord(w, t)
  PROVE  /\ RecordsListed'
         /\ \A r \in records : \E s \in records' : SamePath(r, s)
         /\ \A r \in records' : r \in records \/ r = NewRecord(w, t)
PROOF
  <1> DEFINE n == NewRecord(w, t)
             old == {r \in records : ~SamePath(r, n)}
  <1>1. records' = old \cup {n} /\ n.time = t
    BY DEF WriteRecord, NewRecord
  <1> HIDE DEF n
  <1>2. IsFiniteSet(records')
    <2>1. IsFiniteSet(old)
      BY SubsetSize DEF RecordsListed
    <2> HIDE DEF old
    <2> QED BY <1>1, <2>1, FS_AddElement
  <1>3. OnePerPath(records')
    BY <1>1 DEF RecordsListed, OnePerPath, SamePath
  <1>4. \A r \in records' : r.time \in 0..MaxTime
    BY <1>1, WriterAssumption DEF RecordsListed
  <1>5. \A r \in records : \E s \in records' : SamePath(r, s)
    BY <1>1 DEF SamePath
  <1>6. \A r \in records' : r \in records \/ r = n
    BY <1>1
  <1> QED BY <1>2, <1>3, <1>4, <1>5, <1>6 DEF RecordsListed, n

\* Records stay finitely many, one per path.
LEMMA ListedKept ==
  ASSUME RecordsListed, records' \subseteq records
  PROVE  RecordsListed'
PROOF
  <1>1. IsFiniteSet(records')
    BY SubsetSize DEF RecordsListed
  <1> QED BY <1>1 DEF RecordsListed, OnePerPath

\* The victims that are still to go stay justified when what remains grows.
LEMMA VictimsKept ==
  ASSUME Prudent, RecordsListed', gc'.victims \subseteq gc.victims,
         gc'.policy = gc.policy,
         \A r \in Remaining : \E s \in Remaining' : SamePath(r, s)
  PROVE  VictimsJustified'
PROOF
  <1> SUFFICES ASSUME NEW v \in gc'.victims
               PROVE  gc'.policy # KeepAll
                      /\ Justified(v, gc'.policy, Remaining')
    BY DEF VictimsJustified
  <1>1. /\ gc.policy # KeepAll /\ gc.policy \in Policy
        /\ Justified(v, gc.policy, Remaining)
    <2>1. gc.policy \in Policies \cup {KeepAll}
      BY DEF Prudent, Typed, TypeOK, GcMemory
    <2> QED
      BY <2>1, RetentionAssumption
      DEF Prudent, VictimsJustified, Policy, NoLimit
  <1>2. OnePerPath(Remaining)
    BY DEF Prudent, RecordsListed, OnePerPath, Remaining
  <1>3. IsFiniteSet(Remaining')
    BY SubsetSize DEF RecordsListed, Remaining
  <1>4. Justified(v, gc.policy, Remaining')
    BY <1>1, <1>2, <1>3, JustifiedGrows
  <1> QED BY <1>1, <1>4

\* The invariant holds of the empty destination.
LEMMA InitPrudent == Init => Prudent
PROOF
  <1> SUFFICES ASSUME Init PROVE Prudent
    OBVIOUS
  <1>1. Typed /\ KeysAgree
    BY InitSafe DEF Safe, Consistent
  <1>2. records = {} /\ gc.victims = {}
    BY DEF Init, DestInit, RetentionInit, NoGc
  <1> QED
    BY <1>1, <1>2, FS_EmptySet
    DEF Prudent, RecordsListed, OnePerPath, VictimsJustified

\* It is kept by the steps of a run, whether retention is at work or not.
LEMMA BackupPrudent ==
  ASSUME Legible, Prudent, NEW w \in Writers, BackupStep(w)
  PROVE  KeysAgree' /\ RecordsListed' /\ VictimsJustified'
PROOF
  <1>1. KeysAgree'
    BY BackupKeys DEF Prudent, Legible
  <1>2. gc' = gc
    BY BackupRecordStep
  <1>3. CASE records' = records
    <2>1. RecordsListed'
      BY <1>3, ListedKept DEF Prudent
    <2>2. Remaining' = Remaining
      BY <1>2, <1>3 DEF Remaining
    <2>3. VictimsJustified'
      BY <1>2, <2>2 DEF Prudent, VictimsJustified
    <2> QED BY <1>1, <2>1, <2>3
  <1>4. ASSUME NEW t \in 1..MaxTime, WriteRecord(w, t)
        PROVE  RecordsListed' /\ VictimsJustified'
    <2>1. RecordsListed'
          /\ \A r \in records : \E s \in records' : SamePath(r, s)
      BY <1>4, WriteListed DEF Prudent
    <2>2. \A r \in Remaining : \E s \in Remaining' : SamePath(r, s)
      BY <1>2, <2>1 DEF Remaining, SamePath
    <2> QED BY <1>2, <2>1, <2>2, VictimsKept
  <1> QED BY <1>1, <1>3, <1>4, BackupRecordStep

\* And by those of a retention run, which chooses well and takes whole paths.
LEMMA SweepPrudent ==
  ASSUME Legible, Prudent, SweepStep
  PROVE  KeysAgree' /\ RecordsListed' /\ VictimsJustified'
PROOF
  <1> USE DEF Prudent
  <1>1. gc \in GcMemory
    BY DEF Typed, TypeOK
  <1>2. records' \subseteq records
    BY SweepFrame
  <1>3. KeysAgree'
    BY SweepKeys
  <1>4. RecordsListed'
    BY <1>2, ListedKept
  <1>5. CASE gc'.victims = {}
    BY <1>3, <1>4, <1>5 DEF VictimsJustified
  <1>6. CASE /\ records' = records
             /\ gc'.victims = gc.victims /\ gc'.policy = gc.policy
    <2>1. Remaining' = Remaining
      BY <1>6 DEF Remaining
    <2> QED BY <1>3, <1>4, <1>6, <2>1 DEF VictimsJustified
  <1>7. ASSUME NEW folder \in Folders, SelectVictims(folder)
        PROVE  VictimsJustified'
    <2> DEFINE recs == RecordsOf(folder)
    <2>1. Listing(recs)
      BY FolderListed
    <2>2. /\ gc'.victims = recs \ Kept(recs, gc.policy)
          /\ gc'.policy = gc.policy /\ records' = records
      <3>1. Readable(recs) = {recs}
        BY DEF Readable, Legible
      <3>2. {r \in recs : r.key = keyset} = recs
        BY DEF RecordsOf, KeysAgree
      <3>3. gc' = [gc EXCEPT !.folders = @ \ {folder},
                             !.victims = recs \ Kept(recs, gc.policy)]
        <4>1. PICK opened \in Readable({r \in recs : r.key = keyset}) :
                LET date == [r \in recs |->
                               IF r \in opened THEN r.time ELSE 0]
                IN  gc' = [gc EXCEPT !.folders = @ \ {folder},
                      !.victims = recs \ SelectRetained(recs, date, gc.policy)]
          BY <1>7, <3>1 DEF SelectVictims
        <4>2. opened = recs
          BY <3>1, <3>2
        <4> HIDE DEF recs
        <4>3. [r \in recs |-> IF r \in opened THEN r.time ELSE 0]
                = OwnDates(recs)
          BY <4>2 DEF OwnDates
        <4> QED BY <4>1, <4>3 DEF Kept
      <3> HIDE DEF recs
      <3> QED BY <1>1, <1>7, <3>3 DEF GcMemory, SelectVictims, destVars
    <2>3. gc.policy \in Policy
      BY <1>1, RetentionAssumption DEF GcMemory, Policy, KeepAll
    <2>4. Kept(recs, gc.policy) \subseteq Remaining'
      BY <2>2 DEF Remaining, Kept, SelectRetained, RecordsListed, OnePerPath,
                  RecordsOf
    <2>5. ASSUME NEW v \in gc'.victims
          PROVE  gc'.policy # KeepAll /\ Justified(v, gc'.policy, Remaining')
      <3>1. /\ gc.policy # KeepAll
            /\ Justified(v, gc.policy, Kept(recs, gc.policy))
        <4> HIDE DEF recs
        <4> QED BY <2>1, <2>2, <2>3, <2>5, SelectJustified
      <3>2. OnePerPath(Kept(recs, gc.policy))
        BY <2>1 DEF Listing, OnePerPath, Kept, SelectRetained
      <3>3. IsFiniteSet(Remaining')
        BY <1>4, SubsetSize DEF RecordsListed, Remaining
      <3>4. \A s \in Kept(recs, gc.policy) :
              \E t \in Remaining' : SamePath(s, t)
        BY <2>4 DEF SamePath
      <3>5. Justified(v, gc.policy, Remaining')
        <4> HIDE DEF recs
        <4> QED BY <2>3, <3>1, <3>2, <3>3, <3>4, JustifiedGrows
      <3> QED BY <2>2, <3>1, <3>5
    <2> QED BY <2>5 DEF VictimsJustified
  <1>8. ASSUME NEW v \in gc.victims, UnlinkRecord(v) \/ UnlinkRecordFails(v)
        PROVE  VictimsJustified'
    <2>1. /\ gc'.victims = gc.victims \ {v} /\ gc'.policy = gc.policy
          /\ records' \in {records, {r \in records : ~SamePath(r, v)}}
      BY <1>1, <1>8 DEF UnlinkRecord, UnlinkRecordFails, GcMemory, destVars
    <2>2. Remaining \subseteq Remaining'
      BY <2>1 DEF Remaining
    <2>3. \A r \in Remaining : \E s \in Remaining' : SamePath(r, s)
      BY <2>2 DEF SamePath
    <2> QED BY <1>4, <2>1, <2>3, VictimsKept
  <1> QED
    BY <1>3, <1>4, <1>5, <1>6, <1>7, <1>8, SweepRecordStep

\* The invariant is inductive.
LEMMA NextPrudent ==
  ASSUME Legible, Prudent, [Next]_vars
  PROVE  Prudent'
PROOF
  <1>1. Typed'
    BY NextTyped DEF Prudent
  <1>2. CASE UNCHANGED vars
    BY <1>1, <1>2
    DEF vars, destVars, runVars, retentionVars, Prudent, KeysAgree, KeyAgrees,
        Active, RecordsListed, OnePerPath, VictimsJustified, Remaining
  <1> QED
    BY <1>1, <1>2, BackupPrudent, SweepPrudent
    DEF Next, BackupStep, SweepStep, Prudent

-----------------------------------------------------------------------------
\* What follows for every step.

\* A record that goes is justified by those that remain.
LEMMA StepHonours ==
  ASSUME Legible, Prudent, [Next]_vars
  PROVE  \A r \in records :
           \/ \E s \in records' : SamePath(r, s)
           \/ Justified(r, gc.policy, records')
PROOF
  <1> SUFFICES ASSUME NEW r \in records, \A s \in records' : ~SamePath(r, s)
               PROVE  Justified(r, gc.policy, records')
    OBVIOUS
  <1>1. records' # records
    BY DEF SamePath
  <1>2. ASSUME NEW w \in Writers, BackupStep(w)
        PROVE  FALSE
    BY <1>1, <1>2, BackupRecordStep, WriteListed DEF Prudent
  <1>3. PICK v \in gc.victims : UnlinkRecord(v)
    <2>1. SweepStep
      BY <1>1, <1>2 DEF Next, BackupStep, SweepStep, vars, destVars
    <2>2. ~\E folder \in Folders : SelectVictims(folder)
      BY <1>1 DEF SelectVictims, destVars
    <2>3. ~\E v \in gc.victims : UnlinkRecordFails(v)
      BY <1>1 DEF UnlinkRecordFails, destVars
    <2> QED BY <1>1, <2>1, <2>2, <2>3, SweepRecordStep DEF Prudent
  <1>4. records' = {s \in records : ~SamePath(s, v)} /\ SamePath(r, v)
    BY <1>3 DEF UnlinkRecord, SamePath
  <1>5. Justified(v, gc.policy, Remaining) /\ gc.policy \in Policy
    BY RetentionAssumption
    DEF Prudent, VictimsJustified, Typed, TypeOK, GcMemory, Policy, KeepAll
  <1>6. Remaining \subseteq records'
    BY <1>4 DEF Remaining
  <1>7. IsFiniteSet(records') /\ OnePerPath(Remaining)
    BY NextPrudent DEF Prudent, RecordsListed, OnePerPath, Remaining
  <1>8. \A s \in Remaining : \E t \in records' : SamePath(s, t)
    BY <1>6 DEF SamePath
  <1>9. Justified(v, gc.policy, records')
    BY <1>5, <1>7, <1>8, JustifiedGrows
  <1> QED BY <1>4, <1>9 DEF Justified, SamePath

\* Some policies keep nothing; of the others each keeps a record.
Keeps(policy) ==
  policy.last > 0 \/ \E kind \in Kinds : policy.limits[kind] > 0
EveryPolicyKeeps == \A policy \in Policies \ {KeepAll} : Keeps(policy)

\* What a policy that keeps something lets go has a newer one.
LEMMA JustifiedByNewer ==
  ASSUME NEW rest, NEW policy \in Policy, Keeps(policy), NEW r,
         Justified(r, policy, rest)
  PROVE  NewerIn(rest, r) # {}
PROOF
  <1> SUFFICES ASSUME NewerIn(rest, r) = {}
               PROVE  FALSE
    OBVIOUS
  <1>1. Cardinality({}) = 0
    BY FS_EmptySet
  <1>2. 0 >= policy.last
    BY <1>1 DEF Justified, NewerIn
  <1>3. ASSUME NEW kind \in Kinds
        PROVE  0 >= policy.limits[kind]
    <2>1. BucketsOf(NewerIn(rest, r), kind) = {}
      BY DEF BucketsOf
    <2>2. \/ Bucket(r.time, kind) \in BucketsOf(NewerIn(rest, r), kind)
          \/ Cardinality(BucketsOf(NewerIn(rest, r), kind))
               >= policy.limits[kind]
      BY DEF Justified, NewerIn, BucketsOf
    <2> QED BY <1>1, <2>1, <2>2
  <1>4. policy.last \in Int /\ \A kind \in Kinds : policy.limits[kind] \in Nat
    BY DEF Policy, NoLimit
  <1> QED BY <1>2, <1>3, <1>4 DEF Keeps

\* The newest record of a folder is never let go.
LEMMA StepKeepsNewest ==
  ASSUME Legible, EveryPolicyKeeps, Prudent, [Next]_vars
  PROVE  \A f \in Folders : \A r \in Latest(f) :
           \E s \in records' : SamePath(r, s)
PROOF
  <1> SUFFICES ASSUME NEW f \in Folders, NEW r \in Latest(f),
                      \A s \in records' : ~SamePath(r, s)
               PROVE  FALSE
    OBVIOUS
  <1>1. r \in records /\ r.folder = f
    BY DEF Latest, RecordsOf
  <1>2. records' # records
    BY <1>1 DEF SamePath
  <1>3. ASSUME NEW w \in Writers, BackupStep(w)
        PROVE  FALSE
    BY <1>1, <1>2, <1>3, BackupRecordStep, WriteListed DEF Prudent
  <1>4. PICK v \in gc.victims : UnlinkRecord(v)
    <2>1. SweepStep
      BY <1>2, <1>3 DEF Next, BackupStep, SweepStep, vars, destVars
    <2>2. ~\E folder \in Folders : SelectVictims(folder)
      BY <1>2 DEF SelectVictims, destVars
    <2>3. ~\E v \in gc.victims : UnlinkRecordFails(v)
      BY <1>2 DEF UnlinkRecordFails, destVars
    <2> QED BY <1>2, <2>1, <2>2, <2>3, SweepRecordStep DEF Prudent
  <1>5. SamePath(r, v)
    BY <1>1, <1>4 DEF UnlinkRecord, SamePath
  <1>6. /\ Justified(v, gc.policy, Remaining) /\ gc.policy \in Policy
        /\ Keeps(gc.policy)
    BY RetentionAssumption
    DEF Prudent, VictimsJustified, Typed, TypeOK, GcMemory, Policy, KeepAll,
        EveryPolicyKeeps
  <1>7. NewerIn(Remaining, v) # {}
    BY <1>6, JustifiedByNewer
  <1>8. PICK s \in records : s.folder = f /\ s.time > r.time
    BY <1>1, <1>5, <1>7 DEF NewerIn, Remaining, SamePath
  <1>9. s.time <= r.time
    BY <1>8 DEF Latest, RecordsOf
  <1>10. s.time \in Nat /\ r.time \in Nat
    BY <1>1 DEF Prudent, RecordsListed
  <1> QED BY <1>8, <1>9, <1>10

-----------------------------------------------------------------------------
\* The theorems.

\* Whoever backs up, prunes, crashes or fails to unlink meanwhile, records go
\* only while what the policy promises stays (select_retained, prune_records).
THEOREM PolicyIsHonoured ==
  ASSUME Legible
  PROVE  Spec => PolicyHonoured
PROOF
  <1> DEFINE Honoured == \A r \in records :
                           \/ \E s \in records' : SamePath(r, s)
                           \/ Justified(r, gc.policy, records')
  <1>1. Init => Prudent
    BY InitPrudent
  <1>2. Prudent /\ [Next]_vars => Prudent'
    BY NextPrudent
  <1>3. Prudent /\ [Next]_vars => [Honoured]_vars
    BY StepHonours
  <1> QED BY <1>1, <1>2, <1>3, PTL DEF Spec, PolicyHonoured

\* The newest record of every folder outlives every retention run whose policy
\* keeps anything at all (prune_records).
THEOREM NewestIsKept ==
  ASSUME Legible, EveryPolicyKeeps
  PROVE  Spec => NewestKept
PROOF
  <1> DEFINE Stays == \A f \in Folders : \A r \in Latest(f) :
                        \E s \in records' : SamePath(r, s)
  <1>1. Init => Prudent
    BY InitPrudent
  <1>2. Prudent /\ [Next]_vars => Prudent'
    BY NextPrudent
  <1>3. Prudent /\ [Next]_vars => [Stays]_vars
    BY StepKeepsNewest
  <1> QED BY <1>1, <1>2, <1>3, PTL DEF Spec, NewestKept

-----------------------------------------------------------------------------
\* What a sweep leaves behind.  It takes that no run is at work; reads that fail
\* make it delete more, never less, and what a listing hides is left.

ReferredIds == {l.id : l \in UNION {LocsOf(r) : r \in records}}
ReferredPacks == {l.pack : l \in UNION {LocsOf(r) : r \in records}}

\* What a sweep has dealt with is referred to, or noted as left.
Swept ==
  /\ gpc \in {"list objects", "objects"} => gc.live \subseteq ReferredIds
  /\ gpc = "objects" =>
       objects \subseteq ReferredIds \cup gc.todo \cup gc.leftObjects
  /\ gpc \in {"list packs", "packs"} => gc.livePacks \subseteq ReferredPacks
  /\ gpc \in {"list packs", "packs"} =>
       objects \subseteq ReferredIds \cup gc.leftObjects
  /\ gpc = "packs" =>
       \A p \in packs : \/ p.path \in ReferredPacks
                        \/ p \in gc.todoPacks \cup gc.leftPacks

Tidy == Typed /\ RetentionAlone /\ Swept

\* What retention collects, records refer to.
LEMMA CollectedReferred ==
  ASSUME NEW recs \in Readable(Decryptable), NEW trees \in Readable(recs),
         NEW l \in Collected(recs, trees)
  PROVE  l.id \in ReferredIds /\ l.pack \in ReferredPacks
PROOF
  <1>1. recs \subseteq records /\ trees \subseteq recs
    BY DEF Readable, Decryptable
  <1>2. \E r \in records : l \in LocsOf(r)
    BY <1>1 DEF Collected, LocsOf
  <1> QED BY <1>2 DEF ReferredIds, ReferredPacks

\* No run works beside a sweep that overlaps none.
LEMMA RunsRest ==
  ASSUME "overlap" \notin Allowed, RetentionAlone,
         NEW w \in Writers, BackupStep(w)
  PROVE  /\ RetentionAlone'
         /\ \/ gpc' = "idle"
            \/ /\ objects' = objects /\ packs' = packs /\ records' = records
               /\ gpc' = gpc /\ gc' = gc
PROOF
  <1>1. gpc' = gpc /\ gc' = gc
    BY DEF BackupStep, retentionVars
  <1>2. CASE gpc = "idle"
    BY <1>1, <1>2 DEF RetentionAlone
  <1>3. CASE gpc # "idle"
    <2>1. ~Active(w)
      BY <1>3 DEF RetentionAlone
    <2>2. ~BackupBegins(w)
      BY <1>3 DEF BackupBegins, NoRetention
    <2>3. ~RunStep(w)
      BY <2>1
      DEF RunStep, Active, WriteKeyset, Seed, BeginFolder, SkipFile, ReuseFile,
          StoreFile, MayWalk, ObserveCancel, StoreTree, StoreRootAcl,
          NoRootAcl, FlushPack, WriteRecord, FinishRun
    <2>4. Resume(w)
      BY <2>1, <2>2, <2>3 DEF BackupStep, Disturb, Cancel, Pause, Crash
    <2>5. pc' = pc /\ UNCHANGED destVars
      BY <2>4 DEF Resume
    <2> QED
      BY <1>1, <1>3, <2>5 DEF RetentionAlone, Active, destVars
  <1> QED BY <1>2, <1>3

\* Every step of a retention run keeps account of what it has yet to do.
LEMMA SweepTidies ==
  ASSUME Tidy, SweepStep
  PROVE  Swept'
PROOF
  <1> USE DEF Tidy
  <1>1. gc \in GcMemory
    BY DEF Typed, TypeOK
  <1>2. records' = records =>
          ReferredIds' = ReferredIds /\ ReferredPacks' = ReferredPacks
    BY DEF ReferredIds, ReferredPacks, LocsOf, TreeLocs, TreeOf
  <1>3. CASE gpc' \in {"idle", "prune"}
    BY <1>3 DEF Swept
  <1>4. CASE CollectBlobs
    <2>1. PICK recs \in Readable(Decryptable) : \E trees \in Readable(recs) :
            gc' = [gc EXCEPT !.live = {l.id : l \in Collected(recs, trees)}]
      BY <1>4 DEF CollectBlobs
    <2>2. PICK trees \in Readable(recs) :
            gc' = [gc EXCEPT !.live = {l.id : l \in Collected(recs, trees)}]
      BY <2>1
    <2>3. gc'.live = {l.id : l \in Collected(recs, trees)}
      BY <1>1, <2>2 DEF GcMemory
    <2>4. gpc' = "list objects" /\ records' = records
      BY <1>4 DEF CollectBlobs, destVars
    <2> QED BY <1>2, <2>3, <2>4, CollectedReferred DEF Swept
  <1>5. CASE ListObjects
    <2>1. /\ gpc = "list objects" /\ gpc' = "objects" /\ records' = records
          /\ objects \subseteq gc'.todo \cup gc'.leftObjects \cup gc.live
          /\ objects' = objects /\ gc'.live = gc.live
      BY <1>1, <1>5 DEF ListObjects, destVars, GcMemory
    <2> QED BY <1>2, <2>1 DEF Swept
  <1>6. ASSUME NEW id \in gc.todo, DeleteObject(id) \/ DeleteObjectFails(id)
        PROVE  Swept'
    <2>1. /\ gpc = "objects" /\ gpc' = "objects" /\ records' = records
          /\ gc'.todo = gc.todo \ {id} /\ gc'.live = gc.live
      BY <1>1, <1>6 DEF DeleteObject, DeleteObjectFails, destVars, GcMemory
    <2>2. \/ objects' = objects /\ gc'.leftObjects = gc.leftObjects \cup {id}
          \/ objects' = objects \ {id} /\ gc'.leftObjects = gc.leftObjects
      BY <1>1, <1>6 DEF DeleteObject, DeleteObjectFails, destVars, GcMemory
    <2> QED BY <1>2, <2>1, <2>2 DEF Swept
  <1>7. CASE CollectPacks
    <2>1. PICK recs \in Readable(Decryptable) : \E trees \in Readable(recs) :
            gc' = [gc EXCEPT
              !.livePacks = {l.pack : l \in Collected(recs, trees)}]
      BY <1>7 DEF CollectPacks
    <2>2. PICK trees \in Readable(recs) :
            gc' = [gc EXCEPT
              !.livePacks = {l.pack : l \in Collected(recs, trees)}]
      BY <2>1
    <2>3. /\ gc'.livePacks = {l.pack : l \in Collected(recs, trees)}
          /\ gc'.leftObjects = gc.leftObjects
      BY <1>1, <2>2 DEF GcMemory
    <2>4. /\ gpc = "objects" /\ gc.todo = {} /\ gpc' = "list packs"
          /\ records' = records /\ objects' = objects
      BY <1>7 DEF CollectPacks, destVars
    <2> QED BY <1>2, <2>3, <2>4, CollectedReferred DEF Swept
  <1>8. CASE ListPacks
    <2>1. /\ gpc = "list packs" /\ gpc' = "packs" /\ records' = records
          /\ \A p \in packs : \/ p.path \in gc.livePacks
                              \/ p \in gc'.todoPacks \cup gc'.leftPacks
          /\ objects' = objects /\ packs' = packs
          /\ gc'.livePacks = gc.livePacks /\ gc'.leftObjects = gc.leftObjects
      BY <1>1, <1>8 DEF ListPacks, destVars, GcMemory
    <2> QED BY <1>2, <2>1 DEF Swept
  <1>9. ASSUME NEW p \in gc.todoPacks, DeletePack(p) \/ DeletePackFails(p)
        PROVE  Swept'
    <2>1. /\ gpc = "packs" /\ gpc' = "packs" /\ records' = records
          /\ gc'.todoPacks = gc.todoPacks \ {p} /\ objects' = objects
          /\ gc'.livePacks = gc.livePacks /\ gc'.leftObjects = gc.leftObjects
      BY <1>1, <1>9 DEF DeletePack, DeletePackFails, destVars, GcMemory
    <2>2. \/ packs' = packs /\ gc'.leftPacks = gc.leftPacks \cup {p}
          \/ packs' = packs \ {p} /\ gc'.leftPacks = gc.leftPacks
      BY <1>1, <1>9 DEF DeletePack, DeletePackFails, destVars, GcMemory
    <2> QED BY <1>2, <2>1, <2>2 DEF Swept
  <1> HIDE DEF Tidy
  <1>10. RetentionBegins => gpc' = "prune"
    BY DEF RetentionBegins, StartRetention
  <1>11. RetentionStep =>
           \/ gpc' \in {"idle", "prune"}
           \/ CollectBlobs \/ ListObjects \/ CollectPacks \/ ListPacks
           \/ \E id \in gc.todo : DeleteObject(id) \/ DeleteObjectFails(id)
           \/ \E p \in gc.todoPacks : DeletePack(p) \/ DeletePackFails(p)
    BY DEF RetentionStep, SelectVictims, UnlinkRecord, UnlinkRecordFails,
           SkipGc, FinishRetention
  <1> QED
    BY <1>3, <1>4, <1>5, <1>6, <1>7, <1>8, <1>9, <1>10, <1>11
    DEF SweepStep, RetentionCrash

\* The invariant is inductive.
LEMMA NextTidy ==
  ASSUME "overlap" \notin Allowed, Tidy, [Next]_vars
  PROVE  Tidy'
PROOF
  <1>1. Typed'
    BY NextTyped DEF Tidy
  <1>2. ASSUME objects' = objects, packs' = packs, records' = records,
               gpc' = gpc, gc' = gc
        PROVE  Swept'
    BY <1>2
    DEF Tidy, Swept, ReferredIds, ReferredPacks, LocsOf, TreeLocs, TreeOf
  <1>3. ASSUME NEW w \in Writers, BackupStep(w)
        PROVE  RetentionAlone' /\ Swept'
    <2>1. gpc' = "idle" => Swept'
      BY DEF Swept
    <2> QED BY <1>2, <1>3, <2>1, RunsRest DEF Tidy
  <1>4. CASE SweepStep
    <2>1. pc' = pc
      BY <1>4, SweepFrame
    <2>2. gpc = "idle" /\ gpc' # "idle" => \A w \in Writers : ~Active(w)
      BY <1>4
      DEF SweepStep, RetentionBegins, NoBackup, RetentionStep, RetentionCrash,
          SelectVictims, UnlinkRecord, UnlinkRecordFails, CollectBlobs, SkipGc,
          PruneDone, ListObjects, DeleteObject, DeleteObjectFails,
          CollectPacks, ListPacks, DeletePack, DeletePackFails,
          FinishRetention, SweepDone
    <2>3. RetentionAlone'
      BY <2>1, <2>2 DEF Tidy, RetentionAlone, Active
    <2> QED BY <1>1, <1>4, <2>3, SweepTidies DEF Tidy
  <1>5. CASE UNCHANGED vars
    <2>1. /\ objects' = objects /\ packs' = packs /\ records' = records
          /\ gpc' = gpc /\ gc' = gc /\ pc' = pc
      BY <1>5 DEF vars, destVars, runVars, retentionVars
    <2> QED BY <1>1, <1>2, <2>1 DEF Tidy, RetentionAlone, Active
  <1> QED BY <1>1, <1>3, <1>4, <1>5 DEF Next, BackupStep, SweepStep, Tidy

\* A sweep leaves no object and no pack that no record refers to, but for those
\* that a failed listing hid or whose own unlink failed, however many reads
\* failed on its way (gc_orphan_blobs).
THEOREM NothingIsLeftBehind ==
  ASSUME "overlap" \notin Allowed
  PROVE  Spec => []NothingLeftBehind
PROOF
  <1>1. Init => Tidy
    <2>1. Init => Typed
      BY InitTyped, InitNamed DEF Typed
    <2>2. Init => gpc = "idle"
      BY DEF Init, RetentionInit
    <2> QED BY <2>1, <2>2 DEF Tidy, RetentionAlone, Swept
  <1>2. Tidy /\ [Next]_vars => Tidy'
    BY NextTidy
  <1>3. Tidy => NothingLeftBehind
    BY DEF Tidy, Swept, NothingLeftBehind, SweepDone, ReferredIds,
           ReferredPacks
  <1> QED BY <1>1, <1>2, <1>3, PTL DEF Spec

\* While the operator keeps to the rules and no root directory has an ACL, no
\* blob is taken from a record that stays (gc_orphan_blobs).
THEOREM ReferencedIsSpared ==
  ASSUME Allowed \subseteq {"listError"}
  PROVE  Spec => SweepSparesReferenced
PROOF
  <1> DEFINE Spared == \A r \in records \cap records' :
                         \A l \in LocsOf(r) : OnDisk(l) => OnDisk(l)'
  <1>1. Init => Safe
    BY InitSafe
  <1>2. Safe /\ [Next]_vars => Safe'
    BY NextSafe
  <1>3. Safe /\ [Next]_vars => [Spared]_vars
    <2>1. Safe' => \A r \in records' : \A l \in LocsOf(r) : OnDisk(l)'
      BY DEF Safe, Consistent, RecordsRestorable, Restorable, LocsOf, TreeLocs,
             TreeOf
    <2> QED BY <1>2, <2>1
  <1> QED BY <1>1, <1>2, <1>3, PTL DEF Spec, SweepSparesReferenced

-----------------------------------------------------------------------------
\* Backup and retention implement the store.

Snaps == {SnapshotOf(r) : r \in {s \in records : Restorable(s)}}
Drafts == [w \in Writers |-> [folder |-> job[w].folder,
                              view |-> ViewOf(job[w].tree)]]

\* Every record is a snapshot.
LEMMA SnapsFacts ==
  /\ Safe => Snaps = {SnapshotOf(r) : r \in records}
  /\ Safe' => Snaps' = {SnapshotOf(r) : r \in records'}
BY DEF Snaps, Safe, Consistent, RecordsRestorable

\* A run between two folders drafts nothing.
Drafting == {"walk", "acl", "flush"}
BetweenFolders ==
  \A w \in Writers : pc[w] \notin Drafting => job[w] = NoJob

\* A draft changes where its run does.
LEMMA OneDraft ==
  ASSUME Typed, NEW w \in Writers, BackupStep(w), NEW d,
         [folder |-> job'[w].folder, view |-> ViewOf(job'[w].tree)] = d
  PROVE  Drafts' = [Drafts EXCEPT ![w] = d]
BY WriterFrame DEF Drafts

\* Begin, take, publish, abandon: a step of a run in terms of the store.
LEMMA BeginMapped ==
  ASSUME Safe, Safe', BetweenFolders, NEW w \in Writers, BackupStep(w),
         NEW folder \in Folders, BeginFolder(w, folder)
  PROVE  Store!Begin(w, folder)
PROOF
  <1>1. Typed /\ job \in [Writers -> Job]
    BY DEF Safe, Typed, TypeOK
  <1>2. /\ job[w] = NoJob /\ records' = records
        /\ job'[w].folder = folder /\ job'[w].tree = EmptyTree
    BY <1>1 DEF BeginFolder, BetweenFolders, Drafting, NoJob, destVars
  <1>3. Drafts[w] = Store!NoDraft
    BY <1>2 DEF Drafts, Store!NoDraft, Store!NoView, NoJob, ViewOf, EmptyTree
  <1>4. [folder |-> job'[w].folder, view |-> ViewOf(job'[w].tree)]
          = [Drafts[w] EXCEPT !.folder = folder]
    BY <1>2 DEF Drafts, NoJob
  <1>5. Drafts' = [Drafts EXCEPT ![w].folder = folder]
    BY <1>1, <1>4, OneDraft
  <1>6. Snaps' = Snaps
    BY <1>2, SnapsFacts
  <1> QED BY <1>3, <1>5, <1>6 DEF Store!Begin, Drafts, Snaps

LEMMA TakeMapped ==
  ASSUME Safe, Safe', NEW w \in Writers, BackupStep(w), MayWalk(w),
         records' = records, NEW l \in DataLoc, job'[w] = WithFile(job[w], l)
  PROVE  Store!Take(w, job[w].next, l.id.of)
         /\ job[w].next \in Files /\ l.id.of \in Contents
PROOF
  <1> DEFINE f == job[w].next
  <1>1. Typed /\ job[w] \in Job /\ f \in Files
    BY MayWalkFacts DEF Safe, Typed
  <1>2. Drafts[w].folder # NoFolder
    BY FolderAssumption DEF Drafts, Safe, Typed, FoldersNamed, MayWalk
  <1>3. /\ job'[w].folder = job[w].folder
        /\ job'[w].tree = [job[w].tree EXCEPT ![f] = l]
    BY <1>1 DEF WithFile, Job
  <1>4. ViewOf(job'[w].tree) = [ViewOf(job[w].tree) EXCEPT ![f] = l.id.of]
    BY <1>1, <1>3 DEF ViewOf, Job, Tree
  <1>5. [folder |-> job'[w].folder, view |-> ViewOf(job'[w].tree)]
          = [Drafts[w] EXCEPT !.view[f] = l.id.of]
    BY <1>3, <1>4 DEF Drafts
  <1>6. Drafts' = [Drafts EXCEPT ![w].view[f] = l.id.of]
    BY <1>1, <1>5, OneDraft
  <1>7. Snaps' = Snaps
    BY SnapsFacts
  <1>8. l.id.of \in Contents
    BY DEF DataLoc, BlobIdOf
  <1> QED BY <1>1, <1>2, <1>6, <1>7, <1>8 DEF Store!Take, Drafts, Snaps

LEMMA PublishMapped ==
  ASSUME Safe, Safe', NEW w \in Writers, BackupStep(w),
         NEW t \in 1..MaxTime, WriteRecord(w, t)
  PROVE  Store!Publish(w, t)
PROOF
  <1> DEFINE n == NewRecord(w, t)
             old == {r \in records : ~SamePath(r, n)}
             others == {s \in Snaps : s.folder # n.folder \/ s.time # n.time}
  <1>1. Typed /\ pc[w] = "flush"
    BY DEF Safe, WriteRecord
  <1>2. Drafts[w].folder # NoFolder
    BY <1>1, FolderAssumption DEF Drafts, Typed, FoldersNamed
  <1>3. records' = old \cup {n} /\ n.folder = job[w].folder /\ n.time = t
    BY DEF WriteRecord, NewRecord
  <1>4. TreeOf(n) = job[w].tree
    BY <1>1 DEF Safe, Consistent, RunsBacked, RunBacked, NewRecord, TreeOf
  <1>5. SnapshotOf(n) = Store!Snapshot(Drafts[w].folder, t, Drafts[w].view)
    <2> HIDE DEF n
    <2> QED BY <1>3, <1>4 DEF SnapshotOf, Store!Snapshot, Drafts
  <1>6. Snaps' = others \cup {SnapshotOf(n)}
    <2>1. Snaps = {SnapshotOf(r) : r \in records}
          /\ Snaps' = {SnapshotOf(r) : r \in records'}
      BY SnapsFacts
    <2> HIDE DEF n
    <2>2. others = {SnapshotOf(r) : r \in old}
      BY <2>1 DEF SnapshotOf, SamePath
    <2> QED BY <1>3, <2>1, <2>2
  <1>7. job'[w] = NoJob
    BY <1>1 DEF WriteRecord, Typed, TypeOK
  <1>8. [folder |-> job'[w].folder, view |-> ViewOf(job'[w].tree)]
          = Store!NoDraft
    BY <1>7 DEF NoJob, ViewOf, EmptyTree, Store!NoDraft, Store!NoView
  <1>9. Drafts' = [Drafts EXCEPT ![w] = Store!NoDraft]
    BY <1>1, <1>8, OneDraft
  <1>10. others = {s \in Snaps : s.folder # Drafts[w].folder \/ s.time # t}
    <2> HIDE DEF n
    <2> QED BY <1>3 DEF Drafts
  <1> HIDE DEF n, others
  <1>11. Snaps' = {s \in Snaps : s.folder # Drafts[w].folder \/ s.time # t}
                    \cup {Store!Snapshot(Drafts[w].folder, t, Drafts[w].view)}
    BY <1>5, <1>6, <1>10
  <1> QED BY <1>2, <1>9, <1>11 DEF Store!Publish, Store!Others, Drafts, Snaps

LEMMA AbandonMapped ==
  ASSUME Safe, Safe', NEW w \in Writers, BackupStep(w), job'[w] = NoJob,
         records' = records
  PROVE  Store!Abandon(w)
PROOF
  <1>1. [folder |-> job'[w].folder, view |-> ViewOf(job'[w].tree)]
          = Store!NoDraft
    BY DEF NoJob, ViewOf, EmptyTree, Store!NoDraft, Store!NoView
  <1>2. Drafts' = [Drafts EXCEPT ![w] = Store!NoDraft]
    BY <1>1, OneDraft DEF Safe
  <1>3. Snaps' = Snaps
    BY SnapsFacts
  <1> QED BY <1>2, <1>3 DEF Store!Abandon, Drafts, Snaps

\* A step that moves neither a folder nor a tree nor a record is none of the
\* store's.
LEMMA OtherMapped ==
  ASSUME Safe, Safe', NEW w \in Writers, BackupStep(w), records' = records,
         job'[w].folder = job[w].folder, job'[w].tree = job[w].tree
  PROVE  Snaps' = Snaps /\ Drafts' = Drafts
PROOF
  <1>1. Snaps' = Snaps
    BY SnapsFacts
  <1>2. \A v \in Writers : /\ job'[v].folder = job[v].folder
                           /\ job'[v].tree = job[v].tree
    BY WriterFrame DEF Safe
  <1> QED BY <1>1, <1>2 DEF Drafts

\* Every step of a run is a step of the store, or none.
LEMMA BackupMapped ==
  ASSUME Safe, Safe', BetweenFolders, NEW w \in Writers, BackupStep(w)
  PROVE  Store!Next \/ (Snaps' = Snaps /\ Drafts' = Drafts)
PROOF
  <1> DEFINE Still == Snaps' = Snaps /\ Drafts' = Drafts
  <1>1. Typed /\ job \in [Writers -> Job]
    BY DEF Safe, Typed, TypeOK
  <1>2. ASSUME NEW folder \in Folders, BeginFolder(w, folder)
        PROVE  Store!Next
    BY <1>2, BeginMapped DEF Store!Next
  <1>3. ASSUME NEW c \in Contents, StoreFile(w, c)
        PROVE  Store!Next
    <2> DEFINE id == Blob(ses[w].key, c)
               fam == ContentFamily(c)
    <2>1. id \in BlobIdOf(Contents) /\ fam \in Families
      BY <1>1, NoLocFacts
      DEF Typed, TypeOK, Session, ContentFamily, Families
    <2>2. PICK l \in BlobLocs(w, id, fam) :
            job' = [job EXCEPT ![w] = WithFile(@, l)]
      BY <1>3 DEF StoreFile
    <2>3. l \in DataLoc
      BY <1>1, <2>1, <2>2, BlobLocsTyped DEF DataLoc, Typed
    <2>4. MayWalk(w) /\ records' = records /\ job'[w] = WithFile(job[w], l)
      BY <1>1, <1>3, <2>2 DEF StoreFile
    <2> QED BY <2>3, <2>4, TakeMapped DEF Store!Next
  <1>4. CASE ReuseFile(w)
    <2> DEFINE l == job[w].prior[job[w].next]
    <2>1. job[w] \in Job /\ job[w].next \in Files
      BY <1>1, <1>4, MayWalkFacts DEF ReuseFile, Typed
    <2>2. l \in DataLoc
      BY <1>4, <2>1 DEF ReuseFile, Job, Tree
    <2>3. MayWalk(w) /\ records' = records /\ job'[w] = WithFile(job[w], l)
      BY <1>1, <1>4 DEF ReuseFile, destVars
    <2> HIDE DEF l
    <2> QED BY <2>2, <2>3, TakeMapped DEF Store!Next
  <1>5. ASSUME NEW t \in 1..MaxTime, WriteRecord(w, t)
        PROVE  Store!Next
    BY <1>5, PublishMapped DEF Store!Next
  <1>6. CASE ObserveCancel(w) \/ FinishRun(w) \/ Crash(w)
    <2>1. job'[w] = NoJob /\ records' = records
      BY <1>1, <1>6 DEF ObserveCancel, FinishRun, Crash, End, destVars
    <2> QED BY <2>1, AbandonMapped DEF Store!Next
  <1>7. CASE \/ BackupBegins(w) \/ WriteKeyset(w) \/ Seed(w) \/ NoRootAcl(w)
             \/ FlushPack(w) \/ Cancel(w) \/ Pause(w) \/ Resume(w)
    <2>1. job' = job /\ records' = records
      BY <1>7
      DEF BackupBegins, StartRun, WriteKeyset, Seed, NoRootAcl, FlushPack,
          Cancel, Pause, Resume, destVars
    <2> QED BY <2>1, OtherMapped
  <1>8. CASE SkipFile(w) \/ StoreTree(w)
             \/ \E c \in Contents : StoreRootAcl(w, c)
    <2>1. /\ records' = records
          /\ job'[w].folder = job[w].folder /\ job'[w].tree = job[w].tree
      BY <1>1, <1>8 DEF SkipFile, StoreTree, StoreRootAcl, Job, destVars
    <2> QED BY <2>1, OtherMapped
  <1> HIDE DEF Still
  <1> QED
    BY <1>2, <1>3, <1>4, <1>5, <1>6, <1>7, <1>8
    DEF BackupStep, RunStep, Disturb, Still

\* Retention prunes one snapshot at a time.
LEMMA SweepMapped ==
  ASSUME Safe, Safe', SweepStep
  PROVE  Store!Next \/ (Snaps' = Snaps /\ Drafts' = Drafts)
PROOF
  <1>1. Drafts' = Drafts
    BY SweepFrame DEF Drafts
  <1>2. CASE records' = records
    BY <1>1, <1>2, SnapsFacts
  <1>3. ASSUME NEW v \in gc.victims, UnlinkRecord(v), records' # records
        PROVE  Store!Next
    <2>1. records' = {r \in records : ~SamePath(r, v)}
      BY <1>3 DEF UnlinkRecord
    <2>2. PICK r \in records : SamePath(r, v)
      BY <1>3, <2>1
    <2> DEFINE s == SnapshotOf(r)
    <2>3. Snaps = {SnapshotOf(q) : q \in records} /\ s \in Snaps
          /\ Snaps' = {SnapshotOf(q) : q \in records'}
      BY SnapsFacts
    <2>4. s.folder = v.folder /\ s.time = v.time
      BY <2>2 DEF SnapshotOf, SamePath
    <2> HIDE DEF s
    <2>5. Snaps' = {q \in Snaps : q.folder # s.folder \/ q.time # s.time}
      BY <2>1, <2>3, <2>4 DEF SnapshotOf, SamePath
    <2>6. Store!Prune(s)
      BY <1>1, <2>5 DEF Store!Prune, Store!Others, Snaps, Drafts
    <2> QED BY <2>3, <2>6 DEF Store!Next, Snaps
  <1>4. \/ records' = records
        \/ \E v \in gc.victims : UnlinkRecord(v)
    BY SweepRecordStep
    DEF Safe, SelectVictims, UnlinkRecordFails, destVars
  <1> QED BY <1>2, <1>3, <1>4

\* A run between two folders still drafts nothing.
LEMMA BetweenKept ==
  ASSUME Safe, BetweenFolders, [Next]_vars
  PROVE  BetweenFolders'
PROOF
  <1>1. CASE pc' = pc /\ job' = job
    BY <1>1 DEF BetweenFolders
  <1>2. ASSUME NEW w \in Writers, BackupStep(w)
        PROVE  BetweenFolders'
    <2>1. \A v \in Writers \ {w} : pc'[v] = pc[v] /\ job'[v] = job[v]
      BY <1>2, WriterFrame DEF Safe
    <2> SUFFICES pc'[w] \notin Drafting => job'[w] = NoJob
      BY <2>1 DEF BetweenFolders
    <2> USE DEF Safe, Typed, TypeOK, Drafting
    <2>2. ASSUME NEW d \in BOOLEAN, NEW o \in BOOLEAN, NEW p \in BOOLEAN,
                 NEW sources \in SUBSET Folders,
                 StartRun(w, d, o, p, sources)
          PROVE  pc'[w] \notin Drafting => job'[w] = NoJob
      BY <2>2 DEF StartRun, BetweenFolders
    <2>3. CASE WriteKeyset(w) \/ Seed(w) \/ Cancel(w) \/ Pause(w) \/ Resume(w)
      BY <2>3 DEF WriteKeyset, Seed, Cancel, Pause, Resume, BetweenFolders
    <2>4. CASE \/ \E folder \in Folders : BeginFolder(w, folder)
               \/ SkipFile(w) \/ ReuseFile(w) \/ StoreTree(w)
               \/ NoRootAcl(w) \/ FlushPack(w)
               \/ \E c \in Contents : StoreFile(w, c)
               \/ \E c \in Contents : StoreRootAcl(w, c)
      BY <2>4
      DEF BeginFolder, SkipFile, ReuseFile, StoreTree, NoRootAcl, FlushPack,
          StoreFile, StoreRootAcl, MayWalk
    <2>5. CASE \/ ObserveCancel(w) \/ FinishRun(w) \/ Crash(w)
               \/ \E t \in 1..MaxTime : WriteRecord(w, t)
      BY <2>5 DEF ObserveCancel, FinishRun, Crash, End, WriteRecord
    <2> HIDE DEF Safe, Typed, TypeOK, Drafting
    <2>6. BackupBegins(w) => (pc'[w] \notin Drafting => job'[w] = NoJob)
      BY <2>2 DEF BackupBegins
    <2> QED
      BY <1>2, <2>3, <2>4, <2>5, <2>6 DEF BackupStep, RunStep, Disturb
  <1>3. SweepStep => pc' = pc /\ job' = job
    BY SweepFrame
  <1> QED
    BY <1>1, <1>2, <1>3 DEF Next, BackupStep, SweepStep, vars, runVars

\* What can be restored changes by whole snapshots, each exactly what its run
\* walked, however runs interleave, are cancelled or die (add_folder,
\* apply_retention): backups and retention implement SnapshotStore.
THEOREM StoreIsImplemented ==
  ASSUME Allowed \subseteq {"listError"}
  PROVE  Spec => ImplementsStore
PROOF
  <1> DEFINE Mapping == Safe /\ BetweenFolders
  <1>1. Init => Mapping
    BY InitSafe DEF Init, WriterInit, BetweenFolders
  <1>2. Mapping /\ [Next]_vars => Mapping'
    BY NextSafe, BetweenKept
  <1>3. Init => Store!Init
    <2> SUFFICES ASSUME Init PROVE Store!Init
      OBVIOUS
    <2>1. records = {} /\ job = [w \in Writers |-> NoJob]
      BY DEF Init, DestInit, WriterInit
    <2>2. Snaps = {}
      BY <2>1 DEF Snaps
    <2>3. Drafts = [w \in Writers |-> Store!NoDraft]
      BY <2>1 DEF Drafts, NoJob, ViewOf, EmptyTree, Store!NoDraft, Store!NoView
    <2> QED BY <2>2, <2>3 DEF Store!Init, Snaps, Drafts
  <1>4. Mapping /\ [Next]_vars => Store!Next \/ UNCHANGED <<Snaps, Drafts>>
    <2> SUFFICES ASSUME Mapping, [Next]_vars
                 PROVE  Store!Next \/ (Snaps' = Snaps /\ Drafts' = Drafts)
      OBVIOUS
    <2>1. Safe'
      BY <1>2
    <2>2. UNCHANGED vars => Snaps' = Snaps /\ Drafts' = Drafts
      BY <2>1, SnapsFacts DEF vars, destVars, runVars, Drafts
    <2> QED
      BY <2>1, <2>2, BackupMapped, SweepMapped
      DEF Next, BackupStep, SweepStep
  <1> QED
    BY <1>1, <1>2, <1>3, <1>4, PTL
    DEF Spec, ImplementsStore, Store!Spec, Snaps, Drafts
=============================================================================
