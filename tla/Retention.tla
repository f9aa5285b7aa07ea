----------------------------- MODULE Retention -----------------------------
(***************************************************************************)
(* A retention run (arq_writer/retention.py, apply_retention): prune the   *)
(* backuprecords a policy does not keep, one unlink at a time, then delete *)
(* the standalone objects and the packs no surviving record refers to.     *)
(* References are collected twice, once before the objects are deleted and *)
(* once between the objects and the packs.  The run may stop between any   *)
(* two of its steps, an unlink may fail and be noted, and a read or a      *)
(* listing may fail without the run noticing.                              *)
(***************************************************************************)
EXTENDS Destination, Integers

CONSTANTS
  Policies,        \* policies an operator may choose: [last, limits]
  Kinds,           \* lengths of the time buckets: hour, day, week, ...
  MaxRetentions    \* bound: retention runs started

\* keep_last_n = None
NoLimit == -1

ASSUME RetentionAssumption ==
  /\ Kinds \subseteq Nat \ {0}
  /\ Policies \subseteq [last : Nat \cup {NoLimit}, limits : [Kinds -> Nat]]
  /\ MaxRetentions \in Nat

VARIABLES
  gpc,    \* where the retention run is
  gc,     \* its memory; what it left for a failure is history
  gruns   \* retention runs started

retentionVars == <<gpc, gc, gruns>>

KeepAll == [last |-> NoLimit, limits |-> [kind \in Kinds |-> 0]]
NoGc == [policy |-> KeepAll, folders |-> {},
         victims |-> {}, live |-> {}, todo |-> {}, livePacks |-> {},
         todoPacks |-> {}, leftObjects |-> {}, leftPacks |-> {}]

RetentionInit ==
  /\ gpc = "idle"
  /\ gc = NoGc
  /\ gruns = 0

-----------------------------------------------------------------------------
\* The policy.

\* Mutant: the order is reversed.
Older(recs, date, r) ==
  {s \in recs : \/ date[s] < date[r]
                \/ date[s] = date[r] /\ s.time < r.time}

\* Records that come after r in the order of select_retained: by date, ties
\* by path.
Newer(recs, date, r) ==
  {s \in recs : \/ date[s] > date[r]
                \/ date[s] = date[r] /\ s.time > r.time}
Bucket(t, kind) == t \div kind

\* Mutant: one bucket too few.
HeadsBucketButLast(recs, date, policy, r, kind) ==
  LET buckets == {Bucket(date[s], kind) : s \in Newer(recs, date, r)}
  IN  /\ Bucket(date[r], kind) \notin buckets
      /\ Cardinality(buckets) + 1 < policy.limits[kind]

\* r is the newest record of one of the newest limits[kind] buckets.
HeadsBucket(recs, date, policy, r, kind) ==
  LET buckets == {Bucket(date[s], kind) : s \in Newer(recs, date, r)}
  IN  /\ Bucket(date[r], kind) \notin buckets
      /\ Cardinality(buckets) < policy.limits[kind]

\* The newest "last" records, and those that head a bucket of some kind.
SelectRetained(recs, date, policy) ==
  IF policy = KeepAll THEN recs
  ELSE {r \in recs :
          \/ Cardinality(Newer(recs, date, r)) < policy.last
          \/ \E kind \in Kinds : HeadsBucket(recs, date, policy, r, kind)}

-----------------------------------------------------------------------------
\* Pruning.

\* The operator starts a run over some folders; over none it is GC alone.
\* Without a keyset the computer is skipped.
StartRetention(policy, folders) ==
  /\ gpc = "idle"
  /\ gruns < MaxRetentions
  /\ keyset # NoKey
  /\ gpc' = "prune"
  /\ gc' = [NoGc EXCEPT !.policy = policy, !.folders = folders]
  /\ gruns' = gruns + 1
  /\ UNCHANGED destVars

\* List a folder, date its records and select.  A record that cannot be read
\* or decrypted gets the date 0.
SelectVictims(folder) ==
  /\ gpc = "prune"
  /\ gc.victims = {}
  /\ folder \in gc.folders
  /\ \E recs \in Readable(RecordsOf(folder)) :
     \E opened \in Readable({r \in recs : r.key = keyset}) :
       LET date == [r \in recs |-> IF r \in opened THEN r.time ELSE 0]
       IN  gc' = [gc EXCEPT
             !.folders = @ \ {folder},
             !.victims = recs \ SelectRetained(recs, date, gc.policy)]
  /\ UNCHANGED <<destVars, gpc, gruns>>

\* Unlink by path, or fail to and go on.
UnlinkRecord(v) ==
  /\ gpc = "prune"
  /\ v \in gc.victims
  /\ records' = {r \in records : ~SamePath(r, v)}
  /\ gc' = [gc EXCEPT !.victims = @ \ {v}]
  /\ UNCHANGED <<keyset, objects, packs, gpc, gruns>>

UnlinkRecordFails(v) ==
  /\ gpc = "prune"
  /\ v \in gc.victims
  /\ gc' = [gc EXCEPT !.victims = @ \ {v}]
  /\ UNCHANGED <<destVars, gpc, gruns>>

PruneDone == gpc = "prune" /\ gc.victims = {} /\ gc.folders = {}

-----------------------------------------------------------------------------
\* Collecting references and deleting the rest.

\* Records the collecting walk can decrypt.  One that cannot be listed, read
\* or decrypted is passed over.
Decryptable == {r \in records : r.key = keyset}

\* Locations collected from the records that were read, and from the trees of
\* those whose tree was.  The root node's ACL is not collected.
Collected(recs, trees) ==
  {r.root : r \in recs} \cup
  UNION {TreeLocs(TreeOf(r)) : r \in {s \in trees : OnDisk(s.root)}}

\* _collect_referenced_blobs.
CollectBlobs ==
  /\ PruneDone
  /\ \E recs \in Readable(Decryptable) : \E trees \in Readable(recs) :
       gc' = [gc EXCEPT !.live = {l.id : l \in Collected(recs, trees)}]
  /\ gpc' = "list objects"
  /\ UNCHANGED <<destVars, gruns>>

\* run_gc is off.
SkipGc ==
  /\ PruneDone
  /\ gpc' = "idle"
  /\ gc' = NoGc
  /\ UNCHANGED <<destVars, gruns>>

\* List standardobjects/, at some later moment; a shard that cannot be listed
\* is passed over.  (The code lists shard by shard; here at the same moment.)
ListObjects ==
  /\ gpc = "list objects"
  /\ \E listed \in Listable(objects) :
       gc' = [gc EXCEPT !.todo = listed \ gc.live,
                        !.leftObjects = objects \ listed]
  /\ gpc' = "objects"
  /\ UNCHANGED <<destVars, gruns>>

\* Unlink an unreferenced object; that it is gone already is no error.
DeleteObject(id) ==
  /\ gpc = "objects"
  /\ id \in gc.todo
  /\ objects' = objects \ {id}
  /\ gc' = [gc EXCEPT !.todo = @ \ {id}]
  /\ UNCHANGED <<keyset, packs, records, gpc, gruns>>

DeleteObjectFails(id) ==
  /\ gpc = "objects"
  /\ id \in gc.todo
  /\ gc' = [gc EXCEPT !.todo = @ \ {id}, !.leftObjects = @ \cup {id}]
  /\ UNCHANGED <<destVars, gpc, gruns>>

\* _collect_live_pack_paths.
CollectPacks ==
  /\ gpc = "objects"
  /\ gc.todo = {}
  /\ \E recs \in Readable(Decryptable) : \E trees \in Readable(recs) :
       gc' = [gc EXCEPT !.livePacks = {l.pack : l \in Collected(recs, trees)}]
  /\ gpc' = "list packs"
  /\ UNCHANGED <<destVars, gruns>>

\* Mutant: a pack stays while any blob in it is referenced somewhere.
ListPacksByBlob ==
  /\ gpc = "list packs"
  /\ gc' = [gc EXCEPT !.todoPacks =
       {p \in packs : \A i \in DOMAIN p.body : p.body[i] \notin gc.live}]
  /\ gpc' = "packs"
  /\ UNCHANGED <<destVars, gruns>>

\* List the three pack families, as far as they can be listed, and keep what
\* is referenced.
ListPacks ==
  /\ gpc = "list packs"
  /\ \E listed \in Listable(packs) :
       gc' = [gc EXCEPT
         !.todoPacks = {p \in listed : p.path \notin gc.livePacks},
         !.leftPacks = packs \ listed]
  /\ gpc' = "packs"
  /\ UNCHANGED <<destVars, gruns>>

DeletePack(p) ==
  /\ gpc = "packs"
  /\ p \in gc.todoPacks
  /\ packs' = packs \ {p}
  /\ gc' = [gc EXCEPT !.todoPacks = @ \ {p}]
  /\ UNCHANGED <<keyset, objects, records, gpc, gruns>>

DeletePackFails(p) ==
  /\ gpc = "packs"
  /\ p \in gc.todoPacks
  /\ gc' = [gc EXCEPT !.todoPacks = @ \ {p}, !.leftPacks = @ \cup {p}]
  /\ UNCHANGED <<destVars, gpc, gruns>>

SweepDone == gpc = "packs" /\ gc.todoPacks = {}

FinishRetention ==
  /\ SweepDone
  /\ gpc' = "idle"
  /\ gc' = NoGc
  /\ UNCHANGED <<destVars, gruns>>

\* The process is killed, or something outside a try block raises.
RetentionCrash ==
  /\ gpc # "idle"
  /\ gpc' = "idle"
  /\ gc' = NoGc
  /\ UNCHANGED <<destVars, gruns>>

RetentionStep ==
  \/ \E folder \in Folders : SelectVictims(folder)
  \/ \E v \in gc.victims : UnlinkRecord(v) \/ UnlinkRecordFails(v)
  \/ CollectBlobs
  \/ SkipGc
  \/ ListObjects
  \/ \E id \in gc.todo : DeleteObject(id) \/ DeleteObjectFails(id)
  \/ CollectPacks
  \/ ListPacks
  \/ \E p \in gc.todoPacks : DeletePack(p) \/ DeletePackFails(p)
  \/ FinishRetention
=============================================================================
