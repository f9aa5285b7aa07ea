---------------------------- MODULE Destination ----------------------------
(***************************************************************************)
(* One computer's subtree of an Arq 7 destination: the state a backup run  *)
(* and a retention run share, with nothing between them but the file       *)
(* system.  A file is written atomically (temporary file, then rename), so *)
(* each of the four kinds of file is a set that grows or shrinks by whole  *)
(* files.                                                                  *)
(*                                                                         *)
(* Blobs are content-addressed: a blob identifier is the pair of the key   *)
(* whose salt was hashed in and of the content hashed.  The content of a   *)
(* tree blob maps each file of the directory to the location of its        *)
(* content, or to NoLoc when the file was left out, so a tree's location   *)
(* already determines the tree.  A folder is one directory, and encryption *)
(* is on.  Ciphers, compression and byte lengths are left out: every blob  *)
(* is one unit long, and a file's chunks are one blob.                     *)
(***************************************************************************)
EXTENDS Naturals, Sequences, FiniteSets

CONSTANTS
  Folders,    \* backup folders (folder_uuid) of the computer
  NFiles,     \* the entries the walker enters are 1..NFiles, in name order
  Contents,   \* what a file can hold
  Allowed     \* what the environment may do, see EnvironmentKinds

(***************************************************************************)
(* The code keeps none of these from happening; the operator may.          *)
(*   "rekey"     a run on a destination that has a keyset does not         *)
(*               deduplicate, comes with another password or cannot read   *)
(*               the keyset; or it begins while another run is still about *)
(*               to create one                                             *)
(*   "overlap"   a retention run overlaps a backup run                     *)
(*   "readError" a read of the destination fails during dedup seeding or   *)
(*               retention                                                 *)
(*   "listError" a directory of objects or of packs cannot be listed when  *)
(*               retention looks for what to delete                        *)
(*   "rootAcl"   the source's root directory carries an ACL                *)
(***************************************************************************)
EnvironmentKinds == {"rekey", "overlap", "readError", "listError", "rootAcl"}

ASSUME DestinationAssumption ==
  /\ NFiles \in Nat \ {0}
  /\ Allowed \subseteq EnvironmentKinds

VARIABLES
  keyset,     \* master key in encryptedkeyset.dat, NoKey when absent
  objects,    \* blob ids stored under standardobjects/
  packs,      \* pack files: [path, body], body the blob ids in offset order
  records     \* backuprecords: [folder, time, key, root, acl]

destVars == <<keyset, objects, packs, records>>

NoKey == 0
NoPack == 0

Blob(key, content) == [key |-> key, of |-> content]

\* BlobLoc: a standalone object, or a slot of a pack file.
Standalone(id) == [id |-> id, pack |-> NoPack, off |-> 0]
Packed(id, path, off) == [id |-> id, pack |-> path, off |-> off]

Files == 1..NFiles
NoLoc == Standalone(Blob(NoKey, "none"))
EmptyTree == [f \in Files |-> NoLoc]
TreeLocs(tree) == {tree[f] : f \in Files} \ {NoLoc}

\* The tree of a record, read from where the record says it is.
TreeOf(r) == r.root.id.of
LocsOf(r) == {r.root} \cup TreeLocs(TreeOf(r)) \cup r.acl

OnDisk(l) ==
  IF l.pack = NoPack
  THEN l.id \in objects
  ELSE \E p \in packs : /\ p.path = l.pack
                        /\ l.off \in DOMAIN p.body
                        /\ p.body[l.off] = l.id

\* What a restore of r needs: the keyset on disk decrypts the record and
\* every blob it reaches, and every one of them is where the record says.
Restorable(r) ==
  /\ r.key = keyset
  /\ \A l \in LocsOf(r) : l.id.key = keyset /\ OnDisk(l)

RecordsOf(folder) == {r \in records : r.folder = folder}
SamePath(r, s) == r.folder = s.folder /\ r.time = s.time

\* The record with the lexicographically largest (bucket, num), both digits
\* of the creation time.
Latest(folder) ==
  {r \in RecordsOf(folder) : \A s \in RecordsOf(folder) : s.time <= r.time}

\* What a reader gets to see of S: all of it, unless reads may fail.
Readable(S) == IF "readError" \in Allowed THEN SUBSET S ELSE {S}

\* What a listing of S may show: a shard that cannot be listed shows nothing.
Listable(S) == IF "listError" \in Allowed THEN SUBSET S ELSE {S}

DestInit ==
  /\ keyset = NoKey
  /\ objects = {}
  /\ packs = {}
  /\ records = {}
=============================================================================
