------------------------------ MODULE Restore ------------------------------
(***************************************************************************)
(* Restoring a record into a directory (arq_reader/restore.py and, for     *)
(* Arq 5 destinations, arq5_restore.py), chosen in the record browser or   *)
(* on the command line.                                                    *)
(*                                                                         *)
(* An instance walks a record: trees it has read, where it put the first   *)
(* name of each inode and whether it has looked for packs stay with it.    *)
(* The destination is names and what they lead to, so that hard links,     *)
(* symbolic links and what was there before are what they are on a disk.   *)
(* Blobs go, reads and writes fail while it runs.                          *)
(***************************************************************************)
EXTENDS Naturals, Sequences, FiniteSets, SequencesExt

CONSTANTS
  Records,   \* record -> its entries, parents first: [path, kind, blobs, inode];
             \* the blobs of a symbolic link spell its target, a file
  Newest,    \* the newest record of each folder
  Packed,    \* blobs kept in packs
  Dests,     \* where to restore to
  Filters,   \* the sets of paths that may be asked for; {} is no filter
  Before,    \* what the destinations may hold at first: path -> node
  Forms,     \* "arq7", "arq5"
  Policies,  \* on_conflict: "overwrite", "skip", "rename"
  RestoredNs, \* the .restored-<N> tried in turn, 999 of them in the code
  MaxRuns,   \* bound: restores
  MaxFaults  \* bound: blobs that go, reads, writes and links that fail

Recs == DOMAIN Records
Entries(r) == ToSet(Records[r])
At(dest, e) == <<dest>> \o e.path
Sibling(p, n) == Append(p, RestoredNs[n])
AllEntries == UNION {Entries(r) : r \in Recs}
Paths ==
  {At(d, e) : d \in Dests, e \in AllEntries} \cup
  {Sibling(At(d, e), n) :
     d \in Dests, e \in {f \in AllEntries : f.kind = "file"}, n \in DOMAIN RestoredNs}

Blobs == UNION {ToSet(e.blobs) : e \in AllEntries}
TreeBlobs == UNION {ToSet(e.blobs) : e \in {f \in AllEntries : f.kind = "dir"}}
Inodes == {e.inode : e \in AllEntries} \ {0}

Nowhere == <<>>

Kinds == {"dir", "file", "symlink"}
Parts == UNION {ToSet(e.path) : e \in AllEntries}

ASSUME RestoreAssumption ==
  /\ Recs # {} /\ Dests # {} /\ Newest \subseteq Recs /\ Packed \subseteq Blobs
  /\ RestoredNs \in Seq(ToSet(RestoredNs))
  /\ Forms \subseteq {"arq7", "arq5"} /\ Policies \subseteq {"overwrite", "skip", "rename"}
  /\ {MaxRuns, MaxFaults} \subseteq Nat

\* A directory has one entry of a name, and names of one inode one content:
\* records the writer made of one device.
ASSUME RecordsAssumption ==
  \A r \in Recs :
    /\ Records[r] \in Seq([path : Seq(Parts), kind : Kinds, blobs : Seq(Blobs), inode : Inodes \cup {0}])
    /\ \A i, j \in DOMAIN Records[r] : Records[r][i].path = Records[r][j].path => i = j
    /\ \A e, f \in Entries(r) :
         e.kind = "file" /\ e.inode # 0 /\ f.inode = e.inode => f.kind = "file" /\ f.blobs = e.blobs

ASSUME BeforeAssumption ==
  \A b \in Before :
    /\ IsFiniteSet(DOMAIN b) /\ DOMAIN b \subseteq Paths
    /\ \A p \in DOMAIN b : b[p].kind \in Kinds /\ b[p] = [kind |-> b[p].kind, body |-> b[p].body]

VARIABLES
  setting,   \* [form, policy]
  names,     \* the destination: path -> its node's number, 0 for none
  nodes,     \* number -> [kind, body]; a symbolic link's body is its target
  instance,  \* [trees, placed, scanned]
  run,       \* [at, rec, dest, keep, next, dead, put, tried, skipped, failed, told]
  gone,      \* blobs that are no longer there or no longer verify
  began,     \* history: the names and nodes this run found
  runs, faults

fs == <<names, nodes>>
vars == <<setting, fs, instance, run, gone, began, runs, faults>>

Fresh == [trees |-> {}, placed |-> [i \in Inodes |-> Nowhere], scanned |-> "no"]
Idle ==
  [at |-> "idle", rec |-> CHOOSE r \in Recs : TRUE, dest |-> CHOOSE d \in Dests : TRUE,
   keep |-> {}, next |-> 1, dead |-> {}, put |-> <<>>, tried |-> {}, skipped |-> {},
   failed |-> {}, told |-> {}]

Numbering(b) == SetToSeq({b[p] : p \in DOMAIN b})

Init ==
  /\ setting \in [form : Forms, policy : Policies]
  /\ setting.form = "arq5" => setting.policy = "overwrite"
  /\ \E b \in Before :
       /\ nodes = Numbering(b)
       /\ names = [p \in Paths |->
            IF p \in DOMAIN b THEN CHOOSE n \in DOMAIN nodes : nodes[n] = b[p] ELSE 0]
  /\ instance = Fresh /\ run = Idle /\ gone = {}
  /\ began = [names |-> names, nodes |-> nodes]
  /\ runs = MaxRuns /\ faults = MaxFaults

Arq5 == setting.form = "arq5"
Walking == run.at = "walk" /\ run.next <= Len(Records[run.rec])
Entry == Records[run.rec][run.next]
Out == At(run.dest, Entry)
Kind(e) == IF Arq5 /\ e.kind = "symlink" THEN "file" ELSE e.kind
Step == run' = [run EXCEPT !.next = @ + 1]
Goto(where) == run' = [run EXCEPT !.at = where]
Charge == faults > 0 /\ faults' = faults - 1
----------------------------------------------------------------------------
(* The path filter. *)

Matches(keep, p) == keep = {} \/ \E k \in keep : IsPrefix(k, p)
Descends(keep, p) == keep = {} \/ \E k \in keep : IsPrefix(k, p) \/ IsPrefix(p, k)
Selected(keep, e) == IF e.kind = "dir" THEN Descends(keep, e.path) ELSE Matches(keep, e.path)
Under(dead, e) == \E d \in dead : IsStrictPrefix(d, e.path)

\* Mutant: what is read while counting is kept, whatever it is.
TreesAll(r) == Entries(r)

Trees(r) == {e \in Entries(r) : e.kind = "dir"}

\* What the walk comes to where the trees of some directories cannot be read.
Listing(r, keep, dead) ==
  {e \in Entries(r) : e.kind # "dir" /\ Selected(keep, e) /\ ~Under(dead, e)}
----------------------------------------------------------------------------
(* Reading blobs. *)

\* The first blob an Arq 5 restore misses among the objects makes it read the
\* pack indexes, once: what it cannot list or read then it does without.
Scans(bs) ==
  IF Arq5 /\ instance.scanned = "no" /\ ToSet(bs) \cap (Packed \cup gone) # {}
  THEN {"found", "missed"} ELSE {instance.scanned}

Readable(bs, scan) ==
  /\ ToSet(bs) \cap gone = {}
  /\ Arq5 /\ ToSet(bs) \cap Packed # {} => scan = "found"

\* A tree read before is not read again.
Cached(e) == ~Arq5 /\ ToSet(e.blobs) \subseteq instance.trees

\* Reading an entry's blobs: "raised" is an error that is none of those the
\* walk turns into a failure, such as one from a lost SFTP session.
Fetched(e, outcome, scan) ==
  /\ scan \in Scans(e.blobs)
  /\ \/ outcome = "got" /\ (Cached(e) \/ Readable(e.blobs, scan)) /\ UNCHANGED faults
     \/ outcome = "failed" /\ ~Cached(e) /\ ~Readable(e.blobs, scan)
          /\ IF scan = "missed" /\ instance.scanned = "no" THEN Charge ELSE UNCHANGED faults
     \/ outcome \in {"failed", "raised"} /\ ~Cached(e) /\ Readable(e.blobs, scan)
          /\ (Arq5 => outcome = "failed")
          /\ Charge
----------------------------------------------------------------------------
(* Writing. *)

IsNode(p, kind) == names[p] # 0 /\ nodes[names[p]].kind = kind
Unlinked(p) == IF IsNode(p, "dir") THEN names ELSE [names EXCEPT ![p] = 0]

\* Opening for writing follows a symbolic link.
Follow(p) == IF IsNode(p, "symlink") THEN nodes[names[p]].body ELSE p

Create(p, node) ==
  /\ nodes' = Append(nodes, node)
  /\ names' = [names EXCEPT ![p] = Len(nodes) + 1]

\* write_bytes truncates what is there, under all of its names.
WriteBytes(p, body) ==
  LET q == Follow(p) IN
  IF names[q] = 0 THEN Create(q, [kind |-> "file", body |-> body])
  ELSE nodes' = [nodes EXCEPT ![names[q]].body = body] /\ UNCHANGED names

\* Mutant: the suffixed names are not looked at.
FreeSiblingsAll(p) == DOMAIN RestoredNs

FreeSiblings(p) == {n \in DOMAIN RestoredNs : names[Sibling(p, n)] = 0}

\* Where _resolve_conflict_target has a file written.
Target(p) ==
  IF names[p] = 0 \/ Arq5 \/ setting.policy = "overwrite" THEN p
  ELSE IF setting.policy = "rename" /\ FreeSiblings(p) # {}
  THEN Sibling(p, CHOOSE n \in FreeSiblings(p) : \A m \in FreeSiblings(p) : n <= m)
  ELSE Nowhere
----------------------------------------------------------------------------
(* The restore. *)

\* A restore begins: the keyset and the record are read, or it has failed.
\* Arq 7 trees are counted first.
Begin(r, dest, keep) ==
  /\ run.at = "idle" /\ runs > 0
  /\ runs' = runs - 1
  /\ \E at \in {"go", "raised"} :
       /\ run' = [Idle EXCEPT !.at = IF at = "raised" THEN at ELSE IF Arq5 THEN "walk" ELSE "plan",
                      !.rec = r, !.dest = dest, !.keep = keep,
                      !.put = [i \in DOMAIN Records[r] |-> Nowhere]]
       /\ IF at = "raised" THEN Charge ELSE UNCHANGED faults
  /\ began' = [names |-> names, nodes |-> nodes]
  /\ UNCHANGED <<setting, fs, instance, gone>>

\* The record browser restores any record, its marks or all of it, and
\* always overwrites.
FromBrowser(r, dest, keep) ==
  ~Arq5 /\ setting.policy = "overwrite" /\ Begin(r, dest, keep)

\* The command restores the newest record, under the policy asked for.
FromCommandLine(dest, keep) == ~Arq5 /\ \E r \in Newest : Begin(r, dest, keep)

\* An Arq 5 restore takes the newest commit, whole.
FromArq5(dest) == Arq5 /\ \E r \in Newest : Begin(r, dest, {})

\* _count_tree: a subtree whose tree cannot be read, or not at that moment,
\* counts for nothing.
Planned == {e \in Trees(run.rec) : Descends(run.keep, e.path)}
Lost == {e \in Planned : ToSet(e.blobs) \cap gone # {} /\ ~Cached(e)}
Counted(lost) == {e \in Planned \ lost : ~Under({l.path : l \in lost}, e)}

Plan ==
  /\ run.at = "plan"
  /\ \E missed \in SUBSET {e \in Counted(Lost) : ~Cached(e)} :
       /\ IF missed = {} THEN UNCHANGED faults ELSE Charge
       /\ run' = [run EXCEPT !.at = "walk",
            !.told = Listing(run.rec, run.keep, {e.path : e \in Lost \cup missed})]
       /\ instance' = [instance EXCEPT
            !.trees = @ \cup UNION {ToSet(e.blobs) : e \in Counted(Lost \cup missed)}]
  /\ UNCHANGED <<setting, fs, gone, began, runs>>

\* An error that is none of those it absorbs ends the restore before it began.
PlanRaises ==
  /\ run.at = "plan"
  /\ \E e \in Counted(Lost) : ~Cached(e)
  /\ Charge
  /\ Goto("raised")
  /\ UNCHANGED <<setting, fs, instance, gone, began, runs>>

\* Outside the filter, or below a directory whose tree could not be read.
PassOver ==
  /\ Walking
  /\ ~Selected(run.keep, Entry) \/ Under(run.dead, Entry)
  /\ Step
  /\ UNCHANGED <<setting, fs, instance, gone, began, runs, faults>>

Takes(kind) ==
  /\ Walking /\ Selected(run.keep, Entry) /\ ~Under(run.dead, Entry)
  /\ Kind(Entry) = kind

\* An Arq 5 root is read before its directory is made.
Arq5Root == Arq5 /\ Entry.path = <<>>

\* A directory is made where there is none; anything else of its name ends
\* the restore, and so does an Arq 5 root that cannot be read.
EnterDirectory ==
  /\ Takes("dir")
  /\ IF names[Out] # 0 /\ ~IsNode(Out, "dir")
     THEN Goto("raised") /\ UNCHANGED <<fs, instance, faults>>
     ELSE \E outcome \in {"got", "failed", "raised"}, scan \in Scans(Entry.blobs) :
            /\ Fetched(Entry, outcome, scan)
            /\ IF IsNode(Out, "dir") \/ (outcome = "failed" /\ Arq5Root) THEN UNCHANGED fs
               ELSE Create(Out, [kind |-> "dir", body |-> <<>>])
            /\ instance' = [instance EXCEPT
                 !.trees = IF outcome = "got" /\ ~Arq5 THEN @ \cup ToSet(Entry.blobs) ELSE @,
                 !.scanned = scan]
            /\ IF outcome = "raised" \/ (outcome = "failed" /\ Arq5Root)
               THEN Goto("raised")
               ELSE run' = [run EXCEPT !.next = @ + 1,
                      !.dead = IF outcome = "failed" THEN @ \cup {Entry.path} ELSE @,
                      !.failed = IF outcome = "failed" THEN @ \cup {run.next} ELSE @]
  /\ UNCHANGED <<setting, gone, began, runs>>

Put(where) == run' = [run EXCEPT !.next = @ + 1, !.put[run.next] = where]
Fail == run' = [run EXCEPT !.next = @ + 1, !.failed = @ \cup {run.next}]

First == instance.placed[Entry.inode]
Linkable ==
  /\ ~Arq5 /\ run.next \notin run.tried
  /\ Entry.inode # 0 /\ First # Nowhere /\ names[First] # 0

\* A later name of an inode is linked to the first; what was there goes,
\* whatever the policy.
Link ==
  /\ Takes("file") /\ Linkable /\ First # Out /\ ~IsNode(Out, "dir")
  /\ names' = [names EXCEPT ![Out] = names[First]]
  /\ Put(Out)
  /\ UNCHANGED <<setting, nodes, instance, gone, began, runs, faults>>

\* A link that cannot be made: what was there has gone all the same, and the
\* file is written instead.
LinkFails ==
  /\ Takes("file") /\ Linkable
  /\ names' = Unlinked(Out)
  /\ run' = [run EXCEPT !.tried = @ \cup {run.next}]
  /\ IF First = Out \/ IsNode(Out, "dir") THEN UNCHANGED faults ELSE Charge
  /\ UNCHANGED <<setting, nodes, instance, gone, began, runs>>

\* Mutant: the first name is remembered as asked for, not as written.
PlacedAsked(where) == Out

Placed(where) == where

\* A file's blobs are read in full and then written at once.
WriteFile ==
  /\ Takes("file") /\ ~Linkable
  /\ \E outcome \in {"got", "failed", "raised"}, scan \in Scans(Entry.blobs) :
       /\ Fetched(Entry, outcome, scan)
       /\ CASE outcome = "failed" -> Fail /\ UNCHANGED fs
            [] outcome = "raised" -> Goto("raised") /\ UNCHANGED fs
            [] outcome = "got" /\ Target(Out) = Nowhere ->
                 /\ run' = [run EXCEPT !.next = @ + 1, !.skipped = @ \cup {run.next}]
                 /\ UNCHANGED fs
            [] outcome = "got" /\ Target(Out) # Nowhere ->
                 IF IsNode(Target(Out), "dir") THEN Goto("raised") /\ UNCHANGED fs
                 ELSE WriteBytes(Target(Out), Entry.blobs) /\ Put(Target(Out))
       /\ instance' = [instance EXCEPT
            !.scanned = scan,
            !.placed = IF Entry.inode # 0 /\ ~Arq5 /\ run'.put[run.next] # Nowhere
                       THEN [@ EXCEPT ![Entry.inode] = Placed(Target(Out))] ELSE @]
  /\ UNCHANGED <<setting, gone, began, runs>>

\* The disk is full, or the file may not be written: what was there has been
\* cut short, and the restore ends.
WriteFails ==
  /\ Takes("file") /\ ~Linkable
  /\ \E scan \in Scans(Entry.blobs) : Readable(Entry.blobs, scan)
  /\ Target(Out) # Nowhere /\ ~IsNode(Target(Out), "dir")
  /\ Charge
  /\ WriteBytes(Target(Out), <<>>)
  /\ Goto("raised")
  /\ UNCHANGED <<setting, instance, gone, began, runs>>

\* A symbolic link takes the place of whatever was there but a directory.
MakeSymlink ==
  /\ Takes("symlink")
  /\ \E outcome \in {"got", "failed", "raised"} :
       /\ Fetched(Entry, outcome, instance.scanned)
       /\ IF outcome # "got"
          THEN UNCHANGED fs /\ IF outcome = "failed" THEN Fail ELSE Goto("raised")
          ELSE IF IsNode(Out, "dir") THEN UNCHANGED fs /\ Fail
          ELSE /\ Create(Out, [kind |-> "symlink", body |-> <<run.dest>> \o Entry.blobs])
               /\ Put(Out)
  /\ UNCHANGED <<setting, instance, gone, began, runs>>

\* The link cannot be made: what was there may have gone all the same.
SymlinkFails ==
  /\ Takes("symlink") /\ Readable(Entry.blobs, instance.scanned)
  /\ Charge
  /\ names' \in {names, Unlinked(Out)}
  /\ Fail
  /\ UNCHANGED <<setting, nodes, instance, gone, began, runs>>

Finish ==
  /\ run.at = "walk" /\ run.next > Len(Records[run.rec])
  /\ Goto("ended")
  /\ UNCHANGED <<setting, fs, instance, gone, began, runs, faults>>

\* The result has been shown; the next restore has an instance of its own.
Leave ==
  /\ run.at \in {"ended", "raised"}
  /\ run' = Idle
  /\ instance' = Fresh
  /\ began' = [names |-> names, nodes |-> nodes]
  /\ UNCHANGED <<setting, fs, gone, runs, faults>>

\* A blob is swept, or rots.
Lose(b) ==
  /\ b \notin gone /\ Charge
  /\ gone' = gone \cup {b}
  /\ UNCHANGED <<setting, fs, instance, run, began, runs>>

Next ==
  \/ \E d \in Dests, keep \in Filters :
       FromCommandLine(d, keep) \/ \E r \in Recs : FromBrowser(r, d, keep)
  \/ \E d \in Dests : FromArq5(d)
  \/ Plan \/ PlanRaises \/ PassOver \/ EnterDirectory
  \/ Link \/ LinkFails \/ WriteFile \/ WriteFails \/ MakeSymlink \/ SymlinkFails
  \/ Finish \/ Leave
  \/ \E b \in Blobs : Lose(b)

Spec == Init /\ [][Next]_vars
----------------------------------------------------------------------------
(* Properties. *)

\* Only trees stay in memory, and what was put anywhere is still there.
TypeOK ==
  /\ names \in [Paths -> 0..Len(nodes)]
  /\ \A n \in DOMAIN nodes : nodes[n].kind \in Kinds
  /\ instance.trees \subseteq TreeBlobs /\ instance.scanned \in {"no", "found", "missed"}
  /\ instance.placed \in [Inodes -> Paths \cup {Nowhere}]
  /\ run.at \in {"idle", "plan", "walk", "ended", "raised"}
  /\ \A i \in DOMAIN run.put : run.put[i] # Nowhere => names[run.put[i]] # 0

Restored(i) == run.put[i] # Nowhere

\* What is where an entry was put is what the record has.
Right(i) ==
  LET e == Records[run.rec][i]
      p == run.put[i]
  IN  IF Kind(e) = "symlink"
      THEN IsNode(p, "symlink") /\ nodes[names[p]].body = <<run.dest>> \o e.blobs
      ELSE names[Follow(p)] # 0 /\ nodes[names[Follow(p)]].body = e.blobs

Inode(i) == Records[run.rec][i].inode
Shared(i) == ~Arq5 /\ Records[run.rec][i].kind = "file" /\ Inode(i) # 0
SameFile(i, j) == names[run.put[i]] = names[run.put[j]]

\* When a restore has come to its end, every file asked for is where it was
\* put and is the record's, or was left by the policy, or is named among the
\* failures, itself or a directory above it; the files counted beforehand are
\* among them; and names of one file are names of one file again, unless a link
\* of it failed: the names after it lead to the copy made instead of it.  The
\* directory is one without hard links of its own, which are written through
\* (restore, _restore_file_node, _restore_dir_node).
SaidIsRestored ==
  run.at = "ended" =>
    LET asked == {i \in DOMAIN run.put : Records[run.rec][i] \in Listing(run.rec, run.keep, run.dead)}
    IN  /\ \A i \in asked : Restored(i) \/ i \in run.skipped \cup run.failed
        /\ \A i \in asked : Restored(i) => i \notin run.skipped \cup run.failed /\ Right(i)
        /\ run.told \subseteq {Records[run.rec][i] : i \in asked}
        /\ \A i, j \in asked :
             Restored(i) /\ Restored(j) /\ Shared(i) /\ Inode(i) = Inode(j) =>
               SameFile(i, j) \/ \E k \in run.tried : Inode(k) = Inode(i)

Relinked == {At(run.dest, e) : e \in {f \in Entries(run.rec) : f.kind = "symlink" \/ f.inode # 0}}

\* Where the policy is to skip or to rename, what a restore found stays as it
\* was, but where the record has a link.
OriginalsStay ==
  setting.policy # "overwrite" =>
    \A p \in Paths \ Relinked :
      began.names[p] # 0 =>
        names[p] = began.names[p] /\ nodes[names[p]] = began.nodes[names[p]]
=============================================================================
