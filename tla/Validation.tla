----------------------------- MODULE Validation -----------------------------
(***************************************************************************)
(* The validator's tiers, one after another, and the ledger of what an     *)
(* incremental audit need not read again (arq_validator/runner.py,         *)
(* tiers.py, record_validator.py, incremental_audit.py, cli.py).           *)
(*                                                                         *)
(* L0 looks at the listing, L1a at the first bytes of a sample, L1b at the *)
(* keysets and newest records, L2 at every file, L3 at what every record   *)
(* refers to.  L2 shares its files out to worker threads: the driver       *)
(* bounds what is in flight and merges what comes back in any order.       *)
(* Files rot and go while it runs.                                         *)
(***************************************************************************)
EXTENDS Naturals, Sequences, FiniteSets, SequencesExt

CONSTANTS
  Walk,      \* the families of each computer as listed: computer -> << <<file>> >>
  Records,   \* the records of each computer's folder, oldest first
  Root,      \* the root node of each record: [tree, data, xattrs, acl], sequences of files
  Children,  \* the nodes in each tree
  Large,     \* files above --audit-skip-larger-than
  Commands,  \* the command lines: [tier, width (--audit-concurrency), incremental,
             \* limit (--record-max-blobs; 0: none), whole (--sample-fraction 1)]
  MaxBytes,  \* --audit-max-bytes, in files
  Troubles,  \* what may fail that is there: "read", "reread", "keyset", "folder"
  MaxRuns,   \* bound: runs of the validator
  MaxHarm    \* bound: files and records that rot or go, reads that fail

Computers == DOMAIN Walk
Listed(c) == UNION {ToSet(Walk[c][i]) : i \in DOMAIN Walk[c]}
Files == UNION {Listed(c) : c \in Computers}
AllRecords == UNION {ToSet(Records[c]) : c \in Computers}
Things == Files \cup AllRecords

\* Each tier runs those below it too; `record` is a command of its own.
Rank == [record |-> 0, dryrun |-> 0, quick |-> 1, deep |-> 2, audit |-> 3, graph |-> 4]

ASSUME ValidationAssumption ==
  /\ Commands \subseteq [tier : DOMAIN Rank, width : Nat \ {0}, incremental : BOOLEAN,
                         limit : Nat, whole : BOOLEAN]
  /\ \A cmd \in Commands : cmd.incremental => cmd.tier \in {"audit", "record"}
  /\ {MaxBytes, MaxRuns, MaxHarm} \subseteq Nat
  /\ Troubles \subseteq {"read", "reread", "keyset", "folder"}
  /\ Large \subseteq Files

\* A path is listed once, and a folder that has records has a newest.
ASSUME ListingAssumption ==
  /\ IsFiniteSet(Computers) /\ Computers # {}
  /\ \A c \in Computers :
       /\ Walk[c] \in Seq(Seq(Files))
       /\ Records[c] \in Seq(AllRecords) \ {<<>>}
  /\ \A c, d \in Computers : \A i \in DOMAIN Walk[c], j \in DOMAIN Walk[d] :
       \A k \in DOMAIN Walk[c][i], l \in DOMAIN Walk[d][j] :
         Walk[c][i][k] = Walk[d][j][l] => c = d /\ i = j /\ k = l

\* A node names one tree or none, and what is named as a tree is nowhere
\* named as anything else.
IsNode(node) ==
  /\ node \in [tree : Seq(DOMAIN Children), data : Seq(Files \ DOMAIN Children),
               xattrs : Seq(Files \ DOMAIN Children), acl : Seq(Files \ DOMAIN Children)]
  /\ Len(node.tree) <= 1

\* The tiers' names are no records' names: `passed` holds both.
ASSUME RecordAssumption ==
  /\ DOMAIN Records = Computers /\ DOMAIN Root = AllRecords
  /\ DOMAIN Children \subseteq Files
  /\ \A r \in AllRecords : IsNode(Root[r])
  /\ \A t \in DOMAIN Children :
       /\ Children[t] \in Seq(ToSet(Children[t]))
       /\ \A node \in ToSet(Children[t]) : IsNode(node)
  /\ AllRecords \cap {"deep", "audit", "graph"} = {}

VARIABLES
  disk,      \* what each file and record holds
  run,       \* the run: [at, tier, width, listed, incremental, comp, fam, next]
  todo,      \* L1a: the sample still to check
  inflight,  \* L2: the futures in flight, in the order they were submitted
  walk,      \* L3: the walk of one record
  report,    \* what the run has found
  ledger,    \* the ledger in memory
  saved,     \* the ledger's file
  proved,    \* history: what has once been read and verified
  passed,    \* history: what this run has
  before,    \* history: the ledger as this run loaded it
  reads,     \* history: bodies the audit has read
  runs, harm \* runs and trouble left

books == <<ledger, saved, before>>
history == <<proved, passed, reads>>
vars == <<disk, run, todo, inflight, walk, report, books, history, runs, harm>>

NoReport ==
  [layout |-> TRUE, magic |-> {}, keyset |-> "unread", records |-> {},
   total |-> 0, ok |-> 0, bytes |-> 0, skipped |-> 0, known |-> 0, bad |-> {},
   aborted |-> FALSE, sets |-> {}, graph |-> {}, unlisted |-> {}]

NoRun ==
  [at |-> "idle", tier |-> "quick", width |-> 1, listed |-> {}, incremental |-> FALSE, limit |-> 0, whole |-> FALSE,
   comp |-> 1, fam |-> 1, next |-> 1]

NoWalk == [rec |-> "none", stack |-> <<>>, seen |-> {}, count |-> 0, bad |-> {}]

Init ==
  /\ disk = [x \in Things |-> "good"]
  /\ run = NoRun
  /\ todo = {}
  /\ inflight = <<>>
  /\ walk = NoWalk
  /\ report = NoReport
  /\ ledger = {} /\ saved = {} /\ before = {}
  /\ proved = {} /\ passed = {} /\ reads = 0
  /\ runs = MaxRuns /\ harm = MaxHarm

Does(what) == run.at = what
Reaches(tier) == Rank[run.tier] >= Rank[tier]
Goto(where) == run' = [run EXCEPT !.at = where, !.comp = 1, !.fam = 1, !.next = 1]

Layouts == SetToSeq(Computers)
Here == Layouts[run.comp]

\* A read may fail though the file is there.
MayFail(what) == IF what \in Troubles /\ harm > 0 THEN BOOLEAN ELSE {FALSE}
Charge(failed) == harm' = IF failed THEN harm - 1 ELSE harm

\* What verify_encrypted_object_hmac and the magic say of a body.
Verifies(x) == disk[x] = "good"
HasMagic(x) == disk[x] \in {"good", "bad"}

\* The ledger's two kinds of key: the audit enters a file's name, which lacks
\* the shard, the walk of a record a blob's identifier, which does not, so
\* neither finds what the other entered.
Name(f) == <<"name", f>>
Blob(f) == <<"blob", f>>
----------------------------------------------------------------------------
(* validate: the run, its listing, and the tiers below the audit. *)

\* Bound: a run without the ledger reads and leaves nothing another run would,
\* and is checked alone.
Counted(cmd) ==
  /\ runs > 0
  /\ cmd.incremental \/ runs = MaxRuns
  /\ runs' = IF cmd.incremental THEN runs - 1 ELSE 0

\* The ledger is loaded for the audit tier alone.
StartRun(cmd) ==
  /\ Does("idle") /\ cmd.tier # "record"
  /\ Counted(cmd)
  /\ run' = [run EXCEPT !.at = "l0", !.limit = cmd.limit, !.whole = cmd.whole, !.tier = cmd.tier,
                        !.width = cmd.width, !.incremental = cmd.incremental,
                        !.listed = {f \in Files : disk[f] # "gone"}]
  /\ ledger' = IF cmd.incremental THEN saved ELSE {}
  /\ before' = ledger'
  /\ UNCHANGED <<disk, todo, inflight, walk, report, saved, history, harm>>

LayoutCheck ==
  /\ Does("l0")
  /\ report' = [report EXCEPT !.layout = run.listed # {}]
  /\ IF ~report'.layout \/ ~Reaches("quick") THEN Goto("save") /\ UNCHANGED todo
     ELSE /\ Goto("l1a")
          /\ todo' \in IF run.whole THEN {run.listed} ELSE {{}} \cup {{f} : f \in run.listed}
  /\ UNCHANGED <<disk, inflight, walk, books, history, runs, harm>>

\* Mutant: a file whose head is not as it should be stays in the sample.
RemainingUnread(f, failed) == IF failed \/ HasMagic(f) THEN todo \ {f} ELSE todo

Remaining(f, failed) == todo \ {f}

\* The first bytes of the sample, in any order.
MagicCheck ==
  /\ Does("l1a")
  /\ IF todo = {} 
     THEN Goto(IF Reaches("deep") THEN "l1b" ELSE "save") /\ UNCHANGED <<todo, report, harm>>
     ELSE \E f \in todo, failed \in MayFail("read") :
            /\ todo' = Remaining(f, failed)
            /\ report' = [report EXCEPT !.magic = IF failed \/ ~HasMagic(f) THEN @ \cup {f} ELSE @]
            /\ Charge(failed)
            /\ UNCHANGED run
  /\ UNCHANGED <<disk, inflight, walk, books, history, runs>>

Newest(c) == Last(Records[c])

\* Keyset and newest record of each computer; a keyset that fails ends the
\* whole run.
RecordCheck ==
  /\ Does("l1b")
  /\ IF run.comp > Len(Layouts)
     THEN Goto(IF Reaches("audit") THEN "l2" ELSE "save") /\ UNCHANGED <<report, history, harm>>
     ELSE \/ /\ TRUE \in MayFail("keyset") /\ Charge(TRUE)
             /\ report' = [report EXCEPT !.keyset = "failed"]
             /\ Goto("save")
             /\ UNCHANGED history
          \/ \E failed \in MayFail("read") :
               LET r == Newest(Here)  good == ~failed /\ Verifies(r) IN
               /\ report' = [report EXCEPT !.keyset = "decrypted",
                                           !.records = IF good THEN @ ELSE @ \cup {r}]
               /\ passed' = IF good THEN passed \cup {<<"deep", r>>} ELSE passed
               /\ run' = [run EXCEPT !.comp = @ + 1]
               /\ Charge(failed)
               /\ UNCHANGED <<proved, reads>>
  /\ UNCHANGED <<disk, todo, inflight, walk, books, runs>>
----------------------------------------------------------------------------
(* run_full_audit. *)

EndAudit == IF run.tier = "graph" THEN "l3" ELSE "save"

\* A set whose keyset cannot be read is skipped and named; with none left the
\* audit has failed.
AuditSet ==
  /\ Does("l2")
  /\ IF run.comp > Len(Layouts)
     THEN /\ report' = [report EXCEPT !.aborted = report.sets = Computers]
          /\ Goto(EndAudit)
          /\ UNCHANGED harm
     ELSE \/ /\ run' = [run EXCEPT !.at = "family", !.fam = 1, !.next = 1]
             /\ UNCHANGED <<report, harm>>
          \/ /\ TRUE \in MayFail("keyset") /\ Charge(TRUE)
             /\ report' = [report EXCEPT !.sets = @ \cup {Here}]
             /\ run' = [run EXCEPT !.comp = @ + 1]
  /\ UNCHANGED <<disk, todo, inflight, walk, books, history, runs>>

\* The files of a family, those of them that were listed and are still to come,
\* and the next.
Family == Walk[Here][run.fam]
Ahead == {i \in DOMAIN Family : i >= run.next /\ Family[i] \in run.listed}
Turn == CHOOSE i \in Ahead : \A j \in Ahead : i <= j
File == Family[Turn]
InFamily == Does("family") /\ run.fam <= Len(Walk[Here])
OverBudget == MaxBytes > 0 /\ report.bytes >= MaxBytes

\* Mutant: the window is one file too wide.
FullOneMore == Len(inflight) > 2 * run.width

\* One file at a time, or twice as many in flight as there are workers.
Full == IF run.width = 1 THEN inflight # <<>> ELSE Len(inflight) >= 2 * run.width

\* The top of the loop over a family's files.
NextFile ==
  /\ InFamily
  /\ \/ /\ Ahead = {} \/ OverBudget
        /\ run' = [run EXCEPT !.at = "drain"]
        /\ report' = [report EXCEPT !.aborted = Ahead # {}]
     \/ /\ Ahead # {} /\ ~OverBudget
        /\ Name(File) \in ledger
        /\ run' = [run EXCEPT !.next = Turn + 1]
        /\ report' = [report EXCEPT !.total = @ + 1, !.known = @ + 1]
     \/ /\ Ahead # {} /\ ~OverBudget
        /\ Name(File) \notin ledger
        /\ run' = [run EXCEPT !.at = IF Full THEN "wait" ELSE "submit"]
        /\ UNCHANGED report
  /\ UNCHANGED <<disk, todo, inflight, walk, books, history, runs, harm>>

Submit ==
  /\ Does("submit")
  /\ inflight' = Append(inflight, [file |-> File, out |-> "none"])
  /\ run' = [run EXCEPT !.next = Turn + 1, !.at = IF run.width = 1 THEN "alone" ELSE "family"]
  /\ UNCHANGED <<disk, todo, walk, report, books, history, runs, harm>>

\* _audit_one_file_compute in a worker: the pool takes files up in order.
Busy(i) == Cardinality({j \in 1..(i - 1) : inflight[j].out = "none"})

Outcome(f, failed) ==
  CASE failed \/ disk[f] = "gone" -> "error"
    [] ~failed /\ disk[f] # "gone" /\ f \in Large -> "skipped"
    [] OTHER -> IF Verifies(f) THEN "ok" ELSE "bad"

Compute ==
  \E i \in DOMAIN inflight :
    /\ inflight[i].out = "none"
    /\ Busy(i) < run.width
    /\ \E failed \in MayFail("read") :
         LET out == Outcome(inflight[i].file, failed)
             good == IF out = "ok" THEN {inflight[i].file} ELSE {} IN
         /\ inflight' = [inflight EXCEPT ![i].out = out]
         /\ proved' = proved \cup good
         /\ passed' = passed \cup {<<"audit", f>> : f \in good}
         /\ reads' = IF out \in {"ok", "bad"} THEN reads + 1 ELSE reads
         /\ Charge(failed)
    /\ UNCHANGED <<disk, run, todo, walk, report, books, runs>>

\* Mutant: whatever was audited goes into the ledger.
ConfirmedAny(out) == out # "none"

\* Failures, errors and skips are not marked as audited.
Confirmed(out) == out = "ok"

\* _merge_and_finalize
Merge(d) ==
  /\ report' = [report EXCEPT
       !.total = @ + 1,
       !.ok = IF d.out = "ok" THEN @ + 1 ELSE @,
       !.bytes = IF d.out \in {"ok", "bad"} THEN @ + 1 ELSE @,
       !.skipped = IF d.out = "skipped" THEN @ + 1 ELSE @,
       !.bad = IF d.out \in {"bad", "error"} THEN @ \cup {d.file} ELSE @]
  /\ ledger' = IF run.incremental /\ Confirmed(d.out) THEN ledger \cup {Name(d.file)} ELSE ledger

DoneNow == {i \in DOMAIN inflight : inflight[i].out # "none"}
TakeOut(i) ==
  /\ Merge(inflight[i])
  /\ inflight' = RemoveAt(inflight, i)

\* The window is full: at least one is awaited, and those that are ready with
\* it are merged too before the budget is looked at again.
Wait ==
  /\ Does("wait")
  /\ \E i \in DoneNow : TakeOut(i)
  /\ run' \in {run, [run EXCEPT !.at = "recheck"]}
  /\ run' = run => DoneNow \ {CHOOSE i \in DoneNow : TRUE} # {}
  /\ UNCHANGED <<disk, todo, walk, saved, before, history, runs, harm>>

Recheck ==
  /\ Does("recheck")
  /\ run' = [run EXCEPT !.at = IF OverBudget THEN "drain" ELSE "submit"]
  /\ report' = [report EXCEPT !.aborted = OverBudget]
  /\ UNCHANGED <<disk, todo, inflight, walk, books, history, runs, harm>>

\* The sequential audit merges what it has just computed.
Alone ==
  /\ Does("alone")
  /\ \E i \in DoneNow : TakeOut(i)
  /\ run' = [run EXCEPT !.at = "family"]
  /\ UNCHANGED <<disk, todo, walk, saved, before, history, runs, harm>>

\* Whatever is in flight is merged, over budget or not, before the next
\* family begins or the audit returns.
Drain ==
  /\ Does("drain")
  /\ IF inflight # <<>>
     THEN (\E i \in DoneNow : TakeOut(i)) /\ UNCHANGED run
     ELSE /\ IF report.aborted THEN Goto(EndAudit)
             ELSE run' = [run EXCEPT !.at = "family", !.fam = @ + 1, !.next = 1]
          /\ UNCHANGED <<inflight, report, ledger>>
  /\ UNCHANGED <<disk, todo, walk, saved, before, history, runs, harm>>

SetDone ==
  /\ Does("family") /\ run.fam > Len(Walk[Here])
  /\ run' = [run EXCEPT !.at = "l2", !.comp = @ + 1]
  /\ UNCHANGED <<disk, todo, inflight, walk, report, books, history, runs, harm>>
----------------------------------------------------------------------------
(* run_graph_check, validate_record. *)

\* One computer's records, each walked in turn; a folder that cannot be listed
\* is noted, and its records are not walked.
GraphCheck ==
  /\ Does("l3")
  /\ IF run.comp > Len(Layouts) THEN Goto("save") /\ UNCHANGED <<walk, report, harm>>
     ELSE \/ /\ run.next > Len(Records[Here])
             /\ run' = [run EXCEPT !.comp = @ + 1, !.next = 1]
             /\ UNCHANGED <<walk, report, harm>>
          \/ /\ run.next <= Len(Records[Here])
             /\ walk' = [NoWalk EXCEPT !.rec = Records[Here][run.next]]
             /\ run' = [run EXCEPT !.at = "open", !.next = @ + 1]
             /\ UNCHANGED <<report, harm>>
          \/ /\ TRUE \in MayFail("folder") /\ Charge(TRUE) /\ run.next = 1
             /\ report' = [report EXCEPT !.unlisted = @ \cup {Here}]
             /\ run' = [run EXCEPT !.comp = @ + 1, !.next = 1]
             /\ UNCHANGED walk
  /\ UNCHANGED <<disk, todo, inflight, books, history, runs>>

\* `record`, one record with the ledger, of which old entries are dropped.
StartRecord(cmd, r) ==
  /\ Does("idle") /\ cmd.tier = "record"
  /\ Counted(cmd)
  /\ run' = [run EXCEPT !.at = "open", !.tier = "record", !.limit = cmd.limit,
                        !.incremental = cmd.incremental]
  /\ walk' = [NoWalk EXCEPT !.rec = r]
  /\ ledger' \in IF cmd.incremental THEN {saved, {}} ELSE {{}}
  /\ before' = ledger'
  /\ UNCHANGED <<disk, todo, inflight, report, saved, history, harm>>

AfterWalk(bad) ==
  /\ run' = [run EXCEPT !.at = IF run.tier = "record" THEN "save" ELSE "l3"]
  /\ report' = [report EXCEPT !.graph = IF bad THEN @ \cup {walk.rec} ELSE @]

\* Keyset and record are read anew for each record.
OpenRecord ==
  /\ Does("open")
  /\ \E failed \in MayFail("read") \cup MayFail("keyset") :
       LET good == ~failed /\ Verifies(walk.rec) IN
       /\ Charge(failed)
       /\ IF good
          THEN /\ walk' = [walk EXCEPT !.stack = <<Root[walk.rec]>>]
               /\ passed' = passed \cup {<<"graph", walk.rec>>}
               /\ run' = [run EXCEPT !.at = "walk"]
               /\ UNCHANGED report
          ELSE AfterWalk(TRUE) /\ UNCHANGED <<walk, passed>>
  /\ UNCHANGED <<disk, todo, inflight, books, proved, reads, runs>>

Enough == run.limit > 0 /\ walk.count >= run.limit

\* What is checked of a node: the limit cuts its data and xattrs short, never
\* its tree or its ACL.
Checked(node) ==
  LET body == node.data \o node.xattrs
      left == run.limit - walk.count - Len(node.tree)
      cut == IF run.limit = 0 \/ left >= Len(body) THEN body
             ELSE SubSeq(body, 1, IF left < 0 THEN 0 ELSE left)
  IN node.tree \o cut \o node.acl

\* What the ledger knows is not read; what is read is verified.
Known(blobs) == {f \in blobs : Blob(f) \in ledger}
Passing(blobs, failed) == {f \in blobs \ (Known(blobs) \cup failed) : Verifies(f)}

FailingReads(blobs) ==
  {{}} \cup {{f} : f \in {x \in blobs \ Known(blobs) : TRUE \in MayFail("read")}}

\* The second reading of a tree, for its children.
Opened(trees) == IF \E t \in trees : Verifies(t) THEN Children[CHOOSE t \in trees : TRUE] ELSE <<>>

\* One turn of the walk.  A tree seen before is passed over, with the xattrs and
\* the ACL of the node that names it again.  What the ledger knows counts as
\* good unread.  A good tree is read again for its children: if that fails, or
\* the tree the ledger knew is gone, nothing is said of it or of them.
VisitNode ==
  /\ Does("walk") /\ walk.stack # <<>> /\ ~Enough
  /\ LET node == Last(walk.stack)
         blobs == ToSet(Checked(node))
         tree == ToSet(node.tree)
     IN
     IF tree \cap walk.seen # {}
     THEN /\ walk' = [walk EXCEPT !.stack = Front(@)]
          /\ UNCHANGED <<ledger, proved, passed, harm>>
     ELSE \E failed \in FailingReads(blobs), lost \in MayFail("reread") :
       LET good == Passing(blobs, failed)
           trusted == tree \cap (good \cup Known(blobs))
       IN
       /\ walk' = [walk EXCEPT
            !.stack = Front(@) \o (IF lost THEN <<>> ELSE Opened(trusted)),
            !.seen = @ \cup tree,
            !.count = @ + Len(Checked(node)),
            !.bad = @ \cup (blobs \ (good \cup Known(blobs)))
                      \cup {t \in trusted : ~Verifies(t) /\ disk[t] # "gone"}]
       /\ ledger' = IF run.incremental THEN ledger \cup {Blob(f) : f \in good} ELSE ledger
       /\ proved' = proved \cup good
       /\ passed' = passed \cup {<<walk.rec, f>> : f \in good}
       /\ Charge(failed # {} \/ lost)
  /\ UNCHANGED <<disk, run, todo, inflight, report, saved, before, reads, runs>>

WalkDone ==
  /\ Does("walk")
  /\ walk.stack = <<>> \/ Enough
  /\ AfterWalk(walk.bad # {})
  /\ walk' = [NoWalk EXCEPT !.rec = walk.rec]
  /\ UNCHANGED <<disk, todo, inflight, books, history, runs, harm>>

\* The ledger is written whole or not at all, with a warning; the verdict
\* goes to the caller.
SaveLedger ==
  /\ Does("save")
  /\ saved' \in IF run.incremental THEN {ledger, saved} ELSE {saved}
  /\ Goto("done")
  /\ UNCHANGED <<disk, todo, inflight, walk, report, ledger, before, history, runs, harm>>

\* The process exits, or is killed: what the ledger had gained and not been
\* saved is lost.
Leave ==
  /\ ~Does("idle")
  /\ run' = NoRun
  /\ todo' = {} /\ inflight' = <<>> /\ walk' = NoWalk /\ report' = NoReport
  /\ ledger' = {} /\ before' = {} /\ passed' = {} /\ reads' = 0
  /\ UNCHANGED <<disk, saved, proved, runs, harm>>

\* A file or record rots, a file loses its head or goes.
Harm(x) ==
  /\ harm > 0 /\ harm' = harm - 1
  /\ disk[x] = "good"
  /\ \E s \in {"bad"} \cup (IF x \in Files THEN {"headless", "gone"} ELSE {}) :
       disk' = [disk EXCEPT ![x] = s]
  /\ UNCHANGED <<run, todo, inflight, walk, report, books, history, runs>>

Driver ==
  \/ LayoutCheck \/ MagicCheck \/ RecordCheck \/ AuditSet \/ NextFile \/ Submit
  \/ Wait \/ Recheck \/ Alone \/ Drain \/ SetDone \/ GraphCheck
  \/ OpenRecord \/ VisitNode \/ WalkDone \/ SaveLedger

Next ==
  \/ \E cmd \in Commands : StartRun(cmd)
  \/ \E cmd \in Commands, r \in AllRecords : StartRecord(cmd, r)
  \/ Driver \/ Compute \/ Leave
  \/ \E x \in Things : Harm(x)

Spec == Init /\ [][Next]_vars

\* The driver and the workers go on.
FairSpec == Spec /\ WF_vars(Driver) /\ WF_vars(Compute)
----------------------------------------------------------------------------
(* Properties. *)

\* Mutant: an audit cut short by its budget is no failure.
HasFailuresCounted ==
  \/ report.magic # {}
  \/ report.records # {} \/ (report.keyset # "decrypted" /\ Reaches("deep"))
  \/ report.bad # {}
  \/ report.graph # {}
  \/ ~report.layout

\* ValidationReport.has_failures
HasFailures ==
  \/ report.magic # {}
  \/ report.records # {} \/ (report.keyset # "decrypted" /\ Reaches("deep"))
  \/ report.bad # {} \/ report.aborted
  \/ report.graph # {}
  \/ ~report.layout

\* With the tallies of the audit, and the bound on what is in flight and so
\* on what is read beyond the budget.
TypeOK ==
  /\ disk \in [Things -> {"good", "bad", "headless", "gone"}]
  /\ run.at \in {"idle", "l0", "l1a", "l1b", "l2", "family", "submit", "wait", "recheck",
                 "alone", "drain", "l3", "open", "walk", "save", "done"}
  /\ Len(inflight) <= 2 * run.width
  /\ report.total = report.ok + report.skipped + report.known + Cardinality(report.bad)
  /\ MaxBytes > 0 => reads < MaxBytes + 2 * run.width
  /\ ledger \cup saved \subseteq {"name", "blob"} \X Files

\* Whatever fails, rots, is killed or comes back out of order, the ledger
\* trusts nothing that was not once read and found good.
LedgerHonest == {entry[2] : entry \in ledger \cup saved} \subseteq proved

\* What a walk owes a node: its tree, or all a file consists of, unless the
\* ledger knew it when the run began.
Settled(r, node) ==
  LET met(f) == Blob(f) \in before \/ <<r, f>> \in passed IN
  \A f \in ToSet(IF node.tree # <<>> THEN node.tree ELSE node.data \o node.xattrs \o node.acl) : met(f)

\* A record and what hangs from it, down to what the ledger vouches for.
Walked(r) ==
  /\ <<"graph", r>> \in passed
  /\ Settled(r, Root[r])
  /\ \A t \in DOMAIN Children : <<r, t>> \in passed =>
       \A i \in DOMAIN Children[t] : Settled(r, Children[t][i])

\* A verdict without failures says that what the tier is for was done: every
\* listed file verified now or in the ledger, but for the large ones and the
\* sets named as skipped; every newest record; every record walked to its last
\* blob where no limit is set, but in folders named as unlisted.
CleanMeansChecked ==
  Does("done") /\ ~HasFailures =>
    /\ run.tier = "record" /\ run.limit = 0 => Walked(walk.rec)
    /\ \A c \in Computers :
         /\ Reaches("deep") => <<"deep", Newest(c)>> \in passed
         /\ Reaches("audit") /\ c \notin report.sets =>
              \A f \in (run.listed \cap Listed(c)) \ Large :
                Name(f) \in before \/ <<"audit", f>> \in passed
         /\ Reaches("graph") /\ run.limit = 0 /\ c \notin report.unlisted =>
              \A r \in ToSet(Records[c]) : Walked(r)

\* A run that is not killed comes to its verdict.
RunsFinish == ~Does("idle") ~> run.at \in {"idle", "done"}
=============================================================================
