-------------------------- MODULE Validation_proofs --------------------------
(***************************************************************************)
(* The ledger of an incremental audit trusts only what was once read and   *)
(* verified: for every destination, every set of commands, any number of   *)
(* workers, runs and harms, with runs killed anywhere and futures merged   *)
(* in any order.  What is merged later was decided earlier, so the         *)
(* invariant carries the futures in flight: an "ok" in flight is backed.   *)
(***************************************************************************)
EXTENDS Validation, TLAPS, FiniteSetTheorems, WellFoundedInduction

\* The futures, in the order they were submitted, are a sequence.
FuturesInOrder == inflight \in Seq(ToSet(inflight))

\* A good verdict that waits to be merged has been earned.
FuturesHonest == \A d \in ToSet(inflight) : d.out = "ok" => d.file \in proved

EntriesHonest == \A entry \in ledger \cup saved : entry[2] \in proved

HonestInv == FuturesInOrder /\ FuturesHonest /\ EntriesHonest

\* A sequence is one of its own elements, whatever it was typed over.
LEMMA OwnElements ==
  ASSUME NEW S, NEW s \in Seq(S)
  PROVE  s \in Seq(ToSet(s)) /\ ToSet(s) \subseteq S
PROOF
  <1>1. /\ Len(s) \in Nat /\ DOMAIN s = 1..Len(s)
        /\ \A j \in 1..Len(s) : s[j] \in S
        /\ s = [j \in 1..Len(s) |-> s[j]]
    OBVIOUS
  <1>2. ToSet(s) \subseteq S
    BY <1>1 DEF ToSet
  <1> DEFINE T == ToSet(s)
  <1>3. \A j \in 1..Len(s) : s[j] \in T
    BY <1>1 DEF ToSet
  <1> HIDE DEF T
  <1>4. s \in Seq(T)
    BY <1>1, <1>3
  <1> QED BY <1>2, <1>4 DEF T

\* Removing one element of a sequence adds none (RemoveAt).
LEMMA RemoveAtFacts ==
  ASSUME NEW s, s \in Seq(ToSet(s)), NEW i \in DOMAIN s
  PROVE  /\ RemoveAt(s, i) \in Seq(ToSet(RemoveAt(s, i)))
         /\ ToSet(RemoveAt(s, i)) \subseteq ToSet(s)
PROOF
  <1> DEFINE T == ToSet(s)
             a == SubSeq(s, 1, i - 1)
             b == SubSeq(s, i + 1, Len(s))
  <1> HIDE DEF T
  <1>1. s \in Seq(T) /\ Len(s) \in Nat /\ i \in 1..Len(s)
    <2>1. s \in Seq(T)
      BY DEF T
    <2> QED BY <2>1
  <1>2. a \in Seq(T) /\ b \in Seq(T)
    BY <1>1
  <1>3. RemoveAt(s, i) \in Seq(T)
    BY <1>2 DEF RemoveAt
  <1> QED BY <1>3, OwnElements DEF T

\* The same of a record of the sequence that is replaced.
LEMMA AnsweredFacts ==
  ASSUME NEW s, s \in Seq(ToSet(s)), NEW i \in DOMAIN s, NEW e
  PROVE  /\ [s EXCEPT ![i] = e] \in Seq(ToSet([s EXCEPT ![i] = e]))
         /\ ToSet([s EXCEPT ![i] = e]) \subseteq ToSet(s) \cup {e}
PROOF
  <1> DEFINE T == ToSet(s)  U == T \cup {e}  r == [s EXCEPT ![i] = e]
  <1> HIDE DEF T
  <1>1. s \in Seq(T)
    BY DEF T
  <1>2. /\ Len(s) \in Nat /\ DOMAIN s = 1..Len(s)
        /\ \A j \in 1..Len(s) : s[j] \in T
    BY <1>1
  <1>3. /\ DOMAIN r = 1..Len(s)
        /\ \A j \in 1..Len(s) : r[j] \in U
        /\ r = [j \in 1..Len(s) |-> r[j]]
    BY <1>2
  <1> HIDE DEF r, U
  <1>4. r \in Seq(U)
    BY <1>2, <1>3
  <1>5. r \in Seq(ToSet(r)) /\ ToSet(r) \subseteq U
    BY <1>4, OwnElements
  <1> QED BY <1>5 DEF r, T, U

\* And of one that is appended.
LEMMA AppendFacts ==
  ASSUME NEW s, s \in Seq(ToSet(s)), NEW e
  PROVE  /\ Append(s, e) \in Seq(ToSet(Append(s, e)))
         /\ ToSet(Append(s, e)) \subseteq ToSet(s) \cup {e}
PROOF
  <1> DEFINE U == ToSet(s) \cup {e}
  <1>1. e \in U /\ s \in Seq(U)
    <2>1. Len(s) \in Nat /\ DOMAIN s = 1..Len(s) /\ s = [j \in 1..Len(s) |-> s[j]]
      <3> DEFINE T == ToSet(s)
      <3> HIDE DEF T
      <3>1. s \in Seq(T)
        BY DEF T
      <3> QED BY <3>1
    <2>2. \A j \in 1..Len(s) : s[j] \in U
      BY <2>1 DEF ToSet
    <2> HIDE DEF U
    <2>3. s \in Seq(U)
      BY <2>1, <2>2
    <2> QED BY <2>3 DEF U
  <1> HIDE DEF U
  <1>2. Append(s, e) \in Seq(U)
    BY <1>1
  <1> QED BY <1>2, OwnElements DEF U

\* Initially the ledger is empty and nothing is in flight.
LEMMA InitHonest == ASSUME Init PROVE HonestInv
PROOF
  <1>1. inflight = <<>> /\ ledger = {} /\ saved = {}
    BY DEF Init
  <1>2. ToSet(inflight) = {}
    BY <1>1 DEF ToSet
  <1>3. inflight \in Seq(ToSet(inflight))
    <2> DEFINE T == ToSet(inflight)
    <2> HIDE DEF T
    <2>1. inflight \in Seq(T)
      BY <1>1
    <2> QED BY <2>1 DEF T
  <1> QED BY <1>1, <1>2, <1>3 DEF HonestInv, FuturesInOrder, FuturesHonest, EntriesHonest

\* Merging one future: it leaves the window, and only an "ok" enters the ledger.
LEMMA TakeOutHonest ==
  ASSUME HonestInv, NEW i \in DoneNow, TakeOut(i), UNCHANGED <<saved, proved>>
  PROVE  HonestInv'
PROOF
  <1> DEFINE d == inflight[i]
  <1>1. i \in DOMAIN inflight /\ inflight' = RemoveAt(inflight, i)
    BY DEF DoneNow, TakeOut
  <1>2. inflight' \in Seq(ToSet(inflight')) /\ ToSet(inflight') \subseteq ToSet(inflight)
    BY <1>1, RemoveAtFacts DEF HonestInv, FuturesInOrder
  <1>3. d \in ToSet(inflight)
    BY <1>1 DEF ToSet
  <1>4. ledger' \subseteq ledger \/ (d.out = "ok" /\ ledger' = ledger \cup {Name(d.file)})
    BY DEF TakeOut, Merge, Confirmed
  <1>5. EntriesHonest'
    <2> SUFFICES ASSUME NEW entry \in ledger' \cup saved
                 PROVE  entry[2] \in proved
      BY DEF EntriesHonest
    <2>1. CASE entry \in ledger \cup saved
      BY <2>1 DEF HonestInv, EntriesHonest
    <2>2. CASE entry = Name(d.file) /\ d.out = "ok"
      <3>1. entry[2] = d.file
        BY <2>2 DEF Name
      <3> QED BY <1>3, <2>2, <3>1 DEF HonestInv, FuturesHonest
    <2> QED BY <1>4, <2>1, <2>2
  <1> QED BY <1>2, <1>5 DEF HonestInv, FuturesInOrder, FuturesHonest

\* A step that leaves the window, the ledger in memory but for what it loads or
\* drops, and the proofs alone.
LEMMA BooksKept ==
  ASSUME HonestInv, inflight' = inflight, ledger' \cup saved' \subseteq ledger \cup saved,
         proved' = proved
  PROVE  HonestInv'
  BY DEF HonestInv, FuturesInOrder, FuturesHonest, EntriesHonest

\* A file joins the window with no verdict.
LEMMA SubmitHonest == ASSUME HonestInv, Submit PROVE HonestInv'
PROOF
  <1> DEFINE e == [file |-> File, out |-> "none"]
  <1>1. inflight' = Append(inflight, e) /\ UNCHANGED <<ledger, saved, proved>>
    BY DEF Submit, books, history
  <1>2. inflight' \in Seq(ToSet(inflight')) /\ ToSet(inflight') \subseteq ToSet(inflight) \cup {e}
    BY <1>1, AppendFacts DEF HonestInv, FuturesInOrder
  <1>3. e.out # "ok"
    OBVIOUS
  <1> HIDE DEF e
  <1> QED BY <1>1, <1>2, <1>3 DEF HonestInv, FuturesInOrder, FuturesHonest, EntriesHonest

\* A worker's verdict is "ok" only with the file read and verified.
LEMMA ComputeHonest == ASSUME HonestInv, Compute PROVE HonestInv'
PROOF
  <1>1. PICK i \in DOMAIN inflight : \E failed \in MayFail("read") :
          LET out == Outcome(inflight[i].file, failed)
              good == IF out = "ok" THEN {inflight[i].file} ELSE {} IN
          /\ inflight' = [inflight EXCEPT ![i].out = out]
          /\ proved' = proved \cup good
    BY DEF Compute
  <1>2. PICK failed \in MayFail("read") :
          LET out == Outcome(inflight[i].file, failed)
              good == IF out = "ok" THEN {inflight[i].file} ELSE {} IN
          /\ inflight' = [inflight EXCEPT ![i].out = out]
          /\ proved' = proved \cup good
    BY <1>1
  <1> DEFINE e == [inflight[i] EXCEPT !.out = Outcome(inflight[i].file, failed)]
  <1>3. inflight' = [inflight EXCEPT ![i] = e] /\ proved \subseteq proved'
    BY <1>2
  <1>4. e.out = "ok" => e.file \in proved'
    BY <1>2
  <1>5. UNCHANGED <<ledger, saved>>
    BY DEF Compute, books
  <1> HIDE DEF e
  <1>6. inflight' \in Seq(ToSet(inflight')) /\ ToSet(inflight') \subseteq ToSet(inflight) \cup {e}
    BY <1>3, AnsweredFacts DEF HonestInv, FuturesInOrder
  <1> QED BY <1>3, <1>4, <1>5, <1>6 DEF HonestInv, FuturesInOrder, FuturesHonest, EntriesHonest

\* The walk of a record enters what it has just verified, and no more.
LEMMA VisitHonest == ASSUME HonestInv, VisitNode PROVE HonestInv'
PROOF
  <1>1. /\ UNCHANGED <<inflight, saved>>
        /\ \E good : /\ proved' = proved \cup good
                     /\ ledger' \subseteq ledger \cup {Blob(f) : f \in good}
    <2> DEFINE node == Last(walk.stack)
               blobs == ToSet(Checked(node))
               tree == ToSet(node.tree)
    <2>1. CASE tree \cap walk.seen # {}
      <3>1. proved' = proved \cup {} /\ ledger' = ledger /\ UNCHANGED <<inflight, saved>>
        BY <2>1 DEF VisitNode
      <3> QED BY <3>1
    <2>2. CASE tree \cap walk.seen = {}
      <3>1. UNCHANGED <<inflight, saved>>
        BY DEF VisitNode
      <3>2. PICK failed \in FailingReads(blobs) :
              /\ proved' = proved \cup Passing(blobs, failed)
              /\ ledger' = IF run.incremental THEN ledger \cup {Blob(f) : f \in Passing(blobs, failed)}
                           ELSE ledger
        BY <2>2 DEF VisitNode
      <3> QED BY <3>1, <3>2
    <2> QED BY <2>1, <2>2
  <1>2. PICK good : /\ proved' = proved \cup good
                    /\ ledger' \subseteq ledger \cup {Blob(f) : f \in good}
    BY <1>1
  <1>3. ASSUME NEW f \in good PROVE Blob(f)[2] \in proved'
    BY <1>2 DEF Blob
  <1> QED BY <1>1, <1>2, <1>3 DEF HonestInv, FuturesInOrder, FuturesHonest, EntriesHonest

\* A process that exits or is killed takes only its memory with it.
LEMMA LeaveHonest == ASSUME HonestInv, Leave PROVE HonestInv'
PROOF
  <1>1. inflight' = <<>> /\ ledger' = {} /\ UNCHANGED <<saved, proved>>
    BY DEF Leave
  <1>2. ToSet(inflight') = {}
    BY <1>1 DEF ToSet
  <1> DEFINE T == ToSet(inflight')
  <1>3. inflight' \in Seq(T)
    <2> HIDE DEF T
    <2> QED BY <1>1
  <1> QED BY <1>1, <1>2, <1>3 DEF HonestInv, FuturesInOrder, FuturesHonest, EntriesHonest

\* Every step keeps the books honest.
LEMMA NextHonest == ASSUME HonestInv, [Next]_vars PROVE HonestInv'
PROOF
  <1>1. ASSUME NEW cmd \in Commands, StartRun(cmd) PROVE HonestInv'
    BY <1>1, BooksKept DEF StartRun, history
  <1>2. ASSUME NEW cmd \in Commands, NEW r \in AllRecords, StartRecord(cmd, r) PROVE HonestInv'
    BY <1>2, BooksKept DEF StartRecord, history
  <1>3. CASE LayoutCheck \/ AuditSet \/ NextFile \/ Recheck \/ SetDone \/ GraphCheck \/ WalkDone
    <2>1. UNCHANGED <<inflight, ledger, saved, proved>>
      BY <1>3 DEF LayoutCheck, AuditSet, NextFile, Recheck, SetDone, GraphCheck, WalkDone,
                  books, history
    <2> QED BY <2>1, BooksKept
  <1>4. CASE MagicCheck \/ RecordCheck \/ OpenRecord
    <2>1. UNCHANGED <<inflight, ledger, saved, proved>>
      BY <1>4 DEF MagicCheck, RecordCheck, OpenRecord, books, history
    <2> QED BY <2>1, BooksKept
  <1>5. CASE Wait
    <2>1. PICK i \in DoneNow : TakeOut(i)
      BY <1>5 DEF Wait
    <2> QED BY <1>5, <2>1, TakeOutHonest DEF Wait, history
  <1>6. CASE Alone
    <2>1. PICK i \in DoneNow : TakeOut(i)
      BY <1>6 DEF Alone
    <2> QED BY <1>6, <2>1, TakeOutHonest DEF Alone, history
  <1>7. CASE Drain
    <2>1. UNCHANGED <<saved, proved>>
      BY <1>7 DEF Drain, history
    <2>2. CASE inflight # <<>>
      <3>1. PICK i \in DoneNow : TakeOut(i)
        BY <1>7, <2>2 DEF Drain
      <3> QED BY <2>1, <3>1, TakeOutHonest
    <2>3. CASE inflight = <<>>
      BY <1>7, <2>1, <2>3, BooksKept DEF Drain
    <2> QED BY <2>2, <2>3
  <1>8. CASE Submit
    BY <1>8, SubmitHonest
  <1>9. CASE Compute
    BY <1>9, ComputeHonest
  <1>10. CASE VisitNode
    BY <1>10, VisitHonest
  <1>11. CASE SaveLedger
    BY <1>11, BooksKept DEF SaveLedger, history
  <1>12. CASE Leave
    BY <1>12, LeaveHonest
  <1>13. ASSUME NEW x \in Things, Harm(x) PROVE HonestInv'
    BY <1>13, BooksKept DEF Harm, books, history
  <1>14. CASE UNCHANGED vars
    BY <1>14, BooksKept DEF vars, books, history
  <1> QED BY <1>1, <1>2, <1>3, <1>4, <1>5, <1>6, <1>7, <1>8, <1>9, <1>10, <1>11, <1>12,
             <1>13, <1>14 DEF Next, Driver

\* Whatever fails, rots, is killed or comes back out of order, the ledger
\* trusts nothing that was not once read and found good.
THEOREM LedgerStaysHonest == Spec => []LedgerHonest
PROOF
  <1>1. HonestInv => LedgerHonest
    BY DEF HonestInv, EntriesHonest, LedgerHonest
  <1> QED BY <1>1, InitHonest, NextHonest, PTL DEF Spec
----------------------------------------------------------------------------
(* Types and tallies. *)

\* The places of the audit between two sets, and of a run that has a walk.
Auditing == {"family", "submit", "wait", "recheck", "alone", "drain"}
Places == {"idle", "l0", "l1a", "l1b", "l2", "l3", "open", "walk", "save", "done"} \cup Auditing

Outcomes == {"none", "ok", "bad", "skipped", "error"}
Futures == [file : Files, out : Outcomes]

Reports ==
  [layout : BOOLEAN, magic : SUBSET Files, keyset : {"unread", "decrypted", "failed"},
   records : SUBSET AllRecords, total : Nat, ok : Nat, bytes : Nat, skipped : Nat,
   known : Nat, bad : SUBSET Files, aborted : BOOLEAN, sets : SUBSET Computers,
   graph : SUBSET AllRecords, unlisted : SUBSET Computers]

RunTypes ==
  [at : Places, tier : DOMAIN Rank, width : Nat \ {0}, listed : SUBSET Files,
   incremental : BOOLEAN, limit : Nat, whole : BOOLEAN,
   comp : Nat \ {0}, fam : Nat \ {0}, next : Nat \ {0}]

Typed ==
  /\ disk \in [Things -> {"good", "bad", "headless", "gone"}]
  /\ run \in RunTypes
  /\ todo \subseteq Files
  /\ inflight \in Seq(Futures)
  /\ walk.rec \in AllRecords \cup {"none"}
  /\ walk.stack \in Seq(ToSet(walk.stack)) /\ \A node \in ToSet(walk.stack) : IsNode(node)
  /\ walk.bad \subseteq Files /\ walk.count \in Nat
  /\ DOMAIN walk = {"rec", "stack", "seen", "count", "bad"}
  /\ report \in Reports
  /\ ledger \cup saved \subseteq {"name", "blob"} \X Files
  /\ reads \in Nat

\* What a run that has not begun has left nowhere, and which tiers come to
\* which places.
Fresh ==
  Does("idle") =>
    /\ run = NoRun /\ report = NoReport /\ inflight = <<>>
    /\ passed = {} /\ reads = 0 /\ ledger = {}

Ranks ==
  /\ run.at \in {"l0", "l1a", "l1b", "l2", "l3"} \cup Auditing => run.tier # "record"
  /\ Does("l1b") => Reaches("deep")
  /\ run.at \in {"l2"} \cup Auditing => Reaches("audit")
  /\ Does("l3") => run.tier = "graph"
  /\ run.at \in {"open", "walk"} => run.tier \in {"graph", "record"} /\ walk.rec \in AllRecords
  /\ run.incremental => run.tier \in {"audit", "record"}
  /\ ~run.incremental => ledger = {}

\* The cursor is at a computer, and in it at a family; the audit is at a file
\* that is still ahead.
Cursor ==
  /\ run.at \in {"l1b", "l2", "l3"} => run.comp <= Len(Layouts) + 1
  /\ run.at \in Auditing => run.comp <= Len(Layouts)
  /\ run.tier = "graph" /\ run.at \in {"open", "walk"} => run.comp <= Len(Layouts)
  /\ Does("family") => run.fam <= Len(Walk[Here]) + 1
  /\ run.at \in Auditing \ {"family"} => run.fam <= Len(Walk[Here])
  /\ run.at \in {"submit", "wait", "recheck"} => Ahead # {}

\* The window.
Window ==
  /\ inflight # <<>> => run.at \in Auditing
  /\ Len(inflight) <= 2 * run.width
  /\ run.width = 1 /\ run.at # "alone" => inflight = <<>>
  /\ Does("alone") => run.width = 1 /\ Len(inflight) = 1
  /\ run.at \in {"wait", "recheck"} => run.width > 1
  /\ run.at \in {"submit", "recheck"} => Len(inflight) < 2 * run.width
  /\ Does("family") /\ run.fam > Len(Walk[Here]) => inflight = <<>>

\* What was read, merged or not, and the budget.
ReadOnes == {d \in ToSet(inflight) : d.out \in {"ok", "bad"}}
Budget ==
  /\ reads = report.bytes + Cardinality(ReadOnes)
  /\ MaxBytes > 0 => report.bytes + Len(inflight) < MaxBytes + 2 * run.width
  /\ MaxBytes > 0 /\ Does("submit") => report.bytes < MaxBytes

\* The files the cursor has passed.
BehindIn(j, f) ==
  \E k \in DOMAIN Walk[Here][j] :
     Walk[Here][j][k] = f /\ (j < run.fam \/ (j = run.fam /\ k < run.next))
Behind(f) ==
  \/ \E i \in 1..Len(Layouts) : i < run.comp /\ f \in Listed(Layouts[i])
  \/ run.at \in Auditing /\ (\E j \in DOMAIN Walk[Here] : BehindIn(j, f))

\* No file is audited twice.
InWindow(f) == \E i \in DOMAIN inflight : inflight[i].file = f
Once ==
  /\ \A i, j \in DOMAIN inflight : inflight[i].file = inflight[j].file => i = j
  /\ \A f \in Files : InWindow(f) => f \notin report.bad /\ Behind(f)
  /\ run.at \in {"idle", "l0", "l1a", "l1b"} => report.bad = {}
  /\ run.at \in {"l2"} \cup Auditing => \A f \in report.bad : Behind(f)

Tally ==
  /\ IsFiniteSet(report.bad)
  /\ report.total = report.ok + report.skipped + report.known + Cardinality(report.bad)

TallyInv == Typed /\ Fresh /\ Ranks /\ Cursor /\ Window /\ Budget /\ Once /\ Tally
----------------------------------------------------------------------------
(* What has been checked. *)

\* What the run knows of a file, of a newest record, and of a record.
Audited(f) ==
  f \in Large \/ f \in report.bad \/ Name(f) \in before \/ <<"audit", f>> \in passed
Dated(c) == Newest(c) \in report.records \/ <<"deep", Newest(c)>> \in passed
Handled(r) == r \in report.graph \/ <<"graph", r>> \in passed

SetAudited(c) == c \in report.sets \/ \A f \in run.listed \cap Listed(c) : Audited(f)
FolderWalked(c) == c \in report.unlisted \/ \A r \in ToSet(Records[c]) : Handled(r)

\* The run has failed and knows it before it comes to the audit.
CutShort == ~report.layout \/ report.keyset = "failed"

DatedSoFar ==
  /\ Does("l1b") => \A i \in 1..Len(Layouts) : i < run.comp => Dated(Layouts[i])
  /\ run.at \in {"l2"} \cup Auditing => \A c \in Computers : Dated(c)
  /\ run.at \in {"l3", "open", "walk", "save", "done"} /\ Reaches("deep") =>
       CutShort \/ \A c \in Computers : Dated(c)

\* What is in flight has been submitted, and a verdict that waits is earned.
Awaited(f) == \E d \in ToSet(inflight) : d.file = f
Earned ==
  \A d \in ToSet(inflight) :
    /\ d.out = "ok" => <<"audit", d.file>> \in passed
    /\ d.out = "skipped" => d.file \in Large

AuditedSoFar ==
  /\ run.at \in {"l2"} \cup Auditing =>
       \A i \in 1..Len(Layouts) : i < run.comp => SetAudited(Layouts[i])
  /\ run.at \in Auditing =>
       \A f \in run.listed : (\E j \in DOMAIN Walk[Here] : BehindIn(j, f)) => Audited(f) \/ Awaited(f)
  /\ Does("drain") => report.aborted \/ Ahead = {}
  /\ run.at \in {"l3", "open", "walk", "save", "done"} /\ Reaches("audit") =>
       CutShort \/ report.aborted \/ \A c \in Computers : SetAudited(c)

\* The records of this computer before the one at hand.
WalkedSoFar ==
  /\ run.tier = "graph" /\ run.at \in {"l3", "open", "walk"} =>
       \A i \in 1..Len(Layouts) : i < run.comp => FolderWalked(Layouts[i])
  /\ run.tier = "graph" /\ run.at \in {"l3", "walk"} /\ run.comp <= Len(Layouts) =>
       \A k \in DOMAIN Records[Here] : k < run.next => Handled(Records[Here][k])
  /\ run.tier = "graph" /\ Does("open") =>
       /\ \A k \in DOMAIN Records[Here] : k + 1 < run.next => Handled(Records[Here][k])
       /\ run.next > 1 /\ walk.rec = Records[Here][run.next - 1]
  /\ run.tier = "graph" /\ run.at \in {"save", "done"} =>
       CutShort \/ \A c \in Computers : FolderWalked(c)
  /\ Does("walk") => <<"graph", walk.rec>> \in passed
  /\ run.tier = "record" /\ run.at \in {"save", "done"} => Handled(walk.rec) /\ walk.rec \in AllRecords

\* Every entry of the ledger was there when the run began, or is of a file or
\* blob it has verified.
Entered ==
  \A f \in Files :
    /\ Name(f) \in ledger => Name(f) \in before \/ <<"audit", f>> \in passed
    /\ Blob(f) \in ledger =>
         Blob(f) \in before \/ (run.tier = "record" /\ <<walk.rec, f>> \in passed)

\* The nodes the walk of a record has come upon: those named by its record and
\* by the trees it has verified.
Found(r, node) ==
  \/ node = Root[r] /\ <<"graph", r>> \in passed
  \/ \E t \in DOMAIN Children : <<r, t>> \in passed /\ node \in ToSet(Children[t])

Nodes(r) == UNION ({{Root[r]}} \cup {ToSet(Children[t]) : t \in DOMAIN Children})

Met(r, f) == Blob(f) \in before \/ <<r, f>> \in passed

\* Each of them is settled or waits on the stack, unless something failed.
Followed ==
  run.limit = 0 =>
    \A r \in AllRecords :
      \/ r \in report.graph
      \/ Does("walk") /\ walk.rec = r /\ walk.bad # {}
      \/ \A node \in Nodes(r) : Found(r, node) =>
           Settled(r, node) \/ (Does("walk") /\ walk.rec = r /\ node \in ToSet(walk.stack))

SeenMet ==
  /\ Does("open") => walk.seen = {}
  /\ Does("walk") /\ run.limit = 0 => walk.bad # {} \/ \A t \in walk.seen : Met(walk.rec, t)

CheckedInv ==
  /\ TallyInv
  /\ DatedSoFar /\ Earned /\ AuditedSoFar /\ WalkedSoFar
  /\ Entered /\ Followed /\ SeenMet
----------------------------------------------------------------------------
(* Sequences, sets, and the constants. *)

\* Every set of numbers has a least.
LEMMA LeastNatural ==
  ASSUME NEW T, T \subseteq Nat, T # {}
  PROVE  \E n \in T : \A m \in T : n <= m
PROOF
  <1> DEFINE R == {pair \in Nat \X Nat : pair[1] < pair[2]}
  <1>1. R = OpToRel(<, Nat)
    BY Zenon DEF OpToRel
  <1>2. IsWellFoundedOn(R, Nat)
    BY <1>1, NatLessThanWellFounded, Zenon
  <1>3. \A m, n \in Nat : m < n => <<m, n>> \in R
    OBVIOUS
  <1> HIDE DEF R
  <1>4. PICK n \in T : \A m \in T : ~(<<m, n>> \in R)
    BY <1>2, WFMin, Zenon
  <1>5. \A m \in T : m \in Nat /\ n \in Nat /\ ~(m < n)
    BY <1>3, <1>4
  <1> QED BY <1>5

\* A sequence without its i-th element.
LEMMA RemoveAtIs ==
  ASSUME NEW S, NEW s \in Seq(S), NEW i \in DOMAIN s
  PROVE  /\ RemoveAt(s, i) \in Seq(S)
         /\ Len(RemoveAt(s, i)) = Len(s) - 1
         /\ \A j \in 1..(Len(s) - 1) :
              RemoveAt(s, i)[j] = IF j < i THEN s[j] ELSE s[j + 1]
PROOF
  <1> DEFINE a == SubSeq(s, 1, i - 1)
             b == SubSeq(s, i + 1, Len(s))
  <1>1. Len(s) \in Nat /\ i \in 1..Len(s)
    OBVIOUS
  <1>2. /\ a \in Seq(S) /\ Len(a) = i - 1 /\ \A j \in 1..(i - 1) : a[j] = s[j]
        /\ b \in Seq(S) /\ Len(b) = Len(s) - i
        /\ \A j \in 1..(Len(s) - i) : b[j] = s[i + j]
    <2>1. /\ a \in Seq(S) /\ Len(a) = i - 1 /\ \A j \in 1..(i - 1) : a[j] = s[j]
      BY <1>1
    <2>2. /\ b \in Seq(S) /\ Len(b) = Len(s) - i
          /\ \A j \in 1..(Len(s) - i) : b[j] = s[i + 1 + j - 1]
      BY <1>1
    <2>3. \A j \in 1..(Len(s) - i) : i + 1 + j - 1 = i + j
      BY <1>1
    <2> QED BY <2>1, <2>2, <2>3
  <1> HIDE DEF a, b
  <1>3. /\ a \o b \in Seq(S) /\ Len(a \o b) = Len(s) - 1
        /\ \A j \in 1..(Len(s) - 1) : (a \o b)[j] = IF j <= i - 1 THEN a[j] ELSE b[j - (i - 1)]
    <2>1. Len(a) + Len(b) = Len(s) - 1
      BY <1>1, <1>2
    <2>2. a \in Seq(S) /\ b \in Seq(S)
      BY <1>2
    <2>3. /\ a \o b \in Seq(S) /\ Len(a \o b) = Len(a) + Len(b)
          /\ \A j \in 1..(Len(a) + Len(b)) :
               (a \o b)[j] = IF j <= Len(a) THEN a[j] ELSE b[j - Len(a)]
      BY <2>2
    <2> QED BY <1>2, <2>1, <2>3
  <1>4. RemoveAt(s, i) = a \o b
    BY DEF RemoveAt, a, b
  <1>5. ASSUME NEW j \in 1..(Len(s) - 1)
        PROVE  RemoveAt(s, i)[j] = IF j < i THEN s[j] ELSE s[j + 1]
    <2>1. CASE j < i
      BY <1>1, <1>2, <1>3, <1>4, <2>1
    <2>2. CASE ~(j < i)
      <3>1. j - (i - 1) \in 1..(Len(s) - i) /\ i + (j - (i - 1)) = j + 1 /\ ~(j <= i - 1)
        BY <1>1, <2>2
      <3>2. b[j - (i - 1)] = s[j + 1]
        BY <1>2, <3>1
      <3> QED BY <1>3, <1>4, <2>2, <3>1, <3>2
    <2> QED BY <2>1, <2>2
  <1> QED BY <1>3, <1>4, <1>5

\* The computers in the order of the run: each of them, and each once.
LEMMA LayoutsFacts ==
  /\ Len(Layouts) \in Nat
  /\ \A i \in 1..Len(Layouts) : Layouts[i] \in Computers
  /\ \A i, j \in 1..Len(Layouts) : Layouts[i] = Layouts[j] => i = j
  /\ \A c \in Computers : \E i \in 1..Len(Layouts) : Layouts[i] = c
PROOF
  <1> DEFINE n == Cardinality(Computers)
  <1>1. IsFiniteSet(Computers) /\ n \in Nat /\ ExistsBijection(1..n, Computers)
    BY ListingAssumption, FS_CardinalityType
  <1>2. PICK g \in Bijection(1..n, Computers) : TRUE
    BY <1>1 DEF ExistsBijection
  <1>3. g \in [1..n -> Computers] /\ IsInjective(g)
    BY <1>2 DEF Bijection, Injection
  <1>4. Layouts \in [1..n -> Computers] /\ IsInjective(Layouts)
    BY <1>3 DEF Layouts, SetToSeq
  <1>5. Layouts \in Injection(1..n, Computers)
    BY <1>4 DEF Injection, IsInjective
  <1>6. Cardinality(1..n) = n
    BY <1>1, FS_Interval
  <1>7. Layouts \in Surjection(1..n, Computers)
    BY <1>1, <1>5, <1>6, FS_Injection
  <1>8. Layouts \in Seq(Computers) /\ Len(Layouts) = n
    BY <1>1, <1>4
  <1>9. \A i, j \in 1..n : Layouts[i] = Layouts[j] => i = j
    BY <1>4 DEF IsInjective
  <1>10. \A c \in Computers : \E i \in 1..n : Layouts[i] = c
    BY <1>7 DEF Surjection
  <1> HIDE DEF n
  <1> QED BY <1>1, <1>4, <1>8, <1>9, <1>10

\* Where the cursor stands in a family: the file whose turn it is is the
\* first that is listed and still to come.
LEMMA AtFamily ==
  ASSUME Typed, Cursor, run.at \in Auditing, run.fam <= Len(Walk[Here])
  PROVE  /\ Here \in Computers /\ run.fam \in DOMAIN Walk[Here]
         /\ Family \in Seq(Files) /\ Ahead \subseteq DOMAIN Family
         /\ Ahead # {} =>
              /\ Turn \in DOMAIN Family /\ Turn >= run.next /\ File \in run.listed
              /\ \A j \in DOMAIN Family : j >= run.next /\ Family[j] \in run.listed => Turn <= j
         /\ Ahead = {} => \A j \in DOMAIN Family : Family[j] \in run.listed => j < run.next
PROOF
  <1>1. /\ run.comp \in 1..Len(Layouts) /\ run.fam \in Nat \ {0} /\ run.next \in Nat \ {0}
        /\ run.listed \subseteq Files
    BY LayoutsFacts DEF Typed, RunTypes, Cursor
  <1>2. Here \in Computers
    BY <1>1, LayoutsFacts DEF Here
  <1>3. Walk[Here] \in Seq(Seq(Files))
    BY <1>2, ListingAssumption
  <1>4. run.fam \in DOMAIN Walk[Here] /\ Family \in Seq(Files)
    BY <1>1, <1>3 DEF Family
  <1>5. Ahead \subseteq DOMAIN Family /\ DOMAIN Family \subseteq Nat
    BY <1>4 DEF Ahead
  <1>6. ASSUME Ahead # {}
        PROVE  Turn \in Ahead /\ \A j \in Ahead : Turn <= j
    <2>1. \E n \in Ahead : \A m \in Ahead : n <= m
      BY <1>5, <1>6, LeastNatural
    <2> QED BY <2>1 DEF Turn
  <1>7. ASSUME Ahead # {}
        PROVE  /\ Turn \in DOMAIN Family /\ Turn >= run.next /\ File \in run.listed
               /\ \A j \in DOMAIN Family :
                    j >= run.next /\ Family[j] \in run.listed => Turn <= j
    BY <1>6, <1>7 DEF Ahead, File
  <1>8. Ahead = {} => \A j \in DOMAIN Family : Family[j] \in run.listed => j < run.next
    BY <1>1, <1>5 DEF Ahead
  <1> QED BY <1>2, <1>4, <1>5, <1>7, <1>8

\* A run whose cursor has moved.
Moved(p, c, f, n) ==
  [at |-> p, tier |-> run.tier, width |-> run.width, listed |-> run.listed,
   incremental |-> run.incremental, limit |-> run.limit, whole |-> run.whole,
   comp |-> c, fam |-> f, next |-> n]

LEMMA MovedTyped ==
  ASSUME run \in RunTypes, NEW p \in Places, NEW c \in Nat \ {0}, NEW f \in Nat \ {0},
         NEW n \in Nat \ {0}
  PROVE  Moved(p, c, f, n) \in RunTypes
PROOF
  <1>1. /\ run.tier \in DOMAIN Rank /\ run.width \in Nat \ {0} /\ run.listed \subseteq Files
        /\ run.incremental \in BOOLEAN /\ run.limit \in Nat /\ run.whole \in BOOLEAN
    BY DEF RunTypes
  <1> QED BY <1>1 DEF Moved, RunTypes

LEMMA GotoFacts ==
  ASSUME run \in RunTypes, NEW p \in Places, Goto(p)
  PROVE  /\ run' \in RunTypes /\ run'.at = p
         /\ run'.comp = 1 /\ run'.fam = 1 /\ run'.next = 1
         /\ run'.tier = run.tier /\ run'.width = run.width /\ run'.listed = run.listed
         /\ run'.incremental = run.incremental /\ run'.limit = run.limit
PROOF
  <1>1. run' = Moved(p, 1, 1, 1)
    BY DEF Goto, Moved, RunTypes
  <1>2. run' \in RunTypes
    BY <1>1, MovedTyped
  <1> QED BY <1>1, <1>2 DEF Moved

\* A sequence and its last element, and one sequence after another.
LEMMA FrontFacts ==
  ASSUME NEW S, NEW s \in Seq(S), s # <<>>
  PROVE  /\ Front(s) \in Seq(S) /\ Last(s) \in ToSet(s)
         /\ ToSet(s) = ToSet(Front(s)) \cup {Last(s)}
PROOF
  <1> DEFINE n == Len(s)
             front == SubSeq(s, 1, n - 1)
  <1>1. n \in Nat \ {0} /\ DOMAIN s = 1..n
    OBVIOUS
  <1>2. front \in Seq(S) /\ Len(front) = n - 1 /\ \A j \in 1..(n - 1) : front[j] = s[j]
    BY <1>1
  <1>3. Front(s) = front /\ Last(s) = s[n]
    BY DEF Front, Last
  <1> HIDE DEF front, n
  <1>4. DOMAIN front = 1..(n - 1) /\ n \in 1..n
    BY <1>1, <1>2
  <1>5. \A i \in 1..n : i \in 1..(n - 1) \/ i = n
    BY <1>1
  <1>6. \A i \in 1..(n - 1) : i \in 1..n
    BY <1>1
  <1> QED BY <1>1, <1>2, <1>3, <1>4, <1>5, <1>6 DEF ToSet

LEMMA ConcatFacts ==
  ASSUME NEW S, NEW s \in Seq(S), NEW t \in Seq(S)
  PROVE  s \o t \in Seq(S) /\ ToSet(s \o t) = ToSet(s) \cup ToSet(t)
PROOF
  <1>1. /\ Len(s) \in Nat /\ Len(t) \in Nat /\ DOMAIN s = 1..Len(s) /\ DOMAIN t = 1..Len(t)
        /\ s \o t \in Seq(S) /\ DOMAIN (s \o t) = 1..(Len(s) + Len(t))
        /\ \A i \in 1..(Len(s) + Len(t)) :
             (s \o t)[i] = IF i <= Len(s) THEN s[i] ELSE t[i - Len(s)]
    OBVIOUS
  <1>2. ASSUME NEW x \in ToSet(s \o t) PROVE x \in ToSet(s) \cup ToSet(t)
    <2>1. PICK i \in 1..(Len(s) + Len(t)) : x = (s \o t)[i]
      BY <1>1 DEF ToSet
    <2>2. i <= Len(s) => i \in 1..Len(s)
      BY <1>1
    <2>3. ~(i <= Len(s)) => i - Len(s) \in 1..Len(t)
      BY <1>1
    <2> QED BY <1>1, <2>1, <2>2, <2>3 DEF ToSet
  <1>3. ASSUME NEW x \in ToSet(s) PROVE x \in ToSet(s \o t)
    <2>1. PICK i \in 1..Len(s) : x = s[i]
      BY <1>1 DEF ToSet
    <2>2. i \in 1..(Len(s) + Len(t)) /\ i <= Len(s)
      BY <1>1
    <2> QED BY <1>1, <2>1, <2>2 DEF ToSet
  <1>4. ASSUME NEW x \in ToSet(t) PROVE x \in ToSet(s \o t)
    <2>1. PICK i \in 1..Len(t) : x = t[i]
      BY <1>1 DEF ToSet
    <2>2. i + Len(s) \in 1..(Len(s) + Len(t)) /\ ~(i + Len(s) <= Len(s)) /\ i + Len(s) - Len(s) = i
      BY <1>1
    <2>3. (s \o t)[i + Len(s)] = x
      BY <1>1, <2>1, <2>2
    <2> QED BY <1>1, <2>2, <2>3 DEF ToSet
  <1> QED BY <1>1, <1>2, <1>3, <1>4

\* What is checked of a node: files, its tree among them, no other tree, and
\* all of it where no limit is set.
LEMMA CheckedFacts ==
  ASSUME NEW node, IsNode(node), run.limit \in Nat, walk.count \in Nat
  PROVE  /\ Checked(node) \in Seq(Files)
         /\ ToSet(node.tree) \subseteq ToSet(Checked(node))
         /\ ToSet(Checked(node)) \cap DOMAIN Children \subseteq ToSet(node.tree)
         /\ run.limit = 0 =>
              ToSet(node.data \o node.xattrs \o node.acl) \subseteq ToSet(Checked(node))
PROOF
  <1> DEFINE P == Files \ DOMAIN Children
             body == node.data \o node.xattrs
             left == run.limit - walk.count - Len(node.tree)
             cut == IF run.limit = 0 \/ left >= Len(body) THEN body
                    ELSE SubSeq(body, 1, IF left < 0 THEN 0 ELSE left)
             part == node.tree \o cut
  <1>1. /\ node.tree \in Seq(DOMAIN Children) /\ node.data \in Seq(P)
        /\ node.xattrs \in Seq(P) /\ node.acl \in Seq(P)
        /\ DOMAIN Children \subseteq Files
    BY RecordAssumption DEF IsNode
  <1>2. Checked(node) = part \o node.acl
    BY DEF Checked
  <1> HIDE DEF P
  <1>3. body \in Seq(P)
    BY <1>1
  <1>4. left \in Int /\ Len(body) \in Nat
    <2>1. Len(node.tree) \in Nat
      BY <1>1
    <2>2. left \in Int
      BY <2>1
    <2> HIDE DEF body, left
    <2>3. Len(body) \in Nat
      BY <1>3
    <2> QED BY <2>2, <2>3
  <1>5. cut \in Seq(P)
    <2>1. CASE run.limit = 0 \/ left >= Len(body)
      BY <1>3, <2>1
    <2>2. CASE ~(run.limit = 0 \/ left >= Len(body))
      <3> DEFINE last == IF left < 0 THEN 0 ELSE left
      <3> HIDE DEF left, body
      <3>1. last \in Nat /\ last <= Len(body)
        BY <1>4, <2>2
      <3> HIDE DEF last
      <3>2. SubSeq(body, 1, last) \in Seq(P)
        BY <1>3, <1>4, <3>1
      <3> QED BY <2>2, <3>2 DEF last
    <2> QED BY <2>1, <2>2
  <1>6. run.limit = 0 => cut = body
    OBVIOUS
  <1> HIDE DEF body, left, cut
  <1>7. P \subseteq Files /\ P \cap DOMAIN Children = {}
    BY DEF P
  <1>8. node.tree \in Seq(Files) /\ cut \in Seq(Files) /\ node.acl \in Seq(Files)
    BY <1>1, <1>5, <1>7
  <1>9. part \in Seq(Files) /\ ToSet(part) = ToSet(node.tree) \cup ToSet(cut)
    BY <1>8, ConcatFacts
  <1> HIDE DEF part
  <1>10. /\ Checked(node) \in Seq(Files)
         /\ ToSet(Checked(node)) = ToSet(node.tree) \cup ToSet(cut) \cup ToSet(node.acl)
    BY <1>2, <1>8, <1>9, ConcatFacts
  <1>11. ToSet(cut) \subseteq P /\ ToSet(node.acl) \subseteq P
    BY <1>1, <1>5, OwnElements
  <1>12. ToSet(body \o node.acl) = ToSet(body) \cup ToSet(node.acl)
    BY <1>1, <1>3, ConcatFacts
  <1>13. node.data \o node.xattrs \o node.acl = body \o node.acl
    BY DEF body
  <1> QED BY <1>6, <1>7, <1>10, <1>11, <1>12, <1>13
----------------------------------------------------------------------------
(* Types. *)

LEMMA InitTyped == ASSUME Init PROVE Typed
PROOF
  <1>1. disk \in [Things -> {"good", "bad", "headless", "gone"}]
    BY DEF Init
  <1>2. run \in RunTypes
    BY DEF Init, NoRun, RunTypes, Places, Rank
  <1>3. report \in Reports
    BY DEF Init, NoReport, Reports
  <1>4. todo = {} /\ inflight = <<>> /\ ledger = {} /\ saved = {} /\ reads = 0 /\ walk = NoWalk
    BY DEF Init
  <1>5. inflight \in Seq(Futures)
    BY <1>4
  <1>6. /\ walk.rec = "none" /\ walk.stack = <<>> /\ walk.bad = {} /\ walk.count = 0
        /\ DOMAIN walk = {"rec", "stack", "seen", "count", "bad"}
    BY <1>4 DEF NoWalk
  <1>7. ToSet(walk.stack) = {}
    BY <1>6 DEF ToSet
  <1>8. walk.stack \in Seq(ToSet(walk.stack))
    <2> DEFINE T == ToSet(walk.stack)
    <2> HIDE DEF T
    <2>1. walk.stack \in Seq(T)
      BY <1>6
    <2> QED BY <2>1 DEF T
  <1> QED BY <1>1, <1>2, <1>3, <1>4, <1>5, <1>6, <1>7, <1>8 DEF Typed

\* The walk, the ledgers and the rest that most steps leave alone.
LEMMA TypedKept ==
  ASSUME Typed, run' \in RunTypes, report' \in Reports,
         UNCHANGED <<disk, todo, inflight, walk, ledger, saved, reads>>
  PROVE  Typed'
BY DEF Typed

LEMMA StartRunTyped ==
  ASSUME Typed, NEW cmd \in Commands, StartRun(cmd)
  PROVE  /\ Typed' /\ run'.at = "l0" /\ run'.tier = cmd.tier /\ run'.limit = cmd.limit
         /\ run'.incremental = cmd.incremental
PROOF
  <1>1. cmd \in [tier : DOMAIN Rank, width : Nat \ {0}, incremental : BOOLEAN,
                 limit : Nat, whole : BOOLEAN]
    BY ValidationAssumption
  <1> DEFINE listed == {f \in Files : disk[f] # "gone"}
  <1>2. run \in RunTypes /\ listed \subseteq Files
    BY DEF Typed
  <1>3. run' = [run EXCEPT !.at = "l0", !.limit = cmd.limit, !.whole = cmd.whole,
                           !.tier = cmd.tier, !.width = cmd.width,
                           !.incremental = cmd.incremental, !.listed = listed]
    BY DEF StartRun
  <1> HIDE DEF listed
  <1>4. run' = [at |-> "l0", tier |-> cmd.tier, width |-> cmd.width, listed |-> listed,
                incremental |-> cmd.incremental, limit |-> cmd.limit, whole |-> cmd.whole,
                comp |-> run.comp, fam |-> run.fam, next |-> run.next]
    BY <1>2, <1>3 DEF RunTypes
  <1>5. run' \in RunTypes
    BY <1>1, <1>2, <1>4 DEF RunTypes, Places
  <1>6. ledger' \subseteq ledger \cup saved
    BY DEF StartRun
  <1> QED BY <1>4, <1>5, <1>6 DEF Typed, StartRun, history

LEMMA StartRecordTyped ==
  ASSUME Typed, NEW cmd \in Commands, NEW r \in AllRecords, StartRecord(cmd, r)
  PROVE  /\ Typed' /\ run'.at = "open" /\ run'.tier = "record" /\ run'.limit = cmd.limit
         /\ run'.incremental = cmd.incremental /\ run'.width = run.width /\ walk'.rec = r
PROOF
  <1>1. cmd \in [tier : DOMAIN Rank, width : Nat \ {0}, incremental : BOOLEAN,
                 limit : Nat, whole : BOOLEAN]
    BY ValidationAssumption
  <1>2. run \in RunTypes
    BY DEF Typed
  <1>3. run' = [at |-> "open", tier |-> "record", width |-> run.width, listed |-> run.listed,
                incremental |-> cmd.incremental, limit |-> cmd.limit, whole |-> run.whole,
                comp |-> run.comp, fam |-> run.fam, next |-> run.next]
    BY <1>2 DEF RunTypes, StartRecord
  <1>4. run' \in RunTypes
    BY <1>1, <1>2, <1>3 DEF RunTypes, Places, Rank
  <1>5. ledger' \subseteq ledger \cup saved
    BY DEF StartRecord
  <1>6. /\ walk'.rec = r /\ walk'.stack = <<>> /\ walk'.bad = {} /\ walk'.count = 0
        /\ DOMAIN walk' = {"rec", "stack", "seen", "count", "bad"}
    BY DEF StartRecord, NoWalk
  <1>7. walk'.stack \in Seq(ToSet(walk'.stack)) /\ ToSet(walk'.stack) = {}
    <2>1. ToSet(walk'.stack) = {}
      BY <1>6 DEF ToSet
    <2> DEFINE T == ToSet(walk'.stack)
    <2> HIDE DEF T
    <2>2. walk'.stack \in Seq(T)
      BY <1>6
    <2> QED BY <2>1, <2>2 DEF T
  <1> QED BY <1>3, <1>4, <1>5, <1>6, <1>7 DEF Typed, StartRecord, history

\* A step that moves the cursor and notes something in the report.
LEMMA MoveTyped ==
  ASSUME Typed, NEW p \in Places, NEW c \in Nat \ {0}, NEW f \in Nat \ {0}, NEW n \in Nat \ {0},
         run' = Moved(p, c, f, n), report' \in Reports,
         UNCHANGED <<disk, todo, inflight, walk, ledger, saved, reads>>
  PROVE  Typed'
BY MovedTyped, TypedKept DEF Typed

\* Where the cursor is.
LEMMA CursorTyped ==
  ASSUME Typed
  PROVE  /\ run \in RunTypes /\ report \in Reports /\ run.at \in Places
         /\ run.comp \in Nat \ {0} /\ run.fam \in Nat \ {0} /\ run.next \in Nat \ {0}
         /\ run.comp + 1 \in Nat \ {0} /\ run.fam + 1 \in Nat \ {0}
         /\ run.next + 1 \in Nat \ {0} /\ 1 \in Nat \ {0}
         /\ run.width \in Nat \ {0} /\ run.limit \in Nat /\ run.listed \subseteq Files
         /\ run.tier \in DOMAIN Rank /\ run.incremental \in BOOLEAN
BY DEF Typed, RunTypes

LEMMA HereIs ==
  ASSUME Typed, run.comp <= Len(Layouts)
  PROVE  /\ run.comp \in 1..Len(Layouts) /\ Here \in Computers
         /\ Here = Layouts[run.comp]
         /\ Records[Here] \in Seq(AllRecords) \ {<<>>}
         /\ Newest(Here) \in AllRecords
PROOF
  <1>1. run.comp \in 1..Len(Layouts)
    BY CursorTyped, LayoutsFacts
  <1>2. Here \in Computers /\ Here = Layouts[run.comp]
    BY <1>1, LayoutsFacts DEF Here
  <1>3. Records[Here] \in Seq(AllRecords) \ {<<>>}
    BY <1>2, ListingAssumption
  <1> DEFINE s == Records[Here]
  <1> HIDE DEF s
  <1>4. Len(s) \in 1..Len(s) /\ s[Len(s)] \in AllRecords
    <2>1. s \in Seq(AllRecords) /\ s # <<>>
      BY <1>3 DEF s
    <2> QED BY <2>1
  <1>5. Newest(Here) = s[Len(s)]
    BY DEF Newest, Last, s
  <1> QED BY <1>1, <1>2, <1>3, <1>4, <1>5

LEMMA LayoutCheckTyped ==
  ASSUME Typed, LayoutCheck
  PROVE  /\ Typed'
         /\ \/ ~report'.layout /\ run' = Moved("save", 1, 1, 1)
            \/ ~Reaches("quick") /\ run' = Moved("save", 1, 1, 1)
            \/ Reaches("quick") /\ run' = Moved("l1a", 1, 1, 1)
         /\ report' = [report EXCEPT !.layout = run.listed # {}]
PROOF
  <1>1. report' = [report EXCEPT !.layout = run.listed # {}] /\ report' \in Reports
    BY CursorTyped DEF LayoutCheck, Reports
  <1>2. todo' \subseteq Files
    BY CursorTyped DEF LayoutCheck, Typed
  <1>3. ASSUME NEW p \in {"save", "l1a"}, Goto(p) PROVE run' = Moved(p, 1, 1, 1)
    BY <1>3, CursorTyped DEF Goto, Moved, RunTypes
  <1>4. \/ ~report'.layout /\ run' = Moved("save", 1, 1, 1)
        \/ ~Reaches("quick") /\ run' = Moved("save", 1, 1, 1)
        \/ Reaches("quick") /\ run' = Moved("l1a", 1, 1, 1)
    BY <1>3 DEF LayoutCheck
  <1>5. run' \in RunTypes
    BY <1>4, CursorTyped, MovedTyped DEF Places
  <1> QED BY <1>1, <1>2, <1>4, <1>5 DEF Typed, LayoutCheck, books, history

LEMMA MagicCheckTyped ==
  ASSUME Typed, MagicCheck
  PROVE  /\ Typed'
         /\ \/ Reaches("deep") /\ run' = Moved("l1b", 1, 1, 1)
            \/ ~Reaches("deep") /\ run' = Moved("save", 1, 1, 1)
            \/ run' = run
         /\ \E bad \in SUBSET Files : report' = [report EXCEPT !.magic = report.magic \cup bad]
PROOF
  <1>1. ASSUME NEW p \in {"save", "l1b"}, Goto(p) PROVE run' = Moved(p, 1, 1, 1)
    BY <1>1, CursorTyped DEF Goto, Moved, RunTypes
  <1>2. todo \subseteq Files /\ report \in Reports
    BY DEF Typed
  <1>3. CASE todo = {}
    <2>1. UNCHANGED <<todo, report>> /\ Goto(IF Reaches("deep") THEN "l1b" ELSE "save")
      BY <1>3 DEF MagicCheck
    <2>2. \/ Reaches("deep") /\ run' = Moved("l1b", 1, 1, 1)
          \/ ~Reaches("deep") /\ run' = Moved("save", 1, 1, 1)
      BY <1>1, <2>1
    <2>3. run' \in RunTypes
      BY <2>2, CursorTyped, MovedTyped DEF Places
    <2>4. report' = [report EXCEPT !.magic = report.magic \cup {}]
      BY <2>1, <1>2 DEF Reports
    <2> QED BY <2>1, <2>2, <2>3, <2>4 DEF Typed, MagicCheck, books, history
  <1>4. CASE todo # {}
    <2>1. PICK f \in todo, failed \in MayFail("read") :
            /\ todo' = Remaining(f, failed)
            /\ report' = [report EXCEPT !.magic = IF failed \/ ~HasMagic(f) THEN @ \cup {f} ELSE @]
            /\ UNCHANGED run
      BY <1>4 DEF MagicCheck
    <2>2. todo' \subseteq Files
      BY <2>1, <1>2 DEF Remaining
    <2>3. PICK bad \in SUBSET Files : report' = [report EXCEPT !.magic = report.magic \cup bad]
      <3>1. CASE failed \/ ~HasMagic(f)
        BY <3>1, <2>1, <1>2
      <3>2. CASE ~(failed \/ ~HasMagic(f))
        <4>1. report' = [report EXCEPT !.magic = report.magic \cup {}]
          BY <3>2, <2>1
        <4> QED BY <4>1
      <3> QED BY <3>1, <3>2
    <2>4. report' \in Reports
      BY <2>3, <1>2 DEF Reports
    <2> QED BY <2>1, <2>2, <2>3, <2>4 DEF Typed, MagicCheck, books, history
  <1> QED BY <1>3, <1>4

LEMMA RecordCheckTyped ==
  ASSUME Typed, RecordCheck
  PROVE  /\ Typed' /\ passed \subseteq passed'
         /\ \/ /\ run.comp > Len(Layouts) /\ report' = report
               /\ run' = Moved(IF Reaches("audit") THEN "l2" ELSE "save", 1, 1, 1)
            \/ /\ run' = Moved("save", 1, 1, 1)
               /\ report' = [report EXCEPT !.keyset = "failed"]
            \/ /\ run.comp <= Len(Layouts)
               /\ run' = Moved("l1b", run.comp + 1, run.fam, run.next)
               /\ \E bad \in SUBSET AllRecords :
                    /\ report' = [report EXCEPT !.keyset = "decrypted", !.records = report.records \cup bad]
                    /\ Newest(Here) \in bad \/ <<"deep", Newest(Here)>> \in passed'
PROOF
  <1>1. ASSUME NEW p \in {"save", "l2"}, Goto(p) PROVE run' = Moved(p, 1, 1, 1)
    BY <1>1, CursorTyped DEF Goto, Moved, RunTypes
  <1>2. Len(Layouts) \in Nat /\ run.comp \in Nat /\ report \in Reports
    BY CursorTyped, LayoutsFacts
  <1>3. CASE run.comp > Len(Layouts)
    <2>1. /\ UNCHANGED <<report, history>>
          /\ run' = Moved(IF Reaches("audit") THEN "l2" ELSE "save", 1, 1, 1)
      BY <1>1, <1>3 DEF RecordCheck
    <2> QED BY <2>1, <1>2, <1>3, CursorTyped, MoveTyped DEF RecordCheck, Places, Auditing, books, history
  <1>4. CASE ~(run.comp > Len(Layouts))
    <2>1. run.comp <= Len(Layouts) /\ Newest(Here) \in AllRecords
      BY <1>2, <1>4, HereIs
    <2>2. CASE report' = [report EXCEPT !.keyset = "failed"] /\ Goto("save") /\ UNCHANGED history
      <3>1. report' \in Reports
        BY <2>2, <1>2 DEF Reports
      <3> QED BY <3>1, <2>2, <1>1, CursorTyped, MoveTyped DEF RecordCheck, Places, books, history
    <2>3. ASSUME NEW failed \in MayFail("read"),
                 LET r == Newest(Here)  good == ~failed /\ Verifies(r) IN
                   /\ report' = [report EXCEPT !.keyset = "decrypted",
                                               !.records = IF good THEN @ ELSE @ \cup {r}]
                   /\ passed' = IF good THEN passed \cup {<<"deep", r>>} ELSE passed
                   /\ run' = [run EXCEPT !.comp = @ + 1]
                   /\ UNCHANGED <<proved, reads>>
          PROVE  /\ Typed' /\ passed \subseteq passed'
                 /\ run' = Moved("l1b", run.comp + 1, run.fam, run.next)
                 /\ \E bad \in SUBSET AllRecords :
                      /\ report' = [report EXCEPT !.keyset = "decrypted", !.records = report.records \cup bad]
                      /\ Newest(Here) \in bad \/ <<"deep", Newest(Here)>> \in passed'
      <3> DEFINE good == ~failed /\ Verifies(Newest(Here))
                 bad == IF good THEN {} ELSE {Newest(Here)}
      <3>1. /\ bad \in SUBSET AllRecords /\ passed \subseteq passed'
            /\ Newest(Here) \in bad \/ <<"deep", Newest(Here)>> \in passed'
        BY <2>1, <2>3
      <3>2. report' = [report EXCEPT !.keyset = "decrypted", !.records = report.records \cup bad]
        BY <2>3
      <3> HIDE DEF bad, good
      <3>3. report' \in Reports
        BY <1>2, <3>1, <3>2 DEF Reports
      <3>4. run' = Moved("l1b", run.comp + 1, run.fam, run.next)
        BY <2>3, CursorTyped DEF RecordCheck, Does, Moved, RunTypes
      <3>5. Typed'
        BY <2>3, <3>3, <3>4, CursorTyped, MoveTyped DEF RecordCheck, Places, books
      <3> QED BY <3>1, <3>2, <3>4, <3>5
    <2>4. \/ report' = [report EXCEPT !.keyset = "failed"] /\ Goto("save") /\ UNCHANGED history
          \/ \E failed \in MayFail("read") :
               LET r == Newest(Here)  good == ~failed /\ Verifies(r) IN
                 /\ report' = [report EXCEPT !.keyset = "decrypted",
                                             !.records = IF good THEN @ ELSE @ \cup {r}]
                 /\ passed' = IF good THEN passed \cup {<<"deep", r>>} ELSE passed
                 /\ run' = [run EXCEPT !.comp = @ + 1]
                 /\ UNCHANGED <<proved, reads>>
      BY <1>4 DEF RecordCheck
    <2>5. CASE report' = [report EXCEPT !.keyset = "failed"] /\ Goto("save") /\ UNCHANGED history
      BY <2>2, <2>5, <1>1 DEF history
    <2> QED BY <2>1, <2>2, <2>3, <2>4, <2>5
  <1> QED BY <1>3, <1>4

LEMMA AuditSetTyped ==
  ASSUME Typed, AuditSet
  PROVE  /\ Typed' /\ UNCHANGED passed
         /\ \/ /\ run.comp > Len(Layouts) /\ run' = Moved(EndAudit, 1, 1, 1)
               /\ report' = [report EXCEPT !.aborted = report.sets = Computers]
            \/ /\ run.comp <= Len(Layouts) /\ run' = Moved("family", run.comp, 1, 1)
               /\ report' = report
            \/ /\ run.comp <= Len(Layouts) /\ run' = Moved("l2", run.comp + 1, run.fam, run.next)
               /\ report' = [report EXCEPT !.sets = report.sets \cup {Here}]
PROOF
  <1>1. Len(Layouts) \in Nat /\ run.comp \in Nat /\ report \in Reports
    BY CursorTyped, LayoutsFacts
  <1>2. CASE run.comp > Len(Layouts)
    <2>1. report' = [report EXCEPT !.aborted = report.sets = Computers] /\ Goto(EndAudit)
      BY <1>2 DEF AuditSet
    <2>2. run' = Moved(EndAudit, 1, 1, 1)
      BY <2>1, CursorTyped DEF Goto, Moved, RunTypes
    <2>3. report' \in Reports
      BY <1>1, <2>1 DEF Reports
    <2>4. EndAudit \in Places
      BY DEF EndAudit, Places
    <2> QED BY <1>2, <2>1, <2>2, <2>3, <2>4, CursorTyped, MoveTyped DEF AuditSet, books, history
  <1>3. CASE ~(run.comp > Len(Layouts))
    <2>1. run.comp <= Len(Layouts) /\ Here \in Computers /\ Does("l2")
      BY <1>1, <1>3, HereIs DEF AuditSet
    <2>2. CASE run' = [run EXCEPT !.at = "family", !.fam = 1, !.next = 1] /\ report' = report
      <3>1. run' = Moved("family", run.comp, 1, 1)
        BY <2>2, CursorTyped DEF Moved, RunTypes
      <3>2. UNCHANGED <<disk, todo, inflight, walk, ledger, saved, passed, reads>>
        BY DEF AuditSet, books, history
      <3>3. "family" \in Places
        BY DEF Places, Auditing
      <3>4. Typed'
        BY <1>1, <2>2, <3>1, <3>2, <3>3, CursorTyped, MoveTyped
      <3> QED BY <2>1, <2>2, <3>1, <3>2, <3>4
    <2>3. CASE /\ report' = [report EXCEPT !.sets = @ \cup {Here}]
               /\ run' = [run EXCEPT !.comp = @ + 1]
      <3>1. run' = Moved("l2", run.comp + 1, run.fam, run.next)
        BY <2>1, <2>3, CursorTyped DEF Moved, RunTypes, Does
      <3>2. report' = [report EXCEPT !.sets = report.sets \cup {Here}] /\ report' \in Reports
        BY <1>1, <2>1, <2>3 DEF Reports
      <3> QED BY <2>1, <3>1, <3>2, CursorTyped, MoveTyped DEF AuditSet, Places, books, history
    <2> QED BY <1>3, <2>2, <2>3 DEF AuditSet
  <1> QED BY <1>2, <1>3

LEMMA AbortedTyped ==
  ASSUME NEW r \in Reports, NEW cut \in BOOLEAN
  PROVE  [r EXCEPT !.aborted = cut] \in Reports
BY DEF Reports

LEMMA NextFileTyped ==
  ASSUME Typed, Cursor, NextFile
  PROVE  /\ Typed' /\ Does("family") /\ run.fam <= Len(Walk[Here])
         /\ UNCHANGED <<inflight, walk, passed, before, ledger, reads>>
         /\ \/ /\ Ahead = {} \/ OverBudget
               /\ run' = Moved("drain", run.comp, run.fam, run.next)
               /\ report' = [report EXCEPT !.aborted = Ahead # {}]
            \/ /\ Ahead # {} /\ ~OverBudget /\ Name(File) \in ledger
               /\ run' = Moved("family", run.comp, run.fam, Turn + 1)
               /\ report' = [report EXCEPT !.total = report.total + 1, !.known = report.known + 1]
            \/ /\ Ahead # {} /\ ~OverBudget /\ Name(File) \notin ledger
               /\ run' = Moved(IF Full THEN "wait" ELSE "submit", run.comp, run.fam, run.next)
               /\ report' = report
PROOF
  <1>1. Does("family") /\ run.fam <= Len(Walk[Here]) /\ run.at \in Auditing
    BY DEF NextFile, InFamily, Does, Auditing
  <1>2. report \in Reports /\ report.total + 1 \in Nat /\ report.known + 1 \in Nat
    BY CursorTyped DEF Reports
  <1>3. Ahead # {} => Turn + 1 \in Nat \ {0}
    <2> SUFFICES ASSUME Ahead # {} PROVE Turn + 1 \in Nat \ {0}
      OBVIOUS
    <2> DEFINE s == Family
    <2>1. s \in Seq(Files) /\ Turn \in DOMAIN s
      BY <1>1, AtFamily
    <2> HIDE DEF s
    <2>2. Turn \in 1..Len(s) /\ Len(s) \in Nat
      BY <2>1
    <2> QED BY <2>2
  <1>4. CASE /\ Ahead = {} \/ OverBudget
             /\ run' = [run EXCEPT !.at = "drain"]
             /\ report' = [report EXCEPT !.aborted = Ahead # {}]
    <2>1. run' = Moved("drain", run.comp, run.fam, run.next)
      BY <1>4, CursorTyped DEF Moved, RunTypes
    <2> DEFINE cut == Ahead # {}
    <2>2. cut \in BOOLEAN /\ report' = [report EXCEPT !.aborted = cut]
      BY <1>4
    <2> HIDE DEF cut
    <2>3. report' \in Reports
      BY <2>2, CursorTyped, AbortedTyped
    <2>4. UNCHANGED <<disk, todo, inflight, walk, ledger, saved, before, passed, reads>>
      BY DEF NextFile, books, history
    <2>5. Typed'
      BY <2>1, <2>3, <2>4, CursorTyped, MoveTyped DEF Places, Auditing
    <2> QED BY <1>1, <1>4, <2>1, <2>4, <2>5
  <1>5. CASE /\ Ahead # {} /\ ~OverBudget /\ Name(File) \in ledger
             /\ run' = [run EXCEPT !.next = Turn + 1]
             /\ report' = [report EXCEPT !.total = @ + 1, !.known = @ + 1]
    <2>1. run' = Moved("family", run.comp, run.fam, Turn + 1)
      BY <1>1, <1>5, CursorTyped DEF Moved, RunTypes, Does
    <2>2. report' \in Reports
      BY <1>2, <1>5 DEF Reports
    <2>3. UNCHANGED <<disk, todo, inflight, walk, ledger, saved, before, passed, reads>>
      BY DEF NextFile, books, history
    <2>4. "family" \in Places
      BY DEF Places, Auditing
    <2> DEFINE n == Turn + 1
    <2>5. n \in Nat \ {0} /\ run' = Moved("family", run.comp, run.fam, n)
      BY <1>3, <1>5, <2>1
    <2> HIDE DEF n
    <2>6. Typed'
      BY <2>2, <2>3, <2>4, <2>5, CursorTyped, MoveTyped
    <2> QED BY <1>1, <1>5, <2>1, <2>3, <2>6
  <1>6. CASE /\ Ahead # {} /\ ~OverBudget /\ Name(File) \notin ledger
             /\ run' = [run EXCEPT !.at = IF Full THEN "wait" ELSE "submit"]
             /\ UNCHANGED report
    <2>1. run' = Moved(IF Full THEN "wait" ELSE "submit", run.comp, run.fam, run.next)
      BY <1>6, CursorTyped DEF Moved, RunTypes
    <2>2. (IF Full THEN "wait" ELSE "submit") \in Places
      BY DEF Places, Auditing
    <2> QED BY <1>1, <1>2, <1>6, <2>1, <2>2, CursorTyped, MoveTyped DEF NextFile, books, history
  <1> QED BY <1>4, <1>5, <1>6 DEF NextFile

LEMMA SubmitTyped ==
  ASSUME Typed, Cursor, Submit
  PROVE  /\ Typed' /\ Does("submit") /\ UNCHANGED <<report, passed, before, ledger, walk, reads>>
         /\ Ahead # {} /\ run.fam <= Len(Walk[Here]) /\ File \in Files /\ Turn \in DOMAIN Family
         /\ run' = Moved(IF run.width = 1 THEN "alone" ELSE "family", run.comp, run.fam, Turn + 1)
         /\ inflight' = Append(inflight, [file |-> File, out |-> "none"])
PROOF
  <1>1. /\ Does("submit") /\ run.at \in Auditing /\ Ahead # {} /\ run.fam <= Len(Walk[Here])
    BY DEF Submit, Does, Cursor, Auditing
  <1>2. Turn \in DOMAIN Family /\ File \in Files /\ Turn + 1 \in Nat \ {0}
    <2> DEFINE s == Family
    <2>1. s \in Seq(Files) /\ Turn \in DOMAIN s /\ File = s[Turn]
      BY <1>1, AtFamily DEF File
    <2> HIDE DEF s
    <2>2. Turn \in 1..Len(s) /\ Len(s) \in Nat /\ s[Turn] \in Files
      BY <2>1
    <2>3. Turn + 1 \in Nat \ {0}
      BY <2>2
    <2> QED BY <2>1, <2>2, <2>3 DEF s
  <1>3. run' = Moved(IF run.width = 1 THEN "alone" ELSE "family", run.comp, run.fam, Turn + 1)
    BY CursorTyped DEF Submit, Moved, RunTypes
  <1>4. (IF run.width = 1 THEN "alone" ELSE "family") \in Places
    BY DEF Places, Auditing
  <1>5. run' \in RunTypes
    BY <1>2, <1>3, <1>4, CursorTyped, MovedTyped
  <1>6. inflight' = Append(inflight, [file |-> File, out |-> "none"])
    BY DEF Submit
  <1>7. [file |-> File, out |-> "none"] \in Futures
    BY <1>2 DEF Futures, Outcomes
  <1>8. inflight' \in Seq(Futures)
    BY <1>6, <1>7 DEF Typed
  <1>9. UNCHANGED <<disk, todo, walk, report, ledger, saved, before, passed, reads>>
    BY DEF Submit, books, history
  <1> QED BY <1>1, <1>2, <1>3, <1>5, <1>6, <1>8, <1>9 DEF Typed

LEMMA ComputeTyped ==
  ASSUME Typed, Compute
  PROVE  /\ Typed' /\ UNCHANGED <<disk, run, todo, walk, report, ledger, saved, before>>
         /\ \E i \in DOMAIN inflight : \E out \in Outcomes \ {"none"} :
              /\ inflight[i].out = "none"
              /\ inflight' = [inflight EXCEPT ![i] = [file |-> inflight[i].file, out |-> out]]
              /\ passed \subseteq passed'
              /\ out = "ok" => <<"audit", inflight[i].file>> \in passed'
              /\ passed' \subseteq passed \cup {<<"audit", inflight[i].file>>}
              /\ out = "skipped" => inflight[i].file \in Large
              /\ reads' = IF out \in {"ok", "bad"} THEN reads + 1 ELSE reads
PROOF
  <1>1. UNCHANGED <<disk, run, todo, walk, report, ledger, saved, before>>
    BY DEF Compute, books
  <1>2. PICK i \in DOMAIN inflight : \E failed \in MayFail("read") :
          LET out == Outcome(inflight[i].file, failed)
              good == IF out = "ok" THEN {inflight[i].file} ELSE {} IN
          /\ inflight[i].out = "none"
          /\ inflight' = [inflight EXCEPT ![i].out = out]
          /\ passed' = passed \cup {<<"audit", f>> : f \in good}
          /\ reads' = IF out \in {"ok", "bad"} THEN reads + 1 ELSE reads
    BY DEF Compute
  <1>3. PICK failed \in MayFail("read") :
          LET out == Outcome(inflight[i].file, failed)
              good == IF out = "ok" THEN {inflight[i].file} ELSE {} IN
          /\ inflight[i].out = "none"
          /\ inflight' = [inflight EXCEPT ![i].out = out]
          /\ passed' = passed \cup {<<"audit", f>> : f \in good}
          /\ reads' = IF out \in {"ok", "bad"} THEN reads + 1 ELSE reads
    BY <1>2
  <1> DEFINE out == Outcome(inflight[i].file, failed)
             good == IF out = "ok" THEN {inflight[i].file} ELSE {}
  <1>4. /\ inflight[i].out = "none"
        /\ inflight' = [inflight EXCEPT ![i].out = out]
        /\ passed' = passed \cup {<<"audit", f>> : f \in good}
        /\ reads' = IF out \in {"ok", "bad"} THEN reads + 1 ELSE reads
    BY <1>3
  <1>5. out \in Outcomes \ {"none"} /\ (out = "skipped" => inflight[i].file \in Large)
    <2> DEFINE f == inflight[i].file
    <2> HIDE DEF f
    <2>1. Outcome(f, failed) \in Outcomes \ {"none"}
          /\ (Outcome(f, failed) = "skipped" => f \in Large)
      BY DEF Outcome, Outcomes
    <2> QED BY <2>1 DEF f
  <1>6. /\ passed \subseteq passed' /\ (out = "ok" => <<"audit", inflight[i].file>> \in passed')
        /\ passed' \subseteq passed \cup {<<"audit", inflight[i].file>>}
    BY <1>4
  <1> HIDE DEF out, good
  <1>7. inflight[i] \in Futures
    BY DEF Typed
  <1>8. [inflight[i] EXCEPT !.out = out] = [file |-> inflight[i].file, out |-> out]
    BY <1>7 DEF Futures
  <1>9. inflight' = [inflight EXCEPT ![i] = [file |-> inflight[i].file, out |-> out]]
    BY <1>4, <1>8
  <1>10. [file |-> inflight[i].file, out |-> out] \in Futures
    BY <1>5, <1>7 DEF Futures
  <1>11. inflight' \in Seq(Futures)
    BY <1>9, <1>10 DEF Typed
  <1>12. reads' \in Nat
    BY <1>4 DEF Typed
  <1>13. Typed'
    BY <1>1, <1>11, <1>12 DEF Typed
  <1> QED BY <1>1, <1>4, <1>5, <1>6, <1>9, <1>13

\* One future merged: its place in the window, and what the report notes.
LEMMA TakeOutTyped ==
  ASSUME Typed, NEW i \in DoneNow, TakeOut(i)
  PROVE  /\ i \in DOMAIN inflight /\ inflight[i] \in Futures /\ inflight[i].out # "none"
         /\ inflight' = RemoveAt(inflight, i) /\ inflight' \in Seq(Futures)
         /\ report' \in Reports /\ ledger' \subseteq {"name", "blob"} \X Files
         /\ LET d == inflight[i] IN
            /\ report' = [report EXCEPT
                 !.total = report.total + 1,
                 !.ok = IF d.out = "ok" THEN report.ok + 1 ELSE report.ok,
                 !.bytes = IF d.out \in {"ok", "bad"} THEN report.bytes + 1 ELSE report.bytes,
                 !.skipped = IF d.out = "skipped" THEN report.skipped + 1 ELSE report.skipped,
                 !.bad = IF d.out \in {"bad", "error"} THEN report.bad \cup {d.file} ELSE report.bad]
            /\ ledger' \subseteq ledger \cup {Name(d.file)}
            /\ ledger # ledger' => d.out = "ok" /\ run.incremental
PROOF
  <1>1. /\ i \in DOMAIN inflight /\ inflight[i].out # "none"
        /\ inflight' = RemoveAt(inflight, i)
    BY DEF DoneNow, TakeOut
  <1>2. inflight \in Seq(Futures) /\ inflight[i] \in Futures
    BY <1>1 DEF Typed
  <1>3. inflight' \in Seq(Futures)
    BY <1>1, <1>2, RemoveAtIs
  <1> DEFINE d == inflight[i]
  <1>4. d.file \in Files /\ d.out \in Outcomes
    BY <1>2 DEF Futures
  <1>5. /\ report' = [report EXCEPT
             !.total = report.total + 1,
             !.ok = IF d.out = "ok" THEN report.ok + 1 ELSE report.ok,
             !.bytes = IF d.out \in {"ok", "bad"} THEN report.bytes + 1 ELSE report.bytes,
             !.skipped = IF d.out = "skipped" THEN report.skipped + 1 ELSE report.skipped,
             !.bad = IF d.out \in {"bad", "error"} THEN report.bad \cup {d.file} ELSE report.bad]
        /\ ledger' = IF run.incremental /\ d.out = "ok" THEN ledger \cup {Name(d.file)} ELSE ledger
    BY DEF TakeOut, Merge, Confirmed
  <1> HIDE DEF d
  <1>6. report \in Reports
    BY DEF Typed
  <1> DEFINE total == report.total + 1
             ok == IF d.out = "ok" THEN report.ok + 1 ELSE report.ok
             bytes == IF d.out \in {"ok", "bad"} THEN report.bytes + 1 ELSE report.bytes
             skipped == IF d.out = "skipped" THEN report.skipped + 1 ELSE report.skipped
             bad == IF d.out \in {"bad", "error"} THEN report.bad \cup {d.file} ELSE report.bad
  <1>7. total \in Nat /\ ok \in Nat /\ bytes \in Nat /\ skipped \in Nat /\ bad \subseteq Files
    BY <1>4, <1>6 DEF Reports
  <1>8. report' = [report EXCEPT !.total = total, !.ok = ok, !.bytes = bytes,
                                 !.skipped = skipped, !.bad = bad]
    BY <1>5
  <1> HIDE DEF total, ok, bytes, skipped, bad
  <1>9. report' = [layout |-> report.layout, magic |-> report.magic, keyset |-> report.keyset,
                   records |-> report.records, total |-> total, ok |-> ok, bytes |-> bytes,
                   skipped |-> skipped, known |-> report.known, bad |-> bad,
                   aborted |-> report.aborted, sets |-> report.sets, graph |-> report.graph,
                   unlisted |-> report.unlisted]
    BY <1>6, <1>8 DEF Reports
  <1>10. report' \in Reports
    BY <1>6, <1>7, <1>9 DEF Reports
  <1>11. Name(d.file) \in {"name", "blob"} \X Files
    BY <1>4 DEF Name
  <1>12. ledger' \subseteq {"name", "blob"} \X Files
    BY <1>5, <1>11 DEF Typed
  <1> QED BY <1>1, <1>2, <1>3, <1>5, <1>10, <1>12 DEF d

LEMMA WaitTyped ==
  ASSUME Typed, Wait
  PROVE  /\ Typed' /\ Does("wait") /\ UNCHANGED <<walk, passed, before, reads>>
         /\ run' = run \/ run' = Moved("recheck", run.comp, run.fam, run.next)
         /\ \E i \in DoneNow : TakeOut(i)
PROOF
  <1>1. /\ Does("wait") /\ UNCHANGED <<disk, todo, walk, saved, before, passed, reads>>
        /\ run' \in {run, [run EXCEPT !.at = "recheck"]}
    BY DEF Wait, history
  <1>2. PICK i \in DoneNow : TakeOut(i)
    BY DEF Wait
  <1>3. run' = run \/ run' = Moved("recheck", run.comp, run.fam, run.next)
    BY <1>1, CursorTyped DEF Moved, RunTypes
  <1>4. run' \in RunTypes
    BY <1>3, CursorTyped, MovedTyped DEF Places, Auditing
  <1>5. inflight' \in Seq(Futures) /\ report' \in Reports /\ ledger' \subseteq {"name", "blob"} \X Files
    BY <1>2, TakeOutTyped
  <1> QED BY <1>1, <1>2, <1>3, <1>4, <1>5 DEF Typed

LEMMA AloneTyped ==
  ASSUME Typed, Alone
  PROVE  /\ Typed' /\ Does("alone") /\ UNCHANGED <<walk, passed, before, reads>>
         /\ run' = Moved("family", run.comp, run.fam, run.next)
         /\ \E i \in DoneNow : TakeOut(i)
PROOF
  <1>1. /\ Does("alone") /\ UNCHANGED <<disk, todo, walk, saved, before, passed, reads>>
        /\ run' = [run EXCEPT !.at = "family"]
    BY DEF Alone, history
  <1>2. PICK i \in DoneNow : TakeOut(i)
    BY DEF Alone
  <1>3. run' = Moved("family", run.comp, run.fam, run.next)
    BY <1>1, CursorTyped DEF Moved, RunTypes
  <1>4. run' \in RunTypes
    BY <1>3, CursorTyped, MovedTyped DEF Places, Auditing
  <1>5. inflight' \in Seq(Futures) /\ report' \in Reports /\ ledger' \subseteq {"name", "blob"} \X Files
    BY <1>2, TakeOutTyped
  <1> QED BY <1>1, <1>2, <1>3, <1>4, <1>5 DEF Typed

LEMMA DrainTyped ==
  ASSUME Typed, Drain
  PROVE  /\ Typed' /\ Does("drain") /\ UNCHANGED <<walk, passed, before, reads>>
         /\ \/ run' = run /\ \E i \in DoneNow : TakeOut(i)
            \/ /\ inflight = <<>> /\ UNCHANGED <<inflight, report, ledger>>
               /\ \/ report.aborted /\ run' = Moved(EndAudit, 1, 1, 1)
                  \/ ~report.aborted /\ run' = Moved("family", run.comp, run.fam + 1, 1)
PROOF
  <1>1. Does("drain") /\ UNCHANGED <<disk, todo, walk, saved, before, passed, reads>>
    BY DEF Drain, history
  <1>2. CASE inflight # <<>>
    <2>1. run' = run
      BY <1>2 DEF Drain
    <2>2. PICK i \in DoneNow : TakeOut(i)
      BY <1>2 DEF Drain
    <2>3. inflight' \in Seq(Futures) /\ report' \in Reports /\ ledger' \subseteq {"name", "blob"} \X Files
      BY <2>2, TakeOutTyped
    <2> QED BY <1>1, <2>1, <2>2, <2>3 DEF Typed
  <1>3. CASE inflight = <<>>
    <2>1. /\ UNCHANGED <<inflight, report, ledger>>
          /\ IF report.aborted THEN Goto(EndAudit)
             ELSE run' = [run EXCEPT !.at = "family", !.fam = @ + 1, !.next = 1]
      BY <1>3 DEF Drain
    <2>2. \/ report.aborted /\ run' = Moved(EndAudit, 1, 1, 1)
          \/ ~report.aborted /\ run' = Moved("family", run.comp, run.fam + 1, 1)
      <3>1. CASE report.aborted
        BY <2>1, <3>1, CursorTyped DEF Goto, Moved, RunTypes
      <3>2. CASE ~report.aborted
        BY <2>1, <3>2, CursorTyped DEF Moved, RunTypes
      <3> QED BY <3>1, <3>2
    <2>3. EndAudit \in Places /\ "family" \in Places
      BY DEF EndAudit, Places, Auditing
    <2>4. run' \in RunTypes
      BY <2>2, <2>3, CursorTyped, MovedTyped
    <2> QED BY <1>1, <1>3, <2>1, <2>2, <2>4 DEF Typed
  <1> QED BY <1>2, <1>3

LEMMA RecheckTyped ==
  ASSUME Typed, Recheck
  PROVE  /\ Typed' /\ Does("recheck") /\ UNCHANGED <<inflight, walk, passed, before, ledger, reads>>
         /\ run' = Moved(IF OverBudget THEN "drain" ELSE "submit", run.comp, run.fam, run.next)
         /\ report' = [report EXCEPT !.aborted = OverBudget]
PROOF
  <1>1. run' = Moved(IF OverBudget THEN "drain" ELSE "submit", run.comp, run.fam, run.next)
    BY CursorTyped DEF Recheck, Moved, RunTypes
  <1>2. (IF OverBudget THEN "drain" ELSE "submit") \in Places
    BY DEF Places, Auditing
  <1>3. OverBudget \in BOOLEAN
    BY DEF OverBudget
  <1>4. report' = [report EXCEPT !.aborted = OverBudget]
    BY DEF Recheck
  <1>5. report' \in Reports
    BY <1>3, <1>4, CursorTyped DEF Reports
  <1> QED BY <1>1, <1>2, <1>4, <1>5, CursorTyped, MoveTyped DEF Recheck, books, history

LEMMA SetDoneTyped ==
  ASSUME Typed, SetDone
  PROVE  /\ Typed' /\ Does("family") /\ run.fam > Len(Walk[Here])
         /\ UNCHANGED <<inflight, walk, passed, before, ledger, reads, report>>
         /\ run' = Moved("l2", run.comp + 1, run.fam, run.next)
PROOF
  <1>1. run' = Moved("l2", run.comp + 1, run.fam, run.next)
    BY CursorTyped DEF SetDone, Moved, RunTypes
  <1> QED BY <1>1, CursorTyped, MoveTyped DEF SetDone, Places, books, history

\* The walk of a record starts with nothing or with its root.
LEMMA StackOf ==
  ASSUME NEW S, NEW s \in Seq(S), \A node \in S : IsNode(node)
  PROVE  s \in Seq(ToSet(s)) /\ \A node \in ToSet(s) : IsNode(node)
BY OwnElements

LEMMA GraphCheckTyped ==
  ASSUME Typed, GraphCheck
  PROVE  /\ Typed' /\ Does("l3") /\ UNCHANGED <<inflight, passed, before, ledger, reads>>
         /\ \/ /\ run.comp > Len(Layouts) /\ run' = Moved("save", 1, 1, 1)
               /\ UNCHANGED <<report, walk>>
            \/ /\ run.comp <= Len(Layouts) /\ run.next > Len(Records[Here])
               /\ run' = Moved("l3", run.comp + 1, run.fam, 1) /\ UNCHANGED <<report, walk>>
            \/ /\ run.comp <= Len(Layouts) /\ run.next <= Len(Records[Here])
               /\ run' = Moved("open", run.comp, run.fam, run.next + 1) /\ report' = report
               /\ walk'.rec = Records[Here][run.next] /\ walk'.rec \in AllRecords
            \/ /\ run.comp <= Len(Layouts)
               /\ run' = Moved("l3", run.comp + 1, run.fam, 1) /\ walk' = walk
               /\ report' = [report EXCEPT !.unlisted = report.unlisted \cup {Here}]
PROOF
  <1>1. /\ Len(Layouts) \in Nat /\ run.comp \in Nat /\ report \in Reports /\ Does("l3")
        /\ UNCHANGED <<disk, todo, inflight, passed, before, ledger, saved, reads>>
    BY CursorTyped, LayoutsFacts DEF GraphCheck, books, history
  <1>2. CASE run.comp > Len(Layouts)
    <2>1. Goto("save") /\ UNCHANGED <<report, walk>>
      BY <1>2 DEF GraphCheck
    <2>2. run' = Moved("save", 1, 1, 1)
      BY <2>1, CursorTyped DEF Goto, Moved, RunTypes
    <2>3. Typed'
      BY <1>1, <2>1, <2>2, CursorTyped, MoveTyped DEF Places
    <2> QED BY <1>1, <1>2, <2>1, <2>2, <2>3
  <1>3. CASE ~(run.comp > Len(Layouts))
    <2>1. run.comp <= Len(Layouts) /\ Here \in Computers /\ Records[Here] \in Seq(AllRecords)
      BY <1>1, <1>3, HereIs
    <2>2. CASE /\ run.next > Len(Records[Here])
               /\ run' = [run EXCEPT !.comp = @ + 1, !.next = 1]
               /\ UNCHANGED <<walk, report>>
      <3>1. run' = Moved("l3", run.comp + 1, run.fam, 1)
        BY <1>1, <2>2, CursorTyped DEF Moved, RunTypes, Does
      <3>2. Typed'
        BY <1>1, <2>2, <3>1, CursorTyped, MoveTyped DEF Places
      <3> QED BY <1>1, <2>1, <2>2, <3>1, <3>2
    <2>3. CASE /\ run.next <= Len(Records[Here])
               /\ walk' = [NoWalk EXCEPT !.rec = Records[Here][run.next]]
               /\ run' = [run EXCEPT !.at = "open", !.next = @ + 1]
               /\ UNCHANGED report
      <3>1. run' = Moved("open", run.comp, run.fam, run.next + 1)
        BY <2>3, CursorTyped DEF Moved, RunTypes
      <3>2. run' \in RunTypes
        BY <3>1, CursorTyped, MovedTyped DEF Places
      <3>3. Records[Here][run.next] \in AllRecords
        <4> DEFINE s == Records[Here]
        <4>1. s \in Seq(AllRecords) /\ run.next \in Nat \ {0} /\ run.next <= Len(s)
          BY <2>1, <2>3, CursorTyped
        <4> HIDE DEF s
        <4>2. s[run.next] \in AllRecords
          BY <4>1
        <4> QED BY <4>2 DEF s
      <3>4. /\ walk'.rec = Records[Here][run.next] /\ walk'.stack = <<>>
            /\ walk'.bad = {} /\ walk'.count = 0
            /\ DOMAIN walk' = {"rec", "stack", "seen", "count", "bad"}
        BY <2>3 DEF NoWalk
      <3>5. walk'.stack \in Seq(ToSet(walk'.stack)) /\ \A node \in ToSet(walk'.stack) : IsNode(node)
        <4>1. <<>> \in Seq({})
          OBVIOUS
        <4> QED BY <3>4, <4>1, StackOf
      <3>6. Typed'
        BY <1>1, <2>3, <3>2, <3>3, <3>4, <3>5 DEF Typed
      <3> QED BY <1>1, <2>1, <2>3, <3>1, <3>3, <3>4, <3>6
    <2>4. CASE /\ report' = [report EXCEPT !.unlisted = @ \cup {Here}]
               /\ run' = [run EXCEPT !.comp = @ + 1, !.next = 1]
               /\ UNCHANGED walk
      <3>1. run' = Moved("l3", run.comp + 1, run.fam, 1)
        BY <1>1, <2>4, CursorTyped DEF Moved, RunTypes, Does
      <3>2. report' = [report EXCEPT !.unlisted = report.unlisted \cup {Here}] /\ report' \in Reports
        BY <1>1, <2>1, <2>4 DEF Reports
      <3>3. Typed'
        BY <1>1, <2>4, <3>1, <3>2, CursorTyped, MoveTyped DEF Places
      <3> QED BY <1>1, <2>1, <2>4, <3>1, <3>2, <3>3
    <2> QED BY <1>3, <2>2, <2>3, <2>4 DEF GraphCheck
  <1> QED BY <1>2, <1>3

\* What is noted of a walk that has ended.
AfterPlace == IF run.tier = "record" THEN "save" ELSE "l3"

LEMMA AfterWalkTyped ==
  ASSUME Typed, walk.rec \in AllRecords, NEW bad, AfterWalk(bad)
  PROVE  /\ run' = Moved(AfterPlace, run.comp, run.fam, run.next) /\ run' \in RunTypes
         /\ report' = [report EXCEPT !.graph = IF bad THEN report.graph \cup {walk.rec} ELSE report.graph]
         /\ report' \in Reports
PROOF
  <1>1. run' = Moved(AfterPlace, run.comp, run.fam, run.next)
    BY CursorTyped DEF AfterWalk, AfterPlace, Moved, RunTypes
  <1>2. AfterPlace \in Places
    BY DEF AfterPlace, Places
  <1>3. run' \in RunTypes
    BY <1>1, <1>2, CursorTyped, MovedTyped
  <1> DEFINE graph == IF bad THEN report.graph \cup {walk.rec} ELSE report.graph
  <1>4. report' = [report EXCEPT !.graph = graph] /\ graph \subseteq AllRecords
    BY CursorTyped DEF AfterWalk, Reports
  <1> HIDE DEF graph
  <1>5. report' \in Reports
    BY <1>4, CursorTyped DEF Reports
  <1> QED BY <1>1, <1>3, <1>4, <1>5 DEF graph

LEMMA OpenRecordTyped ==
  ASSUME Typed, Ranks, OpenRecord
  PROVE  /\ Typed' /\ Does("open") /\ walk.rec \in AllRecords /\ walk'.rec = walk.rec
         /\ UNCHANGED <<inflight, before, ledger, reads>>
         /\ \/ /\ run' = Moved("walk", run.comp, run.fam, run.next) /\ report' = report
               /\ passed' = passed \cup {<<"graph", walk.rec>>}
               /\ walk' = [walk EXCEPT !.stack = <<Root[walk.rec]>>]
            \/ /\ run' = Moved(AfterPlace, run.comp, run.fam, run.next)
               /\ report' = [report EXCEPT !.graph = report.graph \cup {walk.rec}]
               /\ UNCHANGED <<walk, passed>>
PROOF
  <1>1. /\ Does("open") /\ walk.rec \in AllRecords
        /\ UNCHANGED <<disk, todo, inflight, before, ledger, saved, reads>>
    BY DEF OpenRecord, books, Ranks, Does
  <1>2. \/ /\ walk' = [walk EXCEPT !.stack = <<Root[walk.rec]>>]
           /\ passed' = passed \cup {<<"graph", walk.rec>>}
           /\ run' = [run EXCEPT !.at = "walk"]
           /\ UNCHANGED report
        \/ AfterWalk(TRUE) /\ UNCHANGED <<walk, passed>>
    BY DEF OpenRecord
  <1>3. CASE /\ walk' = [walk EXCEPT !.stack = <<Root[walk.rec]>>]
             /\ passed' = passed \cup {<<"graph", walk.rec>>}
             /\ run' = [run EXCEPT !.at = "walk"]
             /\ UNCHANGED report
    <2>1. run' = Moved("walk", run.comp, run.fam, run.next)
      BY <1>3, CursorTyped DEF Moved, RunTypes
    <2>2. run' \in RunTypes
      BY <2>1, CursorTyped, MovedTyped DEF Places
    <2>3. /\ walk'.rec = walk.rec /\ walk'.bad = walk.bad /\ walk'.count = walk.count
          /\ walk'.stack = <<Root[walk.rec]>>
          /\ DOMAIN walk' = {"rec", "stack", "seen", "count", "bad"}
      BY <1>3 DEF Typed
    <2>4. walk'.stack \in Seq(ToSet(walk'.stack)) /\ \A node \in ToSet(walk'.stack) : IsNode(node)
      <3>1. IsNode(Root[walk.rec])
        BY <1>1, RecordAssumption
      <3> DEFINE root == Root[walk.rec]
      <3> HIDE DEF root
      <3> DEFINE s == <<root>>
      <3>2. s \in Seq({root})
        OBVIOUS
      <3> HIDE DEF s
      <3>3. \A node \in {root} : IsNode(node)
        BY <3>1 DEF root
      <3>4. s \in Seq(ToSet(s)) /\ \A node \in ToSet(s) : IsNode(node)
        BY <3>2, <3>3, StackOf
      <3>5. walk'.stack = s
        BY <2>3 DEF root, s
      <3> QED BY <3>4, <3>5
    <2>5. Typed'
      BY <1>1, <1>3, <2>2, <2>3, <2>4 DEF Typed
    <2> QED BY <1>1, <1>3, <2>1, <2>3, <2>5
  <1>4. CASE AfterWalk(TRUE) /\ UNCHANGED <<walk, passed>>
    <2>1. /\ run' = Moved(AfterPlace, run.comp, run.fam, run.next) /\ run' \in RunTypes
          /\ report' = [report EXCEPT !.graph = report.graph \cup {walk.rec}]
          /\ report' \in Reports
      BY <1>1, <1>4, AfterWalkTyped
    <2>2. Typed'
      BY <1>1, <1>4, <2>1, TypedKept
    <2> QED BY <1>1, <1>4, <2>1, <2>2
  <1> QED BY <1>2, <1>3, <1>4

LEMMA WalkDoneTyped ==
  ASSUME Typed, Ranks, WalkDone
  PROVE  /\ Typed' /\ Does("walk") /\ (walk.stack = <<>> \/ Enough)
         /\ walk.rec \in AllRecords /\ walk'.rec = walk.rec
         /\ UNCHANGED <<inflight, before, ledger, reads, passed>>
         /\ run' = Moved(AfterPlace, run.comp, run.fam, run.next)
         /\ report' = [report EXCEPT !.graph = IF walk.bad # {} THEN report.graph \cup {walk.rec}
                                               ELSE report.graph]
PROOF
  <1>1. /\ Does("walk") /\ (walk.stack = <<>> \/ Enough) /\ walk.rec \in AllRecords
        /\ AfterWalk(walk.bad # {}) /\ walk' = [NoWalk EXCEPT !.rec = walk.rec]
        /\ UNCHANGED <<disk, todo, inflight, before, ledger, saved, reads, passed>>
    BY DEF WalkDone, books, history, Ranks, Does
  <1>2. /\ run' = Moved(AfterPlace, run.comp, run.fam, run.next) /\ run' \in RunTypes
        /\ report' = [report EXCEPT !.graph = IF walk.bad # {} THEN report.graph \cup {walk.rec}
                                              ELSE report.graph]
        /\ report' \in Reports
    BY <1>1, AfterWalkTyped
  <1>3. /\ walk'.rec = walk.rec /\ walk'.stack = <<>> /\ walk'.bad = {} /\ walk'.count = 0
        /\ DOMAIN walk' = {"rec", "stack", "seen", "count", "bad"}
    BY <1>1 DEF NoWalk
  <1>4. walk'.stack \in Seq(ToSet(walk'.stack)) /\ \A node \in ToSet(walk'.stack) : IsNode(node)
    <2>1. <<>> \in Seq({})
      OBVIOUS
    <2> QED BY <1>3, <2>1, StackOf
  <1>5. Typed'
    BY <1>1, <1>2, <1>3, <1>4 DEF Typed
  <1> QED BY <1>1, <1>2, <1>3, <1>5

LEMMA SaveTyped ==
  ASSUME Typed, SaveLedger
  PROVE  /\ Typed' /\ Does("save") /\ run' = Moved("done", 1, 1, 1)
         /\ UNCHANGED <<inflight, walk, report, ledger, before, passed, reads>>
PROOF
  <1>1. /\ Does("save") /\ UNCHANGED <<disk, todo, inflight, walk, report, ledger, before, passed, reads>>
        /\ saved' \subseteq ledger \cup saved
    BY DEF SaveLedger, history
  <1>2. run' = Moved("done", 1, 1, 1)
    BY CursorTyped DEF SaveLedger, Goto, Moved, RunTypes
  <1>3. run' \in RunTypes
    BY <1>2, CursorTyped, MovedTyped DEF Places
  <1> QED BY <1>1, <1>2, <1>3 DEF Typed

LEMMA LeaveTyped ==
  ASSUME Typed, Leave
  PROVE  /\ Typed' /\ run' = NoRun /\ report' = NoReport /\ inflight' = <<>> /\ passed' = {}
         /\ reads' = 0 /\ ledger' = {} /\ before' = {}
PROOF
  <1>1. /\ run' = NoRun /\ report' = NoReport /\ inflight' = <<>> /\ passed' = {}
        /\ reads' = 0 /\ ledger' = {} /\ before' = {} /\ todo' = {} /\ walk' = NoWalk
        /\ UNCHANGED <<disk, saved>>
    BY DEF Leave
  <1>2. run' \in RunTypes
    BY <1>1 DEF NoRun, RunTypes, Places, Rank
  <1>3. report' \in Reports
    BY <1>1 DEF NoReport, Reports
  <1>4. inflight' \in Seq(Futures)
    BY <1>1
  <1>5. /\ walk'.rec = "none" /\ walk'.stack = <<>> /\ walk'.bad = {} /\ walk'.count = 0
        /\ DOMAIN walk' = {"rec", "stack", "seen", "count", "bad"}
    BY <1>1 DEF NoWalk
  <1>6. walk'.stack \in Seq(ToSet(walk'.stack)) /\ \A node \in ToSet(walk'.stack) : IsNode(node)
    <2>1. <<>> \in Seq({})
      OBVIOUS
    <2> QED BY <1>5, <2>1, StackOf
  <1>7. Typed'
    BY <1>1, <1>2, <1>3, <1>4, <1>5, <1>6 DEF Typed
  <1> QED BY <1>1, <1>7

LEMMA HarmTyped ==
  ASSUME Typed, NEW x \in Things, Harm(x)
  PROVE  /\ Typed'
         /\ UNCHANGED <<run, inflight, walk, report, ledger, saved, before, passed, proved, reads>>
PROOF
  <1>1. PICK s \in {"bad", "headless", "gone"} : disk' = [disk EXCEPT ![x] = s]
    BY DEF Harm
  <1>2. disk' \in [Things -> {"good", "bad", "headless", "gone"}]
    BY <1>1 DEF Typed
  <1> QED BY <1>2 DEF Harm, Typed, books, history

\* What hangs from a tree is a sequence of nodes.
LEMMA OpenedIs ==
  ASSUME NEW trees \in SUBSET DOMAIN Children
  PROVE  Opened(trees) \in Seq(ToSet(Opened(trees))) /\ \A node \in ToSet(Opened(trees)) : IsNode(node)
PROOF
  <1>1. CASE \E t \in trees : Verifies(t)
    <2> DEFINE t == CHOOSE t \in trees : TRUE
    <2>1. t \in DOMAIN Children /\ Opened(trees) = Children[t]
      BY <1>1 DEF Opened
    <2> QED BY <2>1, RecordAssumption
  <1>2. CASE ~\E t \in trees : Verifies(t)
    <2> DEFINE s == <<>>
    <2>1. s \in Seq({}) /\ Opened(trees) = s
      BY <1>2 DEF Opened
    <2> HIDE DEF s
    <2>2. s \in Seq(ToSet(s)) /\ \A node \in ToSet(s) : IsNode(node)
      BY <2>1, StackOf
    <2> QED BY <2>1, <2>2
  <1> QED BY <1>1, <1>2

\* One turn of the walk: a node leaves the stack, and what is trusted of its
\* tree is opened.
LEMMA VisitTyped ==
  ASSUME Typed, Ranks, VisitNode
  PROVE  /\ Typed' /\ Does("walk") /\ walk.rec \in AllRecords /\ walk'.rec = walk.rec
         /\ UNCHANGED <<run, report, inflight, before, reads>>
         /\ walk.stack # <<>> /\ ~Enough /\ IsNode(Last(walk.stack))
         /\ LET node == Last(walk.stack)
                blobs == ToSet(Checked(node))
                tree == ToSet(node.tree)
            IN
            \/ /\ tree \cap walk.seen # {}
               /\ UNCHANGED <<ledger, passed>>
               /\ walk' = [walk EXCEPT !.stack = Front(walk.stack)]
            \/ /\ tree \cap walk.seen = {}
               /\ walk'.seen = walk.seen \cup tree
               /\ \E failed \in SUBSET Files, lost \in MayFail("reread") :
                    LET good == Passing(blobs, failed)
                        trusted == tree \cap (good \cup Known(blobs))
                    IN
                    /\ walk'.stack = Front(walk.stack) \o (IF lost THEN <<>> ELSE Opened(trusted))
                    /\ walk'.bad = walk.bad \cup (blobs \ (good \cup Known(blobs)))
                                     \cup {t \in trusted : ~Verifies(t) /\ disk[t] # "gone"}
                    /\ ledger' = IF run.incremental THEN ledger \cup {Blob(f) : f \in good} ELSE ledger
                    /\ passed' = passed \cup {<<walk.rec, f>> : f \in good}
PROOF
  <1> DEFINE node == Last(walk.stack)
             blobs == ToSet(Checked(node))
             tree == ToSet(node.tree)
  <1>1. /\ Does("walk") /\ walk.rec \in AllRecords /\ walk.stack # <<>> /\ ~Enough
        /\ UNCHANGED <<disk, run, todo, inflight, report, saved, before, reads>>
    BY DEF VisitNode, Ranks, Does
  <1>2. /\ walk.stack \in Seq(ToSet(walk.stack)) /\ \A n \in ToSet(walk.stack) : IsNode(n)
        /\ walk.bad \subseteq Files /\ walk.count \in Nat
        /\ DOMAIN walk = {"rec", "stack", "seen", "count", "bad"} /\ run.limit \in Nat
    BY CursorTyped DEF Typed
  <1> DEFINE S == ToSet(walk.stack)
             front == Front(walk.stack)
  <1>3. front \in Seq(S) /\ node \in S /\ walk.stack \in Seq(S)
    <2> DEFINE s == walk.stack
    <2> HIDE DEF S, s
    <2>1. s \in Seq(S) /\ s # <<>>
      BY <1>1, <1>2 DEF s, S
    <2>2. Front(s) \in Seq(S) /\ Last(s) \in ToSet(s)
      BY <2>1, FrontFacts
    <2> QED BY <2>1, <2>2 DEF s, S
  <1>4. IsNode(node) /\ \A n \in S : IsNode(n)
    BY <1>2, <1>3
  <1>5. Checked(node) \in Seq(Files) /\ tree \subseteq blobs
    BY <1>2, <1>4, CheckedFacts
  <1>6. Len(Checked(node)) \in Nat /\ blobs \subseteq Files /\ tree \subseteq DOMAIN Children
    <2> DEFINE c == Checked(node)
    <2> HIDE DEF c
    <2>1. c \in Seq(Files)
      BY <1>5 DEF c
    <2>2. Len(c) \in Nat /\ ToSet(c) \subseteq Files
      BY <2>1, OwnElements
    <2>3. node.tree \in Seq(DOMAIN Children)
      BY <1>4 DEF IsNode
    <2> QED BY <2>2, <2>3, OwnElements DEF c
  <1> QED
    <2>1. CASE tree \cap walk.seen # {}
      <3>1. UNCHANGED <<ledger, passed>> /\ walk' = [walk EXCEPT !.stack = front]
        BY <2>1 DEF VisitNode
      <3>2. /\ walk'.stack = front /\ walk'.rec = walk.rec /\ walk'.bad = walk.bad
            /\ walk'.count = walk.count /\ DOMAIN walk' = DOMAIN walk
        BY <3>1, <1>2
      <3>3. walk'.stack \in Seq(ToSet(walk'.stack)) /\ \A n \in ToSet(walk'.stack) : IsNode(n)
        <4> HIDE DEF front, S
        <4> QED BY <1>3, <1>4, <3>2, StackOf
      <3>4. Typed'
        <4> HIDE DEF front, S, node, blobs, tree
        <4> QED BY <1>1, <1>2, <3>1, <3>2, <3>3 DEF Typed
      <3> QED BY <1>1, <1>4, <2>1, <3>1, <3>2, <3>4
    <2>2. CASE tree \cap walk.seen = {}
      <3>1. PICK failed \in FailingReads(blobs), lost \in MayFail("reread") :
              LET good == Passing(blobs, failed)
                  trusted == tree \cap (good \cup Known(blobs))
              IN
              /\ walk' = [walk EXCEPT
                   !.stack = Front(@) \o (IF lost THEN <<>> ELSE Opened(trusted)),
                   !.seen = @ \cup tree,
                   !.count = @ + Len(Checked(node)),
                   !.bad = @ \cup (blobs \ (good \cup Known(blobs)))
                             \cup {t \in trusted : ~Verifies(t) /\ disk[t] # "gone"}]
              /\ ledger' = IF run.incremental THEN ledger \cup {Blob(f) : f \in good} ELSE ledger
              /\ passed' = passed \cup {<<walk.rec, f>> : f \in good}
        BY <2>2 DEF VisitNode
      <3> DEFINE good == Passing(blobs, failed)
                 trusted == tree \cap (good \cup Known(blobs))
                 opened == IF lost THEN <<>> ELSE Opened(trusted)
                 bad == walk.bad \cup (blobs \ (good \cup Known(blobs)))
                          \cup {t \in trusted : ~Verifies(t) /\ disk[t] # "gone"}
                 count == walk.count + Len(Checked(node))
      <3>2. good \subseteq Files /\ failed \subseteq Files /\ trusted \subseteq DOMAIN Children
        BY <1>6 DEF Passing, FailingReads
      <3>3. bad \subseteq Files /\ count \in Nat
        BY <1>2, <1>6, <3>2, RecordAssumption
      <3>4. /\ walk' = [walk EXCEPT !.stack = front \o opened, !.seen = walk.seen \cup tree,
                                    !.count = count, !.bad = bad]
            /\ ledger' = IF run.incremental THEN ledger \cup {Blob(f) : f \in good} ELSE ledger
            /\ passed' = passed \cup {<<walk.rec, f>> : f \in good}
        BY <3>1
      <3>5. opened \in Seq(ToSet(opened)) /\ \A n \in ToSet(opened) : IsNode(n)
        <4>1. CASE lost
          <5> DEFINE s == <<>>
          <5>1. s \in Seq({}) /\ opened = s
            BY <4>1
          <5> HIDE DEF s, opened
          <5> QED BY <5>1, StackOf
        <4>2. CASE ~lost
          <5> HIDE DEF trusted
          <5> QED BY <4>2, <3>2, OpenedIs
        <4> QED BY <4>1, <4>2
      <3> HIDE DEF opened, bad, count, good, trusted
      <3>6. /\ walk'.stack = front \o opened /\ walk'.rec = walk.rec /\ walk'.bad = bad
            /\ walk'.count = count /\ walk'.seen = walk.seen \cup tree /\ DOMAIN walk' = DOMAIN walk
        <4> HIDE DEF front, node, blobs, tree, S
        <4> QED BY <1>2, <3>4
      <3>7. walk'.stack \in Seq(ToSet(walk'.stack)) /\ \A n \in ToSet(walk'.stack) : IsNode(n)
        <4> DEFINE U == S \cup ToSet(opened)
                   all == front \o opened
        <4> HIDE DEF front, S
        <4>1. \A n \in U : IsNode(n)
          BY <1>4, <3>5
        <4>2. S \subseteq U /\ ToSet(opened) \subseteq U
          OBVIOUS
        <4> HIDE DEF U
        <4>3. front \in Seq(U) /\ opened \in Seq(U)
          BY <1>3, <3>5, <4>2
        <4> HIDE DEF all
        <4>4. all \in Seq(U)
          BY <4>3 DEF all
        <4>5. all \in Seq(ToSet(all)) /\ \A n \in ToSet(all) : IsNode(n)
          BY <4>1, <4>4, StackOf
        <4> QED BY <3>6, <4>5 DEF all
      <3>8. ledger' \cup saved' \subseteq {"name", "blob"} \X Files
        <4>1. \A f \in good : Blob(f) \in {"name", "blob"} \X Files
          BY <3>2 DEF Blob
        <4> HIDE DEF node, blobs, tree
        <4> QED BY <1>1, <3>4, <4>1 DEF Typed
      <3>9. Typed'
        <4> HIDE DEF front, S, node, blobs, tree
        <4> QED BY <1>1, <1>2, <3>3, <3>6, <3>7, <3>8 DEF Typed
      <3>10. \E fl \in SUBSET Files, l \in MayFail("reread") :
               LET g == Passing(blobs, fl)
                   tr == tree \cap (g \cup Known(blobs))
               IN
               /\ walk'.stack = Front(walk.stack) \o (IF l THEN <<>> ELSE Opened(tr))
               /\ walk'.bad = walk.bad \cup (blobs \ (g \cup Known(blobs)))
                                \cup {t \in tr : ~Verifies(t) /\ disk[t] # "gone"}
               /\ ledger' = IF run.incremental THEN ledger \cup {Blob(f) : f \in g} ELSE ledger
               /\ passed' = passed \cup {<<walk.rec, f>> : f \in g}
        <4>1. failed \in SUBSET Files /\ lost \in MayFail("reread")
          BY <3>2
        <4> HIDE DEF node, blobs, tree
        <4> QED BY <3>4, <3>6, <4>1 DEF front, opened, bad, good, trusted
      <3> QED BY <1>1, <1>4, <2>2, <3>6, <3>9, <3>10
    <2> QED BY <2>1, <2>2
----------------------------------------------------------------------------
(* The tallies, the window and the budget. *)

LEMMA MovedParts ==
  ASSUME NEW p, NEW c, NEW f, NEW n, run' = Moved(p, c, f, n)
  PROVE  /\ run'.at = p /\ run'.comp = c /\ run'.fam = f /\ run'.next = n
         /\ run'.tier = run.tier /\ run'.width = run.width /\ run'.listed = run.listed
         /\ run'.incremental = run.incremental /\ run'.limit = run.limit
BY DEF Moved

\* What has been passed stays so as the cursor goes on: within a set, and from
\* one set to the next.
LEMMA BehindGrows ==
  ASSUME Typed, run' \in RunTypes, run'.comp = run.comp, run'.at \in Auditing,
         \/ run.at \notin Auditing \/ run.fam < run'.fam
         \/ run.fam = run'.fam /\ run.next <= run'.next,
         run.comp <= Len(Layouts), NEW f, Behind(f)
  PROVE  Behind(f)'
PROOF
  <1>1. /\ run.fam \in Nat /\ run.next \in Nat /\ run'.fam \in Nat /\ run'.next \in Nat
    BY CursorTyped DEF RunTypes
  <1>2. Here' = Here
    BY DEF Here
  <1>3. CASE \E i \in 1..Len(Layouts) : i < run.comp /\ f \in Listed(Layouts[i])
    BY <1>3 DEF Behind
  <1>4. CASE run.at \in Auditing /\ (\E j \in DOMAIN Walk[Here] : BehindIn(j, f))
    <2>1. PICK j \in DOMAIN Walk[Here] : BehindIn(j, f)
      BY <1>4
    <2>2. PICK k \in DOMAIN Walk[Here][j] :
            Walk[Here][j][k] = f /\ (j < run.fam \/ (j = run.fam /\ k < run.next))
      BY <2>1 DEF BehindIn
    <2>3. Here \in Computers
      BY HereIs
    <2>4. Walk[Here] \in Seq(Seq(Files))
      BY <2>3, ListingAssumption
    <2>5. j \in Nat /\ k \in Nat
      <3> DEFINE w == Walk[Here]
      <3> HIDE DEF w
      <3>1. w \in Seq(Seq(Files)) /\ j \in DOMAIN w /\ k \in DOMAIN w[j]
        BY <2>1, <2>2, <2>4 DEF w
      <3>2. w[j] \in Seq(Files)
        BY <3>1
      <3> QED BY <3>1, <3>2
    <2>6. j < run'.fam \/ (j = run'.fam /\ k < run'.next)
      BY <1>1, <1>4, <2>2, <2>5
    <2>7. BehindIn(j, f)'
      BY <1>2, <2>2, <2>6 DEF BehindIn
    <2> QED BY <1>2, <2>7 DEF Behind
  <1> QED BY <1>3, <1>4 DEF Behind

LEMMA BehindSet ==
  ASSUME Typed, run'.comp = run.comp + 1, run.comp <= Len(Layouts), NEW f, Behind(f)
  PROVE  Behind(f)'
PROOF
  <1>1. run.comp \in 1..Len(Layouts) /\ Here \in Computers /\ Here = Layouts[run.comp]
    BY HereIs
  <1>2. PICK i \in 1..Len(Layouts) : i <= run.comp /\ f \in Listed(Layouts[i])
    <2>1. CASE \E i \in 1..Len(Layouts) : i < run.comp /\ f \in Listed(Layouts[i])
      BY <1>1, <2>1
    <2>2. CASE \E j \in DOMAIN Walk[Here] : BehindIn(j, f)
      <3>1. PICK j \in DOMAIN Walk[Here] : \E k \in DOMAIN Walk[Here][j] : Walk[Here][j][k] = f
        BY <2>2 DEF BehindIn
      <3>2. f \in Listed(Here)
        BY <3>1 DEF Listed, ToSet
      <3> QED BY <1>1, <3>2
    <2> QED BY <2>1, <2>2 DEF Behind
  <1>3. i < run'.comp
    BY <1>1, <1>2
  <1> QED BY <1>2, <1>3 DEF Behind

\* A file whose turn it is has not been passed before, and then it has.
LEMMA TurnFacts ==
  ASSUME Typed, Cursor, run.at \in Auditing, run.fam <= Len(Walk[Here]), Ahead # {}
  PROVE  /\ ~Behind(File) /\ Turn \in Nat \ {0} /\ run.next <= Turn
         /\ File \in Files /\ File \in run.listed
         /\ run' = Moved(run'.at, run.comp, run.fam, Turn + 1) /\ run'.at \in Auditing =>
              \A f : f = File => Behind(f)'
PROOF
  <1>1. /\ Here \in Computers /\ run.fam \in DOMAIN Walk[Here]
        /\ Family \in Seq(Files) /\ Turn \in DOMAIN Family /\ Turn >= run.next
        /\ File \in run.listed
    BY AtFamily
  <1>2. run.comp \in 1..Len(Layouts) /\ Here = Layouts[run.comp]
    BY HereIs DEF Cursor
  <1>3. File = Walk[Here][run.fam][Turn] /\ Turn \in DOMAIN Walk[Here][run.fam]
    BY <1>1 DEF File, Family
  <1>4. Turn \in Nat \ {0} /\ File \in Files
    <2> DEFINE s == Family
    <2> HIDE DEF s
    <2>1. s \in Seq(Files) /\ Turn \in DOMAIN s /\ File = s[Turn]
      BY <1>1 DEF s, File
    <2>2. Turn \in 1..Len(s) /\ Len(s) \in Nat
      BY <2>1
    <2> QED BY <2>1, <2>2
  <1>5. run.next \in Nat /\ run.next <= Turn
    BY <1>1, <1>4, CursorTyped
  <1>6. ASSUME Behind(File) PROVE FALSE
    <2>1. CASE \E i \in 1..Len(Layouts) : i < run.comp /\ File \in Listed(Layouts[i])
      <3>1. PICK i \in 1..Len(Layouts) : i < run.comp /\ File \in Listed(Layouts[i])
        BY <2>1
      <3>2. Layouts[i] \in Computers
        BY LayoutsFacts
      <3>3. PICK j \in DOMAIN Walk[Layouts[i]] :
              \E k \in DOMAIN Walk[Layouts[i]][j] : File = Walk[Layouts[i]][j][k]
        BY <3>1 DEF Listed, ToSet
      <3>4. PICK k \in DOMAIN Walk[Layouts[i]][j] : File = Walk[Layouts[i]][j][k]
        BY <3>3
      <3> DEFINE c == Layouts[i]
                 d == Here
      <3> HIDE DEF c, d
      <3>5. c \in Computers /\ d \in Computers /\ j \in DOMAIN Walk[c] /\ run.fam \in DOMAIN Walk[d]
            /\ k \in DOMAIN Walk[c][j] /\ Turn \in DOMAIN Walk[d][run.fam]
            /\ Walk[c][j][k] = Walk[d][run.fam][Turn]
        BY <1>1, <1>3, <3>2, <3>3, <3>4 DEF c, d
      <3>7. c = d
        BY <3>5, ListingAssumption
      <3>6. i = run.comp
        BY <1>2, <3>7, LayoutsFacts DEF c, d
      <3> QED BY <1>2, <3>1, <3>6
    <2>2. CASE \E j \in DOMAIN Walk[Here] : BehindIn(j, File)
      <3>1. PICK j \in DOMAIN Walk[Here] : BehindIn(j, File)
        BY <2>2
      <3>2. PICK k \in DOMAIN Walk[Here][j] :
              Walk[Here][j][k] = File /\ (j < run.fam \/ (j = run.fam /\ k < run.next))
        BY <3>1 DEF BehindIn
      <3>3. run.fam = j /\ Turn = k
        BY <1>1, <1>3, <3>1, <3>2, ListingAssumption
      <3>4. run.fam \in Nat
        BY CursorTyped
      <3> QED BY <1>4, <1>5, <3>2, <3>3, <3>4
    <2> QED BY <1>6, <2>1, <2>2 DEF Behind
  <1>7. ASSUME run' = Moved(run'.at, run.comp, run.fam, Turn + 1), run'.at \in Auditing,
               NEW f, f = File
        PROVE  Behind(f)'
    <2>1. run'.comp = run.comp /\ run'.fam = run.fam /\ run'.next = Turn + 1
      BY <1>7, MovedParts
    <2>2. Here' = Here
      BY <2>1 DEF Here
    <2>3. f = Walk[Here][run.fam][Turn]
      BY <1>3, <1>7
    <2>4. Turn < Turn + 1
      BY <1>4
    <2> DEFINE t == Turn
               j == run.fam
    <2>5. /\ t \in DOMAIN Walk[Here][j] /\ Walk[Here][j][t] = f /\ j \in DOMAIN Walk[Here]
          /\ t < run'.next /\ j = run'.fam
      BY <1>1, <1>3, <2>1, <2>3, <2>4
    <2> HIDE DEF t, j
    <2>6. \E m \in DOMAIN Walk[Here'] : BehindIn(m, f)'
      BY <2>2, <2>5 DEF BehindIn
    <2> QED BY <1>7, <2>2, <2>6 DEF Behind
  <1> QED BY <1>1, <1>4, <1>5, <1>6, <1>7

\* Where the elements of a sequence without its i-th come from.
Source(i, j) == IF j < i THEN j ELSE j + 1

LEMMA SourceFacts ==
  ASSUME NEW S, NEW s \in Seq(S), NEW i \in DOMAIN s
  PROVE  /\ RemoveAt(s, i) \in Seq(S) /\ Len(RemoveAt(s, i)) = Len(s) - 1
         /\ Len(s) \in Nat \ {0} /\ DOMAIN s = 1..Len(s)
         /\ DOMAIN RemoveAt(s, i) = 1..(Len(s) - 1)
         /\ \A j \in DOMAIN RemoveAt(s, i) :
              /\ Source(i, j) \in DOMAIN s /\ Source(i, j) # i
              /\ RemoveAt(s, i)[j] = s[Source(i, j)]
         /\ \A j, k \in DOMAIN RemoveAt(s, i) : Source(i, j) = Source(i, k) => j = k
         /\ \A m \in DOMAIN s : m # i => \E j \in DOMAIN RemoveAt(s, i) : Source(i, j) = m
PROOF
  <1> DEFINE t == RemoveAt(s, i)
             n == Len(s)
  <1>1. n \in Nat \ {0} /\ i \in 1..n /\ DOMAIN s = 1..n
    OBVIOUS
  <1>2. /\ t \in Seq(S) /\ Len(t) = n - 1
        /\ \A j \in 1..(n - 1) : t[j] = IF j < i THEN s[j] ELSE s[j + 1]
    BY RemoveAtIs
  <1> HIDE DEF t
  <1>3. DOMAIN t = 1..(n - 1)
    BY <1>2
  <1> HIDE DEF n
  <1>4. \A j \in 1..(n - 1) : Source(i, j) \in 1..n /\ Source(i, j) # i /\ t[j] = s[Source(i, j)]
    BY <1>1, <1>2 DEF Source
  <1>5. \A j, k \in 1..(n - 1) : Source(i, j) = Source(i, k) => j = k
    BY <1>1 DEF Source
  <1>6. ASSUME NEW m \in 1..n, m # i PROVE \E j \in 1..(n - 1) : Source(i, j) = m
    <2>1. CASE m < i
      <3>1. m \in 1..(n - 1) /\ Source(i, m) = m
        BY <1>1, <2>1 DEF Source
      <3> QED BY <3>1
    <2>2. CASE ~(m < i)
      <3>1. m - 1 \in 1..(n - 1) /\ Source(i, m - 1) = m
        BY <1>1, <1>6, <2>2 DEF Source
      <3> QED BY <3>1
    <2> QED BY <2>1, <2>2
  <1> QED BY <1>1, <1>2, <1>3, <1>4, <1>5, <1>6 DEF t, n

\* The read ones are a finite part of the window.
LEMMA ReadOnesFacts ==
  ASSUME inflight \in Seq(Futures)
  PROVE  IsFiniteSet(ReadOnes) /\ Cardinality(ReadOnes) \in Nat
         /\ Cardinality(ReadOnes) <= Len(inflight)
PROOF
  <1> DEFINE n == Len(inflight)
             T == ToSet(inflight)
  <1>1. n \in Nat /\ DOMAIN inflight = 1..n /\ inflight \in [1..n -> Futures]
    OBVIOUS
  <1>2. inflight \in Surjection(1..n, T)
    BY <1>1 DEF Surjection, ToSet
  <1>3. IsFiniteSet(1..n) /\ Cardinality(1..n) = n
    BY <1>1, FS_Interval, SMTT(30)
  <1>4. IsFiniteSet(T) /\ Cardinality(T) <= n
    BY <1>2, <1>3, FS_Surjection
  <1>5. ReadOnes \subseteq T
    BY DEF ReadOnes
  <1> HIDE DEF T, n
  <1>6. IsFiniteSet(ReadOnes) /\ Cardinality(ReadOnes) <= Cardinality(T)
    BY <1>4, <1>5, FS_Subset
  <1>7. Cardinality(ReadOnes) \in Nat /\ Cardinality(T) \in Nat
    BY <1>4, <1>6, FS_CardinalityType
  <1> QED BY <1>1, <1>4, <1>6, <1>7 DEF n

\* An empty window holds nothing that was read.
LEMMA NoReadOnes == ASSUME inflight = <<>> PROVE ReadOnes = {} /\ Cardinality(ReadOnes) = 0
BY FS_EmptySet DEF ReadOnes, ToSet

\* Elements of a sequence, by their place.
LEMMA PlaceOf ==
  ASSUME NEW S, NEW s \in Seq(S), NEW d
  PROVE  d \in ToSet(s) <=> \E i \in DOMAIN s : d = s[i]
BY DEF ToSet

\* Merging one future takes it out of the window, counts it once, and what was
\* read of it goes from the window's account to the report's.
LEMMA TakeOutTally ==
  ASSUME TallyInv, NEW i \in DoneNow, TakeOut(i), Typed', reads' = reads,
         run.at \in Auditing, run'.at \in Auditing \ {"submit"}, run'.width = run.width,
         \A f : Behind(f) => Behind(f)'
  PROVE  Budget' /\ Once' /\ Tally' /\ Len(inflight') = Len(inflight) - 1
         /\ Len(inflight) \in Nat \ {0} /\ inflight' \in Seq(Futures)
PROOF
  <1> DEFINE d == inflight[i]
             bad == IF d.out \in {"bad", "error"} THEN report.bad \cup {d.file} ELSE report.bad
             bytes == IF d.out \in {"ok", "bad"} THEN report.bytes + 1 ELSE report.bytes
             ok == IF d.out = "ok" THEN report.ok + 1 ELSE report.ok
             skipped == IF d.out = "skipped" THEN report.skipped + 1 ELSE report.skipped
  <1>1. /\ i \in DOMAIN inflight /\ d \in Futures /\ d.out # "none"
        /\ inflight' = RemoveAt(inflight, i) /\ inflight' \in Seq(Futures)
        /\ report \in Reports /\ inflight \in Seq(Futures)
    BY TakeOutTyped DEF TallyInv, Typed
  <1>2. report' = [report EXCEPT !.total = report.total + 1, !.ok = ok, !.bytes = bytes,
                                 !.skipped = skipped, !.bad = bad]
    BY TakeOutTyped DEF TallyInv
  <1>3. /\ report'.total = report.total + 1 /\ report'.ok = ok /\ report'.bytes = bytes
        /\ report'.skipped = skipped /\ report'.bad = bad /\ report'.known = report.known
    <2> HIDE DEF ok, bytes, skipped, bad
    <2> QED BY <1>1, <1>2 DEF Reports
  <1>4. /\ Len(inflight') = Len(inflight) - 1 /\ Len(inflight) \in Nat \ {0}
        /\ \A j \in DOMAIN inflight' : /\ Source(i, j) \in DOMAIN inflight /\ Source(i, j) # i
                                       /\ inflight'[j] = inflight[Source(i, j)]
        /\ \A j, k \in DOMAIN inflight' : Source(i, j) = Source(i, k) => j = k
        /\ \A m \in DOMAIN inflight : m # i => \E j \in DOMAIN inflight' : Source(i, j) = m
    BY <1>1, SourceFacts
  <1>5. d.out \in {"ok", "bad", "skipped", "error"}
    BY <1>1 DEF Futures, Outcomes
  <1>6. /\ \A j, k \in DOMAIN inflight : inflight[j].file = inflight[k].file => j = k
        /\ \A f \in Files : InWindow(f) => f \notin report.bad /\ Behind(f)
        /\ \A f \in report.bad : Behind(f)
    BY DEF TallyInv, Once
  <1>7. \A j \in DOMAIN inflight' : inflight'[j].file # d.file
    BY <1>1, <1>4, <1>6
  <1>10. d.file \notin report.bad /\ Behind(d.file) /\ d.file \in Files
    <2>1. d.file \in Files /\ InWindow(d.file)
      BY <1>1 DEF InWindow, Futures
    <2> QED BY <1>6, <2>1
  <1>8. Once'
    <2>1. \A j, k \in DOMAIN inflight' : inflight'[j].file = inflight'[k].file => j = k
      BY <1>4, <1>6
    <2>2. ASSUME NEW f \in Files, InWindow(f)' PROVE f \notin report'.bad /\ Behind(f)'
      <3>1. PICK j \in DOMAIN inflight' : inflight'[j].file = f
        BY <2>2 DEF InWindow
      <3>2. InWindow(f) /\ f # d.file
        BY <1>4, <1>7, <3>1 DEF InWindow
      <3> QED BY <1>3, <1>6, <3>2
    <2>3. ASSUME NEW f \in report'.bad PROVE Behind(f)'
      <3>1. f \in report.bad \/ f = d.file
        BY <1>3, <2>3
      <3>2. Behind(f)
        BY <1>6, <1>10, <3>1
      <3> QED BY <3>2
    <2>4. run'.at \notin {"idle", "l0", "l1a", "l1b"}
      BY DEF Auditing
    <2> HIDE DEF d, bad
    <2> QED BY <2>1, <2>2, <2>3, <2>4 DEF Once
  <1>9. Tally'
    <2>1. IsFiniteSet(report.bad) /\ Cardinality(report.bad) \in Nat
      BY FS_CardinalityType DEF TallyInv, Tally
    <2>2. /\ report.total \in Nat /\ report.ok \in Nat /\ report.skipped \in Nat /\ report.known \in Nat
          /\ report.total = report.ok + report.skipped + report.known + Cardinality(report.bad)
      BY <1>1 DEF Reports, TallyInv, Tally
    <2>3. CASE d.out \in {"bad", "error"}
      <3>1. d.file \notin report.bad
        BY <1>10
      <3>2. IsFiniteSet(bad) /\ Cardinality(bad) = Cardinality(report.bad) + 1
        BY <2>1, <2>3, <3>1, FS_AddElement
      <3>3. ok = report.ok /\ skipped = report.skipped
        BY <2>3
      <3> HIDE DEF bad, ok, skipped, d
      <3>4. IsFiniteSet(report'.bad) /\ Cardinality(report'.bad) = Cardinality(report.bad) + 1
        BY <1>3, <3>2
      <3>5. report'.total = report'.ok + report'.skipped + report'.known + Cardinality(report'.bad)
        <4> DEFINE m == Cardinality(report'.bad)
                   n == Cardinality(report.bad)
        <4>1. /\ m = n + 1 /\ n \in Nat /\ report'.total = report.total + 1
              /\ report'.ok = report.ok /\ report'.skipped = report.skipped
              /\ report'.known = report.known
              /\ report.total = report.ok + report.skipped + report.known + n
          BY <1>3, <2>1, <2>2, <3>3, <3>4
        <4> HIDE DEF m, n
        <4>2. report'.total = report'.ok + report'.skipped + report'.known + m
          BY <2>2, <4>1
        <4> QED BY <4>2 DEF m
      <3> QED BY <3>4, <3>5 DEF Tally
    <2>4. CASE d.out \notin {"bad", "error"}
      <3>1. bad = report.bad /\ ok + skipped = report.ok + report.skipped + 1 /\ ok \in Nat /\ skipped \in Nat
        <4>1. CASE d.out = "ok"
          BY <2>2, <4>1
        <4>2. CASE d.out = "skipped"
          BY <2>2, <4>2
        <4> QED BY <1>5, <2>4, <4>1, <4>2
      <3> HIDE DEF bad, ok, skipped, d
      <3> QED BY <1>3, <2>1, <2>2, <3>1 DEF Tally
    <2> QED BY <2>3, <2>4
  <1>11. Budget'
    <2>1. /\ reads = report.bytes + Cardinality(ReadOnes)
          /\ MaxBytes > 0 => report.bytes + Len(inflight) < MaxBytes + 2 * run.width
          /\ report.bytes \in Nat /\ MaxBytes \in Nat /\ run.width \in Nat
      BY <1>1, CursorTyped, ValidationAssumption DEF TallyInv, Budget, Reports
    <2>2. IsFiniteSet(ReadOnes) /\ Cardinality(ReadOnes) \in Nat
      BY <1>1, ReadOnesFacts
    <2>3. ReadOnes' = ReadOnes \ {d}
      <3>1. ASSUME NEW e PROVE e \in ToSet(inflight') <=> e \in ToSet(inflight) /\ e # d
        <4>1. e \in ToSet(inflight') <=> \E j \in DOMAIN inflight' : e = inflight'[j]
          BY <1>1, PlaceOf
        <4>2. e \in ToSet(inflight) <=> \E j \in DOMAIN inflight : e = inflight[j]
          BY <1>1, PlaceOf
        <4>3. \A j \in DOMAIN inflight : inflight[j] = d => j = i
          BY <1>1, <1>6
        <4> QED BY <1>1, <1>4, <4>1, <4>2, <4>3
      <3>2. ReadOnes' = {e \in ToSet(inflight') : e.out \in {"ok", "bad"}}
        BY DEF ReadOnes
      <3> QED BY <3>1, <3>2 DEF ReadOnes
    <2>4. bytes + Cardinality(ReadOnes') = report.bytes + Cardinality(ReadOnes)
          /\ bytes <= report.bytes + 1 /\ bytes \in Nat /\ Cardinality(ReadOnes') \in Nat
      <3>1. CASE d.out \in {"ok", "bad"}
        <4>1. d \in ReadOnes
          BY <1>1, <3>1, PlaceOf DEF ReadOnes
        <4> HIDE DEF d
        <4>2. Cardinality(ReadOnes') = Cardinality(ReadOnes) - 1 /\ IsFiniteSet(ReadOnes')
          BY <2>2, <2>3, <4>1, FS_RemoveElement
        <4>3. Cardinality(ReadOnes') \in Nat
          BY <4>2, FS_CardinalityType
        <4>4. bytes = report.bytes + 1
          BY <3>1
        <4> HIDE DEF bytes
        <4> QED BY <2>1, <2>2, <4>2, <4>3, <4>4, SMTT(30)
      <3>2. CASE d.out \notin {"ok", "bad"}
        <4>1. ReadOnes' = ReadOnes
          BY <2>3, <3>2 DEF ReadOnes
        <4>2. bytes = report.bytes
          BY <3>2
        <4> HIDE DEF bytes
        <4> QED BY <2>1, <2>2, <4>1, <4>2
      <3> QED BY <3>1, <3>2
    <2> HIDE DEF bytes, d, bad, ok, skipped
    <2>5. Len(inflight) \in Nat /\ Len(inflight') = Len(inflight) - 1
      BY <1>4
    <2>6. reads' = report'.bytes + Cardinality(ReadOnes')
      BY <1>3, <2>1, <2>4
    <2>7. MaxBytes > 0 => report'.bytes + Len(inflight') < MaxBytes + 2 * run'.width
      BY <1>3, <2>1, <2>4, <2>5, SMTT(30)
    <2>8. ~Does("submit")'
      BY DEF Does
    <2> QED BY <2>6, <2>7, <2>8 DEF Budget
  <1> QED BY <1>1, <1>4, <1>8, <1>9, <1>11

\* A step that leaves the window and the tallies alone, and does not enter the
\* places where the window is held to more.
LEMMA WindowKept ==
  ASSUME TallyInv, inflight' = inflight, reads' = reads, run'.width = run.width,
         report'.bytes = report.bytes, report'.bad = report.bad,
         run'.at = "submit" /\ MaxBytes > 0 => report.bytes < MaxBytes,
         run'.at \in {"idle", "l0", "l1a", "l1b"} => report.bad = {},
         run'.at \in {"l2"} \cup Auditing => \A f \in Files : Behind(f) => Behind(f)',
         run'.at \in {"l2"} \cup Auditing => \A f \in report.bad : Behind(f),
         run'.at \in Auditing \/ inflight = <<>>
  PROVE  Budget' /\ Once'
PROOF
  <1>1. ReadOnes' = ReadOnes
    BY DEF ReadOnes
  <1>2. Budget'
    BY <1>1 DEF TallyInv, Budget, Does
  <1>3. report.bad \subseteq Files
    BY DEF TallyInv, Typed, Reports
  <1>4. \A f \in report'.bad : run'.at \in {"l2"} \cup Auditing => Behind(f)'
    BY <1>3
  <1>5. ASSUME NEW f \in Files, InWindow(f)' PROVE f \notin report'.bad /\ Behind(f)'
    <2>1. InWindow(f)
      BY <1>5 DEF InWindow
    <2>2. f \notin report.bad /\ Behind(f)
      BY <2>1 DEF TallyInv, Once
    <2>3. inflight # <<>>
      BY <2>1 DEF InWindow
    <2> QED BY <2>2, <2>3
  <1>6. \A i, j \in DOMAIN inflight' : inflight'[i].file = inflight'[j].file => i = j
    BY DEF TallyInv, Once
  <1>7. Once'
    BY <1>4, <1>5, <1>6 DEF Once
  <1> QED BY <1>2, <1>7

\* With the window empty and the tallies alone.
LEMMA QuietKept ==
  ASSUME TallyInv, inflight = <<>>, inflight' = inflight, reads' = reads,
         run' \in RunTypes, run'.width = run.width,
         report'.bytes = report.bytes, report'.bad = report.bad, report'.total = report.total,
         report'.ok = report.ok, report'.skipped = report.skipped, report'.known = report.known,
         run'.at \notin {"submit", "alone", "wait", "recheck"},
         run'.at \in {"idle", "l0", "l1a", "l1b"} => report.bad = {},
         run'.at \in {"l2"} \cup Auditing => \A f \in Files : Behind(f) => Behind(f)',
         run'.at \in {"l2"} \cup Auditing => \A f \in report.bad : Behind(f)
  PROVE  Window' /\ Budget' /\ Once' /\ Tally'
PROOF
  <1>1. Budget' /\ Once'
    BY WindowKept
  <1>2. Tally'
    BY DEF TallyInv, Tally
  <1>3. Window'
    <2>1. Len(inflight') = 0 /\ inflight' = <<>>
      OBVIOUS
    <2>2. 0 <= 2 * run'.width
      BY DEF RunTypes
    <2> QED BY <2>1, <2>2 DEF Window, Does
  <1> QED BY <1>1, <1>2, <1>3

\* A run that is under way, of a tier that may be where it is.
LEMMA AwayFresh == ASSUME run'.at # "idle" PROVE Fresh'
BY DEF Fresh, Does

\* Files that were passed, of a run in which nothing was.
LEMMA BadBehind ==
  ASSUME TallyInv
  PROVE  /\ report.bad \subseteq Files
         /\ run.at \in {"l2"} \cup Auditing => \A f \in report.bad : Behind(f)
         /\ run.at \in {"idle", "l0", "l1a", "l1b"} => report.bad = {}
BY DEF TallyInv, Once, Typed, Reports

\* A step that leaves the run where it is, and the window and the report alone.
LEMMA SameTally ==
  ASSUME TallyInv, Typed', UNCHANGED <<run, report, inflight, reads>>,
         UNCHANGED <<passed, ledger>> \/ ~Does("idle"),
         ledger' = ledger \/ run.incremental, walk'.rec = walk.rec
  PROVE  TallyInv'
PROOF
  <1>1. Fresh'
    BY DEF TallyInv, Fresh, Does
  <1>2. Ranks'
    BY DEF TallyInv, Ranks, Does, Reaches
  <1>3. Here' = Here
    BY DEF Here
  <1>4. Cursor'
    BY <1>3 DEF TallyInv, Cursor, Does, Ahead, Family
  <1>5. Window'
    BY <1>3 DEF TallyInv, Window, Does
  <1>6. Budget' /\ Tally'
    BY DEF TallyInv, Budget, Tally, Does, ReadOnes
  <1>7. \A f : Behind(f) => Behind(f)'
    BY <1>3 DEF Behind, BehindIn
  <1>8. \A f \in Files : InWindow(f)' => InWindow(f)
    BY DEF InWindow
  <1>9. Once'
    <2>1. \A f \in report'.bad : run'.at \in {"l2"} \cup Auditing => Behind(f)'
      BY <1>7 DEF TallyInv, Once
    <2>2. \A f \in Files : InWindow(f)' => f \notin report'.bad /\ Behind(f)'
      BY <1>7, <1>8 DEF TallyInv, Once
    <2>3. /\ \A i, j \in DOMAIN inflight' : inflight'[i].file = inflight'[j].file => i = j
          /\ run'.at \in {"idle", "l0", "l1a", "l1b"} => report'.bad = {}
      BY DEF TallyInv, Once
    <2> QED BY <2>1, <2>2, <2>3 DEF Once
  <1> QED BY <1>1, <1>2, <1>4, <1>5, <1>6, <1>9 DEF TallyInv

LEMMA InitTally == ASSUME Init PROVE TallyInv
PROOF
  <1>1. run = NoRun /\ report = NoReport /\ inflight = <<>> /\ reads = 0 /\ passed = {} /\ ledger = {}
    BY DEF Init
  <1>2. /\ run.at = "idle" /\ run.tier = "quick" /\ run.width = 1 /\ ~run.incremental
        /\ report.bad = {} /\ report.bytes = 0 /\ report.total = 0 /\ report.ok = 0
        /\ report.skipped = 0 /\ report.known = 0
    BY <1>1 DEF NoRun, NoReport
  <1>3. Fresh /\ Ranks
    BY <1>1, <1>2 DEF Fresh, Ranks, Does, Auditing
  <1>4. Cursor
    BY <1>2 DEF Cursor, Does, Auditing
  <1>5. Len(inflight) = 0
    BY <1>1
  <1>6. Window
    BY <1>1, <1>2, <1>5 DEF Window, Does
  <1>7. Cardinality(ReadOnes) = 0 /\ MaxBytes \in Nat
    BY <1>1, NoReadOnes, ValidationAssumption
  <1>8. Budget
    BY <1>1, <1>2, <1>5, <1>7 DEF Budget, Does
  <1>9. Once
    BY <1>1, <1>2 DEF Once, InWindow, Auditing
  <1>10. Tally
    BY <1>2, FS_EmptySet DEF Tally
  <1> QED BY <1>3, <1>4, <1>6, <1>8, <1>9, <1>10, InitTyped DEF TallyInv

\* The cursor is held to nothing outside the audit and the two loops.
LEMMA CursorAway ==
  ASSUME run'.at \notin {"l1b", "l2", "l3", "open", "walk"} \cup Auditing
  PROVE  Cursor'
BY DEF Cursor, Does, Auditing

LEMMA RanksKept ==
  ASSUME Ranks, run'.tier = run.tier, run'.incremental = run.incremental,
         ledger' = ledger \/ run.incremental,
         run'.at \in {"l0", "l1a", "l1b", "l2", "l3"} \cup Auditing => run.tier # "record",
         run'.at = "l1b" => Reaches("deep"),
         run'.at \in {"l2"} \cup Auditing => Reaches("audit"),
         run'.at = "l3" => run.tier = "graph",
         run'.at \in {"open", "walk"} => run.tier \in {"graph", "record"} /\ walk'.rec \in AllRecords
  PROVE  Ranks'
BY DEF Ranks, Does, Reaches

\* A run that begins.
LEMMA BeginTally ==
  ASSUME TallyInv, Does("idle"), Typed', inflight' = inflight, report' = report, reads' = reads,
         run'.at \in {"l0", "open"}, run'.at = "open" => run'.tier = "record", Ranks'
  PROVE  TallyInv'
PROOF
  <1>1. /\ report = NoReport /\ inflight = <<>> /\ reads = 0
    BY DEF TallyInv, Fresh
  <1>2. /\ report'.bad = {} /\ report'.bytes = 0 /\ report'.total = 0 /\ report'.ok = 0
        /\ report'.skipped = 0 /\ report'.known = 0 /\ Len(inflight') = 0 /\ inflight' = <<>>
    BY <1>1 DEF NoReport
  <1>3. run'.width \in Nat \ {0} /\ MaxBytes \in Nat
    BY ValidationAssumption DEF Typed, RunTypes
  <1>4. Window'
    BY <1>2, <1>3 DEF Window, Does
  <1>5. ReadOnes' = {}
    BY <1>2 DEF ReadOnes, ToSet
  <1>6. Cardinality(ReadOnes') = 0
    BY <1>5, FS_EmptySet
  <1>7. Budget'
    BY <1>1, <1>2, <1>3, <1>6 DEF Budget, Does
  <1>8. Once'
    BY <1>2 DEF Once, InWindow, Auditing
  <1>9. Tally'
    BY <1>2, FS_EmptySet DEF Tally
  <1>10. Fresh' /\ Cursor'
    BY AwayFresh DEF Cursor, Does, Auditing
  <1> QED BY <1>4, <1>7, <1>8, <1>9, <1>10 DEF TallyInv

LEMMA StartRunTally == ASSUME TallyInv, NEW cmd \in Commands, StartRun(cmd) PROVE TallyInv'
PROOF
  <1>1. /\ Typed' /\ run'.at = "l0" /\ run'.tier = cmd.tier /\ run'.incremental = cmd.incremental
    BY StartRunTyped DEF TallyInv
  <1>2. /\ Does("idle") /\ cmd.tier # "record" /\ UNCHANGED <<inflight, report, reads>>
        /\ ledger' = IF cmd.incremental THEN saved ELSE {}
    BY DEF StartRun, history
  <1>3. cmd.incremental => cmd.tier \in {"audit", "record"}
    BY ValidationAssumption
  <1>4. Ranks'
    BY <1>1, <1>2, <1>3 DEF Ranks, Does, Reaches, Auditing
  <1> QED BY <1>1, <1>2, <1>4, BeginTally

LEMMA StartRecordTally ==
  ASSUME TallyInv, NEW cmd \in Commands, NEW r \in AllRecords, StartRecord(cmd, r)
  PROVE  TallyInv'
PROOF
  <1>1. /\ Typed' /\ run'.at = "open" /\ run'.tier = "record" /\ run'.incremental = cmd.incremental
        /\ walk'.rec = r
    BY StartRecordTyped DEF TallyInv
  <1>2. /\ Does("idle") /\ UNCHANGED <<inflight, report, reads>>
        /\ ~cmd.incremental => ledger' = {}
    BY DEF StartRecord, history
  <1>3. Ranks'
    BY <1>1, <1>2 DEF Ranks, Does, Reaches, Auditing
  <1> QED BY <1>1, <1>2, <1>3, BeginTally

\* Before the audit the window is empty.
LEMMA EmptyWindow == ASSUME TallyInv, run.at \notin Auditing PROVE inflight = <<>>
BY DEF TallyInv, Window

LEMMA LayoutTally == ASSUME TallyInv, LayoutCheck PROVE TallyInv'
PROOF
  <1>1. /\ Typed' /\ report' = [report EXCEPT !.layout = run.listed # {}]
        /\ \/ run' = Moved("save", 1, 1, 1)
           \/ Reaches("quick") /\ run' = Moved("l1a", 1, 1, 1)
    BY LayoutCheckTyped DEF TallyInv
  <1>2. Does("l0") /\ UNCHANGED <<inflight, ledger, reads, walk>>
    BY DEF LayoutCheck, books, history
  <1>3. run.at \notin Auditing /\ report.bad = {}
    BY <1>2, BadBehind DEF Does, Auditing
  <1>4. inflight = <<>>
    BY <1>3, EmptyWindow
  <1>5. /\ run'.at \in {"save", "l1a"} /\ run'.width = run.width /\ run'.tier = run.tier
        /\ run'.incremental = run.incremental /\ run' \in RunTypes
    BY <1>1, MovedParts DEF Typed
  <1>6. /\ report'.bytes = report.bytes /\ report'.bad = report.bad /\ report'.total = report.total
        /\ report'.ok = report.ok /\ report'.skipped = report.skipped /\ report'.known = report.known
    BY <1>1 DEF Reports
  <1>7. Window' /\ Budget' /\ Once' /\ Tally'
    BY <1>2, <1>3, <1>4, <1>5, <1>6, QuietKept DEF Auditing
  <1>8. Fresh' /\ Cursor'
    BY <1>5, AwayFresh, CursorAway DEF Auditing
  <1>9. Ranks'
    BY <1>2, <1>5, RanksKept DEF TallyInv, Ranks, Does, Auditing
  <1> QED BY <1>1, <1>7, <1>8, <1>9 DEF TallyInv

LEMMA MagicTally == ASSUME TallyInv, MagicCheck PROVE TallyInv'
PROOF
  <1>1. Does("l1a") /\ UNCHANGED <<inflight, ledger, reads, walk, passed>>
    BY DEF MagicCheck, books, history
  <1>2. /\ Typed'
        /\ \/ Reaches("deep") /\ run' = Moved("l1b", 1, 1, 1)
           \/ run' = Moved("save", 1, 1, 1)
           \/ run' = run
        /\ \E bad \in SUBSET Files : report' = [report EXCEPT !.magic = report.magic \cup bad]
    BY MagicCheckTyped DEF TallyInv
  <1>3. run.at \notin Auditing /\ report.bad = {}
    BY <1>1, BadBehind DEF Does, Auditing
  <1>4. inflight = <<>>
    BY <1>3, EmptyWindow
  <1>5. /\ run'.at \in {"save", "l1a", "l1b"} /\ run'.width = run.width /\ run'.tier = run.tier
        /\ run'.incremental = run.incremental /\ run' \in RunTypes
        /\ run'.at = "l1b" => Reaches("deep") /\ run'.comp = 1
    BY <1>1, <1>2, MovedParts DEF Typed, Does
  <1>6. /\ report'.bytes = report.bytes /\ report'.bad = report.bad /\ report'.total = report.total
        /\ report'.ok = report.ok /\ report'.skipped = report.skipped /\ report'.known = report.known
    BY <1>2 DEF Reports
  <1>7. Window' /\ Budget' /\ Once' /\ Tally'
    BY <1>1, <1>3, <1>4, <1>5, <1>6, QuietKept DEF Auditing
  <1>8. Fresh'
    BY <1>5, AwayFresh
  <1>9. Cursor'
    <2>1. 1 <= Len(Layouts) + 1
      BY LayoutsFacts
    <2> QED BY <1>5, <2>1 DEF Cursor, Does, Auditing
  <1>10. Ranks'
    BY <1>1, <1>5, RanksKept DEF TallyInv, Ranks, Does, Auditing
  <1> QED BY <1>2, <1>7, <1>8, <1>9, <1>10 DEF TallyInv

LEMMA RecordCheckTally == ASSUME TallyInv, RecordCheck PROVE TallyInv'
PROOF
  <1>1. Does("l1b") /\ UNCHANGED <<inflight, ledger, walk>> /\ reads' = reads
    BY DEF RecordCheck, books, history
  <1>2. /\ Typed'
        /\ \/ report' = report /\ Reaches("audit") /\ run' = Moved("l2", 1, 1, 1)
           \/ report' = report /\ run' = Moved("save", 1, 1, 1)
           \/ /\ run' = Moved("save", 1, 1, 1)
              /\ report' = [report EXCEPT !.keyset = "failed"]
           \/ /\ run.comp <= Len(Layouts)
              /\ run' = Moved("l1b", run.comp + 1, run.fam, run.next)
              /\ \E bad : report' = [report EXCEPT !.keyset = "decrypted", !.records = bad]
    BY RecordCheckTyped DEF TallyInv
  <1>3. run.at \notin Auditing /\ report.bad = {}
    BY <1>1, BadBehind DEF Does, Auditing
  <1>4. inflight = <<>>
    BY <1>3, EmptyWindow
  <1>5. /\ run'.at \in {"save", "l1b", "l2"} /\ run'.width = run.width /\ run'.tier = run.tier
        /\ run'.incremental = run.incremental /\ run' \in RunTypes
        /\ run'.at = "l2" => Reaches("audit") /\ run'.comp = 1
        /\ run'.at = "l1b" => run.comp <= Len(Layouts) /\ run'.comp = run.comp + 1
    <2>4. run' \in RunTypes
      BY <1>2 DEF Typed
    <2>1. CASE Reaches("audit") /\ run' = Moved("l2", 1, 1, 1)
      BY <2>1, <2>4, MovedParts
    <2>2. CASE run' = Moved("save", 1, 1, 1)
      BY <2>2, <2>4, MovedParts
    <2>3. CASE run.comp <= Len(Layouts) /\ run' = Moved("l1b", run.comp + 1, run.fam, run.next)
      BY <2>3, <2>4, MovedParts
    <2> QED BY <1>2, <2>1, <2>2, <2>3
  <1>6. /\ report'.bytes = report.bytes /\ report'.bad = report.bad /\ report'.total = report.total
        /\ report'.ok = report.ok /\ report'.skipped = report.skipped /\ report'.known = report.known
    <2>1. CASE report' = report
      BY <2>1
    <2>2. CASE report' = [report EXCEPT !.keyset = "failed"]
      BY <2>2 DEF TallyInv, Typed, Reports
    <2>3. ASSUME NEW bad, report' = [report EXCEPT !.keyset = "decrypted", !.records = bad]
          PROVE  /\ report'.bytes = report.bytes /\ report'.bad = report.bad /\ report'.total = report.total
                 /\ report'.ok = report.ok /\ report'.skipped = report.skipped /\ report'.known = report.known
      BY <2>3 DEF TallyInv, Typed, Reports
    <2> QED BY <1>2, <2>1, <2>2, <2>3
  <1>8. Window' /\ Budget' /\ Once' /\ Tally'
    <2>1. CASE run'.at = "l2"
      <3>1. Window' /\ Budget' /\ Tally'
        <4>1. Len(inflight') = 0 /\ ReadOnes' = ReadOnes
          BY <1>1, <1>4 DEF ReadOnes
        <4> QED BY <1>1, <1>4, <1>5, <1>6, <2>1, <4>1 DEF TallyInv, Window, Budget, Tally, Does
      <3>2. Once'
        BY <1>1, <1>3, <1>4, <1>6, <2>1 DEF Once, InWindow
      <3> QED BY <3>1, <3>2
    <2>2. CASE run'.at # "l2"
      BY <1>1, <1>3, <1>4, <1>5, <1>6, <2>2, QuietKept DEF Auditing
    <2> QED BY <2>1, <2>2
  <1>9. Fresh'
    BY <1>5, AwayFresh
  <1>10. Cursor'
    <2>1. 1 <= Len(Layouts) + 1 /\ Len(Layouts) \in Nat /\ run.comp \in Nat
      BY LayoutsFacts, CursorTyped DEF TallyInv
    <2>2. run'.at \in {"l1b", "l2"} => run'.comp <= Len(Layouts) + 1
      BY <1>5, <2>1
    <2> QED BY <1>5, <2>2 DEF Cursor, Does, Auditing
  <1>11. Ranks'
    BY <1>1, <1>5, RanksKept DEF TallyInv, Ranks, Does, Auditing
  <1> QED BY <1>2, <1>8, <1>9, <1>10, <1>11 DEF TallyInv

LEMMA AuditSetTally == ASSUME TallyInv, AuditSet PROVE TallyInv'
PROOF
  <1>1. Does("l2") /\ UNCHANGED <<inflight, ledger, walk>> /\ reads' = reads
    BY DEF AuditSet, books, history
  <1>2. Typed' /\ run' \in RunTypes /\ report \in Reports
    BY AuditSetTyped DEF TallyInv, Typed
  <1>3. run.at \notin Auditing /\ inflight = <<>> /\ Reaches("audit") /\ run.tier # "record"
    BY <1>1, EmptyWindow DEF Does, Auditing, TallyInv, Ranks
  <1>4. Len(Layouts) \in Nat /\ run.comp \in Nat /\ \A f \in report.bad : Behind(f)
    BY <1>1, LayoutsFacts, CursorTyped, BadBehind DEF TallyInv, Does
  <1>5. CASE run' = Moved(EndAudit, 1, 1, 1) /\ report' = [report EXCEPT !.aborted = report.sets = Computers]
    <2>1. /\ run'.at \in {"l3", "save"} /\ run'.width = run.width /\ run'.tier = run.tier
          /\ run'.incremental = run.incremental /\ run'.comp = 1
          /\ run'.at = "l3" => run.tier = "graph"
      BY <1>5, MovedParts DEF EndAudit
    <2>2. /\ report'.bytes = report.bytes /\ report'.bad = report.bad /\ report'.total = report.total
          /\ report'.ok = report.ok /\ report'.skipped = report.skipped /\ report'.known = report.known
      BY <1>2, <1>5 DEF Reports
    <2>3. Window' /\ Budget' /\ Once' /\ Tally'
      BY <1>1, <1>2, <1>3, <2>1, <2>2, QuietKept DEF Auditing
    <2>4. Fresh'
      BY <2>1, AwayFresh
    <2>5. Cursor'
      BY <1>4, <2>1 DEF Cursor, Does, Auditing
    <2>6. Ranks'
      BY <1>1, <1>3, <2>1, RanksKept DEF TallyInv, Auditing
    <2> QED BY <1>2, <2>3, <2>4, <2>5, <2>6 DEF TallyInv
  <1>6. CASE run.comp <= Len(Layouts) /\ run' = Moved("family", run.comp, 1, 1) /\ report' = report
    <2>1. /\ run'.at = "family" /\ run'.width = run.width /\ run'.tier = run.tier
          /\ run'.incremental = run.incremental /\ run'.comp = run.comp /\ run'.fam = 1
      BY <1>6, MovedParts
    <2>2. \A f \in Files : Behind(f) => Behind(f)'
      BY <1>2, <1>3, <1>6, <2>1, BehindGrows DEF TallyInv, Auditing
    <2>3. Window' /\ Budget' /\ Once' /\ Tally'
      BY <1>1, <1>2, <1>3, <1>4, <1>6, <2>1, <2>2, QuietKept
    <2>4. Fresh'
      BY <2>1, AwayFresh
    <2>5. Cursor'
      <3>1. Here' = Here /\ Here \in Computers
        BY <1>6, <2>1, HereIs DEF Here, TallyInv
      <3>2. Len(Walk[Here]) \in Nat
        BY <3>1, ListingAssumption
      <3>3. 1 <= Len(Walk[Here]) + 1
        BY <3>2
      <3> QED BY <1>6, <2>1, <3>1, <3>3 DEF Cursor, Does, Auditing
    <2>6. Ranks'
      BY <1>1, <1>3, <2>1, RanksKept DEF TallyInv
    <2> QED BY <1>2, <2>3, <2>4, <2>5, <2>6 DEF TallyInv
  <1>7. CASE /\ run.comp <= Len(Layouts) /\ run' = Moved("l2", run.comp + 1, run.fam, run.next)
             /\ report' = [report EXCEPT !.sets = report.sets \cup {Here}]
    <2>1. /\ run'.at = "l2" /\ run'.width = run.width /\ run'.tier = run.tier
          /\ run'.incremental = run.incremental /\ run'.comp = run.comp + 1
      BY <1>7, MovedParts
    <2>2. /\ report'.bytes = report.bytes /\ report'.bad = report.bad /\ report'.total = report.total
          /\ report'.ok = report.ok /\ report'.skipped = report.skipped /\ report'.known = report.known
      BY <1>2, <1>7 DEF Reports
    <2>3. \A f \in Files : Behind(f) => Behind(f)'
      BY <1>7, <2>1, BehindSet DEF TallyInv
    <2>4. Window' /\ Budget' /\ Once' /\ Tally'
      BY <1>1, <1>2, <1>3, <1>4, <2>1, <2>2, <2>3, QuietKept
    <2>5. Fresh'
      BY <2>1, AwayFresh
    <2>6. Cursor'
      <3>1. run.comp + 1 <= Len(Layouts) + 1
        BY <1>4, <1>7
      <3> QED BY <2>1, <3>1 DEF Cursor, Does, Auditing
    <2>7. Ranks'
      BY <1>1, <1>3, <2>1, RanksKept DEF TallyInv
    <2> QED BY <1>2, <2>4, <2>5, <2>6, <2>7 DEF TallyInv
  <1> QED BY <1>5, <1>6, <1>7, AuditSetTyped DEF TallyInv

\* Where the audit goes on within a family, or to its end.
LEMMA InFamilyFacts ==
  ASSUME TallyInv, run.at \in Auditing
  PROVE  /\ Reaches("audit") /\ run.tier # "record" /\ run.comp <= Len(Layouts)
         /\ Here \in Computers /\ Len(Walk[Here]) \in Nat
         /\ run.comp \in Nat \ {0} /\ run.fam \in Nat \ {0} /\ run.next \in Nat \ {0}
         /\ run.width \in Nat \ {0} /\ Len(inflight) \in Nat /\ inflight \in Seq(Futures)
         /\ report \in Reports /\ report.bytes \in Nat /\ MaxBytes \in Nat
         /\ \A f \in report.bad : Behind(f)
PROOF
  <1>1. Reaches("audit") /\ run.tier # "record" /\ run.comp <= Len(Layouts)
    BY DEF TallyInv, Ranks, Cursor
  <1>2. Here \in Computers
    BY <1>1, HereIs DEF TallyInv
  <1>3. Len(Walk[Here]) \in Nat
    BY <1>2, ListingAssumption
  <1>4. inflight \in Seq(Futures)
    BY DEF TallyInv, Typed
  <1>5. report \in Reports /\ report.bytes \in Nat
    BY DEF TallyInv, Typed, Reports
  <1> QED BY <1>1, <1>2, <1>3, <1>4, <1>5, CursorTyped, BadBehind,
             ValidationAssumption, SMTT(30) DEF TallyInv

\* A move within a family, or between two.
LEMMA AuditKept ==
  ASSUME TallyInv, run.at \in Auditing, NEW p \in Auditing, NEW f \in Nat \ {0}, NEW n \in Nat \ {0},
         run' = Moved(p, run.comp, f, n),
         run.fam < f \/ (run.fam = f /\ run.next <= n),
         ledger' = ledger \/ run.incremental
  PROVE  /\ run' \in RunTypes /\ run'.at = p /\ run'.comp = run.comp /\ run'.fam = f /\ run'.next = n
         /\ run'.width = run.width /\ run'.listed = run.listed /\ Here' = Here
         /\ Fresh' /\ Ranks' /\ \A g : Behind(g) => Behind(g)'
PROOF
  <1>1. /\ run'.at = p /\ run'.comp = run.comp /\ run'.fam = f /\ run'.next = n
        /\ run'.width = run.width /\ run'.listed = run.listed
        /\ run'.tier = run.tier /\ run'.incremental = run.incremental
    BY MovedParts
  <1>2. run' \in RunTypes
    BY CursorTyped, MovedTyped DEF TallyInv, Places
  <1>3. Here' = Here
    BY <1>1 DEF Here
  <1>4. \A g : Behind(g) => Behind(g)'
    BY <1>1, <1>2, InFamilyFacts, BehindGrows DEF TallyInv
  <1>5. Fresh'
    BY <1>1, AwayFresh DEF Auditing
  <1>6. Ranks'
    BY <1>1, InFamilyFacts, RanksKept DEF TallyInv, Auditing
  <1> QED BY <1>1, <1>2, <1>3, <1>4, <1>5, <1>6

LEMMA NextFileTally == ASSUME TallyInv, NextFile PROVE TallyInv'
PROOF
  <1>1. /\ Typed' /\ Does("family") /\ run.fam <= Len(Walk[Here]) /\ run.at \in Auditing
        /\ UNCHANGED <<inflight, walk, passed, before, ledger, reads>>
    BY NextFileTyped DEF TallyInv, Does, Auditing
  <1>2. report \in Reports /\ (run.width = 1 => inflight = <<>>)
    BY <1>1 DEF TallyInv, Typed, Window, Does
  <1>3. Len(inflight) <= 2 * run.width
    BY DEF TallyInv, Window
  <1>4. CASE /\ Ahead = {} \/ OverBudget
             /\ run' = Moved("drain", run.comp, run.fam, run.next)
             /\ report' = [report EXCEPT !.aborted = Ahead # {}]
    <2>1. /\ run' \in RunTypes /\ run'.at = "drain" /\ run'.comp = run.comp /\ run'.fam = run.fam
          /\ run'.width = run.width /\ Here' = Here
          /\ Fresh' /\ Ranks' /\ \A g : Behind(g) => Behind(g)'
      BY <1>1, <1>4, InFamilyFacts, AuditKept DEF Auditing
    <2>2. /\ report'.bytes = report.bytes /\ report'.bad = report.bad /\ report'.total = report.total
          /\ report'.ok = report.ok /\ report'.skipped = report.skipped /\ report'.known = report.known
      BY <1>1, <1>4, InFamilyFacts DEF Reports
    <2>3. Budget' /\ Once'
      BY <1>1, <2>1, <2>2, InFamilyFacts, WindowKept DEF Auditing
    <2>4. Tally'
      BY <2>2 DEF TallyInv, Tally
    <2>5. Window'
      BY <1>1, <1>2, <1>3, <2>1 DEF Window, Does, Auditing
    <2>6. Cursor'
      BY <1>1, <2>1, InFamilyFacts DEF Cursor, Does, Auditing
    <2> QED BY <1>1, <2>1, <2>3, <2>4, <2>5, <2>6 DEF TallyInv
  <1>5. CASE /\ Ahead # {}
             /\ run' = Moved("family", run.comp, run.fam, Turn + 1)
             /\ report' = [report EXCEPT !.total = report.total + 1, !.known = report.known + 1]
    <2>1. Turn + 1 \in Nat \ {0} /\ run.next <= Turn + 1
      <3>1. Turn \in Nat \ {0} /\ run.next <= Turn
        BY <1>1, <1>5, TurnFacts DEF TallyInv
      <3> QED BY <1>1, <3>1, InFamilyFacts
    <2> DEFINE n == Turn + 1
    <2> HIDE DEF n
    <2>2. /\ run' \in RunTypes /\ run'.at = "family" /\ run'.comp = run.comp /\ run'.fam = run.fam
          /\ run'.width = run.width /\ Here' = Here
          /\ Fresh' /\ Ranks' /\ \A g : Behind(g) => Behind(g)'
      <3>1. run' = Moved("family", run.comp, run.fam, n) /\ n \in Nat \ {0} /\ run.next <= n
            /\ "family" \in Auditing
        BY <1>5, <2>1 DEF n, Auditing
      <3> QED BY <1>1, <3>1, InFamilyFacts, AuditKept
    <2>3. /\ report'.bytes = report.bytes /\ report'.bad = report.bad
          /\ report'.total = report.total + 1
          /\ report'.ok = report.ok /\ report'.skipped = report.skipped
          /\ report'.known = report.known + 1
      BY <1>1, <1>5, InFamilyFacts DEF Reports
    <2>4. Budget' /\ Once'
      BY <1>1, <2>2, <2>3, InFamilyFacts, WindowKept DEF Auditing
    <2>5. Tally'
      <3> DEFINE m == Cardinality(report.bad)
      <3>1. /\ IsFiniteSet(report.bad) /\ m \in Nat
            /\ report.total = report.ok + report.skipped + report.known + m
        BY FS_CardinalityType DEF TallyInv, Tally
      <3>2. report.total \in Nat /\ report.ok \in Nat /\ report.skipped \in Nat /\ report.known \in Nat
        BY <1>1, InFamilyFacts DEF Reports
      <3>3. Cardinality(report'.bad) = m /\ IsFiniteSet(report'.bad)
        BY <2>3, <3>1
      <3> HIDE DEF m
      <3>4. report'.total = report'.ok + report'.skipped + report'.known + m
        BY <2>3, <3>1, <3>2
      <3> QED BY <3>3, <3>4 DEF Tally
    <2>6. Window'
      BY <1>1, <1>2, <1>3, <2>2, InFamilyFacts DEF Window, Does, Auditing
    <2>7. Cursor'
      BY <1>1, <2>2, InFamilyFacts DEF Cursor, Does, Auditing
    <2> QED BY <1>1, <2>2, <2>4, <2>5, <2>6, <2>7 DEF TallyInv
  <1>6. CASE /\ Ahead # {} /\ ~OverBudget
             /\ run' = Moved(IF Full THEN "wait" ELSE "submit", run.comp, run.fam, run.next)
             /\ report' = report
    <2> DEFINE p == IF Full THEN "wait" ELSE "submit"
    <2>1. p \in Auditing
      BY DEF Auditing
    <2>2. p = "submit" => ~Full
      OBVIOUS
    <2>3. p = "wait" => Full
      OBVIOUS
    <2>4. p \in {"wait", "submit"} /\ run' = Moved(p, run.comp, run.fam, run.next)
      BY <1>6
    <2> HIDE DEF p
    <2>5. /\ run' \in RunTypes /\ run'.at = p /\ run'.comp = run.comp /\ run'.fam = run.fam
          /\ run'.next = run.next /\ run'.width = run.width /\ run'.listed = run.listed /\ Here' = Here
          /\ Fresh' /\ Ranks' /\ \A g : Behind(g) => Behind(g)'
      BY <1>1, <2>1, <2>4, InFamilyFacts, AuditKept
    <2>6. MaxBytes > 0 => report.bytes < MaxBytes
      BY <1>1, <1>6, InFamilyFacts DEF OverBudget
    <2>7. Budget' /\ Once'
      BY <1>1, <1>6, <2>4, <2>5, <2>6, InFamilyFacts, WindowKept DEF Auditing
    <2>8. Tally'
      BY <1>6 DEF TallyInv, Tally
    <2>9. p = "submit" => Len(inflight) < 2 * run.width
      <3>1. CASE run.width = 1
        <4>1. inflight = <<>> /\ Len(inflight) = 0
          BY <1>2, <3>1
        <4> QED BY <3>1, <4>1
      <3>2. CASE run.width # 1
        <4>1. Full <=> Len(inflight) >= 2 * run.width
          BY <3>2 DEF Full
        <4> QED BY <1>1, <2>2, <4>1, InFamilyFacts
      <3> QED BY <3>1, <3>2
    <2>10. p = "wait" => run.width > 1
      <3>1. run.width = 1 => ~Full
        BY <1>2 DEF Full
      <3> QED BY <1>1, <2>3, <3>1, InFamilyFacts
    <2>11. Window'
      BY <1>1, <1>2, <1>3, <2>1, <2>4, <2>5, <2>9, <2>10 DEF Window, Does
    <2>12. Ahead' = Ahead
      BY <2>5 DEF Ahead, Family
    <2>13. Cursor'
      BY <1>1, <1>6, <2>4, <2>5, <2>12, InFamilyFacts DEF Cursor, Does, Auditing
    <2> QED BY <1>1, <2>5, <2>7, <2>8, <2>11, <2>13 DEF TallyInv
  <1> QED BY <1>4, <1>5, <1>6, NextFileTyped DEF TallyInv

\* One more in the window, not yet looked at.
LEMMA AppendedFacts ==
  ASSUME inflight \in Seq(Futures), NEW e \in Futures, inflight' = Append(inflight, e), e.out = "none"
  PROVE  /\ Len(inflight') = Len(inflight) + 1 /\ ReadOnes' = ReadOnes
         /\ Len(inflight) \in Nat /\ DOMAIN inflight = 1..Len(inflight)
         /\ DOMAIN inflight' = 1..(Len(inflight) + 1)
         /\ \A j \in 1..Len(inflight) : inflight'[j] = inflight[j]
         /\ inflight'[Len(inflight) + 1] = e
PROOF
  <1> DEFINE n == Len(inflight)
  <1>1. /\ n \in Nat /\ DOMAIN inflight = 1..n /\ inflight' \in Seq(Futures)
        /\ Len(inflight') = n + 1 /\ DOMAIN inflight' = 1..(n + 1)
        /\ \A j \in 1..n : inflight'[j] = inflight[j]
        /\ inflight'[n + 1] = e
    OBVIOUS
  <1> HIDE DEF n
  <1>2. 1..n \subseteq 1..(n + 1) /\ \A j \in 1..(n + 1) : j \in 1..n \/ j = n + 1
    BY <1>1
  <1>3. ASSUME NEW d PROVE d \in ToSet(inflight') /\ d.out # "none" <=> d \in ToSet(inflight) /\ d.out # "none"
    <2>1. d \in ToSet(inflight') <=> \E j \in 1..(n + 1) : d = inflight'[j]
      BY <1>1 DEF ToSet
    <2>2. d \in ToSet(inflight) <=> \E j \in 1..n : d = inflight[j]
      BY <1>1 DEF ToSet
    <2> QED BY <1>1, <1>2, <2>1, <2>2
  <1>4. ReadOnes' = ReadOnes
    <2>1. ReadOnes' = {d \in ToSet(inflight') : d.out \in {"ok", "bad"}}
      BY DEF ReadOnes
    <2> QED BY <1>3, <2>1 DEF ReadOnes
  <1> QED BY <1>1, <1>4 DEF n

LEMMA SubmitTally == ASSUME TallyInv, Submit PROVE TallyInv'
PROOF
  <1>1. /\ Typed' /\ Does("submit") /\ run.at \in Auditing
        /\ UNCHANGED <<report, passed, before, ledger, walk, reads>>
        /\ Ahead # {} /\ run.fam <= Len(Walk[Here])
        /\ run' = Moved(IF run.width = 1 THEN "alone" ELSE "family", run.comp, run.fam, Turn + 1)
        /\ inflight' = Append(inflight, [file |-> File, out |-> "none"])
    BY SubmitTyped DEF TallyInv, Does, Auditing
  <1>2. /\ ~Behind(File) /\ Turn \in Nat \ {0} /\ run.next <= Turn /\ File \in Files
        /\ run' = Moved(run'.at, run.comp, run.fam, Turn + 1) /\ run'.at \in Auditing =>
              \A f : f = File => Behind(f)'
    BY <1>1, TurnFacts DEF TallyInv
  <1> DEFINE p == IF run.width = 1 THEN "alone" ELSE "family"
             n == Turn + 1
             e == [file |-> File, out |-> "none"]
  <1>3. /\ p \in Auditing /\ p \in {"alone", "family"} /\ n \in Nat \ {0} /\ run.next <= n
        /\ p = "alone" <=> run.width = 1
    BY <1>1, <1>2, InFamilyFacts, SMTT(30) DEF Auditing
  <1>4. e \in Futures /\ e.file = File /\ e.out = "none"
    BY <1>2 DEF Futures, Outcomes
  <1>5. run' = Moved(p, run.comp, run.fam, n) /\ inflight' = Append(inflight, e)
    BY <1>1
  <1> HIDE DEF p, n, e
  <1>6. /\ run' \in RunTypes /\ run'.at = p /\ run'.comp = run.comp /\ run'.fam = run.fam
        /\ run'.width = run.width /\ Here' = Here
        /\ Fresh' /\ Ranks' /\ \A g : Behind(g) => Behind(g)'
    BY <1>1, <1>3, <1>5, InFamilyFacts, AuditKept
  <1>7. \A f : f = File => Behind(f)'
    BY <1>2, <1>3, <1>5, <1>6 DEF n
  <1>8. /\ Len(inflight') = Len(inflight) + 1 /\ ReadOnes' = ReadOnes /\ Len(inflight) \in Nat
        /\ DOMAIN inflight = 1..Len(inflight)
        /\ DOMAIN inflight' = 1..(Len(inflight) + 1)
        /\ \A j \in 1..Len(inflight) : inflight'[j] = inflight[j]
        /\ inflight'[Len(inflight) + 1] = e
    BY <1>1, <1>4, <1>5, InFamilyFacts, AppendedFacts
  <1>9. \A j \in 1..(Len(inflight) + 1) : j \in 1..Len(inflight) \/ j = Len(inflight) + 1
    BY <1>8
  <1>10. /\ \A i, j \in DOMAIN inflight : inflight[i].file = inflight[j].file => i = j
         /\ \A f \in Files : InWindow(f) => f \notin report.bad /\ Behind(f)
         /\ \A f \in report.bad : Behind(f)
         /\ Len(inflight) < 2 * run.width
         /\ MaxBytes > 0 => report.bytes < MaxBytes
         /\ reads = report.bytes + Cardinality(ReadOnes)
         /\ run.width = 1 => inflight = <<>>
    BY <1>1 DEF TallyInv, Once, Window, Budget, Does
  <1>11. \A j \in DOMAIN inflight : inflight[j].file # File
    BY <1>2, <1>10 DEF InWindow
  <1>12. Once'
    <2>1. \A i, j \in DOMAIN inflight' : inflight'[i].file = inflight'[j].file => i = j
      BY <1>4, <1>8, <1>9, <1>10, <1>11
    <2>2. ASSUME NEW f \in Files, InWindow(f)' PROVE f \notin report'.bad /\ Behind(f)'
      <3>1. InWindow(f) \/ f = File
        BY <1>4, <1>8, <1>9, <2>2 DEF InWindow
      <3>2. f \notin report.bad
        BY <1>2, <1>10, <3>1
      <3> QED BY <1>1, <1>6, <1>7, <1>10, <3>1, <3>2
    <2>3. \A f \in report'.bad : Behind(f)'
      BY <1>1, <1>6, <1>10
    <2>4. run'.at \notin {"idle", "l0", "l1a", "l1b"}
      BY <1>3, <1>6
    <2> QED BY <2>1, <2>2, <2>3, <2>4 DEF Once
  <1>13. Budget'
    <2>1. MaxBytes > 0 => report.bytes + (Len(inflight) + 1) < MaxBytes + 2 * run.width
      BY <1>1, <1>8, <1>10, InFamilyFacts
    <2> QED BY <1>1, <1>3, <1>6, <1>8, <1>10, <2>1 DEF Budget, Does
  <1>14. Tally'
    BY <1>1 DEF TallyInv, Tally
  <1>15. Window'
    <2>1. Len(inflight) + 1 <= 2 * run.width
      BY <1>1, <1>8, <1>10, InFamilyFacts
    <2>2. p = "alone" => Len(inflight) + 1 = 1
      BY <1>3, <1>10
    <2> QED BY <1>1, <1>3, <1>6, <1>8, <2>1, <2>2, InFamilyFacts, SMTT(30) DEF Window, Does
  <1>16. Cursor'
    <2>1. run.comp <= Len(Layouts) /\ Len(Walk[Here]) \in Nat /\ run.fam \in Nat
      BY <1>1, InFamilyFacts
    <2>2. run.fam <= Len(Walk[Here]) + 1
      BY <1>1, <2>1
    <2>3. run'.at \in {"alone", "family"}
      BY <1>3, <1>6
    <2> QED BY <1>1, <1>6, <2>1, <2>2, <2>3 DEF Cursor, Does, Auditing
  <1> QED BY <1>1, <1>6, <1>12, <1>13, <1>14, <1>15, <1>16 DEF TallyInv

LEMMA ComputeTally == ASSUME TallyInv, Compute PROVE TallyInv'
PROOF
  <1>1. /\ Typed' /\ UNCHANGED <<run, walk, report, ledger, before>> /\ inflight \in Seq(Futures)
    BY ComputeTyped DEF TallyInv, Typed
  <1>2. PICK i \in DOMAIN inflight, out \in Outcomes \ {"none"} :
          /\ inflight[i].out = "none"
          /\ inflight' = [inflight EXCEPT ![i] = [file |-> inflight[i].file, out |-> out]]
          /\ reads' = IF out \in {"ok", "bad"} THEN reads + 1 ELSE reads
    BY ComputeTyped DEF TallyInv
  <1> DEFINE d == inflight[i]
             e == [file |-> d.file, out |-> out]
  <1>3. d \in Futures /\ d.file \in Files /\ e \in Futures /\ e.file = d.file /\ e.out = out
    <2>1. d \in Futures
      BY <1>1
    <2> HIDE DEF d
    <2> QED BY <1>2, <2>1 DEF Futures
  <1>4. /\ Len(inflight') = Len(inflight) /\ DOMAIN inflight' = DOMAIN inflight
        /\ Len(inflight) \in Nat
        /\ \A j \in DOMAIN inflight : inflight'[j] = IF j = i THEN e ELSE inflight[j]
        /\ inflight' \in Seq(Futures)
    <2> HIDE DEF d, e
    <2>1. inflight' = [inflight EXCEPT ![i] = e]
      BY <1>2 DEF d, e
    <2> QED BY <1>1, <1>3, <2>1
  <1> HIDE DEF e
  <1>5. /\ \A j \in DOMAIN inflight : inflight'[j].file = inflight[j].file
        /\ \A j, k \in DOMAIN inflight : inflight[j].file = inflight[k].file => j = k
    BY <1>3, <1>4 DEF TallyInv, Once
  <1>6. \A f \in Files : InWindow(f)' => InWindow(f)
    BY <1>4, <1>5 DEF InWindow
  <1>7. run.at \in Auditing
    <2>1. inflight # <<>>
      OBVIOUS
    <2> QED BY <2>1 DEF TallyInv, Window
  <1>8. Here' = Here
    BY <1>1 DEF Here
  <1>9. Once'
    <2>1. \A g : Behind(g) => Behind(g)'
      BY <1>1, <1>8 DEF Behind, BehindIn
    <2>2. \A j, k \in DOMAIN inflight' : inflight'[j].file = inflight'[k].file => j = k
      BY <1>4, <1>5
    <2>3. \A f \in Files : InWindow(f)' => f \notin report'.bad /\ Behind(f)'
      BY <1>1, <1>6, <2>1 DEF TallyInv, Once
    <2>4. \A f \in report'.bad : Behind(f)'
      BY <1>1, <1>7, <2>1, InFamilyFacts
    <2>5. run'.at \notin {"idle", "l0", "l1a", "l1b"}
      BY <1>1, <1>7 DEF Auditing
    <2> QED BY <2>2, <2>3, <2>4, <2>5 DEF Once
  <1>10. reads' = report'.bytes + Cardinality(ReadOnes')
    <2>1. /\ reads = report.bytes + Cardinality(ReadOnes) /\ report.bytes \in Nat
          /\ IsFiniteSet(ReadOnes) /\ Cardinality(ReadOnes) \in Nat
      BY <1>1, <1>7, ReadOnesFacts, InFamilyFacts DEF TallyInv, Budget
    <2>2. ASSUME NEW x
          PROVE  /\ x \in ToSet(inflight') => x = e \/ (x \in ToSet(inflight) /\ x # d)
                 /\ x = e => x \in ToSet(inflight')
                 /\ x \in ToSet(inflight) /\ x # d => x \in ToSet(inflight') /\ x # e
      <3>1. x \in ToSet(inflight') <=> \E j \in DOMAIN inflight : x = inflight'[j]
        BY <1>4, PlaceOf
      <3>2. x \in ToSet(inflight) <=> \E j \in DOMAIN inflight : x = inflight[j]
        BY <1>1, PlaceOf
      <3>3. \A j \in DOMAIN inflight : j # i => inflight[j].file # d.file
        BY <1>5
      <3> QED BY <1>3, <1>4, <3>1, <3>2, <3>3
    <2>3. d.out = "none"
      BY <1>2
    <2>4. ReadOnes' = {x \in ToSet(inflight') : x.out \in {"ok", "bad"}}
      BY DEF ReadOnes
    <2>5. CASE out \in {"ok", "bad"}
      <3>1. ReadOnes' = ReadOnes \cup {e}
        BY <1>3, <2>2, <2>3, <2>4, <2>5 DEF ReadOnes
      <3>2. e \notin ReadOnes
        BY <1>3, <2>2, <2>3, <2>5 DEF ReadOnes
      <3>3. Cardinality(ReadOnes') = Cardinality(ReadOnes) + 1
        BY <2>1, <3>1, <3>2, FS_AddElement
      <3> QED BY <1>1, <1>2, <2>1, <2>5, <3>3
    <2>6. CASE out \notin {"ok", "bad"}
      <3>1. ReadOnes' = ReadOnes
        BY <1>3, <2>2, <2>3, <2>4, <2>6 DEF ReadOnes
      <3> QED BY <1>1, <1>2, <2>1, <2>6, <3>1
    <2> QED BY <2>5, <2>6
  <1>11. Budget'
    BY <1>1, <1>4, <1>10 DEF TallyInv, Budget, Does
  <1>12. Tally'
    BY <1>1 DEF TallyInv, Tally
  <1>13. Window'
    <2>1. inflight # <<>>
      OBVIOUS
    <2>2. inflight' # <<>> /\ Len(inflight') = Len(inflight)
      BY <1>4
    <2> QED BY <1>1, <1>8, <2>1, <2>2 DEF TallyInv, Window, Does
  <1>14. Cursor'
    BY <1>1, <1>8 DEF TallyInv, Cursor, Does, Ahead, Family
  <1>15. Fresh' /\ Ranks'
    BY <1>1, <1>7, AwayFresh DEF TallyInv, Ranks, Does, Reaches, Auditing
  <1> QED BY <1>1, <1>9, <1>11, <1>12, <1>13, <1>14, <1>15 DEF TallyInv

LEMMA WaitTally == ASSUME TallyInv, Wait PROVE TallyInv'
PROOF
  <1>1. /\ Typed' /\ Does("wait") /\ run.at \in Auditing /\ UNCHANGED <<walk, reads>>
        /\ run' = run \/ run' = Moved("recheck", run.comp, run.fam, run.next)
    BY WaitTyped DEF TallyInv, Does, Auditing
  <1>2. PICK i \in DoneNow : TakeOut(i)
    BY DEF Wait
  <1>3. ledger' = ledger \/ run.incremental
    BY <1>2, TakeOutTyped DEF TallyInv
  <1>4. PICK p \in {"wait", "recheck"} : run' = Moved(p, run.comp, run.fam, run.next)
    <2>1. run = Moved("wait", run.comp, run.fam, run.next)
      BY <1>1, CursorTyped DEF TallyInv, RunTypes, Moved, Does
    <2> QED BY <1>1, <2>1
  <1>5. /\ run' \in RunTypes /\ run'.at = p /\ run'.comp = run.comp /\ run'.fam = run.fam
        /\ run'.next = run.next /\ run'.width = run.width /\ run'.listed = run.listed /\ Here' = Here
        /\ Fresh' /\ Ranks' /\ \A g : Behind(g) => Behind(g)'
    BY <1>1, <1>3, <1>4, InFamilyFacts, AuditKept DEF Auditing
  <1>6. /\ Budget' /\ Once' /\ Tally' /\ Len(inflight') = Len(inflight) - 1
        /\ Len(inflight) \in Nat \ {0} /\ inflight' \in Seq(Futures)
    BY <1>1, <1>2, <1>4, <1>5, TakeOutTally DEF Auditing
  <1>7. Window'
    <2>1. run.width > 1 /\ Len(inflight) <= 2 * run.width
      BY <1>1 DEF TallyInv, Window, Does
    <2>2. Len(inflight') <= 2 * run.width /\ Len(inflight') < 2 * run.width
      BY <1>1, <1>6, <2>1, InFamilyFacts
    <2> QED BY <1>1, <1>4, <1>5, <2>1, <2>2, InFamilyFacts DEF Window, Does, Auditing
  <1>8. Ahead' = Ahead
    BY <1>5 DEF Ahead, Family
  <1>9. Cursor'
    BY <1>1, <1>4, <1>5, <1>8, InFamilyFacts DEF TallyInv, Cursor, Does, Auditing
  <1> QED BY <1>1, <1>5, <1>6, <1>7, <1>9 DEF TallyInv

LEMMA AloneTally == ASSUME TallyInv, Alone PROVE TallyInv'
PROOF
  <1>1. /\ Typed' /\ Does("alone") /\ run.at \in Auditing /\ UNCHANGED <<walk, reads>>
        /\ run' = Moved("family", run.comp, run.fam, run.next)
    BY AloneTyped DEF TallyInv, Does, Auditing
  <1>2. PICK i \in DoneNow : TakeOut(i)
    BY DEF Alone
  <1>3. ledger' = ledger \/ run.incremental
    BY <1>2, TakeOutTyped DEF TallyInv
  <1>4. /\ run' \in RunTypes /\ run'.at = "family" /\ run'.comp = run.comp /\ run'.fam = run.fam
        /\ run'.next = run.next /\ run'.width = run.width /\ run'.listed = run.listed /\ Here' = Here
        /\ Fresh' /\ Ranks' /\ \A g : Behind(g) => Behind(g)'
    BY <1>1, <1>3, InFamilyFacts, AuditKept DEF Auditing
  <1>5. /\ Budget' /\ Once' /\ Tally' /\ Len(inflight') = Len(inflight) - 1
        /\ Len(inflight) \in Nat \ {0} /\ inflight' \in Seq(Futures)
    BY <1>1, <1>2, <1>4, TakeOutTally DEF Auditing
  <1>6. Window'
    <2>1. run.width = 1 /\ Len(inflight) = 1
      BY <1>1 DEF TallyInv, Window, Does
    <2>2. inflight' = <<>> /\ Len(inflight') = 0
      BY <1>5, <2>1
    <2> QED BY <1>1, <1>4, <2>1, <2>2 DEF Window, Does
  <1>7. Cursor'
    BY <1>1, <1>4, InFamilyFacts DEF TallyInv, Cursor, Does, Auditing
  <1> QED BY <1>1, <1>4, <1>5, <1>6, <1>7 DEF TallyInv

LEMMA RecheckTally == ASSUME TallyInv, Recheck PROVE TallyInv'
PROOF
  <1> DEFINE p == IF OverBudget THEN "drain" ELSE "submit"
  <1>1. /\ Typed' /\ Does("recheck") /\ run.at \in Auditing
        /\ UNCHANGED <<inflight, walk, passed, before, ledger, reads>>
        /\ run' = Moved(p, run.comp, run.fam, run.next)
        /\ report' = [report EXCEPT !.aborted = OverBudget]
    BY RecheckTyped DEF TallyInv, Does, Auditing
  <1>2. p \in {"drain", "submit"} /\ p \in Auditing /\ (p = "submit" => ~OverBudget)
    BY DEF Auditing
  <1> HIDE DEF p
  <1>3. /\ run' \in RunTypes /\ run'.at = p /\ run'.comp = run.comp /\ run'.fam = run.fam
        /\ run'.next = run.next /\ run'.width = run.width /\ run'.listed = run.listed /\ Here' = Here
        /\ Fresh' /\ Ranks' /\ \A g : Behind(g) => Behind(g)'
    BY <1>1, <1>2, InFamilyFacts, AuditKept
  <1>4. /\ report'.bytes = report.bytes /\ report'.bad = report.bad /\ report'.total = report.total
        /\ report'.ok = report.ok /\ report'.skipped = report.skipped /\ report'.known = report.known
    BY <1>1, InFamilyFacts DEF Reports
  <1>5. p = "submit" /\ MaxBytes > 0 => report.bytes < MaxBytes
    BY <1>1, <1>2, InFamilyFacts DEF OverBudget
  <1>6. Budget' /\ Once'
    BY <1>1, <1>2, <1>3, <1>4, <1>5, InFamilyFacts, WindowKept DEF Auditing
  <1>7. Tally'
    BY <1>4 DEF TallyInv, Tally
  <1>8. run.width > 1 /\ Len(inflight) < 2 * run.width
    BY <1>1 DEF TallyInv, Window, Does
  <1>9. Window'
    BY <1>1, <1>2, <1>3, <1>8, InFamilyFacts DEF Window, Does
  <1>10. Ahead' = Ahead
    BY <1>3 DEF Ahead, Family
  <1>11. Cursor'
    BY <1>1, <1>2, <1>3, <1>10, InFamilyFacts DEF TallyInv, Cursor, Does, Auditing
  <1> QED BY <1>1, <1>3, <1>6, <1>7, <1>9, <1>11 DEF TallyInv

\* What is in flight is merged, then the next family begins or the audit ends.
LEMMA DrainTally == ASSUME TallyInv, Drain PROVE TallyInv'
PROOF
  <1>1. /\ Typed' /\ Does("drain") /\ run.at \in Auditing /\ UNCHANGED <<walk, reads>>
    BY DrainTyped DEF TallyInv, Does, Auditing
  <1>2. ASSUME run' = run, NEW i \in DoneNow, TakeOut(i) PROVE TallyInv'
    <2>1. ledger' = ledger \/ run.incremental
      BY <1>2, TakeOutTyped DEF TallyInv
    <2>2. run' = Moved("drain", run.comp, run.fam, run.next)
      BY <1>1, <1>2, CursorTyped DEF TallyInv, RunTypes, Moved, Does
    <2>3. /\ run'.at = "drain" /\ run'.comp = run.comp /\ run'.fam = run.fam
          /\ run'.width = run.width /\ Here' = Here
          /\ Fresh' /\ Ranks' /\ \A g : Behind(g) => Behind(g)'
      BY <1>1, <2>1, <2>2, InFamilyFacts, AuditKept DEF Auditing
    <2>4. /\ Budget' /\ Once' /\ Tally' /\ Len(inflight') = Len(inflight) - 1
          /\ Len(inflight) \in Nat \ {0} /\ inflight' \in Seq(Futures)
      BY <1>1, <1>2, <2>3, TakeOutTally DEF Auditing
    <2>5. Window'
      <3>1. run.width # 1 /\ Len(inflight) <= 2 * run.width
        <4>1. run.width = 1 => inflight = <<>>
          BY <1>1 DEF TallyInv, Window, Does
        <4>2. inflight # <<>>
          BY <2>4
        <4> QED BY <4>1, <4>2 DEF TallyInv, Window
      <3>2. Len(inflight') <= 2 * run.width
        BY <1>1, <2>4, <3>1, InFamilyFacts
      <3> QED BY <1>1, <2>3, <3>1, <3>2 DEF Window, Does, Auditing
    <2>6. Cursor'
      BY <1>1, <2>3, InFamilyFacts DEF TallyInv, Cursor, Does, Auditing
    <2> QED BY <1>1, <2>3, <2>4, <2>5, <2>6 DEF TallyInv
  <1>3. CASE inflight = <<>> /\ UNCHANGED <<inflight, report, ledger>> /\ run' = Moved(EndAudit, 1, 1, 1)
    <2>1. /\ run'.at \in {"l3", "save"} /\ run'.width = run.width /\ run'.tier = run.tier
          /\ run'.incremental = run.incremental /\ run'.comp = 1
          /\ run'.at = "l3" => run.tier = "graph"
      BY <1>3, MovedParts DEF EndAudit
    <2>2. run' \in RunTypes
      BY <1>1 DEF Typed
    <2>3. Window' /\ Budget' /\ Once' /\ Tally'
      BY <1>1, <1>3, <2>1, <2>2, QuietKept DEF Auditing
    <2>4. Fresh'
      BY <2>1, AwayFresh
    <2>5. 1 <= Len(Layouts) + 1
      BY LayoutsFacts
    <2>6. Cursor'
      BY <2>1, <2>5 DEF Cursor, Does, Auditing
    <2>7. Ranks'
      BY <1>1, <1>3, <2>1, InFamilyFacts, RanksKept DEF TallyInv, Auditing
    <2> QED BY <1>1, <2>3, <2>4, <2>6, <2>7 DEF TallyInv
  <1>4. CASE /\ inflight = <<>> /\ UNCHANGED <<inflight, report, ledger>>
             /\ run' = Moved("family", run.comp, run.fam + 1, 1)
    <2> DEFINE f == run.fam + 1
    <2>1. f \in Nat \ {0} /\ run.fam < f /\ 1 \in Nat \ {0} /\ run' = Moved("family", run.comp, f, 1)
      BY <1>1, <1>4, InFamilyFacts
    <2> HIDE DEF f
    <2>2. /\ run' \in RunTypes /\ run'.at = "family" /\ run'.comp = run.comp /\ run'.fam = f
          /\ run'.width = run.width /\ Here' = Here
          /\ Fresh' /\ Ranks' /\ \A g : Behind(g) => Behind(g)'
      BY <1>1, <1>4, <2>1, InFamilyFacts, AuditKept DEF Auditing
    <2>3. Window' /\ Budget' /\ Once' /\ Tally'
      BY <1>1, <1>4, <2>2, InFamilyFacts, QuietKept
    <2>4. f <= Len(Walk[Here]) + 1
      BY <1>1, InFamilyFacts DEF f, TallyInv, Cursor, Does, Auditing
    <2>5. Cursor'
      BY <1>1, <2>2, <2>4, InFamilyFacts DEF Cursor, Does, Auditing
    <2> QED BY <1>1, <2>2, <2>3, <2>5 DEF TallyInv
  <1> QED BY <1>2, <1>3, <1>4, DrainTyped DEF TallyInv

LEMMA SetDoneTally == ASSUME TallyInv, SetDone PROVE TallyInv'
PROOF
  <1>1. /\ Typed' /\ Does("family") /\ run.fam > Len(Walk[Here]) /\ run.at \in Auditing
        /\ UNCHANGED <<inflight, walk, passed, before, ledger, reads, report>>
        /\ run' = Moved("l2", run.comp + 1, run.fam, run.next)
    BY SetDoneTyped DEF TallyInv, Does, Auditing
  <1>2. inflight = <<>>
    BY <1>1 DEF TallyInv, Window
  <1>3. /\ run'.at = "l2" /\ run'.width = run.width /\ run'.tier = run.tier
        /\ run'.incremental = run.incremental /\ run'.comp = run.comp + 1 /\ run' \in RunTypes
    BY <1>1, MovedParts DEF Typed
  <1>4. \A f \in Files : Behind(f) => Behind(f)'
    BY <1>1, <1>3, InFamilyFacts, BehindSet DEF TallyInv
  <1>5. Window' /\ Budget' /\ Once' /\ Tally'
    BY <1>1, <1>2, <1>3, <1>4, InFamilyFacts, QuietKept
  <1>6. Fresh'
    BY <1>3, AwayFresh
  <1>7. run.comp + 1 <= Len(Layouts) + 1
    BY <1>1, InFamilyFacts, LayoutsFacts
  <1>8. Cursor'
    BY <1>3, <1>7 DEF Cursor, Does, Auditing
  <1>9. Ranks'
    BY <1>1, <1>3, InFamilyFacts, RanksKept DEF TallyInv
  <1> QED BY <1>1, <1>5, <1>6, <1>8, <1>9 DEF TallyInv

\* Outside the audit: the tallies and the window are left alone.
LEMMA OutsideKept ==
  ASSUME TallyInv, Typed', run.at \notin Auditing, inflight' = inflight, reads' = reads,
         NEW p \in {"l3", "open", "walk", "save", "done"}, NEW c, NEW f, NEW n,
         run' = Moved(p, c, f, n),
         report'.bytes = report.bytes, report'.bad = report.bad, report'.total = report.total,
         report'.ok = report.ok, report'.skipped = report.skipped, report'.known = report.known
  PROVE  /\ Window' /\ Budget' /\ Once' /\ Tally' /\ Fresh'
         /\ run'.at = p /\ run'.comp = c /\ run'.fam = f /\ run'.next = n
         /\ run'.tier = run.tier /\ run'.width = run.width /\ run'.incremental = run.incremental
PROOF
  <1>1. /\ run'.at = p /\ run'.comp = c /\ run'.fam = f /\ run'.next = n
        /\ run'.tier = run.tier /\ run'.width = run.width /\ run'.incremental = run.incremental
        /\ run' \in RunTypes
    BY MovedParts DEF Typed
  <1>2. inflight = <<>>
    BY EmptyWindow
  <1>3. Window' /\ Budget' /\ Once' /\ Tally'
    BY <1>1, <1>2, QuietKept DEF Auditing
  <1>4. Fresh'
    BY <1>1, AwayFresh
  <1> QED BY <1>1, <1>3, <1>4

LEMMA GraphTally == ASSUME TallyInv, GraphCheck PROVE TallyInv'
PROOF
  <1>1. /\ Typed' /\ Does("l3") /\ UNCHANGED <<inflight, passed, before, ledger, reads>>
        /\ run.at \notin Auditing /\ run.tier = "graph" /\ report \in Reports
        /\ Len(Layouts) \in Nat /\ run.comp \in Nat
    BY GraphCheckTyped, LayoutsFacts, CursorTyped DEF TallyInv, Does, Auditing, Ranks
  <1>2. CASE run' = Moved("save", 1, 1, 1) /\ report' = report
    <2>1. /\ Window' /\ Budget' /\ Once' /\ Tally' /\ Fresh' /\ run'.at = "save"
          /\ run'.tier = run.tier /\ run'.incremental = run.incremental
      BY <1>1, <1>2, OutsideKept
    <2>2. Cursor' /\ Ranks'
      BY <1>1, <2>1, CursorAway, RanksKept DEF Auditing, TallyInv
    <2> QED BY <1>1, <2>1, <2>2 DEF TallyInv
  <1>3. ASSUME run.comp <= Len(Layouts), run' = Moved("l3", run.comp + 1, run.fam, 1),
               report' = report \/ report' = [report EXCEPT !.unlisted = report.unlisted \cup {Here}]
        PROVE  TallyInv'
    <2>1. /\ report'.bytes = report.bytes /\ report'.bad = report.bad /\ report'.total = report.total
          /\ report'.ok = report.ok /\ report'.skipped = report.skipped /\ report'.known = report.known
      BY <1>1, <1>3 DEF Reports
    <2>2. /\ Window' /\ Budget' /\ Once' /\ Tally' /\ Fresh' /\ run'.at = "l3" /\ run'.comp = run.comp + 1
          /\ run'.tier = run.tier /\ run'.incremental = run.incremental
      BY <1>1, <1>3, <2>1, OutsideKept
    <2>3. run'.comp <= Len(Layouts) + 1
      BY <1>1, <1>3, <2>2
    <2>4. Cursor'
      BY <2>2, <2>3 DEF Cursor, Does, Auditing
    <2>5. Ranks'
      BY <1>1, <2>2, RanksKept DEF Auditing, TallyInv
    <2> QED BY <1>1, <2>2, <2>4, <2>5 DEF TallyInv
  <1>4. CASE /\ run.comp <= Len(Layouts) /\ run' = Moved("open", run.comp, run.fam, run.next + 1)
             /\ report' = report /\ walk'.rec \in AllRecords
    <2>1. /\ Window' /\ Budget' /\ Once' /\ Tally' /\ Fresh' /\ run'.at = "open" /\ run'.comp = run.comp
          /\ run'.tier = run.tier /\ run'.incremental = run.incremental
      BY <1>1, <1>4, OutsideKept
    <2>2. Cursor'
      BY <1>4, <2>1 DEF Cursor, Does, Auditing
    <2>3. Ranks'
      BY <1>1, <1>4, <2>1, RanksKept DEF Auditing, TallyInv
    <2> QED BY <1>1, <2>1, <2>2, <2>3 DEF TallyInv
  <1> QED BY <1>2, <1>3, <1>4, GraphCheckTyped DEF TallyInv

\* The walk of a record begins, or ends.
LEMMA WalkMoveTally ==
  ASSUME TallyInv, Typed', run.at \in {"open", "walk"}, UNCHANGED <<inflight, ledger, reads>>,
         walk.rec \in AllRecords, walk'.rec = walk.rec,
         NEW p \in {"walk", AfterPlace}, run' = Moved(p, run.comp, run.fam, run.next),
         report' = report \/ \E g : report' = [report EXCEPT !.graph = g]
  PROVE  TallyInv'
PROOF
  <1>1. /\ run.at \notin Auditing /\ report \in Reports /\ run.tier \in {"graph", "record"}
    BY DEF TallyInv, Typed, Ranks, Auditing
  <1>2. p \in {"l3", "walk", "save"} /\ (p = "l3" => run.tier # "record")
    BY DEF AfterPlace
  <1>3. /\ report'.bytes = report.bytes /\ report'.bad = report.bad /\ report'.total = report.total
        /\ report'.ok = report.ok /\ report'.skipped = report.skipped /\ report'.known = report.known
    BY <1>1 DEF Reports
  <1>4. /\ Window' /\ Budget' /\ Once' /\ Tally' /\ Fresh' /\ run'.at = p /\ run'.comp = run.comp
        /\ run'.tier = run.tier /\ run'.incremental = run.incremental
    BY <1>1, <1>2, <1>3, OutsideKept
  <1>5. run.tier = "graph" => run.comp <= Len(Layouts) /\ run.comp <= Len(Layouts) + 1
    BY LayoutsFacts, CursorTyped DEF TallyInv, Cursor
  <1>6. Cursor'
    BY <1>1, <1>2, <1>4, <1>5 DEF Cursor, Does, Auditing
  <1>7. Ranks'
    BY <1>1, <1>2, <1>4, RanksKept DEF Auditing, TallyInv
  <1> QED BY <1>4, <1>6, <1>7 DEF TallyInv

LEMMA SaveTally == ASSUME TallyInv, SaveLedger PROVE TallyInv'
PROOF
  <1>1. /\ Typed' /\ Does("save") /\ run' = Moved("done", 1, 1, 1)
        /\ UNCHANGED <<inflight, walk, report, ledger, before, passed, reads>>
    BY SaveTyped DEF TallyInv
  <1>2. /\ Window' /\ Budget' /\ Once' /\ Tally' /\ Fresh' /\ run'.at = "done"
        /\ run'.tier = run.tier /\ run'.incremental = run.incremental
    BY <1>1, OutsideKept DEF Does, Auditing
  <1>3. Cursor' /\ Ranks'
    BY <1>1, <1>2, CursorAway, RanksKept DEF Auditing, TallyInv
  <1> QED BY <1>1, <1>2, <1>3 DEF TallyInv

LEMMA LeaveTally == ASSUME TallyInv, Leave PROVE TallyInv'
PROOF
  <1>1. /\ Typed' /\ run' = NoRun /\ report' = NoReport /\ inflight' = <<>> /\ passed' = {}
        /\ reads' = 0 /\ ledger' = {}
    BY LeaveTyped DEF TallyInv
  <1>2. /\ run'.at = "idle" /\ run'.tier = "quick" /\ run'.width = 1 /\ ~run'.incremental
        /\ report'.bad = {} /\ report'.bytes = 0 /\ report'.total = 0 /\ report'.ok = 0
        /\ report'.skipped = 0 /\ report'.known = 0
    BY <1>1 DEF NoRun, NoReport
  <1>3. Fresh' /\ Ranks'
    BY <1>1, <1>2 DEF Fresh, Ranks, Does, Auditing
  <1>4. Cursor'
    BY <1>2 DEF Cursor, Does, Auditing
  <1>5. Len(inflight') = 0
    BY <1>1
  <1>6. Window'
    BY <1>1, <1>2, <1>5 DEF Window, Does
  <1>7. ReadOnes' = {} /\ MaxBytes \in Nat
    BY <1>1, ValidationAssumption DEF ReadOnes, ToSet
  <1>8. Cardinality(ReadOnes') = 0
    BY <1>7, FS_EmptySet
  <1>9. Budget'
    BY <1>1, <1>2, <1>5, <1>7, <1>8 DEF Budget, Does
  <1>10. Once'
    BY <1>1, <1>2 DEF Once, InWindow, Auditing
  <1>11. Tally'
    BY <1>2, FS_EmptySet DEF Tally
  <1> QED BY <1>1, <1>3, <1>4, <1>6, <1>9, <1>10, <1>11 DEF TallyInv

\* Every step keeps the tallies, the window and the budget.
LEMMA NextTally == ASSUME TallyInv, [Next]_vars PROVE TallyInv'
PROOF
  <1>1. CASE OpenRecord
    <2>1. /\ Typed' /\ Does("open") /\ walk.rec \in AllRecords /\ walk'.rec = walk.rec
          /\ UNCHANGED <<inflight, before, ledger, reads>>
          /\ \/ run' = Moved("walk", run.comp, run.fam, run.next) /\ report' = report
             \/ /\ run' = Moved(AfterPlace, run.comp, run.fam, run.next)
                /\ report' = [report EXCEPT !.graph = report.graph \cup {walk.rec}]
      BY <1>1, OpenRecordTyped DEF TallyInv
    <2> QED BY <2>1, WalkMoveTally DEF Does
  <1>2. CASE WalkDone
    <2>1. /\ Typed' /\ Does("walk") /\ walk.rec \in AllRecords /\ walk'.rec = walk.rec
          /\ UNCHANGED <<inflight, before, ledger, reads>>
          /\ run' = Moved(AfterPlace, run.comp, run.fam, run.next)
          /\ \E g : report' = [report EXCEPT !.graph = g]
      BY <1>2, WalkDoneTyped DEF TallyInv
    <2> QED BY <2>1, WalkMoveTally DEF Does
  <1>3. CASE VisitNode
    <2>1. /\ Typed' /\ Does("walk") /\ walk'.rec = walk.rec
          /\ UNCHANGED <<run, report, inflight, reads>>
      BY <1>3, VisitTyped DEF TallyInv
    <2>2. ledger' = ledger \/ run.incremental
      BY <1>3, VisitTyped DEF TallyInv
    <2> QED BY <2>1, <2>2, SameTally DEF Does
  <1>4. ASSUME NEW x \in Things, Harm(x) PROVE TallyInv'
    <2>1. /\ Typed' /\ UNCHANGED <<run, inflight, walk, report, ledger, passed, reads>>
      BY <1>4, HarmTyped DEF TallyInv
    <2> QED BY <2>1, SameTally
  <1>5. CASE UNCHANGED vars
    <2>1. UNCHANGED <<disk, todo, saved, run, inflight, walk, report, ledger, passed, reads>>
      BY <1>5 DEF vars, books, history
    <2>2. Typed'
      BY <2>1, CursorTyped, TypedKept DEF TallyInv
    <2> QED BY <2>1, <2>2, SameTally
  <1> QED BY <1>1, <1>2, <1>3, <1>4, <1>5, StartRunTally, StartRecordTally, LayoutTally, MagicTally,
             RecordCheckTally, AuditSetTally, NextFileTally, SubmitTally, ComputeTally, WaitTally,
             AloneTally, RecheckTally, DrainTally, SetDoneTally, GraphTally, SaveTally, LeaveTally
          DEF Next, Driver

\* The validator's types; the audit's tallies, file for file; the window that
\* bounds what is in flight, and so what is read beyond the budget.
THEOREM AuditIsBounded == Spec => []TypeOK
PROOF
  <1>1. TallyInv => TypeOK
    <2> SUFFICES ASSUME TallyInv PROVE TypeOK
      OBVIOUS
    <2>1. /\ inflight \in Seq(Futures) /\ report.bytes \in Nat /\ MaxBytes \in Nat
          /\ run.width \in Nat /\ run.at \in Places /\ Len(inflight) \in Nat
      <3>1. inflight \in Seq(Futures) /\ report \in Reports
        BY DEF TallyInv, Typed
      <3>2. Len(inflight) \in Nat
        BY <3>1
      <3>3. report.bytes \in Nat
        BY <3>1 DEF Reports
      <3> QED BY <3>1, <3>2, <3>3, CursorTyped, ValidationAssumption DEF TallyInv
    <2>2. Cardinality(ReadOnes) <= Len(inflight) /\ Cardinality(ReadOnes) \in Nat
      BY <2>1, ReadOnesFacts
    <2>3. MaxBytes > 0 => reads < MaxBytes + 2 * run.width
      BY <2>1, <2>2 DEF TallyInv, Budget
    <2>4. run.at \in {"idle", "l0", "l1a", "l1b", "l2", "family", "submit", "wait", "recheck",
                      "alone", "drain", "l3", "open", "walk", "save", "done"}
      BY <2>1 DEF Places, Auditing
    <2>5. Len(inflight) <= 2 * run.width
      BY DEF TallyInv, Window
    <2>6. report.total = report.ok + report.skipped + report.known + Cardinality(report.bad)
      BY DEF TallyInv, Tally
    <2> QED BY <2>3, <2>4, <2>5, <2>6 DEF TypeOK, TallyInv, Typed
  <1> QED BY <1>1, InitTally, NextTally, PTL DEF Spec
----------------------------------------------------------------------------
(* What a clean verdict says. *)

\* From the audit on, nothing that a run has found or verified is taken back.
Mid == {"l2"} \cup Auditing
Late == {"l3", "open", "walk", "save", "done"}

ReportGrows ==
  /\ report'.layout = report.layout /\ report'.keyset = report.keyset
  /\ report'.records = report.records
  /\ report.bad \subseteq report'.bad /\ report.sets \subseteq report'.sets
  /\ report.graph \subseteq report'.graph /\ report.unlisted \subseteq report'.unlisted

Onward ==
  /\ run'.tier = run.tier /\ run'.limit = run.limit /\ run'.listed = run.listed
  /\ before' = before /\ passed \subseteq passed'
  /\ ReportGrows
  /\ run.at \in Late => report'.aborted = report.aborted
  /\ run.at \in Mid \/ run.at \in Late
  /\ run'.at \in Mid \/ run'.at \in Late
  /\ run.at \in Late => run'.at \in Late

LEMMA TakeOutGrows ==
  ASSUME Typed, NEW i \in DoneNow, TakeOut(i)
  PROVE  ReportGrows /\ report'.aborted = report.aborted /\ ledger' \subseteq ledger \cup {Name(inflight[i].file)}
         /\ (ledger' # ledger => inflight[i].out = "ok")
         /\ (inflight[i].out \in {"bad", "error"} => inflight[i].file \in report'.bad)
PROOF
  <1> DEFINE d == inflight[i]
             bad == IF d.out \in {"bad", "error"} THEN report.bad \cup {d.file} ELSE report.bad
             bytes == IF d.out \in {"ok", "bad"} THEN report.bytes + 1 ELSE report.bytes
             ok == IF d.out = "ok" THEN report.ok + 1 ELSE report.ok
             skipped == IF d.out = "skipped" THEN report.skipped + 1 ELSE report.skipped
  <1>1. report' = [report EXCEPT !.total = report.total + 1, !.ok = ok, !.bytes = bytes,
                                 !.skipped = skipped, !.bad = bad]
        /\ ledger' \subseteq ledger \cup {Name(d.file)}
        /\ (ledger' # ledger => d.out = "ok")
    BY TakeOutTyped
  <1>2. report.bad \subseteq bad /\ (d.out \in {"bad", "error"} => d.file \in bad)
    OBVIOUS
  <1> HIDE DEF bad, bytes, ok, skipped, d
  <1>3. ReportGrows /\ report'.bad = bad /\ report'.aborted = report.aborted
    BY <1>1, <1>2, CursorTyped DEF ReportGrows, Reports
  <1> QED BY <1>1, <1>2, <1>3 DEF d

\* The moves of the audit and of the walks all go on.
LEMMA MovedOnward ==
  ASSUME NEW p \in Mid \cup Late, NEW c, NEW f, NEW n, run' = Moved(p, c, f, n),
         run.at \in Mid \/ (run.at \in Late /\ p \in Late /\ report'.aborted = report.aborted),
         ReportGrows, before' = before, passed \subseteq passed'
  PROVE  Onward
PROOF
  <1>1. Mid \cap Late = {}
    BY DEF Mid, Late, Auditing
  <1>2. /\ run'.tier = run.tier /\ run'.limit = run.limit /\ run'.listed = run.listed /\ run'.at = p
    BY MovedParts
  <1> QED BY <1>1, <1>2 DEF Onward

LEMMA SameOnward ==
  ASSUME run.at \in Mid \cup Late, run' = run, ReportGrows, report'.aborted = report.aborted,
         before' = before, passed \subseteq passed'
  PROVE  Onward
BY DEF Onward

LEMMA ReportSame == ASSUME report' = report PROVE ReportGrows /\ report'.aborted = report.aborted
BY DEF ReportGrows

LEMMA AuditOnward ==
  ASSUME TallyInv,
         \/ AuditSet \/ NextFile \/ Submit \/ Wait \/ Recheck \/ Alone \/ Drain \/ SetDone \/ Compute
  PROVE  Onward
PROOF
  <1>1. Auditing \subseteq Mid /\ "l2" \in Mid /\ EndAudit \in Late
    BY DEF Mid, Late, EndAudit
  <1>2. report \in Reports
    BY DEF TallyInv, Typed
  <1>3. ASSUME NEW x, report' = [report EXCEPT !.aborted = x] PROVE ReportGrows
    BY <1>2, <1>3 DEF ReportGrows, Reports
  <1>4. CASE AuditSet
    <2>1. run.at \in Mid /\ before' = before /\ passed' = passed
      BY <1>4, AuditSetTyped DEF AuditSet, Does, Mid, books, TallyInv
    <2>2. CASE /\ run' = Moved(EndAudit, 1, 1, 1)
               /\ report' = [report EXCEPT !.aborted = report.sets = Computers]
      <3> DEFINE x == report.sets = Computers
      <3>1. report' = [report EXCEPT !.aborted = x]
        BY <2>2
      <3> HIDE DEF x
      <3> QED BY <1>1, <1>3, <2>1, <2>2, <3>1, MovedOnward
    <2>3. CASE run' = Moved("family", run.comp, 1, 1) /\ report' = report
      BY <2>1, <2>3, ReportSame, MovedOnward DEF Mid, Auditing
    <2>4. CASE /\ run' = Moved("l2", run.comp + 1, run.fam, run.next)
               /\ report' = [report EXCEPT !.sets = report.sets \cup {Here}]
      <3>1. ReportGrows
        BY <1>2, <2>4 DEF ReportGrows, Reports
      <3> QED BY <1>1, <2>1, <2>4, <3>1, MovedOnward
    <2> QED BY <1>4, <2>2, <2>3, <2>4, AuditSetTyped DEF TallyInv
  <1>5. CASE NextFile
    <2>1. run.at \in Mid /\ before' = before /\ passed' = passed
      BY <1>5, NextFileTyped DEF Does, Mid, Auditing, TallyInv
    <2>2. ASSUME NEW p \in {"drain", "family", "wait", "submit"}, NEW n,
                 run' = Moved(p, run.comp, run.fam, n), ReportGrows
          PROVE  Onward
      BY <2>1, <2>2, MovedOnward DEF Mid, Auditing
    <2>3. CASE /\ run' = Moved("drain", run.comp, run.fam, run.next)
               /\ report' = [report EXCEPT !.aborted = Ahead # {}]
      <3> DEFINE x == Ahead # {}
      <3>1. report' = [report EXCEPT !.aborted = x]
        BY <2>3
      <3> HIDE DEF x
      <3> QED BY <1>3, <2>2, <2>3, <3>1
    <2>4. CASE /\ run' = Moved("family", run.comp, run.fam, Turn + 1)
               /\ report' = [report EXCEPT !.total = report.total + 1, !.known = report.known + 1]
      <3>1. ReportGrows
        BY <1>2, <2>4 DEF ReportGrows, Reports
      <3> QED BY <2>2, <2>4, <3>1
    <2>5. CASE run' = Moved(IF Full THEN "wait" ELSE "submit", run.comp, run.fam, run.next) /\ report' = report
      <3> DEFINE p == IF Full THEN "wait" ELSE "submit"
      <3>1. p \in {"drain", "family", "wait", "submit"} /\ run' = Moved(p, run.comp, run.fam, run.next)
        BY <2>5
      <3> HIDE DEF p
      <3> QED BY <2>2, <2>5, <3>1, ReportSame
    <2> QED BY <1>5, <2>3, <2>4, <2>5, NextFileTyped DEF TallyInv
  <1>6. CASE Submit
    <2> DEFINE p == IF run.width = 1 THEN "alone" ELSE "family"
    <2>1. /\ run.at \in Mid /\ before' = before /\ passed' = passed /\ report' = report
          /\ run' = Moved(p, run.comp, run.fam, Turn + 1)
      BY <1>6, SubmitTyped DEF Does, Mid, Auditing, TallyInv
    <2>2. p \in Mid \cup Late
      BY DEF Mid, Auditing
    <2> HIDE DEF p
    <2> QED BY <2>1, <2>2, ReportSame, MovedOnward
  <1>7. CASE Wait
    <2>1. /\ run.at \in Mid /\ before' = before /\ passed' = passed
          /\ run' = run \/ run' = Moved("recheck", run.comp, run.fam, run.next)
      BY <1>7, WaitTyped DEF Does, Mid, Auditing, TallyInv
    <2>2. ReportGrows /\ report'.aborted = report.aborted
      BY <1>7, TakeOutGrows DEF Wait, TallyInv
    <2> QED BY <2>1, <2>2, SameOnward, MovedOnward DEF Mid, Auditing
  <1>8. CASE Recheck
    <2>1. /\ run.at \in Mid /\ before' = before /\ passed' = passed
          /\ run' = Moved(IF OverBudget THEN "drain" ELSE "submit", run.comp, run.fam, run.next)
          /\ report' = [report EXCEPT !.aborted = OverBudget]
      BY <1>8, RecheckTyped DEF Does, Mid, Auditing, TallyInv
    <2>2. (IF OverBudget THEN "drain" ELSE "submit") \in Mid \cup Late
      BY DEF Mid, Auditing
    <2> QED BY <1>3, <2>1, <2>2, MovedOnward
  <1>9. CASE Alone
    <2>1. /\ run.at \in Mid /\ before' = before /\ passed' = passed
          /\ run' = Moved("family", run.comp, run.fam, run.next)
      BY <1>9, AloneTyped DEF Does, Mid, Auditing, TallyInv
    <2>2. ReportGrows
      BY <1>9, TakeOutGrows DEF Alone, TallyInv
    <2> QED BY <2>1, <2>2, MovedOnward DEF Mid, Auditing
  <1>10. CASE Drain
    <2>1. run.at \in Mid /\ before' = before /\ passed' = passed
      BY <1>10, DrainTyped DEF Does, Mid, Auditing, TallyInv
    <2>2. ASSUME run' = run, NEW i \in DoneNow, TakeOut(i) PROVE Onward
      <3>1. ReportGrows /\ report'.aborted = report.aborted
        BY <2>2, TakeOutGrows DEF TallyInv
      <3> QED BY <2>1, <2>2, <3>1, SameOnward
    <2>3. CASE report' = report /\ run' = Moved(EndAudit, 1, 1, 1)
      BY <1>1, <2>1, <2>3, ReportSame, MovedOnward
    <2>4. CASE report' = report /\ run' = Moved("family", run.comp, run.fam + 1, 1)
      BY <2>1, <2>4, ReportSame, MovedOnward DEF Mid, Auditing
    <2> QED BY <1>10, <2>2, <2>3, <2>4, DrainTyped DEF TallyInv
  <1>11. CASE SetDone
    <2>1. /\ run.at \in Mid /\ before' = before /\ passed' = passed /\ report' = report
          /\ run' = Moved("l2", run.comp + 1, run.fam, run.next)
      BY <1>11, SetDoneTyped DEF Does, Mid, Auditing, TallyInv
    <2> QED BY <1>1, <2>1, ReportSame, MovedOnward
  <1>12. CASE Compute
    <2>3. PICK i \in DOMAIN inflight : passed \subseteq passed'
      BY <1>12, ComputeTyped DEF TallyInv
    <2>1. /\ run' = run /\ before' = before /\ report' = report /\ passed \subseteq passed'
          /\ inflight # <<>>
      BY <1>12, <2>3, ComputeTyped DEF TallyInv
    <2>2. run.at \in Mid \cup Late
      BY <1>1, <2>1 DEF TallyInv, Window
    <2> QED BY <2>1, <2>2, ReportSame, SameOnward
  <1> QED BY <1>4, <1>5, <1>6, <1>7, <1>8, <1>9, <1>10, <1>11, <1>12

LEMMA WalkOnward ==
  ASSUME TallyInv, GraphCheck \/ OpenRecord \/ VisitNode \/ WalkDone \/ SaveLedger
  PROVE  Onward
PROOF
  <1>1. report \in Reports
    BY DEF TallyInv, Typed
  <1>2. AfterPlace \in Late /\ "l3" \in Late
    BY DEF AfterPlace, Late
  <1>3. ASSUME NEW X, report' = [report EXCEPT !.graph = report.graph \cup X] \/ report' = report
        PROVE  ReportGrows /\ report'.aborted = report.aborted
    BY <1>1, <1>3 DEF ReportGrows, Reports
  <1>4. CASE GraphCheck
    <2>1. run.at \in Late /\ before' = before /\ passed' = passed
      BY <1>4, GraphCheckTyped DEF Does, Late, TallyInv
    <2>2. ReportGrows /\ report'.aborted = report.aborted
      <3>1. report' = report \/ report' = [report EXCEPT !.unlisted = report.unlisted \cup {Here}]
        BY <1>4, GraphCheckTyped DEF TallyInv
      <3>2. CASE report' = [report EXCEPT !.unlisted = report.unlisted \cup {Here}]
        BY <1>1, <3>2 DEF ReportGrows, Reports
      <3> QED BY <3>1, <3>2, ReportSame
    <2>3. PICK p \in {"save", "l3", "open"} : \E c, f, n : run' = Moved(p, c, f, n)
      BY <1>4, GraphCheckTyped DEF TallyInv
    <2> QED BY <2>1, <2>2, <2>3, MovedOnward DEF Late
  <1>5. CASE OpenRecord
    <2>1. run.at \in Late /\ before' = before /\ passed \subseteq passed'
      BY <1>5, OpenRecordTyped DEF Does, Late, TallyInv
    <2>2. ReportGrows /\ report'.aborted = report.aborted
      BY <1>3, <1>5, OpenRecordTyped DEF TallyInv
    <2>3. PICK p \in Late : run' = Moved(p, run.comp, run.fam, run.next)
      BY <1>2, <1>5, OpenRecordTyped DEF Late, TallyInv
    <2> QED BY <2>1, <2>2, <2>3, MovedOnward
  <1>6. CASE VisitNode
    <2>1. run.at \in Late /\ before' = before /\ run' = run /\ report' = report
      BY <1>6, VisitTyped DEF Does, Late, TallyInv
    <2>2. passed \subseteq passed'
      BY <1>6, VisitTyped DEF TallyInv
    <2> QED BY <2>1, <2>2, ReportSame, SameOnward
  <1>7. CASE WalkDone
    <2>1. run.at \in Late /\ before' = before /\ passed' = passed
          /\ run' = Moved(AfterPlace, run.comp, run.fam, run.next)
      BY <1>7, WalkDoneTyped DEF Does, Late, TallyInv
    <2>2. ReportGrows /\ report'.aborted = report.aborted
      <3> DEFINE X == IF walk.bad # {} THEN {walk.rec} ELSE {}
      <3>1. report' = [report EXCEPT !.graph = report.graph \cup X]
        BY <1>7, WalkDoneTyped DEF TallyInv
      <3> HIDE DEF X
      <3> QED BY <1>3, <3>1
    <2> QED BY <1>2, <2>1, <2>2, MovedOnward
  <1>8. CASE SaveLedger
    <2>1. run.at \in Late /\ before' = before /\ passed' = passed /\ report' = report
          /\ run' = Moved("done", 1, 1, 1)
      BY <1>8, SaveTyped DEF Does, Late, TallyInv
    <2> QED BY <2>1, ReportSame, MovedOnward DEF Late
  <1> QED BY <1>4, <1>5, <1>6, <1>7, <1>8

LEMMA RankFacts ==
  ASSUME NEW t \in DOMAIN Rank
  PROVE  /\ Rank[t] >= Rank["quick"] <=> t \in {"quick", "deep", "audit", "graph"}
         /\ Rank[t] >= Rank["deep"] <=> t \in {"deep", "audit", "graph"}
         /\ Rank[t] >= Rank["audit"] <=> t \in {"audit", "graph"}
         /\ Rank[t] >= Rank["graph"] <=> t = "graph"
BY DEF Rank

LEMMA ReachFacts ==
  ASSUME run \in RunTypes
  PROVE  /\ Reaches("quick") <=> run.tier \in {"quick", "deep", "audit", "graph"}
         /\ Reaches("deep") <=> run.tier \in {"deep", "audit", "graph"}
         /\ Reaches("audit") <=> run.tier \in {"audit", "graph"}
         /\ Reaches("graph") <=> run.tier = "graph"
PROOF
  <1>1. run.tier \in DOMAIN Rank
    BY DEF RunTypes
  <1> QED BY <1>1, RankFacts DEF Reaches

LEMMA ReachAfter ==
  ASSUME run' \in RunTypes
  PROVE  /\ Reaches("deep")' <=> run'.tier \in {"deep", "audit", "graph"}
         /\ Reaches("audit")' <=> run'.tier \in {"audit", "graph"}
PROOF
  <1>1. run'.tier \in DOMAIN Rank
    BY DEF RunTypes
  <1> QED BY <1>1, RankFacts DEF Reaches

\* A run that begins.
LEMMA BeginFacts ==
  ASSUME TallyInv,
         \/ \E cmd \in Commands : StartRun(cmd)
         \/ \E cmd \in Commands, r \in AllRecords : StartRecord(cmd, r)
  PROVE  /\ run'.at \in {"l0", "open"} /\ (run'.at = "open" => run'.tier = "record" /\ walk'.seen = {})
         /\ before' = ledger' /\ passed' = {} /\ inflight' = <<>>
         /\ run'.at \notin Mid
PROOF
  <1>1. ASSUME Does("idle") PROVE passed = {} /\ inflight = <<>>
    BY <1>1 DEF TallyInv, Fresh
  <1>2. {"l0", "open"} \cap Mid = {}
    BY DEF Mid, Auditing
  <1>3. ASSUME NEW cmd \in Commands, StartRun(cmd)
        PROVE  run'.at = "l0" /\ before' = ledger' /\ passed' = {} /\ inflight' = <<>>
    BY <1>1, <1>3, StartRunTyped DEF StartRun, history, TallyInv
  <1>4. ASSUME NEW cmd \in Commands, NEW r \in AllRecords, StartRecord(cmd, r)
        PROVE  /\ run'.at = "open" /\ run'.tier = "record" /\ walk'.seen = {}
               /\ before' = ledger' /\ passed' = {} /\ inflight' = <<>>
    <2>1. walk'.seen = {}
      BY <1>4 DEF StartRecord, NoWalk
    <2> QED BY <1>1, <1>4, <2>1, StartRecordTyped DEF StartRecord, history, TallyInv
  <1> QED BY <1>2, <1>3, <1>4

\* The tiers below the newest records.
LEMMA EarlyFacts ==
  ASSUME TallyInv, LayoutCheck \/ MagicCheck
  PROVE  /\ run'.at \in {"save", "l1a", "l1b"} /\ run'.at \notin Mid /\ ~Does("walk")
         /\ (run'.at = "l1b" => run'.comp = 1)
         /\ (run'.at = "save" =>
               CutShort' \/ (~Reaches("deep")' /\ ~Reaches("audit")' /\ run'.tier # "graph"))
         /\ UNCHANGED <<passed, before, ledger, walk, inflight>>
         /\ run'.limit = run.limit /\ run'.tier = run.tier /\ run.tier # "record"
         /\ report'.graph = report.graph
PROOF
  <1>1. {"save", "l1a", "l1b"} \cap Mid = {}
    BY DEF Mid, Auditing
  <1>2. report \in Reports /\ run \in RunTypes
    BY DEF TallyInv, Typed
  <1>3. CASE LayoutCheck
    <2>1. /\ \/ ~report'.layout /\ run' = Moved("save", 1, 1, 1)
             \/ ~Reaches("quick") /\ run' = Moved("save", 1, 1, 1)
             \/ Reaches("quick") /\ run' = Moved("l1a", 1, 1, 1)
          /\ report' = [report EXCEPT !.layout = run.listed # {}]
          /\ Does("l0") /\ UNCHANGED <<passed, before, ledger, walk, inflight>>
          /\ run' \in RunTypes
      BY <1>3, LayoutCheckTyped DEF TallyInv, LayoutCheck, books, history, Typed
    <2>2. report'.graph = report.graph
      BY <1>2, <2>1 DEF Reports
    <2>3. run'.tier = run.tier /\ run'.limit = run.limit /\ run'.at \in {"save", "l1a"}
          /\ (run'.at = "save" => ~report'.layout \/ ~Reaches("quick"))
      BY <2>1, MovedParts
    <2>4. ~Does("walk") /\ run.tier # "record"
      BY <2>1 DEF Does, TallyInv, Ranks
    <2>5. ~report'.layout => CutShort'
      BY DEF CutShort
    <2>6. ~Reaches("quick") =>
            ~Reaches("deep")' /\ ~Reaches("audit")' /\ run'.tier # "graph"
      BY <1>2, <2>1, <2>3, ReachFacts, ReachAfter
    <2>7. run'.at = "save" =>
            CutShort' \/ (~Reaches("deep")' /\ ~Reaches("audit")' /\ run'.tier # "graph")
      BY <2>3, <2>5, <2>6
    <2> QED BY <1>1, <2>1, <2>2, <2>3, <2>4, <2>7
  <1>4. CASE MagicCheck
    <2>1. /\ \/ Reaches("deep") /\ run' = Moved("l1b", 1, 1, 1)
             \/ ~Reaches("deep") /\ run' = Moved("save", 1, 1, 1)
             \/ run' = run
          /\ Does("l1a") /\ UNCHANGED <<passed, before, ledger, walk, inflight>>
          /\ run' \in RunTypes
      BY <1>4, MagicCheckTyped DEF TallyInv, MagicCheck, books, history, Typed
    <2>2. report'.graph = report.graph
      <3>1. PICK bad : report' = [report EXCEPT !.magic = report.magic \cup bad]
        BY <1>4, MagicCheckTyped DEF TallyInv
      <3> QED BY <1>2, <3>1 DEF Reports
    <2>3. run'.tier = run.tier /\ run'.limit = run.limit /\ run'.at \in {"save", "l1a", "l1b"}
          /\ (run'.at = "save" => ~Reaches("deep")) /\ (run'.at = "l1b" => run'.comp = 1)
      BY <2>1, MovedParts DEF Does
    <2>4. ~Does("walk") /\ run.tier # "record"
      BY <2>1 DEF Does, TallyInv, Ranks
    <2> QED BY <1>1, <1>2, <2>1, <2>2, <2>3, <2>4, ReachFacts, ReachAfter
  <1> QED BY <1>3, <1>4

\* The newest records, one computer after another.
LEMMA DeepFacts ==
  ASSUME TallyInv, RecordCheck
  PROVE  /\ passed \subseteq passed' /\ UNCHANGED <<before, ledger, walk, inflight>>
         /\ \A r \in AllRecords : \A f : <<r, f>> \in passed' => <<r, f>> \in passed
         /\ \A x : <<"graph", x>> \in passed' => <<"graph", x>> \in passed
         /\ run'.limit = run.limit /\ run'.tier = run.tier /\ run.tier # "record" /\ Does("l1b")
         /\ report.records \subseteq report'.records /\ report'.layout = report.layout
         /\ report'.graph = report.graph
         /\ \/ run.comp > Len(Layouts) /\ run'.at = "l2" /\ run'.comp = 1 /\ report' = report
            \/ /\ run.comp > Len(Layouts) /\ run'.at = "save" /\ report' = report
               /\ ~Reaches("audit")' /\ run'.tier # "graph"
            \/ run'.at = "save" /\ CutShort'
            \/ /\ run.comp <= Len(Layouts) /\ run'.at = "l1b" /\ run'.comp = run.comp + 1
               /\ \A c : c = Here => Dated(c)'
PROOF
  <1>1. /\ Does("l1b") /\ UNCHANGED <<before, ledger, walk, inflight>> /\ report \in Reports
        /\ run \in RunTypes
    BY DEF RecordCheck, books, TallyInv, Typed
  <1>2. run' \in RunTypes /\ passed \subseteq passed'
    BY RecordCheckTyped DEF TallyInv, Typed
  <1>3. passed' \subseteq passed \cup {<<"deep", Newest(Here)>>}
    BY DEF RecordCheck, history
  <1>4. "deep" \notin AllRecords
    BY RecordAssumption
  <1>5. run.tier # "record"
    BY <1>1 DEF TallyInv, Ranks, Does
  <1>6. CASE /\ run.comp > Len(Layouts) /\ report' = report
             /\ run' = Moved(IF Reaches("audit") THEN "l2" ELSE "save", 1, 1, 1)
    <2>1. CASE Reaches("audit")
      BY <1>1, <1>2, <1>3, <1>4, <1>5, <1>6, <2>1, MovedParts
    <2>2. CASE ~Reaches("audit")
      <3>1. /\ run'.tier = run.tier /\ run'.limit = run.limit /\ run'.at = "save"
        BY <1>6, <2>2, MovedParts
      <3>2. ~Reaches("audit")' /\ run'.tier # "graph"
        BY <1>1, <1>2, <2>2, <3>1, ReachFacts, ReachAfter
      <3> QED BY <1>1, <1>2, <1>3, <1>4, <1>5, <1>6, <3>1, <3>2
    <2> QED BY <2>1, <2>2
  <1>7. CASE run' = Moved("save", 1, 1, 1) /\ report' = [report EXCEPT !.keyset = "failed"]
    <2>1. /\ report'.records = report.records /\ report'.layout = report.layout
          /\ report'.graph = report.graph /\ report'.keyset = "failed"
      BY <1>1, <1>7 DEF Reports
    <2>2. /\ run'.tier = run.tier /\ run'.limit = run.limit /\ run'.at = "save"
      BY <1>7, MovedParts
    <2> QED BY <1>1, <1>2, <1>3, <1>4, <1>5, <2>1, <2>2 DEF CutShort
  <1>8. ASSUME run.comp <= Len(Layouts), run' = Moved("l1b", run.comp + 1, run.fam, run.next),
               NEW bad \in SUBSET AllRecords,
               report' = [report EXCEPT !.keyset = "decrypted", !.records = report.records \cup bad],
               Newest(Here) \in bad \/ <<"deep", Newest(Here)>> \in passed'
        PROVE  /\ run'.limit = run.limit /\ run'.tier = run.tier
               /\ report.records \subseteq report'.records /\ report'.layout = report.layout
               /\ report'.graph = report.graph
               /\ run'.at = "l1b" /\ run'.comp = run.comp + 1
               /\ \A c : c = Here => Dated(c)'
    <2>1. /\ report'.records = report.records \cup bad /\ report'.layout = report.layout
          /\ report'.graph = report.graph
      BY <1>1, <1>8 DEF Reports
    <2>2. /\ run'.tier = run.tier /\ run'.limit = run.limit /\ run'.at = "l1b"
          /\ run'.comp = run.comp + 1
      BY <1>8, MovedParts
    <2>3. ASSUME NEW c, c = Here PROVE Dated(c)'
      BY <1>8, <2>1, <2>3 DEF Dated
    <2> QED BY <2>1, <2>2, <2>3
  <1> QED BY <1>1, <1>2, <1>3, <1>4, <1>5, <1>6, <1>7, <1>8, RecordCheckTyped DEF TallyInv

\* What a step that finds and verifies no less leaves standing.
LEMMA KnownStays ==
  ASSUME Onward
  PROVE  /\ \A c : Dated(c) => Dated(c)'
         /\ \A f : Audited(f) => Audited(f)'
         /\ \A c : SetAudited(c) => SetAudited(c)'
         /\ \A r : Handled(r) => Handled(r)'
         /\ \A c : FolderWalked(c) => FolderWalked(c)'
         /\ \A r, f : Met(r, f) => Met(r, f)'
         /\ CutShort' <=> CutShort
PROOF
  <1>1. \A c : Dated(c) => Dated(c)'
    BY DEF Onward, ReportGrows, Dated
  <1>2. \A f : Audited(f) => Audited(f)'
    BY DEF Onward, ReportGrows, Audited
  <1>3. \A c : SetAudited(c) => SetAudited(c)'
    BY <1>2 DEF Onward, ReportGrows, SetAudited
  <1>4. \A r : Handled(r) => Handled(r)'
    BY DEF Onward, ReportGrows, Handled
  <1>5. \A c : FolderWalked(c) => FolderWalked(c)'
    BY <1>4 DEF Onward, ReportGrows, FolderWalked
  <1>6. \A r, f : Met(r, f) => Met(r, f)'
    BY DEF Onward, Met
  <1>7. CutShort' <=> CutShort
    BY DEF Onward, ReportGrows, CutShort
  <1> QED BY <1>1, <1>2, <1>3, <1>4, <1>5, <1>6, <1>7

\* A step that leaves all that the verdict is about alone.
Untouched == UNCHANGED <<run, report, inflight, walk, passed, before, ledger>>

\* The steps, as the verdict sees them.
LEMMA Steps ==
  ASSUME TallyInv, [Next]_vars
  PROVE  \/ \E cmd \in Commands : StartRun(cmd)
         \/ \E cmd \in Commands, r \in AllRecords : StartRecord(cmd, r)
         \/ LayoutCheck \/ MagicCheck \/ RecordCheck
         \/ Onward /\ (\/ AuditSet \/ NextFile \/ Submit \/ Wait \/ Recheck \/ Alone \/ Drain
                       \/ SetDone \/ Compute)
         \/ Onward /\ (GraphCheck \/ OpenRecord \/ VisitNode \/ WalkDone \/ SaveLedger)
         \/ Leave
         \/ Untouched
PROOF
  <1>1. ASSUME NEW x \in Things, Harm(x) PROVE Untouched
    BY <1>1, HarmTyped DEF TallyInv, Untouched
  <1>2. CASE UNCHANGED vars
    BY <1>2 DEF vars, books, history, Untouched
  <1> QED BY <1>1, <1>2, AuditOnward, WalkOnward DEF Next, Driver

LEMMA DatedKept == ASSUME CheckedInv, TallyInv', [Next]_vars PROVE DatedSoFar'
PROOF
  <1>1. TallyInv /\ DatedSoFar /\ run \in RunTypes /\ run' \in RunTypes
    BY DEF CheckedInv, TallyInv, Typed
  <1>2. Mid \cap Late = {} /\ "l1b" \notin Mid \cup Late
    BY DEF Mid, Late, Auditing
  <1>3. CASE \/ \E cmd \in Commands : StartRun(cmd)
             \/ \E cmd \in Commands, r \in AllRecords : StartRecord(cmd, r)
    <2>1. run'.at \in {"l0", "open"} /\ (run'.at = "open" => run'.tier = "record") /\ run'.at \notin Mid
      BY <1>1, <1>3, BeginFacts
    <2>2. run'.at = "open" => ~Reaches("deep")'
      BY <1>1, <2>1, ReachAfter
    <2> QED BY <2>1, <2>2 DEF DatedSoFar, Does, Mid
  <1>4. CASE LayoutCheck \/ MagicCheck
    <2>1. /\ run'.at \in {"save", "l1a", "l1b"} /\ run'.at \notin Mid /\ (run'.at = "l1b" => run'.comp = 1)
          /\ (run'.at = "save" => CutShort' \/ ~Reaches("deep")')
      BY <1>1, <1>4, EarlyFacts
    <2>2. \A i \in 1..Len(Layouts) : ~(i < 1)
      BY LayoutsFacts
    <2> QED BY <2>1, <2>2 DEF DatedSoFar, Does, Mid
  <1>5. CASE RecordCheck
    <2>1. /\ passed \subseteq passed' /\ report.records \subseteq report'.records
          /\ run.comp \in Nat /\ Len(Layouts) \in Nat /\ Does("l1b")
      BY <1>1, <1>5, DeepFacts, CursorTyped, LayoutsFacts DEF TallyInv
    <2>2. \A c : Dated(c) => Dated(c)'
      BY <2>1 DEF Dated
    <2>3. \A i \in 1..Len(Layouts) : i < run.comp => Dated(Layouts[i])'
      BY <1>1, <2>1, <2>2 DEF DatedSoFar
    <2>4. run.comp > Len(Layouts) => \A c \in Computers : Dated(c)'
      <3> SUFFICES ASSUME run.comp > Len(Layouts), NEW c \in Computers PROVE Dated(c)'
        OBVIOUS
      <3>1. PICK i \in 1..Len(Layouts) : Layouts[i] = c
        BY LayoutsFacts
      <3>2. i < run.comp
        BY <2>1
      <3> QED BY <2>3, <3>1, <3>2
    <2>5. CASE run.comp > Len(Layouts) /\ run'.at = "l2"
      BY <1>2, <2>4, <2>5 DEF DatedSoFar, Does, Mid
    <2>6. CASE run'.at = "save" /\ (run.comp > Len(Layouts) \/ CutShort')
      BY <2>4, <2>6 DEF DatedSoFar, Does, Auditing
    <2>7. CASE /\ run.comp <= Len(Layouts) /\ run'.at = "l1b" /\ run'.comp = run.comp + 1
               /\ \A c : c = Here => Dated(c)'
      <3>1. \A c : c = Layouts[run.comp] => Dated(c)'
        BY <2>7 DEF Here
      <3>2. ASSUME NEW i \in 1..Len(Layouts), i < run.comp + 1 PROVE Dated(Layouts[i])'
        <4>1. i < run.comp \/ i = run.comp
          BY <2>1, <3>2
        <4>2. CASE i < run.comp
          BY <2>3, <4>2
        <4>3. CASE i = run.comp
          <5>1. \A c : c = Layouts[i] => Dated(c)'
            BY <3>1, <4>3
          <5> QED BY <5>1
        <4> QED BY <4>1, <4>2, <4>3
      <3> QED BY <2>7, <3>2 DEF DatedSoFar, Does, Auditing
    <2> QED BY <1>1, <1>5, <2>5, <2>6, <2>7, DeepFacts
  <1>6. CASE Onward
    <2>1. run.at \in Mid => \A c \in Computers : Dated(c)
      BY <1>1 DEF DatedSoFar, Mid
    <2>2. run.at \in Late /\ Reaches("deep") => CutShort \/ \A c \in Computers : Dated(c)
      BY <1>1 DEF DatedSoFar, Late
    <2>3. Reaches("deep")' <=> Reaches("deep")
      BY <1>6 DEF Onward, Reaches
    <2>4. (\A c \in Computers : Dated(c)) => \A c \in Computers : Dated(c)'
      BY <1>6, KnownStays
    <2>5. CutShort' <=> CutShort
      BY <1>6, KnownStays
    <2>6. /\ run.at \in Mid \/ run.at \in Late
          /\ run'.at \in Mid \/ run'.at \in Late
          /\ run.at \in Late => run'.at \in Late
      BY <1>6 DEF Onward
    <2>7. run'.at \in Mid => \A c \in Computers : Dated(c)'
      BY <1>2, <2>1, <2>4, <2>6
    <2>8. run'.at \in Late /\ Reaches("deep")' => CutShort' \/ \A c \in Computers : Dated(c)'
      BY <2>1, <2>2, <2>3, <2>4, <2>5, <2>6
    <2>9. run'.at # "l1b"
      BY <1>2, <2>6
    <2> QED BY <2>7, <2>8, <2>9 DEF DatedSoFar, Mid, Late, Does
  <1>7. CASE Leave
    <2>1. run'.at = "idle"
      BY <1>7 DEF Leave, NoRun
    <2> QED BY <2>1 DEF DatedSoFar, Does, Auditing
  <1>8. CASE Untouched
    BY <1>1, <1>8 DEF Untouched, DatedSoFar, Does, Dated, Reaches, CutShort
  <1> QED BY <1>1, <1>3, <1>4, <1>5, <1>6, <1>7, <1>8, Steps

\* Merging a future takes it, and it alone, out of the window.
LEMMA TakeOutWindow ==
  ASSUME TallyInv, NEW i \in DoneNow, TakeOut(i)
  PROVE  /\ ToSet(inflight') \subseteq ToSet(inflight) /\ inflight[i] \in ToSet(inflight)
         /\ \A x \in ToSet(inflight) : x \in ToSet(inflight') \/ x = inflight[i]
         /\ inflight[i].out \in Outcomes \ {"none"} /\ inflight[i].file \in Files
PROOF
  <1>1. /\ i \in DOMAIN inflight /\ inflight[i] \in Futures /\ inflight[i].out # "none"
        /\ inflight' = RemoveAt(inflight, i) /\ inflight' \in Seq(Futures) /\ inflight \in Seq(Futures)
    BY TakeOutTyped DEF TallyInv, Typed
  <1>2. /\ \A j \in DOMAIN inflight' : /\ Source(i, j) \in DOMAIN inflight
                                       /\ inflight'[j] = inflight[Source(i, j)]
        /\ \A m \in DOMAIN inflight : m # i => \E j \in DOMAIN inflight' : Source(i, j) = m
    BY <1>1, SourceFacts
  <1>3. \A x : x \in ToSet(inflight') <=> \E j \in DOMAIN inflight' : x = inflight'[j]
    BY <1>1, PlaceOf
  <1>4. \A x : x \in ToSet(inflight) <=> \E j \in DOMAIN inflight : x = inflight[j]
    BY <1>1, PlaceOf
  <1>5. inflight[i].out \in Outcomes \ {"none"} /\ inflight[i].file \in Files
    BY <1>1 DEF Futures
  <1>6. ASSUME NEW x \in ToSet(inflight') PROVE x \in ToSet(inflight)
    <2>1. PICK j \in DOMAIN inflight' : x = inflight'[j]
      BY <1>3
    <2>2. x = inflight[Source(i, j)] /\ Source(i, j) \in DOMAIN inflight
      BY <1>2, <2>1
    <2> QED BY <1>4, <2>2
  <1>7. inflight[i] \in ToSet(inflight)
    BY <1>1, <1>4
  <1>8. ASSUME NEW x \in ToSet(inflight), x # inflight[i] PROVE x \in ToSet(inflight')
    <2>1. PICK m \in DOMAIN inflight : x = inflight[m]
      BY <1>4
    <2>2. m # i
      BY <1>8, <2>1
    <2>3. PICK j \in DOMAIN inflight' : Source(i, j) = m
      BY <1>2, <2>2
    <2> QED BY <1>2, <1>3, <2>1, <2>3
  <1> QED BY <1>5, <1>6, <1>7, <1>8

\* What the audit does to the window: a file joins it unread, a verdict is
\* earned, or a verdict is merged.
LEMMA WindowSteps ==
  ASSUME TallyInv,
         \/ AuditSet \/ NextFile \/ Submit \/ Wait \/ Recheck \/ Alone \/ Drain \/ SetDone \/ Compute
  PROVE  \/ UNCHANGED <<inflight, ledger>>
         \/ /\ Submit /\ UNCHANGED ledger
            /\ \A d \in ToSet(inflight') : d \in ToSet(inflight) \/ (d.out = "none" /\ d.file = File)
            /\ \A d \in ToSet(inflight) : d \in ToSet(inflight')
            /\ \A f : f = File => Awaited(f)'
         \/ /\ Compute /\ UNCHANGED ledger
            /\ \A d \in ToSet(inflight') :
                 \/ d \in ToSet(inflight)
                 \/ /\ d.out = "ok" => <<"audit", d.file>> \in passed'
                    /\ d.out = "skipped" => d.file \in Large
            /\ \A f : Awaited(f) => Awaited(f)'
         \/ /\ Wait \/ Alone \/ Drain
            /\ \E i \in DoneNow : TakeOut(i)
PROOF
  <1>1. inflight \in Seq(Futures)
    BY DEF TallyInv, Typed
  <1>2. CASE AuditSet \/ NextFile \/ Recheck \/ SetDone
    BY <1>2 DEF AuditSet, NextFile, Recheck, SetDone, books
  <1>3. CASE Submit
    <2> DEFINE e == [file |-> File, out |-> "none"]
    <2>1. inflight' = Append(inflight, e) /\ ledger' = ledger /\ File \in Files
      BY <1>3, SubmitTyped DEF TallyInv
    <2>2. e \in Futures /\ e.out = "none" /\ e.file = File
      BY <2>1 DEF Futures, Outcomes
    <2> HIDE DEF e
    <2>3. /\ DOMAIN inflight = 1..Len(inflight) /\ DOMAIN inflight' = 1..(Len(inflight) + 1)
          /\ \A j \in 1..Len(inflight) : inflight'[j] = inflight[j]
          /\ inflight'[Len(inflight) + 1] = e /\ Len(inflight) \in Nat
      BY <1>1, <2>1, <2>2, AppendedFacts
    <2>4. /\ \A j \in 1..(Len(inflight) + 1) : j \in 1..Len(inflight) \/ j = Len(inflight) + 1
          /\ \A j \in 1..Len(inflight) : j \in 1..(Len(inflight) + 1)
          /\ Len(inflight) + 1 \in 1..(Len(inflight) + 1)
      BY <2>3
    <2>5. inflight' \in Seq(Futures)
      BY <1>1, <2>1, <2>2
    <2>6. \A x : x \in ToSet(inflight') <=> \E j \in DOMAIN inflight' : x = inflight'[j]
      BY <2>5, PlaceOf
    <2>7. \A x : x \in ToSet(inflight) <=> \E j \in DOMAIN inflight : x = inflight[j]
      BY <1>1, PlaceOf
    <2>8. /\ \A d \in ToSet(inflight') : d \in ToSet(inflight) \/ d = e
          /\ \A d \in ToSet(inflight) : d \in ToSet(inflight')
          /\ e \in ToSet(inflight')
      BY <2>3, <2>4, <2>6, <2>7
    <2>9. \A f : f = File => Awaited(f)'
      BY <2>2, <2>8 DEF Awaited
    <2> QED BY <1>3, <2>1, <2>2, <2>8, <2>9
  <1>4. CASE Compute
    <2>1. PICK i \in DOMAIN inflight, out \in Outcomes :
            /\ inflight' = [inflight EXCEPT ![i] = [file |-> inflight[i].file, out |-> out]]
            /\ out = "ok" => <<"audit", inflight[i].file>> \in passed'
            /\ out = "skipped" => inflight[i].file \in Large
      BY <1>4, ComputeTyped DEF TallyInv
    <2> DEFINE file == inflight[i].file
               e == [file |-> file, out |-> out]
    <2>2. file \in Files
      <3>1. inflight[i] \in Futures
        BY <1>1
      <3> QED BY <3>1 DEF Futures
    <2> HIDE DEF file
    <2>3. e \in Futures /\ e.file = file /\ e.out = out
      BY <2>2 DEF Futures
    <2> HIDE DEF e
    <2>4. inflight' = [inflight EXCEPT ![i] = e]
      BY <2>1 DEF file, e
    <2>5. /\ DOMAIN inflight' = DOMAIN inflight /\ inflight' \in Seq(Futures)
          /\ \A j \in DOMAIN inflight : inflight'[j] = IF j = i THEN e ELSE inflight[j]
      BY <1>1, <2>3, <2>4
    <2>6. \A x : x \in ToSet(inflight') <=> \E j \in DOMAIN inflight' : x = inflight'[j]
      BY <2>5, PlaceOf
    <2>7. \A x : x \in ToSet(inflight) <=> \E j \in DOMAIN inflight : x = inflight[j]
      BY <1>1, PlaceOf
    <2>8. \A d \in ToSet(inflight') : d \in ToSet(inflight) \/ d = e
      BY <2>5, <2>6, <2>7
    <2>9. ASSUME NEW f, Awaited(f) PROVE Awaited(f)'
      <3>1. PICK j \in DOMAIN inflight : inflight[j].file = f
        BY <2>7, <2>9 DEF Awaited
      <3>2. inflight'[j].file = f /\ inflight'[j] \in ToSet(inflight')
        BY <2>3, <2>5, <2>6, <3>1 DEF file
      <3> QED BY <3>2 DEF Awaited
    <2>10. /\ e.out = "ok" => <<"audit", e.file>> \in passed'
           /\ e.out = "skipped" => e.file \in Large
      BY <2>1, <2>3 DEF file
    <2>11. ledger' = ledger
      BY <1>4, ComputeTyped DEF TallyInv
    <2> QED BY <1>4, <2>8, <2>9, <2>10, <2>11
  <1>5. CASE Wait
    BY <1>5 DEF Wait
  <1>6. CASE Alone
    BY <1>6 DEF Alone
  <1>7. CASE Drain
    BY <1>7, DrainTyped DEF TallyInv
  <1> QED BY <1>2, <1>3, <1>4, <1>5, <1>6, <1>7

LEMMA EarnedKept == ASSUME CheckedInv, [Next]_vars PROVE Earned'
PROOF
  <1>1. TallyInv /\ Earned
    BY DEF CheckedInv
  <1>2. ASSUME ToSet(inflight') \subseteq ToSet(inflight), passed \subseteq passed' PROVE Earned'
    BY <1>1, <1>2 DEF Earned
  <1>3. ASSUME inflight' = <<>> PROVE Earned'
    BY <1>3 DEF Earned, ToSet
  <1>4. CASE \/ \E cmd \in Commands : StartRun(cmd)
             \/ \E cmd \in Commands, r \in AllRecords : StartRecord(cmd, r)
    BY <1>1, <1>3, <1>4, BeginFacts
  <1>5. CASE LayoutCheck \/ MagicCheck
    BY <1>1, <1>2, <1>5, EarlyFacts
  <1>6. CASE RecordCheck
    BY <1>1, <1>2, <1>6, DeepFacts
  <1>7. CASE Onward /\ (\/ AuditSet \/ NextFile \/ Submit \/ Wait \/ Recheck \/ Alone \/ Drain
                        \/ SetDone \/ Compute)
    <2>1. passed \subseteq passed'
      BY <1>7 DEF Onward
    <2>2. ASSUME NEW i \in DoneNow, TakeOut(i) PROVE Earned'
      BY <1>1, <1>2, <2>1, <2>2, TakeOutWindow
    <2>3. CASE inflight' = inflight
      BY <1>2, <2>1, <2>3
    <2>4. ASSUME \A d \in ToSet(inflight') :
                   \/ d \in ToSet(inflight)
                   \/ /\ d.out = "ok" => <<"audit", d.file>> \in passed'
                      /\ d.out = "skipped" => d.file \in Large
          PROVE  Earned'
      BY <1>1, <2>1, <2>4 DEF Earned
    <2> QED BY <1>1, <1>7, <2>2, <2>3, <2>4, WindowSteps
  <1>8. CASE Onward /\ (GraphCheck \/ OpenRecord \/ VisitNode \/ WalkDone \/ SaveLedger)
    <2>1. inflight' = inflight
      BY <1>8 DEF GraphCheck, OpenRecord, VisitNode, WalkDone, SaveLedger
    <2> QED BY <1>2, <1>8, <2>1 DEF Onward
  <1>9. CASE Leave
    BY <1>3, <1>9 DEF Leave
  <1>10. CASE Untouched
    BY <1>2, <1>10 DEF Untouched
  <1> QED BY <1>1, <1>4, <1>5, <1>6, <1>7, <1>8, <1>9, <1>10, Steps

\* A name is no identifier.
LEMMA KeysDiffer ==
  ASSUME NEW f, NEW g
  PROVE  /\ Name(f) # Blob(g) /\ (Name(f) = Name(g) => f = g) /\ (Blob(f) = Blob(g) => f = g)
BY DEF Name, Blob

LEMMA EnteredKept == ASSUME CheckedInv, TallyInv', [Next]_vars PROVE Entered'
PROOF
  <1>1. TallyInv /\ Earned /\ Entered
    BY DEF CheckedInv
  <1>2. ASSUME before' = ledger' PROVE Entered'
    BY <1>2 DEF Entered
  <1>3. ASSUME ledger' = ledger, before' = before, passed \subseteq passed',
               run'.tier = run.tier,
               walk'.rec = walk.rec \/ run.tier # "record"
        PROVE  Entered'
    BY <1>1, <1>3 DEF Entered
  <1>4. CASE \/ \E cmd \in Commands : StartRun(cmd)
             \/ \E cmd \in Commands, r \in AllRecords : StartRecord(cmd, r)
    BY <1>1, <1>2, <1>4, BeginFacts
  <1>5. CASE LayoutCheck \/ MagicCheck
    BY <1>1, <1>3, <1>5, EarlyFacts
  <1>6. CASE RecordCheck
    BY <1>1, <1>3, <1>6, DeepFacts
  <1>7. CASE Onward /\ (\/ AuditSet \/ NextFile \/ Submit \/ Wait \/ Recheck \/ Alone \/ Drain
                        \/ SetDone \/ Compute)
    <2>1. passed \subseteq passed' /\ before' = before /\ run'.tier = run.tier
      BY <1>7 DEF Onward
    <2>2. walk' = walk
      BY <1>7 DEF AuditSet, NextFile, Submit, Wait, Recheck, Alone, Drain, SetDone, Compute
    <2>3. ASSUME NEW i \in DoneNow, TakeOut(i) PROVE Entered'
      <3> DEFINE d == inflight[i]
      <3>1. ledger' \subseteq ledger \cup {Name(d.file)} /\ (ledger' # ledger => d.out = "ok")
        BY <1>1, <2>3, TakeOutGrows DEF TallyInv
      <3>2. d.out = "ok" => <<"audit", d.file>> \in passed'
        BY <1>1, <2>1, <2>3, TakeOutWindow DEF Earned
      <3> HIDE DEF d
      <3>3. CASE ledger' = ledger
        BY <1>3, <2>1, <2>2, <3>3
      <3>4. CASE ledger' # ledger
        <4> SUFFICES ASSUME NEW f \in Files
                     PROVE  /\ Name(f) \in ledger' => Name(f) \in before' \/ <<"audit", f>> \in passed'
                            /\ Blob(f) \in ledger' =>
                                 Blob(f) \in before' \/ (run'.tier = "record" /\ <<walk'.rec, f>> \in passed')
          BY DEF Entered
        <4>1. Name(f) \in ledger' => Name(f) \in ledger \/ f = d.file
          BY <3>1, KeysDiffer
        <4>2. Blob(f) \in ledger' => Blob(f) \in ledger
          BY <3>1, KeysDiffer
        <4> QED BY <1>1, <2>1, <2>2, <3>1, <3>2, <3>4, <4>1, <4>2 DEF Entered
      <3> QED BY <3>3, <3>4
    <2>4. CASE ledger' = ledger
      BY <1>3, <2>1, <2>2, <2>4
    <2> QED BY <1>1, <1>7, <2>3, <2>4, WindowSteps
  <1>8. CASE Onward /\ (GraphCheck \/ OpenRecord \/ VisitNode \/ WalkDone \/ SaveLedger)
    <2>1. passed \subseteq passed' /\ before' = before /\ run'.tier = run.tier
      BY <1>8 DEF Onward
    <2>2. CASE GraphCheck
      <3>1. ledger' = ledger /\ run.tier # "record"
        BY <1>1, <2>2, GraphCheckTyped DEF TallyInv, Ranks
      <3> QED BY <1>3, <2>1, <3>1
    <2>3. CASE OpenRecord
      BY <1>1, <1>3, <2>1, <2>3, OpenRecordTyped DEF TallyInv
    <2>4. CASE WalkDone
      BY <1>1, <1>3, <2>1, <2>4, WalkDoneTyped DEF TallyInv
    <2>5. CASE SaveLedger
      BY <1>1, <1>3, <2>1, <2>5, SaveTyped DEF TallyInv
    <2>6. CASE VisitNode
      <3>1. /\ walk'.rec = walk.rec
            /\ \/ ledger' = ledger
               \/ \E good : /\ run.incremental /\ ledger' = ledger \cup {Blob(f) : f \in good}
                            /\ passed' = passed \cup {<<walk.rec, f>> : f \in good}
        BY <1>1, <2>6, VisitTyped DEF TallyInv
      <3>2. CASE ledger' = ledger
        BY <1>3, <2>1, <3>1, <3>2
      <3>3. ASSUME NEW good, run.incremental, ledger' = ledger \cup {Blob(f) : f \in good},
                   passed' = passed \cup {<<walk.rec, f>> : f \in good}
            PROVE  Entered'
        <4>1. run.tier = "record"
          BY <1>1, <2>6, <3>3 DEF TallyInv, Ranks, VisitNode, Does
        <4> SUFFICES ASSUME NEW f \in Files
                     PROVE  /\ Name(f) \in ledger' => Name(f) \in before' \/ <<"audit", f>> \in passed'
                            /\ Blob(f) \in ledger' =>
                                 Blob(f) \in before' \/ (run'.tier = "record" /\ <<walk'.rec, f>> \in passed')
          BY DEF Entered
        <4>2. Name(f) \in ledger' => Name(f) \in ledger
          BY <3>3, KeysDiffer
        <4>3. Blob(f) \in ledger' => Blob(f) \in ledger \/ f \in good
          BY <3>3, KeysDiffer
        <4> QED BY <1>1, <2>1, <3>1, <3>3, <4>1, <4>2, <4>3 DEF Entered
      <3> QED BY <3>1, <3>2, <3>3
    <2> QED BY <1>8, <2>2, <2>3, <2>4, <2>5, <2>6
  <1>9. CASE Leave
    BY <1>2, <1>9 DEF Leave
  <1>10. CASE Untouched
    BY <1>3, <1>10 DEF Untouched
  <1> QED BY <1>1, <1>4, <1>5, <1>6, <1>7, <1>8, <1>9, <1>10, Steps

\* What the audit owes a file it has passed.
Covered(f) == Audited(f) \/ Awaited(f)

AuditStep ==
  AuditSet \/ NextFile \/ Submit \/ Wait \/ Recheck \/ Alone \/ Drain \/ SetDone \/ Compute

LEMMA CoverStays ==
  ASSUME TallyInv, Earned, Onward, AuditStep, NEW f, Covered(f)
  PROVE  Covered(f)'
PROOF
  <1>1. CASE Audited(f)
    BY <1>1, KnownStays DEF Covered
  <1>2. CASE Awaited(f)
    <2>1. CASE inflight' = inflight
      BY <1>2, <2>1 DEF Covered, Awaited
    <2>2. CASE \A g : Awaited(g) => Awaited(g)'
      BY <1>2, <2>2 DEF Covered
    <2>3. CASE \A d \in ToSet(inflight) : d \in ToSet(inflight')
      BY <1>2, <2>3 DEF Covered, Awaited
    <2>4. ASSUME NEW i \in DoneNow, TakeOut(i) PROVE Covered(f)'
      <3>1. PICK d \in ToSet(inflight) : d.file = f
        BY <1>2 DEF Awaited
      <3>2. CASE d \in ToSet(inflight')
        BY <3>1, <3>2 DEF Covered, Awaited
      <3>3. CASE d = inflight[i]
        <4>1. d.out \in {"ok", "skipped", "bad", "error"}
          BY <2>4, <3>3, TakeOutWindow DEF Outcomes
        <4>2. d.out \in {"bad", "error"} => f \in report'.bad
          BY <2>4, <3>1, <3>3, TakeOutGrows DEF TallyInv
        <4>3. d.out = "ok" => <<"audit", f>> \in passed'
          BY <3>1 DEF Earned, Onward
        <4>4. d.out = "skipped" => f \in Large
          BY <3>1 DEF Earned
        <4> QED BY <4>1, <4>2, <4>3, <4>4 DEF Covered, Audited
      <3> QED BY <2>4, <3>1, <3>2, <3>3, TakeOutWindow
    <2> QED BY <2>1, <2>2, <2>3, <2>4, WindowSteps DEF AuditStep
  <1> QED BY <1>1, <1>2 DEF Covered

\* Of the listed files, a step of the cursor in a family passes the one whose
\* turn it is, or none.
LEMMA PassesOne ==
  ASSUME Typed, Cursor, run.at \in Auditing, run.fam <= Len(Walk[Here]), run'.comp = run.comp,
         NEW f \in run.listed, NEW j \in DOMAIN Walk[Here], BehindIn(j, f)',
         \/ Ahead # {} /\ run'.fam = run.fam /\ run'.next = Turn + 1
         \/ Ahead = {} /\ run'.fam = run.fam + 1 /\ run'.next = 1
  PROVE  BehindIn(j, f) \/ (Ahead # {} /\ f = File)
PROOF
  <1>1. /\ Here \in Computers /\ run.fam \in DOMAIN Walk[Here]
        /\ Family \in Seq(Files) /\ Ahead \subseteq DOMAIN Family
        /\ Ahead # {} =>
             /\ Turn \in DOMAIN Family
             /\ \A m \in DOMAIN Family : m >= run.next /\ Family[m] \in run.listed => Turn <= m
        /\ Ahead = {} => \A m \in DOMAIN Family : Family[m] \in run.listed => m < run.next
    BY AtFamily
  <1>2. Here' = Here
    BY DEF Here
  <1>3. PICK k \in DOMAIN Walk[Here][j] :
          Walk[Here][j][k] = f /\ (j < run'.fam \/ (j = run'.fam /\ k < run'.next))
    BY <1>2 DEF BehindIn
  <1>4. /\ run.fam \in Nat /\ run.next \in Nat
        /\ j \in Nat /\ k \in Nat \ {0}
    <2>1. Walk[Here] \in Seq(Seq(Files))
      BY <1>1, ListingAssumption
    <2> DEFINE w == Walk[Here]
    <2> HIDE DEF w
    <2>2. w \in Seq(Seq(Files)) /\ j \in DOMAIN w /\ k \in DOMAIN w[j]
      BY <2>1, <1>3 DEF w
    <2>3. w[j] \in Seq(Files)
      BY <2>2
    <2>4. j \in Nat /\ k \in Nat \ {0}
      BY <2>2, <2>3
    <2>5. run.fam \in Nat /\ run.next \in Nat
      BY CursorTyped
    <2> QED BY <2>4, <2>5
  <1>5. CASE j < run.fam
    BY <1>3, <1>5 DEF BehindIn
  <1>6. CASE j = run.fam
    <2>1. k \in DOMAIN Family /\ Family[k] = f
      BY <1>3, <1>6 DEF Family
    <2>2. CASE k < run.next
      BY <1>3, <1>6, <2>2 DEF BehindIn
    <2>3. CASE ~(k < run.next)
      <3>1. k >= run.next
        BY <1>4, <2>3
      <3>2. Ahead # {}
        BY <1>1, <2>1, <2>3
      <3>3. Turn <= k
        BY <1>1, <2>1, <3>1, <3>2
      <3>4. run'.fam = run.fam /\ run'.next = Turn + 1
        BY <3>2
      <3>5. Turn \in Nat
        <4> DEFINE s == Family
        <4> HIDE DEF s
        <4>1. s \in Seq(Files) /\ Turn \in DOMAIN s
          BY <1>1, <3>2 DEF s
        <4> QED BY <4>1
      <3>6. k < Turn + 1
        BY <1>3, <1>4, <1>6, <3>4
      <3> DEFINE t == Turn
      <3> HIDE DEF t
      <3>7. k = t
        <4>1. t \in Nat /\ t <= k /\ k < t + 1
          BY <3>3, <3>5, <3>6 DEF t
        <4> QED BY <1>4, <4>1
      <3>8. f = File
        BY <2>1, <3>7 DEF File, t
      <3> QED BY <3>2, <3>8
    <2> QED BY <2>2, <2>3
  <1>7. j <= run.fam
    <2>1. CASE run'.fam = run.fam
      BY <1>3, <1>4, <2>1
    <2>2. CASE run'.fam = run.fam + 1 /\ run'.next = 1
      <3>1. ~(k < 1)
        BY <1>4
      <3> QED BY <1>3, <1>4, <2>2, <3>1
    <2> QED BY <2>1, <2>2
  <1> QED BY <1>4, <1>5, <1>6, <1>7

\* One file is passed only when it is known, or submitted.
LEMMA PassedKept ==
  ASSUME CheckedInv, TallyInv', Onward, AuditStep, run'.at \in Auditing
  PROVE  \A f \in run'.listed :
           (\E j \in DOMAIN Walk[Here]' : BehindIn(j, f)') => Covered(f)'
PROOF
  <1>1. TallyInv /\ Earned /\ AuditedSoFar /\ Entered /\ Typed /\ Cursor /\ run'.listed = run.listed
    BY DEF CheckedInv, TallyInv, Onward
  <1>2. \A f : Covered(f) => Covered(f)'
    BY <1>1, CoverStays
  <1>3. ASSUME run'.comp = run.comp, run'.fam = run.fam, run'.next = run.next, run.at \in Auditing
        PROVE  \A f \in run'.listed :
                 (\E j \in DOMAIN Walk[Here]' : BehindIn(j, f)') => Covered(f)'
    <2>1. Here' = Here
      BY <1>3 DEF Here
    <2>2. \A j, f : BehindIn(j, f)' <=> BehindIn(j, f)
      BY <1>3, <2>1 DEF BehindIn
    <2> QED BY <1>1, <1>2, <1>3, <2>1, <2>2 DEF AuditedSoFar, Covered
  <1>4. ASSUME run.at \in Auditing, run.fam <= Len(Walk[Here]), run'.comp = run.comp,
               \/ /\ Ahead # {} /\ run'.fam = run.fam /\ run'.next = Turn + 1
                  /\ \A f : f = File => Covered(f)'
               \/ Ahead = {} /\ run'.fam = run.fam + 1 /\ run'.next = 1
        PROVE  \A f \in run'.listed :
                 (\E j \in DOMAIN Walk[Here]' : BehindIn(j, f)') => Covered(f)'
    <2>1. Here' = Here
      BY <1>4 DEF Here
    <2> SUFFICES ASSUME NEW f \in run.listed, NEW j \in DOMAIN Walk[Here], BehindIn(j, f)'
                 PROVE  Covered(f)'
      BY <1>1, <2>1
    <2>2. BehindIn(j, f) \/ (Ahead # {} /\ f = File)
      BY <1>1, <1>4, PassesOne
    <2>3. CASE BehindIn(j, f)
      BY <1>1, <1>2, <1>4, <2>3 DEF AuditedSoFar, Covered
    <2> QED BY <1>4, <2>2, <2>3
  <1>5. ASSUME run'.fam = 1, run'.next = 1, run'.comp <= Len(Layouts), run'.comp \in Nat \ {0}
        PROVE  \A f, j : j \in DOMAIN Walk[Here]' => ~BehindIn(j, f)'
    <2>1. Here' \in Computers
      BY <1>5, LayoutsFacts DEF Here
    <2> SUFFICES ASSUME NEW f, NEW j \in DOMAIN Walk[Here]', BehindIn(j, f)' PROVE FALSE
      OBVIOUS
    <2>2. PICK k \in DOMAIN Walk[Here]'[j] : j < 1 \/ (j = 1 /\ k < 1)
      BY <1>5 DEF BehindIn
    <2> DEFINE w == Walk[Here]'
    <2>3. w \in Seq(Seq(Files))
      BY <2>1, ListingAssumption
    <2> HIDE DEF w
    <2>4. w \in Seq(Seq(Files)) /\ j \in DOMAIN w /\ k \in DOMAIN w[j]
      BY <2>2, <2>3 DEF w
    <2>5. w[j] \in Seq(Files)
      BY <2>4
    <2>6. j \in Nat \ {0} /\ k \in Nat \ {0}
      BY <2>4, <2>5
    <2> QED BY <2>2, <2>6
  <1>6. CASE AuditSet
    <2>1. \/ run' = Moved(EndAudit, 1, 1, 1)
          \/ run.comp <= Len(Layouts) /\ run' = Moved("family", run.comp, 1, 1)
          \/ run' = Moved("l2", run.comp + 1, run.fam, run.next)
      BY <1>1, <1>6, AuditSetTyped
    <2>2. EndAudit \notin Auditing /\ "l2" \notin Auditing
      BY DEF EndAudit, Auditing
    <2>3. run.comp <= Len(Layouts) /\ run' = Moved("family", run.comp, 1, 1)
      BY <2>1, <2>2, MovedParts
    <2>4. run'.fam = 1 /\ run'.next = 1 /\ run'.comp <= Len(Layouts) /\ run'.comp \in Nat \ {0}
      BY <1>1, <2>3, MovedParts, CursorTyped
    <2> QED BY <1>5, <2>4
  <1>7. CASE NextFile
    <2>1. /\ run.at \in Auditing /\ run.fam <= Len(Walk[Here])
          /\ \/ \E p : run' = Moved(p, run.comp, run.fam, run.next)
             \/ /\ Ahead # {} /\ Name(File) \in ledger
                /\ run' = Moved("family", run.comp, run.fam, Turn + 1)
      BY <1>1, <1>7, NextFileTyped DEF Does, Auditing
    <2>2. CASE \E p : run' = Moved(p, run.comp, run.fam, run.next)
      BY <1>3, <2>1, <2>2, MovedParts
    <2>3. CASE /\ Ahead # {} /\ Name(File) \in ledger
               /\ run' = Moved("family", run.comp, run.fam, Turn + 1)
      <3>1. Covered(File)
        <4>1. File \in Files
          BY <1>1, <2>1, <2>3, TurnFacts
        <4>2. run.tier # "record"
          BY <1>1, <2>1 DEF TallyInv, Ranks
        <4> QED BY <1>1, <2>3, <4>1, <4>2 DEF Entered, Covered, Audited
      <3>2. \A f : f = File => Covered(f)'
        BY <1>2, <3>1
      <3>3. run'.comp = run.comp /\ run'.fam = run.fam /\ run'.next = Turn + 1
        BY <2>3, MovedParts
      <3> QED BY <1>4, <2>1, <2>3, <3>2, <3>3
    <2> QED BY <2>1, <2>2, <2>3
  <1>8. CASE Submit
    <2>1. /\ Ahead # {} /\ run.fam <= Len(Walk[Here]) /\ run.at \in Auditing
          /\ run'.comp = run.comp /\ run'.fam = run.fam /\ run'.next = Turn + 1
      BY <1>1, <1>8, SubmitTyped, MovedParts DEF Does, Auditing
    <2>2. \A f : f = File => Awaited(f)'
      <3>1. inflight \in Seq(Futures) /\ File \in Files
            /\ inflight' = Append(inflight, [file |-> File, out |-> "none"])
        BY <1>1, <1>8, SubmitTyped DEF Typed
      <3> DEFINE e == [file |-> File, out |-> "none"]
      <3>2. e \in Futures /\ e.file = File
        BY <3>1 DEF Futures, Outcomes
      <3> HIDE DEF e
      <3>3. inflight' \in Seq(Futures) /\ Len(inflight) + 1 \in DOMAIN inflight'
            /\ inflight'[Len(inflight) + 1] = e
        BY <3>1, <3>2, AppendedFacts DEF e
      <3>4. e \in ToSet(inflight')
        BY <3>3, PlaceOf
      <3> QED BY <3>2, <3>4 DEF Awaited
    <2> QED BY <1>4, <2>1, <2>2 DEF Covered
  <1>9. CASE Wait \/ Recheck \/ Alone
    <2>1. /\ run.at \in Auditing
          /\ run' = run \/ \E p : run' = Moved(p, run.comp, run.fam, run.next)
      BY <1>1, <1>9, WaitTyped, RecheckTyped, AloneTyped DEF Does, Auditing
    <2>2. run'.comp = run.comp /\ run'.fam = run.fam /\ run'.next = run.next
      BY <2>1, MovedParts
    <2> QED BY <1>3, <2>1, <2>2
  <1>10. CASE Drain
    <2>1. run.at \in Auditing /\ run.fam <= Len(Walk[Here])
      <3>1. Does("drain")
        BY <1>10 DEF Drain
      <3> QED BY <1>1, <3>1 DEF Does, Auditing, Cursor
    <2>2. CASE run' = run
      BY <1>3, <2>1, <2>2
    <2>3. CASE report.aborted /\ run' = Moved(EndAudit, 1, 1, 1)
      <3>1. run'.at \notin Auditing
        BY <2>3, MovedParts DEF EndAudit, Auditing
      <3> QED BY <3>1
    <2>4. CASE ~report.aborted /\ run' = Moved("family", run.comp, run.fam + 1, 1)
      <3>1. Ahead = {}
        BY <1>1, <1>10, <2>4 DEF AuditedSoFar, Drain
      <3>2. run'.comp = run.comp /\ run'.fam = run.fam + 1 /\ run'.next = 1
        BY <2>4, MovedParts
      <3> QED BY <1>4, <2>1, <3>1, <3>2
    <2> QED BY <1>1, <1>10, <2>2, <2>3, <2>4, DrainTyped
  <1>11. CASE SetDone
    <2>1. run'.at = "l2"
      BY <1>1, <1>11, SetDoneTyped, MovedParts
    <2> QED BY <2>1 DEF Auditing
  <1>12. CASE Compute
    <2>1. run' = run /\ inflight # <<>>
      <3>1. run' = run
        BY <1>1, <1>12, ComputeTyped
      <3>2. PICK i \in DOMAIN inflight : TRUE
        BY <1>12 DEF Compute
      <3> QED BY <3>1, <3>2
    <2>2. run.at \in Auditing
      BY <1>1, <2>1 DEF TallyInv, Window
    <2> QED BY <1>3, <2>1, <2>2
  <1> QED BY <1>6, <1>7, <1>8, <1>9, <1>10, <1>11, <1>12 DEF AuditStep

\* A set is done when every file of it that was listed has been passed, and
\* nothing is in flight.
LEMMA SetDoneCovers ==
  ASSUME CheckedInv, SetDone
  PROVE  SetAudited(Here)
PROOF
  <1>1. /\ TallyInv /\ AuditedSoFar /\ Typed /\ run.at \in Auditing /\ Does("family")
        /\ run.fam > Len(Walk[Here])
    BY DEF CheckedInv, TallyInv, SetDone, Does, Auditing
  <1>2. inflight = <<>> /\ Here \in Computers /\ run.fam \in Nat
    BY <1>1, HereIs, CursorTyped DEF TallyInv, Window, Cursor
  <1>3. \A f : ~Awaited(f)
    BY <1>2 DEF Awaited, ToSet
  <1> SUFFICES ASSUME NEW f \in run.listed \cap Listed(Here) PROVE Audited(f)
    BY DEF SetAudited
  <1>4. PICK j \in DOMAIN Walk[Here] : f \in ToSet(Walk[Here][j])
    BY DEF Listed
  <1>5. PICK k \in DOMAIN Walk[Here][j] : f = Walk[Here][j][k]
    BY <1>4 DEF ToSet
  <1>6. j < run.fam
    <2> DEFINE w == Walk[Here]
    <2>1. w \in Seq(Seq(Files)) /\ j \in DOMAIN w /\ run.fam > Len(w)
      BY <1>1, <1>2, <1>4, ListingAssumption
    <2> HIDE DEF w
    <2>2. j \in Nat /\ j <= Len(w) /\ Len(w) \in Nat
      BY <2>1
    <2> QED BY <1>2, <2>1, <2>2
  <1>7. BehindIn(j, f)
    BY <1>5, <1>6 DEF BehindIn
  <1> QED BY <1>1, <1>3, <1>4, <1>7 DEF AuditedSoFar

\* The sets before the cursor, as it goes on or comes to the end.
LEMMA SetsKept ==
  ASSUME CheckedInv, TallyInv', Onward, AuditStep
  PROVE  /\ run'.at \in Mid =>
              \A i \in 1..Len(Layouts) : i < run'.comp => SetAudited(Layouts[i])'
         /\ run'.at = "drain" => report'.aborted \/ Ahead' = {}
         /\ run'.at \in Late => report'.aborted \/ \A c \in Computers : SetAudited(c)'
PROOF
  <1>1. TallyInv /\ AuditedSoFar /\ Typed /\ Cursor /\ run \in RunTypes
    BY DEF CheckedInv, TallyInv, Typed
  <1>2. \A c : SetAudited(c) => SetAudited(c)'
    BY KnownStays
  <1>3. Mid \cap Late = {} /\ EndAudit \in Late /\ "drain" \notin Late /\ Auditing \subseteq Mid
        /\ EndAudit # "drain"
    BY DEF Mid, Late, Auditing, EndAudit
  <1>4. ASSUME run'.comp = run.comp, run.at \in Mid
        PROVE  \A i \in 1..Len(Layouts) : i < run'.comp => SetAudited(Layouts[i])'
    BY <1>1, <1>2, <1>4 DEF AuditedSoFar, Mid
  <1>5. ASSUME NEW p, NEW c, NEW f, NEW n, run' = Moved(p, c, f, n)
        PROVE  run'.at = p /\ run'.comp = c /\ run'.fam = f /\ run'.next = n /\ run'.listed = run.listed
    BY <1>5, MovedParts
  <1>6. ASSUME run'.comp = run.comp, run'.fam = run.fam, run'.next = run.next, run'.listed = run.listed
        PROVE  Ahead' = Ahead
    BY <1>6 DEF Ahead, Family, Here
  <1>7. ASSUME run.at \in Mid, run'.comp = run.comp + 1, run.comp <= Len(Layouts),
               \A c : c = Here => SetAudited(c)'
        PROVE  \A i \in 1..Len(Layouts) : i < run'.comp => SetAudited(Layouts[i])'
    <2> SUFFICES ASSUME NEW i \in 1..Len(Layouts), i < run.comp + 1 PROVE SetAudited(Layouts[i])'
      BY <1>7
    <2>1. run.comp \in Nat /\ (i < run.comp \/ i = run.comp)
      BY <1>1, CursorTyped, LayoutsFacts
    <2>2. CASE i < run.comp
      BY <1>1, <1>2, <1>7, <2>2 DEF AuditedSoFar, Mid
    <2>3. CASE i = run.comp
      <3>1. \A c : c = Layouts[i] => SetAudited(c)'
        BY <1>7, <2>3 DEF Here
      <3> QED BY <3>1
    <2> QED BY <2>1, <2>2, <2>3
  <1>8. CASE AuditSet
    <2>1. run.at = "l2" /\ run.at \in Mid
      BY <1>8 DEF AuditSet, Does, Mid
    <2>2. CASE run.comp > Len(Layouts) /\ run' = Moved(EndAudit, 1, 1, 1)
      <3>1. ASSUME NEW c \in Computers PROVE SetAudited(c)'
        <4>1. PICK i \in 1..Len(Layouts) : Layouts[i] = c
          BY LayoutsFacts
        <4>2. i < run.comp
          <5>1. run.comp \in Nat
            BY <1>1, CursorTyped
          <5> QED BY <2>2, <5>1, LayoutsFacts
        <4>3. SetAudited(Layouts[i])
          BY <1>1, <2>1, <4>2 DEF AuditedSoFar
        <4> QED BY <1>2, <4>1, <4>3
      <3>2. run'.at = EndAudit
        BY <1>5, <2>2
      <3> QED BY <1>3, <3>1, <3>2
    <2>3. CASE run' = Moved("family", run.comp, 1, 1)
      <3>1. run'.at = "family" /\ run'.comp = run.comp /\ "family" \notin Late
        BY <1>3, <1>5, <2>3 DEF Auditing
      <3> QED BY <1>4, <2>1, <3>1
    <2>4. CASE /\ run.comp <= Len(Layouts) /\ run' = Moved("l2", run.comp + 1, run.fam, run.next)
               /\ report' = [report EXCEPT !.sets = report.sets \cup {Here}]
      <3>1. run'.at = "l2" /\ run'.comp = run.comp + 1 /\ "l2" \notin Late
        BY <1>5, <2>4 DEF Late
      <3>2. report \in Reports
        BY <1>1 DEF Typed
      <3>3. \A c : c = Here => SetAudited(c)'
        BY <2>4, <3>2 DEF SetAudited, Reports
      <3> QED BY <1>7, <2>1, <2>4, <3>1, <3>3
    <2> QED BY <1>1, <1>8, <2>2, <2>3, <2>4, AuditSetTyped
  <1>9. CASE NextFile
    <2>1. run.at \in Mid
      BY <1>9 DEF NextFile, InFamily, Does, Mid, Auditing
    <2>2. CASE /\ run' = Moved("drain", run.comp, run.fam, run.next)
               /\ report' = [report EXCEPT !.aborted = Ahead # {}]
      <3> DEFINE x == Ahead # {}
      <3>1. report \in Reports /\ report' = [report EXCEPT !.aborted = x]
        BY <1>1, <2>2 DEF Typed
      <3> HIDE DEF x
      <3>2. report'.aborted = x
        BY <3>1 DEF Reports
      <3>3. /\ run'.at = "drain" /\ run'.comp = run.comp /\ run'.fam = run.fam
            /\ run'.next = run.next /\ run'.listed = run.listed
        BY <1>5, <2>2
      <3>4. Ahead' = Ahead
        BY <1>6, <3>3
      <3> QED BY <1>3, <1>4, <2>1, <3>2, <3>3, <3>4 DEF x
    <2>3. CASE run' = Moved("family", run.comp, run.fam, Turn + 1)
      <3>1. run'.at = "family" /\ run'.comp = run.comp /\ "family" \notin Late
        BY <1>5, <2>3 DEF Late
      <3> QED BY <1>4, <2>1, <3>1
    <2>4. CASE run' = Moved(IF Full THEN "wait" ELSE "submit", run.comp, run.fam, run.next)
      <3>1. run'.at \in {"wait", "submit"} /\ run'.comp = run.comp
        BY <1>5, <2>4
      <3>2. {"wait", "submit"} \cap Late = {} 
        BY DEF Late
      <3> QED BY <1>4, <2>1, <3>1, <3>2
    <2> QED BY <1>1, <1>9, <2>2, <2>3, <2>4, NextFileTyped
  <1>10. CASE Submit
    <2>1. /\ run.at \in Mid /\ run'.comp = run.comp /\ run'.at \in {"alone", "family"}
          /\ {"alone", "family"} \cap Late = {}
      BY <1>1, <1>5, <1>10, SubmitTyped DEF Does, Mid, Auditing, Late
    <2> QED BY <1>4, <2>1
  <1>11. CASE Wait \/ Alone
    <2>1. /\ run.at \in Mid /\ run'.comp = run.comp /\ run'.at \in {"wait", "recheck", "family"}
          /\ {"wait", "recheck", "family"} \cap Late = {}
      BY <1>1, <1>5, <1>11, WaitTyped, AloneTyped DEF Does, Mid, Auditing, Late
    <2> QED BY <1>4, <2>1
  <1>12. CASE Recheck
    <2>1. /\ run.at \in Mid /\ report \in Reports
          /\ run' = Moved(IF OverBudget THEN "drain" ELSE "submit", run.comp, run.fam, run.next)
          /\ report' = [report EXCEPT !.aborted = OverBudget]
      BY <1>1, <1>12, RecheckTyped DEF Does, Mid, Auditing, Typed
    <2>2. /\ run'.comp = run.comp /\ (run'.at = "drain" => OverBudget) /\ run'.at \in {"drain", "submit"}
          /\ {"drain", "submit"} \cap Late = {}
      BY <1>5, <2>1 DEF Late
    <2> DEFINE x == OverBudget
    <2>3. report' = [report EXCEPT !.aborted = x]
      BY <2>1
    <2> HIDE DEF x
    <2>4. report'.aborted = x
      BY <2>1, <2>3 DEF Reports
    <2> QED BY <1>4, <2>1, <2>2, <2>4 DEF x
  <1>13. CASE Drain
    <2>1. run.at = "drain" /\ run.at \in Mid
      BY <1>13 DEF Drain, Does, Mid, Auditing
    <2>2. ASSUME run' = run, NEW i \in DoneNow, TakeOut(i)
          PROVE  /\ \A m \in 1..Len(Layouts) : m < run'.comp => SetAudited(Layouts[m])'
                 /\ report'.aborted \/ Ahead' = {}
                 /\ run'.at \notin Late
      <3>1. Ahead' = Ahead /\ report'.aborted = report.aborted
        BY <1>1, <1>6, <2>2, TakeOutGrows
      <3> QED BY <1>1, <1>3, <1>4, <2>1, <2>2, <3>1 DEF AuditedSoFar, Does
    <2>3. CASE report.aborted /\ report' = report /\ run' = Moved(EndAudit, 1, 1, 1)
      <3>1. run'.at = EndAudit /\ report'.aborted
        BY <1>5, <2>3
      <3> QED BY <1>3, <3>1
    <2>4. CASE run' = Moved("family", run.comp, run.fam + 1, 1)
      <3>1. run'.at = "family" /\ run'.comp = run.comp /\ "family" \notin Late
        BY <1>5, <2>4 DEF Late
      <3> QED BY <1>4, <2>1, <3>1
    <2> QED BY <1>1, <1>13, <2>2, <2>3, <2>4, DrainTyped
  <1>14. CASE SetDone
    <2>1. /\ run.at \in Mid /\ run'.comp = run.comp + 1 /\ run'.at = "l2" /\ "l2" \notin Late
      BY <1>1, <1>5, <1>14, SetDoneTyped DEF Does, Mid, Auditing, Late
    <2>2. \A c : c = Here => SetAudited(c)'
      BY <1>2, <1>14, SetDoneCovers
    <2>3. run.comp <= Len(Layouts)
      BY <1>1, <1>14 DEF SetDone, Does, Cursor, Auditing
    <2> QED BY <1>7, <2>1, <2>2, <2>3
  <1>15. CASE Compute
    <2>1. run' = run /\ report' = report
      BY <1>1, <1>15, ComputeTyped
    <2>2. run.at \in Auditing
      <3>1. PICK i \in DOMAIN inflight : TRUE
        BY <1>15 DEF Compute
      <3>2. inflight # <<>>
        BY <3>1
      <3> QED BY <1>1, <3>2 DEF TallyInv, Window
    <2>3. Ahead' = Ahead
      BY <1>6, <2>1
    <2>4. run.at = "drain" => report'.aborted \/ Ahead' = {}
      BY <1>1, <2>1, <2>3 DEF AuditedSoFar, Does
    <2> QED BY <1>3, <1>4, <2>1, <2>2, <2>4
  <1> QED BY <1>8, <1>9, <1>10, <1>11, <1>12, <1>13, <1>14, <1>15 DEF AuditStep

LEMMA AuditedKept == ASSUME CheckedInv, TallyInv', [Next]_vars PROVE AuditedSoFar'
PROOF
  <1>1. TallyInv /\ AuditedSoFar /\ run \in RunTypes /\ run' \in RunTypes
    BY DEF CheckedInv, TallyInv, Typed
  <1>2. /\ Mid \cap Late = {} /\ Auditing \subseteq Mid /\ "drain" \in Mid
        /\ {"l0", "l1a", "l1b", "idle"} \cap (Mid \cup Late) = {}
    BY DEF Mid, Late, Auditing
  <1>3. ASSUME run'.at \notin Mid,
               run'.at \in Late /\ Reaches("audit")' =>
                 CutShort' \/ report'.aborted \/ \A c \in Computers : SetAudited(c)'
        PROVE  AuditedSoFar'
    BY <1>2, <1>3 DEF AuditedSoFar, Mid, Late, Does
  <1>4. CASE \/ \E cmd \in Commands : StartRun(cmd)
             \/ \E cmd \in Commands, r \in AllRecords : StartRecord(cmd, r)
    <2>1. run'.at \in {"l0", "open"} /\ (run'.at = "open" => run'.tier = "record") /\ run'.at \notin Mid
      BY <1>1, <1>4, BeginFacts
    <2>2. run'.at = "open" => ~Reaches("audit")'
      BY <1>1, <2>1, ReachAfter
    <2> QED BY <1>2, <1>3, <2>1, <2>2
  <1>5. CASE LayoutCheck \/ MagicCheck
    <2>1. /\ run'.at \in {"save", "l1a", "l1b"} /\ run'.at \notin Mid
          /\ (run'.at = "save" => CutShort' \/ ~Reaches("audit")')
      BY <1>1, <1>5, EarlyFacts
    <2> QED BY <1>2, <1>3, <2>1
  <1>6. CASE RecordCheck
    <2>1. CASE run'.at = "l2" /\ run'.comp = 1
      <3>1. \A i \in 1..Len(Layouts) : ~(i < run'.comp)
        BY <2>1, LayoutsFacts
      <3> QED BY <2>1, <3>1 DEF AuditedSoFar, Auditing, Does
    <2>2. CASE run'.at = "save" /\ (CutShort' \/ ~Reaches("audit")')
      <3>1. "save" \notin Mid
        BY DEF Mid, Auditing
      <3> QED BY <1>3, <2>2, <3>1
    <2>3. CASE run'.at = "l1b"
      BY <1>2, <1>3, <2>3
    <2> QED BY <1>1, <1>6, <2>1, <2>2, <2>3, DeepFacts
  <1>7. CASE Onward /\ (\/ AuditSet \/ NextFile \/ Submit \/ Wait \/ Recheck \/ Alone \/ Drain
                        \/ SetDone \/ Compute)
    <2>1. /\ run'.at \in Mid =>
               \A i \in 1..Len(Layouts) : i < run'.comp => SetAudited(Layouts[i])'
          /\ run'.at = "drain" => report'.aborted \/ Ahead' = {}
          /\ run'.at \in Late => report'.aborted \/ \A c \in Computers : SetAudited(c)'
      BY <1>7, SetsKept DEF AuditStep
    <2>2. run'.at \in Auditing =>
            \A f \in run'.listed :
              (\E j \in DOMAIN Walk[Here]' : BehindIn(j, f)') => Audited(f)' \/ Awaited(f)'
      BY <1>7, PassedKept DEF AuditStep, Covered
    <2> QED BY <2>1, <2>2 DEF AuditedSoFar, Mid, Late, Does
  <1>8. CASE Onward /\ (GraphCheck \/ OpenRecord \/ VisitNode \/ WalkDone \/ SaveLedger)
    <2>1. run.at \in Late
      BY <1>8 DEF GraphCheck, OpenRecord, VisitNode, WalkDone, SaveLedger, Does, Late
    <2>2. run'.at \in Late /\ run'.at \notin Mid /\ report'.aborted = report.aborted
          /\ (Reaches("audit")' <=> Reaches("audit"))
      BY <1>2, <1>8, <2>1 DEF Onward, Reaches
    <2>3. Reaches("audit") => CutShort \/ report.aborted \/ \A c \in Computers : SetAudited(c)
      BY <1>1, <2>1 DEF AuditedSoFar, Late
    <2>4. /\ CutShort' <=> CutShort
          /\ (\A c \in Computers : SetAudited(c)) => \A c \in Computers : SetAudited(c)'
      BY <1>8, KnownStays
    <2> QED BY <1>3, <2>2, <2>3, <2>4
  <1>9. CASE Leave
    <2>1. run'.at = "idle"
      BY <1>9 DEF Leave, NoRun
    <2> QED BY <1>2, <1>3, <2>1
  <1>10. CASE Untouched
    <2>1. UNCHANGED <<run, report, inflight, passed, before>>
      BY <1>10 DEF Untouched
    <2>2. Here' = Here
      BY <2>1 DEF Here
    <2>3. /\ \A f : Audited(f)' <=> Audited(f)
          /\ \A f : Awaited(f)' <=> Awaited(f)
          /\ \A j, f : BehindIn(j, f)' <=> BehindIn(j, f)
      BY <2>1, <2>2 DEF Audited, Awaited, BehindIn
    <2>4. /\ \A c : SetAudited(c)' <=> SetAudited(c)
          /\ (CutShort' <=> CutShort) /\ Ahead' = Ahead /\ (Reaches("audit")' <=> Reaches("audit"))
      BY <2>1, <2>2, <2>3 DEF SetAudited, CutShort, Ahead, Family, Reaches
    <2> QED BY <1>1, <2>1, <2>2, <2>3, <2>4 DEF AuditedSoFar, Does
  <1> QED BY <1>1, <1>4, <1>5, <1>6, <1>7, <1>8, <1>9, <1>10, Steps

\* The audit hands over to the walks, or to the end, in one way.
LEMMA AuditEnds ==
  ASSUME TallyInv, AuditStep, run'.at \in Late
  PROVE  /\ run.tier # "record" /\ run'.tier = run.tier /\ run'.at = EndAudit
         /\ run'.comp = 1 /\ run'.next = 1
PROOF
  <1>1. Typed /\ Cursor /\ Mid \cap Late = {} /\ Auditing \subseteq Mid
    BY DEF TallyInv, Mid, Late, Auditing
  <1>2. run.at \in Mid
    <2>1. ASSUME Compute PROVE run.at \in Mid
      <3>1. PICK i \in DOMAIN inflight : TRUE
        BY <2>1 DEF Compute
      <3>2. inflight # <<>>
        BY <3>1
      <3> QED BY <1>1, <3>2 DEF TallyInv, Window
    <2> QED BY <2>1 DEF AuditStep, AuditSet, NextFile, InFamily, Submit, Wait, Recheck, Alone,
                       Drain, SetDone, Does, Mid, Auditing
  <1>3. run.tier # "record"
    BY <1>2 DEF TallyInv, Ranks, Mid, Auditing
  <1>4. \/ run' = run
        \/ \E p \in Mid : \E c, f, n : run' = Moved(p, c, f, n)
        \/ run' = Moved(EndAudit, 1, 1, 1)
    <2>1. /\ "family" \in Mid /\ "l2" \in Mid /\ "drain" \in Mid /\ "recheck" \in Mid
          /\ (IF Full THEN "wait" ELSE "submit") \in Mid
          /\ (IF run.width = 1 THEN "alone" ELSE "family") \in Mid
          /\ (IF OverBudget THEN "drain" ELSE "submit") \in Mid
      BY DEF Mid, Auditing
    <2>2. CASE AuditSet \/ Drain
      BY <1>1, <2>1, <2>2, AuditSetTyped, DrainTyped
    <2>3. CASE NextFile
      BY <1>1, <2>1, <2>3, NextFileTyped
    <2>4. CASE Submit
      BY <1>1, <2>1, <2>4, SubmitTyped
    <2>5. CASE Wait \/ Alone
      BY <1>1, <2>1, <2>5, WaitTyped, AloneTyped
    <2>6. CASE Recheck
      BY <1>1, <2>1, <2>6, RecheckTyped
    <2>7. CASE SetDone \/ Compute
      BY <1>1, <2>1, <2>7, SetDoneTyped, ComputeTyped
    <2> QED BY <2>2, <2>3, <2>4, <2>5, <2>6, <2>7 DEF AuditStep
  <1>5. run' = Moved(EndAudit, 1, 1, 1)
    <2>1. CASE \E p \in Mid : \E c, f, n : run' = Moved(p, c, f, n)
      <3>1. PICK p \in Mid : \E c, f, n : run' = Moved(p, c, f, n)
        BY <2>1
      <3>2. run'.at = p
        BY <3>1, MovedParts
      <3> QED BY <1>1, <3>1, <3>2
    <2> QED BY <1>1, <1>2, <1>4, <2>1
  <1> QED BY <1>3, <1>5, MovedParts

\* The walks, one record after another.
LEMMA WalksKept ==
  ASSUME CheckedInv, TallyInv', Onward,
         GraphCheck \/ OpenRecord \/ VisitNode \/ WalkDone \/ SaveLedger
  PROVE  WalkedSoFar'
PROOF
  <1>1. TallyInv /\ WalkedSoFar /\ Typed /\ Cursor /\ Ranks /\ passed \subseteq passed'
    BY DEF CheckedInv, TallyInv, Onward
  <1>2. /\ \A r : Handled(r) => Handled(r)'
        /\ \A c : FolderWalked(c) => FolderWalked(c)'
        /\ CutShort' <=> CutShort
    BY KnownStays
  <1>3. ASSUME NEW p, NEW c, NEW f, NEW n, run' = Moved(p, c, f, n)
        PROVE  run'.at = p /\ run'.comp = c /\ run'.next = n /\ run'.tier = run.tier
    BY <1>3, MovedParts
  <1>4. ASSUME run'.comp = run.comp, run.tier = "graph", run.at \in {"l3", "open", "walk"}
        PROVE  /\ \A i \in 1..Len(Layouts) : i < run'.comp => FolderWalked(Layouts[i])'
               /\ Here' = Here
    BY <1>1, <1>2, <1>4 DEF WalkedSoFar, Here
  <1>5. CASE GraphCheck
    <2>1. run.at = "l3" /\ run.tier = "graph" /\ run.comp \in Nat \ {0} /\ run.next \in Nat \ {0}
      BY <1>1, <1>5, CursorTyped DEF GraphCheck, Does, Ranks
    <2>2. \A i \in 1..Len(Layouts) : i < run.comp => FolderWalked(Layouts[i])'
      BY <1>1, <1>2, <2>1 DEF WalkedSoFar
    <2>3. run.comp <= Len(Layouts) =>
            \A r, k : k \in DOMAIN Records[Here] /\ k < run.next /\ r = Records[Here][k] => Handled(r)'
      <3>1. run.comp <= Len(Layouts) =>
              \A r, k : k \in DOMAIN Records[Here] /\ k < run.next /\ r = Records[Here][k] => Handled(r)
        BY <1>1, <2>1 DEF WalkedSoFar
      <3> QED BY <1>2, <3>1
    <2>4. CASE run.comp > Len(Layouts) /\ run' = Moved("save", 1, 1, 1)
      <3>1. ASSUME NEW c \in Computers PROVE FolderWalked(c)'
        <4>1. PICK i \in 1..Len(Layouts) : Layouts[i] = c
          BY LayoutsFacts
        <4>2. i < run.comp
          BY <2>1, <2>4, LayoutsFacts
        <4> QED BY <2>2, <4>1, <4>2
      <3>2. run'.at = "save" /\ run'.tier = "graph"
        BY <1>3, <2>1, <2>4
      <3> QED BY <3>1, <3>2 DEF WalkedSoFar, Does
    <2>5. ASSUME run.comp <= Len(Layouts), run' = Moved("l3", run.comp + 1, run.fam, 1),
                 \A c : c = Here => FolderWalked(c)'
          PROVE  WalkedSoFar'
      <3>1. run'.at = "l3" /\ run'.tier = "graph" /\ run'.comp = run.comp + 1 /\ run'.next = 1
        BY <1>3, <2>1, <2>5
      <3>2. ASSUME NEW i \in 1..Len(Layouts), i < run.comp + 1 PROVE FolderWalked(Layouts[i])'
        <4>1. i < run.comp \/ i = run.comp
          BY <2>1, <3>2
        <4>2. CASE i = run.comp
          <5>1. \A c : c = Layouts[i] => FolderWalked(c)'
            BY <2>5, <4>2 DEF Here
          <5> QED BY <5>1
        <4> QED BY <2>2, <4>1, <4>2
      <3>3. ASSUME run'.comp <= Len(Layouts), NEW k \in DOMAIN Records[Here'] PROVE ~(k < run'.next)
        <4>1. Here' \in Computers
          BY <2>1, <3>1, <3>3, LayoutsFacts DEF Here
        <4> DEFINE s == Records[Here']
        <4>2. s \in Seq(AllRecords) /\ k \in DOMAIN s
          BY <3>3, <4>1, ListingAssumption
        <4> HIDE DEF s
        <4>3. k \in Nat \ {0}
          BY <4>2
        <4> QED BY <3>1, <4>3
      <3> QED BY <3>1, <3>2, <3>3 DEF WalkedSoFar, Does
    <2>6. CASE run.comp <= Len(Layouts) /\ run.next > Len(Records[Here])
               /\ run' = Moved("l3", run.comp + 1, run.fam, 1)
      <3>1. Records[Here] \in Seq(AllRecords)
        BY <1>1, <2>6, HereIs
      <3>2. ASSUME NEW r \in ToSet(Records[Here]) PROVE Handled(r)'
        <4> DEFINE s == Records[Here]
        <4>1. PICK k \in DOMAIN s : r = s[k]
          BY <3>1, <3>2, PlaceOf
        <4>2. k < run.next
          <5>1. s \in Seq(AllRecords) /\ run.next > Len(s)
            BY <2>6, <3>1
          <5> HIDE DEF s
          <5>2. k <= Len(s) /\ k \in Nat /\ Len(s) \in Nat
            BY <4>1, <5>1
          <5> QED BY <2>1, <5>1, <5>2
        <4> QED BY <2>3, <2>6, <4>1, <4>2
      <3>3. \A c : c = Here => FolderWalked(c)'
        BY <3>2 DEF FolderWalked
      <3> QED BY <2>5, <2>6, <3>3
    <2>7. CASE /\ run.comp <= Len(Layouts)
               /\ run' = Moved("l3", run.comp + 1, run.fam, 1)
               /\ report' = [report EXCEPT !.unlisted = report.unlisted \cup {Here}]
      <3>1. report \in Reports
        BY <1>1 DEF Typed
      <3>2. \A c : c = Here => FolderWalked(c)'
        BY <2>7, <3>1 DEF FolderWalked, Reports
      <3> QED BY <2>5, <2>7, <3>2
    <2>8. CASE /\ run.comp <= Len(Layouts) /\ run.next <= Len(Records[Here])
               /\ run' = Moved("open", run.comp, run.fam, run.next + 1)
               /\ walk'.rec = Records[Here][run.next]
      <3>1. run'.at = "open" /\ run'.tier = "graph" /\ run'.comp = run.comp /\ run'.next = run.next + 1
        BY <1>3, <2>1, <2>8
      <3>2. Here' = Here /\ Records[Here] \in Seq(AllRecords)
        BY <1>1, <2>8, <3>1, HereIs DEF Here
      <3>3. \A k \in DOMAIN Records[Here] : k + 1 < run'.next => k < run.next
        <4> DEFINE s == Records[Here]
        <4>1. s \in Seq(AllRecords)
          BY <3>2
        <4> HIDE DEF s
        <4>2. \A k \in DOMAIN s : k \in Nat
          BY <4>1
        <4>3. \A k \in DOMAIN s : k + 1 < run.next + 1 => k < run.next
          BY <2>1, <4>2
        <4> QED BY <3>1, <4>3 DEF s
      <3>4. run'.next > 1 /\ run'.next - 1 = run.next
        BY <2>1, <3>1
      <3>5. \A r, k : k \in DOMAIN Records[Here] /\ k + 1 < run'.next /\ r = Records[Here][k] => Handled(r)'
        BY <2>3, <2>8, <3>3
      <3>6. (\A k \in DOMAIN Records[Here] : k + 1 < run.next => Handled(Records[Here][k]))'
        BY <3>2, <3>5
      <3> QED BY <2>2, <2>8, <3>1, <3>2, <3>4, <3>6 DEF WalkedSoFar, Does
    <2> QED BY <1>1, <1>5, <2>4, <2>6, <2>7, <2>8, GraphCheckTyped
  <1>6. ASSUME run.tier = "graph", run.at \in {"open", "walk"}, run'.tier = "graph", run'.at \in {"l3", "walk"},
               run'.comp = run.comp, run'.next = run.next,
               run.at = "open" => \A r : r = walk.rec => Handled(r)',
               run'.at = "walk" => <<"graph", walk'.rec>> \in passed'
        PROVE  WalkedSoFar'
    <2>1. /\ \A i \in 1..Len(Layouts) : i < run'.comp => FolderWalked(Layouts[i])'
          /\ Here' = Here
      BY <1>4, <1>6
    <2>2. ASSUME run.at = "open", NEW k \in DOMAIN Records[Here], k < run.next, NEW r, r = Records[Here][k]
          PROVE  Handled(r)'
      <3>1. run.comp <= Len(Layouts) /\ run.next \in Nat
        BY <1>1, <1>6, CursorTyped DEF Cursor
      <3>2. Records[Here] \in Seq(AllRecords)
        BY <1>1, <3>1, HereIs
      <3> DEFINE s == Records[Here]
      <3>3. k \in Nat
        <4>1. s \in Seq(AllRecords) /\ k \in DOMAIN s
          BY <2>2, <3>2
        <4> HIDE DEF s
        <4> QED BY <4>1
      <3>4. k + 1 < run.next \/ k = run.next - 1
        BY <2>2, <3>1, <3>3
      <3>5. CASE k + 1 < run.next
        <4>1. Handled(r)
          BY <1>1, <1>6, <2>2, <3>5 DEF WalkedSoFar, Does
        <4> QED BY <1>2, <4>1
      <3>6. CASE k = run.next - 1
        <4>1. Records[Here][k] = walk.rec
          BY <1>1, <1>6, <2>2, <3>6 DEF WalkedSoFar, Does
        <4> QED BY <1>6, <2>2, <4>1
      <3> QED BY <3>4, <3>5, <3>6
    <2>3. ASSUME run.at = "walk", run.comp <= Len(Layouts), NEW k \in DOMAIN Records[Here], k < run.next,
                 NEW r, r = Records[Here][k]
          PROVE  Handled(r)'
      <3>1. Handled(r)
        BY <1>1, <1>6, <2>3 DEF WalkedSoFar
      <3> QED BY <1>2, <3>1
    <2>4. (run.comp <= Len(Layouts) =>
             \A k \in DOMAIN Records[Here] : k < run.next => Handled(Records[Here][k]))'
      BY <1>6, <2>1, <2>2, <2>3
    <2> QED BY <1>6, <2>1, <2>4 DEF WalkedSoFar, Does
  <1>7. ASSUME run'.tier = "record", run'.at \in {"walk", "save"},
               run'.at = "walk" => <<"graph", walk'.rec>> \in passed',
               run'.at = "save" => Handled(walk.rec)' /\ walk'.rec = walk.rec /\ walk.rec \in AllRecords
        PROVE  WalkedSoFar'
    BY <1>7 DEF WalkedSoFar, Does
  <1>8. CASE OpenRecord
    <2>1. /\ run.at = "open" /\ walk.rec \in AllRecords /\ walk'.rec = walk.rec
          /\ run.tier \in {"graph", "record"} /\ report \in Reports
      BY <1>1, <1>8, OpenRecordTyped DEF Does, Ranks, Typed
    <2>2. CASE /\ run' = Moved("walk", run.comp, run.fam, run.next)
               /\ passed' = passed \cup {<<"graph", walk.rec>>}
      <3>1. run'.at = "walk" /\ run'.tier = run.tier /\ run'.comp = run.comp /\ run'.next = run.next
        BY <1>3, <2>2
      <3>2. <<"graph", walk'.rec>> \in passed' /\ \A r : r = walk.rec => Handled(r)'
        BY <2>1, <2>2 DEF Handled
      <3> QED BY <1>6, <1>7, <2>1, <3>1, <3>2
    <2>3. CASE /\ run' = Moved(AfterPlace, run.comp, run.fam, run.next)
               /\ report' = [report EXCEPT !.graph = report.graph \cup {walk.rec}]
      <3>1. run'.at = AfterPlace /\ run'.tier = run.tier /\ run'.comp = run.comp /\ run'.next = run.next
        BY <1>3, <2>3
      <3>2. \A r : r = walk.rec => Handled(r)'
        BY <2>1, <2>3 DEF Handled, Reports
      <3>3. CASE run.tier = "graph"
        BY <1>6, <2>1, <3>1, <3>2, <3>3 DEF AfterPlace
      <3>4. CASE run.tier = "record"
        <4>1. run'.at = "save" /\ run'.tier = "record"
          BY <3>1, <3>4 DEF AfterPlace
        <4>2. Handled(walk.rec)'
          BY <2>1, <3>2
        <4> QED BY <1>7, <2>1, <4>1, <4>2
      <3> QED BY <2>1, <3>3, <3>4
    <2> QED BY <1>1, <1>8, <2>2, <2>3, OpenRecordTyped
  <1>9. CASE VisitNode
    <2>1. /\ run.at = "walk" /\ walk'.rec = walk.rec /\ run' = run
          /\ run.tier \in {"graph", "record"} /\ <<"graph", walk'.rec>> \in passed'
      BY <1>1, <1>9, VisitTyped DEF Does, Ranks, WalkedSoFar
    <2> QED BY <1>6, <1>7, <2>1
  <1>10. CASE WalkDone
    <2>1. /\ run.at = "walk" /\ walk.rec \in AllRecords /\ walk'.rec = walk.rec
          /\ run.tier \in {"graph", "record"} /\ <<"graph", walk.rec>> \in passed'
          /\ run'.at = AfterPlace /\ run'.tier = run.tier /\ run'.comp = run.comp /\ run'.next = run.next
      BY <1>1, <1>3, <1>10, WalkDoneTyped DEF Does, Ranks, WalkedSoFar
    <2>2. CASE run.tier = "graph"
      BY <1>6, <2>1, <2>2 DEF AfterPlace
    <2>3. CASE run.tier = "record"
      <3>1. run'.at = "save" /\ run'.tier = "record"
        BY <2>1, <2>3 DEF AfterPlace
      <3>2. Handled(walk.rec)'
        BY <2>1 DEF Handled
      <3> QED BY <1>7, <2>1, <3>1, <3>2
    <2> QED BY <2>1, <2>2, <2>3
  <1>11. CASE SaveLedger
    <2>1. /\ run.at = "save" /\ walk' = walk /\ run'.at = "done" /\ run'.tier = run.tier
      BY <1>1, <1>3, <1>11, SaveTyped DEF Does
    <2>2. run.tier = "graph" => CutShort' \/ \A c \in Computers : FolderWalked(c)'
      BY <1>1, <1>2, <2>1 DEF WalkedSoFar
    <2>3. run.tier = "record" => Handled(walk.rec)' /\ walk.rec \in AllRecords
      <3>1. run.tier = "record" => Handled(walk.rec) /\ walk.rec \in AllRecords
        BY <1>1, <2>1 DEF WalkedSoFar
      <3>2. Handled(walk.rec) => Handled(walk.rec)'
        <4>1. \A r : r = walk.rec /\ Handled(r) => Handled(r)'
          BY <1>2
        <4> QED BY <2>1, <4>1
      <3> QED BY <3>1, <3>2
    <2> QED BY <2>1, <2>2, <2>3 DEF WalkedSoFar, Does
  <1> QED BY <1>5, <1>8, <1>9, <1>10, <1>11

LEMMA WalkedKept == ASSUME CheckedInv, TallyInv', [Next]_vars PROVE WalkedSoFar'
PROOF
  <1>1. TallyInv /\ WalkedSoFar
    BY DEF CheckedInv, TallyInv
  <1>2. Mid \cap {"l3", "open", "walk", "save", "done"} = {}
    BY DEF Mid, Auditing
  <1>3. ASSUME run'.at \notin {"l3", "open", "walk", "save", "done"} PROVE WalkedSoFar'
    BY <1>3 DEF WalkedSoFar, Does
  <1>4. CASE \/ \E cmd \in Commands : StartRun(cmd)
             \/ \E cmd \in Commands, r \in AllRecords : StartRecord(cmd, r)
    <2>1. run'.at \in {"l0", "open"} /\ (run'.at = "open" => run'.tier = "record")
      BY <1>1, <1>4, BeginFacts
    <2> QED BY <2>1 DEF WalkedSoFar, Does
  <1>5. CASE LayoutCheck \/ MagicCheck
    <2>1. /\ run'.at \in {"save", "l1a", "l1b"} /\ run'.tier # "record"
          /\ (run'.at = "save" => CutShort' \/ run'.tier # "graph")
      BY <1>1, <1>5, EarlyFacts
    <2> QED BY <2>1 DEF WalkedSoFar, Does
  <1>6. CASE RecordCheck
    <2>1. /\ run'.at \in {"save", "l2", "l1b"} /\ run'.tier # "record"
          /\ (run'.at = "save" => CutShort' \/ run'.tier # "graph")
      BY <1>1, <1>6, DeepFacts
    <2> QED BY <2>1 DEF WalkedSoFar, Does
  <1>7. CASE Onward /\ (\/ AuditSet \/ NextFile \/ Submit \/ Wait \/ Recheck \/ Alone \/ Drain
                        \/ SetDone \/ Compute)
    <2>1. CASE run'.at \in Mid
      BY <1>2, <1>3, <2>1
    <2>2. CASE run'.at \in Late
      <3>1. /\ run'.tier # "record" /\ run'.at = (IF run'.tier = "graph" THEN "l3" ELSE "save")
            /\ run'.comp = 1 /\ run'.next = 1
        BY <1>1, <1>7, <2>2, AuditEnds DEF AuditStep, EndAudit
      <3>2. CASE run'.tier = "graph"
        <4>1. run'.at = "l3" /\ \A i \in 1..Len(Layouts) : ~(i < run'.comp)
          BY <3>1, <3>2, LayoutsFacts
        <4>2. ASSUME run'.comp <= Len(Layouts), NEW k \in DOMAIN Records[Here'] PROVE ~(k < run'.next)
          <5>1. Here' \in Computers
            BY <3>1, <4>2, LayoutsFacts DEF Here
          <5> DEFINE s == Records[Here']
          <5>2. s \in Seq(AllRecords) /\ k \in DOMAIN s
            BY <4>2, <5>1, ListingAssumption
          <5> HIDE DEF s
          <5>3. k \in Nat \ {0}
            BY <5>2
          <5> QED BY <3>1, <5>3
        <4> QED BY <3>2, <4>1, <4>2 DEF WalkedSoFar, Does
      <3>3. CASE run'.tier # "graph"
        BY <3>1, <3>3 DEF WalkedSoFar, Does
      <3> QED BY <3>2, <3>3
    <2> QED BY <1>7, <2>1, <2>2 DEF Onward
  <1>8. CASE Onward /\ (GraphCheck \/ OpenRecord \/ VisitNode \/ WalkDone \/ SaveLedger)
    BY <1>8, WalksKept
  <1>9. CASE Leave
    BY <1>3, <1>9 DEF Leave, NoRun
  <1>10. CASE Untouched
    <2>1. UNCHANGED <<run, report, walk, passed>>
      BY <1>10 DEF Untouched
    <2>2. Here' = Here /\ (\A r : Handled(r)' <=> Handled(r)) /\ (CutShort' <=> CutShort)
      BY <2>1 DEF Here, Handled, CutShort
    <2>3. \A c : FolderWalked(c)' <=> FolderWalked(c)
      BY <2>1, <2>2 DEF FolderWalked
    <2> QED BY <1>1, <2>1, <2>2, <2>3 DEF WalkedSoFar, Does
  <1> QED BY <1>1, <1>4, <1>5, <1>6, <1>7, <1>8, <1>9, <1>10, Steps

\* Where nothing failed, a node of the walk is passed over because its tree has
\* been met, or all that is checked of it is met now.
LEMMA VisitFacts ==
  ASSUME CheckedInv, TallyInv', VisitNode, walk'.bad = {}
  PROVE  /\ walk.bad = {} /\ before' = before /\ passed \subseteq passed'
         /\ \/ /\ ToSet(Last(walk.stack).tree) \cap walk.seen # {}
               /\ passed' = passed /\ walk'.seen = walk.seen
               /\ walk'.stack = Front(walk.stack)
            \/ /\ walk'.seen = walk.seen \cup ToSet(Last(walk.stack).tree)
               /\ \A r, f : r = walk.rec /\ f \in ToSet(Checked(Last(walk.stack))) => Met(r, f)'
               /\ \E good : \E lost \in MayFail("reread") :
                    /\ passed' = passed \cup {<<walk.rec, f>> : f \in good}
                    /\ good \subseteq ToSet(Checked(Last(walk.stack)))
                    /\ \A t \in good : Verifies(t)
                    /\ \E known :
                         walk'.stack = Front(walk.stack) \o
                           (IF lost THEN <<>> ELSE Opened(ToSet(Last(walk.stack).tree) \cap (good \cup known)))
PROOF
  <1>1. TallyInv /\ Typed /\ Ranks /\ Entered /\ DOMAIN walk = {"rec", "stack", "seen", "count", "bad"}
    BY DEF CheckedInv, TallyInv, Typed
  <1> DEFINE node == Last(walk.stack)
             blobs == ToSet(Checked(node))
             tree == ToSet(node.tree)
  <1>2. /\ before' = before /\ IsNode(node) /\ walk.rec \in AllRecords /\ walk'.rec = walk.rec
    BY <1>1, VisitTyped
  <1>3. CASE /\ tree \cap walk.seen # {} /\ passed' = passed
             /\ walk' = [walk EXCEPT !.stack = Front(walk.stack)]
    <2>1. walk'.bad = walk.bad /\ walk'.seen = walk.seen /\ walk'.stack = Front(walk.stack)
      BY <1>1, <1>3
    <2> QED BY <1>2, <1>3, <2>1
  <1>4. ASSUME walk'.seen = walk.seen \cup tree, NEW failed \in SUBSET Files, NEW lost \in MayFail("reread"),
               walk'.stack = Front(walk.stack) \o
                 (IF lost THEN <<>> ELSE Opened(tree \cap (Passing(blobs, failed) \cup Known(blobs)))),
               walk'.bad = walk.bad \cup (blobs \ (Passing(blobs, failed) \cup Known(blobs)))
                             \cup {t \in tree \cap (Passing(blobs, failed) \cup Known(blobs)) :
                                     ~Verifies(t) /\ disk[t] # "gone"},
               passed' = passed \cup {<<walk.rec, f>> : f \in Passing(blobs, failed)}
        PROVE  /\ walk.bad = {}
               /\ \A r, f : r = walk.rec /\ f \in blobs => Met(r, f)'
               /\ Passing(blobs, failed) \subseteq blobs /\ \A t \in Passing(blobs, failed) : Verifies(t)
    <2> DEFINE good == Passing(blobs, failed)
               known == Known(blobs)
    <2>1. walk.bad = {} /\ blobs \subseteq good \cup known
      BY <1>4
    <2>2. good \subseteq blobs /\ \A t \in good : Verifies(t)
      BY DEF Passing
    <2>3. blobs \subseteq Files
      <3>1. run.limit \in Nat /\ walk.count \in Nat
        BY <1>1, CursorTyped DEF Typed
      <3>2. Checked(node) \in Seq(Files)
        BY <1>2, <3>1, CheckedFacts
      <3> QED BY <3>2, OwnElements
    <2>4. ASSUME NEW f \in known PROVE Blob(f) \in before \/ <<walk.rec, f>> \in passed
      <3>1. f \in Files /\ Blob(f) \in ledger
        BY <2>3, <2>4 DEF Known
      <3> QED BY <1>1, <3>1 DEF Entered
    <2>5. ASSUME NEW f \in blobs PROVE Blob(f) \in before' \/ <<walk.rec, f>> \in passed'
      <3>1. f \in good => <<walk.rec, f>> \in passed'
        BY <1>4
      <3>2. f \in known => Blob(f) \in before' \/ <<walk.rec, f>> \in passed'
        BY <1>2, <1>4, <2>4
      <3> QED BY <2>1, <3>1, <3>2
    <2> QED BY <2>1, <2>2, <2>5 DEF Met
  <1>5. \/ /\ tree \cap walk.seen # {} /\ passed' = passed
           /\ walk' = [walk EXCEPT !.stack = Front(walk.stack)]
        \/ /\ walk'.seen = walk.seen \cup tree
           /\ \E failed \in SUBSET Files, lost \in MayFail("reread") :
                /\ walk'.stack = Front(walk.stack) \o
                     (IF lost THEN <<>> ELSE Opened(tree \cap (Passing(blobs, failed) \cup Known(blobs))))
                /\ walk'.bad = walk.bad \cup (blobs \ (Passing(blobs, failed) \cup Known(blobs)))
                                 \cup {t \in tree \cap (Passing(blobs, failed) \cup Known(blobs)) :
                                         ~Verifies(t) /\ disk[t] # "gone"}
                /\ passed' = passed \cup {<<walk.rec, f>> : f \in Passing(blobs, failed)}
    BY <1>1, VisitTyped
  <1>6. CASE /\ walk'.seen = walk.seen \cup tree
             /\ \E failed \in SUBSET Files, lost \in MayFail("reread") :
                  /\ walk'.stack = Front(walk.stack) \o
                       (IF lost THEN <<>> ELSE Opened(tree \cap (Passing(blobs, failed) \cup Known(blobs))))
                  /\ walk'.bad = walk.bad \cup (blobs \ (Passing(blobs, failed) \cup Known(blobs)))
                                   \cup {t \in tree \cap (Passing(blobs, failed) \cup Known(blobs)) :
                                           ~Verifies(t) /\ disk[t] # "gone"}
                  /\ passed' = passed \cup {<<walk.rec, f>> : f \in Passing(blobs, failed)}
    <2>1. PICK failed \in SUBSET Files, lost \in MayFail("reread") :
            /\ walk'.stack = Front(walk.stack) \o
                 (IF lost THEN <<>> ELSE Opened(tree \cap (Passing(blobs, failed) \cup Known(blobs))))
            /\ walk'.bad = walk.bad \cup (blobs \ (Passing(blobs, failed) \cup Known(blobs)))
                             \cup {t \in tree \cap (Passing(blobs, failed) \cup Known(blobs)) :
                                     ~Verifies(t) /\ disk[t] # "gone"}
            /\ passed' = passed \cup {<<walk.rec, f>> : f \in Passing(blobs, failed)}
      BY <1>6
    <2> DEFINE good == Passing(blobs, failed)
               known == Known(blobs)
    <2>2. /\ walk.bad = {}
          /\ \A r, f : r = walk.rec /\ f \in blobs => Met(r, f)'
          /\ good \subseteq blobs /\ \A t \in good : Verifies(t)
      BY <1>4, <1>6, <2>1
    <2>3. /\ walk'.stack = Front(walk.stack) \o (IF lost THEN <<>> ELSE Opened(tree \cap (good \cup known)))
          /\ passed' = passed \cup {<<walk.rec, f>> : f \in good}
      BY <2>1
    <2> HIDE DEF good, known, blobs, tree, node
    <2>4. passed \subseteq passed'
      BY <2>3
    <2>5. \E g : \E l \in MayFail("reread") :
            /\ passed' = passed \cup {<<walk.rec, f>> : f \in g}
            /\ g \subseteq blobs
            /\ \A t \in g : Verifies(t)
            /\ \E k : walk'.stack = Front(walk.stack) \o (IF l THEN <<>> ELSE Opened(tree \cap (g \cup k)))
      <3> DEFINE Stacked(l, g, k) == Front(walk.stack) \o (IF l THEN <<>> ELSE Opened(tree \cap (g \cup k)))
      <3>1. walk'.stack = Stacked(lost, good, known)
        BY <2>3
      <3> HIDE DEF Stacked
      <3>2. \E g : \E l \in MayFail("reread") :
              /\ passed' = passed \cup {<<walk.rec, f>> : f \in g}
              /\ g \subseteq blobs
              /\ \A t \in g : Verifies(t)
              /\ \E k : walk'.stack = Stacked(l, g, k)
        BY <2>2, <2>3, <3>1
      <3> QED BY <3>2 DEF Stacked
    <2> QED BY <1>2, <1>6, <2>2, <2>4, <2>5 DEF blobs, tree, node
  <1> QED BY <1>3, <1>5, <1>6

LEMMA SeenKept == ASSUME CheckedInv, TallyInv', [Next]_vars PROVE SeenMet'
PROOF
  <1>1. TallyInv /\ SeenMet /\ Typed /\ Ranks /\ DOMAIN walk = {"rec", "stack", "seen", "count", "bad"}
    BY DEF CheckedInv, TallyInv, Typed
  <1>2. ASSUME run'.at \notin {"open", "walk"} PROVE SeenMet'
    BY <1>2 DEF SeenMet, Does
  <1>3. CASE \/ \E cmd \in Commands : StartRun(cmd)
             \/ \E cmd \in Commands, r \in AllRecords : StartRecord(cmd, r)
    <2>1. run'.at \in {"l0", "open"} /\ (run'.at = "open" => walk'.seen = {})
      BY <1>1, <1>3, BeginFacts
    <2> QED BY <2>1 DEF SeenMet, Does
  <1>4. CASE LayoutCheck \/ MagicCheck
    BY <1>1, <1>2, <1>4, EarlyFacts
  <1>5. CASE RecordCheck
    <2>1. run'.at \in {"save", "l2", "l1b"}
      BY <1>1, <1>5, DeepFacts
    <2> QED BY <1>2, <2>1
  <1>6. CASE Onward /\ (\/ AuditSet \/ NextFile \/ Submit \/ Wait \/ Recheck \/ Alone \/ Drain
                        \/ SetDone \/ Compute)
    <2>1. run'.at \in Mid \/ run'.at = EndAudit
      BY <1>1, <1>6, AuditEnds DEF AuditStep, Onward
    <2> QED BY <1>2, <2>1 DEF Mid, Auditing, EndAudit
  <1>7. CASE GraphCheck
    <2>1. CASE run'.at = "open"
      <3>1. walk'.seen = {}
        <4>1. ASSUME walk' = [NoWalk EXCEPT !.rec = Records[Here][run.next]] PROVE walk'.seen = {}
          BY <4>1 DEF NoWalk
        <4>2. run'.at # "l3" /\ run'.at # "save"
          BY <2>1
        <4> QED BY <1>1, <1>7, <2>1, <4>1, <4>2, CursorTyped DEF GraphCheck, Goto, RunTypes, Does
      <3> QED BY <2>1, <3>1 DEF SeenMet, Does
    <2>2. CASE run'.at # "open"
      <3>1. run'.at \in {"save", "l3", "open"}
        BY <1>1, <1>7, GraphCheckTyped, MovedParts
      <3> QED BY <1>2, <2>2, <3>1
    <2> QED BY <2>1, <2>2
  <1>8. CASE OpenRecord
    <2>1. CASE /\ run' = Moved("walk", run.comp, run.fam, run.next)
               /\ walk' = [walk EXCEPT !.stack = <<Root[walk.rec]>>]
      <3>1. walk'.seen = {} /\ run'.at = "walk"
        BY <1>1, <1>8, <2>1, MovedParts DEF SeenMet, OpenRecord
      <3> QED BY <3>1 DEF SeenMet, Does
    <2>2. CASE run' = Moved(AfterPlace, run.comp, run.fam, run.next)
      <3>1. run'.at \in {"save", "l3"}
        BY <2>2, MovedParts DEF AfterPlace
      <3> QED BY <1>2, <3>1
    <2> QED BY <1>1, <1>8, <2>1, <2>2, OpenRecordTyped
  <1>9. CASE VisitNode
    <2>1. /\ Does("walk") /\ run' = run /\ walk'.rec = walk.rec /\ IsNode(Last(walk.stack))
      BY <1>1, <1>9, VisitTyped
    <2> SUFFICES ASSUME run.limit = 0, walk'.bad = {}, NEW t \in walk'.seen
                 PROVE  \A r : r = walk.rec => Met(r, t)'
      BY <2>1 DEF SeenMet, Does
    <2>2. walk.bad = {} /\ before' = before /\ passed \subseteq passed'
      BY <1>9, VisitFacts
    <2>3. ASSUME t \in walk.seen, NEW r, r = walk.rec PROVE Met(r, t)'
      <3>1. Met(walk.rec, t)
        BY <1>1, <2>1, <2>2, <2>3 DEF SeenMet
      <3> QED BY <2>2, <2>3, <3>1 DEF Met
    <2>4. ASSUME t \notin walk.seen, NEW r, r = walk.rec PROVE Met(r, t)'
      <3>1. /\ t \in ToSet(Last(walk.stack).tree)
            /\ \A q, f : q = walk.rec /\ f \in ToSet(Checked(Last(walk.stack))) => Met(q, f)'
        BY <1>9, <2>4, VisitFacts
      <3>2. ToSet(Last(walk.stack).tree) \subseteq ToSet(Checked(Last(walk.stack)))
        <4>1. run.limit \in Nat /\ walk.count \in Nat
          BY <1>1, CursorTyped DEF Typed
        <4> QED BY <2>1, <4>1, CheckedFacts
      <3> QED BY <2>4, <3>1, <3>2
    <2> QED BY <2>3, <2>4
  <1>10. CASE WalkDone
    <2>1. run'.at = AfterPlace
      BY <1>1, <1>10, WalkDoneTyped, MovedParts
    <2> QED BY <1>2, <2>1 DEF AfterPlace
  <1>11. CASE SaveLedger
    <2>1. run'.at = "done"
      BY <1>1, <1>11, SaveTyped, MovedParts
    <2> QED BY <1>2, <2>1
  <1>12. CASE Leave
    BY <1>2, <1>12 DEF Leave, NoRun
  <1>13. CASE Untouched
    BY <1>1, <1>13 DEF Untouched, SeenMet, Does, Met
  <1> QED BY <1>1, <1>3, <1>4, <1>5, <1>6, <1>7, <1>8, <1>9, <1>10, <1>11, <1>12, <1>13, Steps

\* What is settled stays so, and a record with nothing new met finds no node.
LEMMA SettledStays ==
  ASSUME before' = before, passed \subseteq passed', NEW r, NEW node, Settled(r, node)
  PROVE  Settled(r, node)'
BY DEF Settled

\* A step that is no part of a walk.
LEMMA FollowedStays ==
  ASSUME Followed, ~Does("walk"), run'.limit = run.limit, before' = before,
         passed \subseteq passed', report.graph \subseteq report'.graph,
         \A r \in AllRecords : \A f : <<r, f>> \in passed' => <<r, f>> \in passed,
         \A r \in AllRecords : <<"graph", r>> \in passed' => <<"graph", r>> \in passed
  PROVE  Followed'
PROOF
  <1> SUFFICES ASSUME run.limit = 0, NEW r \in AllRecords, r \notin report'.graph,
                      NEW node \in Nodes(r), Found(r, node)'
               PROVE  Settled(r, node)'
    BY DEF Followed, Nodes
  <1>1. Found(r, node)
    BY DEF Found
  <1>2. Settled(r, node)
    BY <1>1 DEF Followed
  <1> QED BY <1>2, SettledStays

\* A run that has verified nothing yet.
LEMMA FollowedFresh == ASSUME passed' = {} PROVE Followed'
BY DEF Followed, Found

\* The children of a tree that is verified are read again: with no tree lost
\* between the two readings, they go on the stack.
LEMMA OpenedTree ==
  ASSUME NEW node, IsNode(node), NEW t \in ToSet(node.tree), NEW S, t \in S, Verifies(t)
  PROVE  Opened(ToSet(node.tree) \cap S) = Children[t]
PROOF
  <1>1. ToSet(node.tree) = {t}
    <2> DEFINE s == node.tree
    <2>1. s \in Seq(DOMAIN Children) /\ Len(s) <= 1 /\ t \in ToSet(s)
      BY DEF IsNode
    <2> HIDE DEF s
    <2>2. Len(s) \in Nat /\ DOMAIN s = 1..Len(s)
      BY <2>1
    <2>3. \A x, y \in ToSet(s) : x = y
      BY <2>1, <2>2 DEF ToSet
    <2>4. ToSet(s) = {t}
      BY <2>1, <2>3
    <2> QED BY <2>4 DEF s
  <1>2. ToSet(node.tree) \cap S = {t}
    BY <1>1
  <1> DEFINE trees == ToSet(node.tree) \cap S
  <1>3. trees = {t}
    BY <1>2
  <1> HIDE DEF trees
  <1>4. (\E x \in trees : Verifies(x)) /\ (CHOOSE x \in trees : TRUE) = t
    BY <1>3
  <1>5. Opened(trees) = Children[t]
    BY <1>4 DEF Opened
  <1> QED BY <1>5 DEF trees

LEMMA VisitFollowed ==
  ASSUME CheckedInv, TallyInv', VisitNode, "reread" \notin Troubles
  PROVE  Followed'
PROOF
  <1>1. TallyInv /\ Followed /\ SeenMet /\ Typed /\ Ranks
    BY DEF CheckedInv, TallyInv
  <1>2. /\ Does("walk") /\ run' = run /\ report' = report /\ before' = before
        /\ walk'.rec = walk.rec /\ walk.rec \in AllRecords /\ IsNode(Last(walk.stack))
        /\ walk.stack # <<>>
    BY <1>1, VisitTyped
  <1>3. \A r, f : r # walk.rec /\ <<r, f>> \in passed' => <<r, f>> \in passed
    <2>1. passed' = passed \/ \E good : passed' = passed \cup {<<walk.rec, f>> : f \in good}
      BY <1>1, VisitTyped
    <2> QED BY <2>1
  <1>4. passed \subseteq passed' /\ (walk.bad # {} => walk'.bad # {})
    <2>1. passed \subseteq passed'
      BY <1>1, VisitTyped
    <2>2. walk'.bad = {} => walk.bad = {}
      BY VisitFacts
    <2> QED BY <2>1, <2>2
  <1> DEFINE node == Last(walk.stack)
             S == ToSet(walk.stack)
  <1>5. Front(walk.stack) \in Seq(S) /\ S = ToSet(Front(walk.stack)) \cup {node}
    BY <1>1, <1>2, FrontFacts DEF Typed
  <1> HIDE DEF S
  <1> SUFFICES ASSUME run.limit = 0, NEW r \in AllRecords, r \notin report.graph,
                      ~(walk.rec = r /\ walk'.bad # {}),
                      NEW n \in Nodes(r), Found(r, n)'
               PROVE  Settled(r, n)' \/ (walk.rec = r /\ n \in ToSet(walk'.stack))
    BY <1>2 DEF Followed, Nodes, Does
  <1>6. CASE r # walk.rec
    <2>1. Found(r, n)
      <3>1. "graph" # walk.rec
        BY <1>2, RecordAssumption
      <3> QED BY <1>3, <1>6, <3>1 DEF Found
    <2>2. Settled(r, n)
      BY <1>1, <1>6, <2>1 DEF Followed
    <2> QED BY <1>2, <1>4, <2>2, SettledStays
  <1>7. CASE r = walk.rec
    <2>1. walk'.bad = {} /\ walk.bad = {}
      BY <1>4, <1>7
    <2>2. Found(r, n) => Settled(r, n) \/ n \in S
      BY <1>1, <1>7, <2>1 DEF Followed, S
    <2>3. ASSUME Settled(r, n) PROVE Settled(r, n)'
      BY <1>2, <1>4, <2>3, SettledStays
    <2>4. CASE /\ ToSet(node.tree) \cap walk.seen # {}
               /\ passed' = passed /\ walk'.stack = Front(walk.stack)
      <3>1. Found(r, n)
        BY <2>4 DEF Found
      <3>2. ASSUME n = node PROVE Settled(r, n)
        <4>1. PICK t \in ToSet(node.tree) : t \in walk.seen
          BY <2>4
        <4>2. Met(r, t)
          BY <1>1, <1>2, <1>7, <2>1, <4>1 DEF SeenMet
        <4>3. \A f \in ToSet(node.tree) : f = t
          <5> DEFINE s == node.tree
          <5>1. s \in Seq(DOMAIN Children) /\ Len(s) <= 1 /\ t \in ToSet(s)
            BY <1>2, <4>1 DEF IsNode
          <5> HIDE DEF s
          <5>2. Len(s) \in Nat /\ DOMAIN s = 1..Len(s)
            BY <5>1
          <5>3. \A f \in ToSet(s) : f = t
            BY <5>1, <5>2 DEF ToSet
          <5> QED BY <5>3 DEF s
        <4>4. node.tree # <<>>
          BY <4>1 DEF ToSet
        <4> HIDE DEF node
        <4> QED BY <3>2, <4>2, <4>3, <4>4 DEF Settled, Met
      <3> QED BY <1>5, <1>7, <2>2, <2>3, <2>4, <3>1, <3>2
    <2>5. ASSUME \A q, f : q = walk.rec /\ f \in ToSet(Checked(node)) => Met(q, f)',
                 NEW good, NEW lost \in MayFail("reread"), NEW known,
                 passed' = passed \cup {<<walk.rec, f>> : f \in good},
                 good \subseteq ToSet(Checked(node)), \A t \in good : Verifies(t),
                 walk'.stack = Front(walk.stack) \o
                   (IF lost THEN <<>> ELSE Opened(ToSet(node.tree) \cap (good \cup known)))
          PROVE  Settled(r, n)' \/ n \in ToSet(walk'.stack)
      <3>1. /\ ToSet(node.tree) \subseteq ToSet(Checked(node))
            /\ ToSet(Checked(node)) \cap DOMAIN Children \subseteq ToSet(node.tree)
            /\ ToSet(node.data \o node.xattrs \o node.acl) \subseteq ToSet(Checked(node))
        <4>1. run.limit \in Nat /\ walk.count \in Nat
          BY <1>1, CursorTyped DEF Typed
        <4> QED BY <1>2, <4>1, CheckedFacts
      <3> DEFINE opened == Opened(ToSet(node.tree) \cap (good \cup known))
      <3>2. walk'.stack = Front(walk.stack) \o opened
        <4>1. lost = FALSE
          BY DEF MayFail
        <4> QED BY <2>5, <4>1
      <3>3. opened \in Seq(ToSet(opened))
        <4>1. ToSet(node.tree) \subseteq DOMAIN Children
          <5>1. node.tree \in Seq(DOMAIN Children)
            BY <1>2 DEF IsNode
          <5> QED BY <5>1, OwnElements
        <4>2. ToSet(node.tree) \cap (good \cup known) \in SUBSET DOMAIN Children
          BY <4>1
        <4> QED BY <4>2, OpenedIs
      <3>4. ToSet(walk'.stack) = ToSet(Front(walk.stack)) \cup ToSet(opened)
        <4> DEFINE T == S \cup ToSet(opened)
        <4> HIDE DEF opened
        <4>1. T = S \cup ToSet(opened)
          OBVIOUS
        <4> HIDE DEF T
        <4>2. Front(walk.stack) \in Seq(T) /\ opened \in Seq(T)
          BY <1>5, <3>3, <4>1
        <4> QED BY <3>2, <4>2, ConcatFacts
      <3> HIDE DEF opened
      <3>5. CASE Found(r, n) /\ n # node
        BY <1>5, <2>2, <2>3, <3>4, <3>5
      <3>6. CASE n = node
        <4>1. \A f \in ToSet(Checked(node)) : Blob(f) \in before' \/ <<r, f>> \in passed'
          BY <1>7, <2>5 DEF Met
        <4> HIDE DEF node
        <4> QED BY <3>1, <3>6, <4>1 DEF Settled
      <3>7. CASE ~Found(r, n)
        <4>1. PICK t \in good : t \in DOMAIN Children /\ n \in ToSet(Children[t])
          <5>1. <<"graph", r>> \in passed' => <<"graph", r>> \in passed
            <6>1. "graph" # walk.rec
              BY <1>2, RecordAssumption
            <6> QED BY <1>3, <6>1
          <5>2. PICK t \in DOMAIN Children : <<r, t>> \in passed' /\ <<r, t>> \notin passed /\ n \in ToSet(Children[t])
            BY <3>7, <5>1 DEF Found
          <5>3. t \in good
            BY <1>7, <2>5, <5>2
          <5> QED BY <5>2, <5>3
        <4>2. t \in ToSet(node.tree) /\ Verifies(t)
          BY <2>5, <3>1, <4>1
        <4>3. opened = Children[t]
          BY <1>2, <4>1, <4>2, OpenedTree DEF opened
        <4> QED BY <3>4, <4>1, <4>3
      <3> QED BY <3>5, <3>6, <3>7
    <2> QED BY <1>7, <2>1, <2>4, <2>5, VisitFacts
  <1> QED BY <1>6, <1>7

LEMMA FollowedKept ==
  ASSUME CheckedInv, TallyInv', [Next]_vars, "reread" \notin Troubles
  PROVE  Followed'
PROOF
  <1>1. TallyInv /\ Followed /\ Typed /\ Ranks
    BY DEF CheckedInv, TallyInv
  <1>2. "graph" \notin AllRecords /\ "audit" \notin AllRecords
    BY RecordAssumption
  <1>3. CASE \/ \E cmd \in Commands : StartRun(cmd)
             \/ \E cmd \in Commands, r \in AllRecords : StartRecord(cmd, r)
    BY <1>1, <1>3, BeginFacts, FollowedFresh
  <1>4. CASE LayoutCheck \/ MagicCheck
    <2>1. /\ ~Does("walk") /\ run'.limit = run.limit /\ before' = before /\ passed' = passed
          /\ report'.graph = report.graph
      BY <1>1, <1>4, EarlyFacts
    <2> QED BY <1>1, <2>1, FollowedStays
  <1>5. CASE RecordCheck
    <2>1. /\ ~Does("walk") /\ run'.limit = run.limit /\ before' = before /\ passed \subseteq passed'
          /\ report'.graph = report.graph
          /\ \A r \in AllRecords : \A f : <<r, f>> \in passed' => <<r, f>> \in passed
          /\ \A x : <<"graph", x>> \in passed' => <<"graph", x>> \in passed
      BY <1>1, <1>5, DeepFacts DEF Does
    <2> QED BY <1>1, <2>1, FollowedStays
  <1>6. CASE Onward /\ (\/ AuditSet \/ NextFile \/ Submit \/ Wait \/ Recheck \/ Alone \/ Drain
                        \/ SetDone \/ Compute)
    <2>1. passed' = passed \/ \E f : passed' \subseteq passed \cup {<<"audit", f>>}
      <3>1. CASE AuditSet \/ NextFile \/ Submit \/ Wait \/ Recheck \/ Alone \/ Drain \/ SetDone
        <4>1. passed' = passed
          BY <3>1 DEF AuditSet, NextFile, Submit, Wait, Recheck, Alone, Drain, SetDone, history
        <4> QED BY <4>1
      <3>2. CASE Compute
        BY <1>1, <3>2, ComputeTyped
      <3> QED BY <1>6, <3>1, <3>2
    <2>2. /\ \A r \in AllRecords : \A f : <<r, f>> \in passed' => <<r, f>> \in passed
          /\ \A r \in AllRecords : <<"graph", r>> \in passed' => <<"graph", r>> \in passed
      BY <1>2, <2>1
    <2>3. ~Does("walk")
      <3>1. Auditing \cap {"walk"} = {}
        BY DEF Auditing
      <3>2. CASE Compute
        <4>1. PICK i \in DOMAIN inflight : TRUE
          BY <3>2 DEF Compute
        <4>2. inflight # <<>>
          BY <4>1
        <4> QED BY <1>1, <3>1, <4>2 DEF TallyInv, Window, Does
      <3> QED BY <1>6, <3>2 DEF AuditSet, NextFile, InFamily, Submit, Wait, Recheck, Alone, Drain,
                                SetDone, Does
    <2> QED BY <1>1, <1>6, <2>2, <2>3, FollowedStays DEF Onward, ReportGrows
  <1>7. ASSUME Onward, GraphCheck \/ SaveLedger PROVE Followed'
    <2>1. passed' = passed /\ ~Does("walk")
      BY <1>7 DEF GraphCheck, SaveLedger, history, Does
    <2> QED BY <1>1, <1>7, <2>1, FollowedStays DEF Onward, ReportGrows
  <1>8. ASSUME Onward, OpenRecord PROVE Followed'
    <2>1. /\ ~Does("walk") /\ before' = before /\ walk'.rec = walk.rec /\ walk.rec \in AllRecords
          /\ DOMAIN walk = {"rec", "stack", "seen", "count", "bad"}
      BY <1>1, <1>8, OpenRecordTyped DEF Does, Typed
    <2>2. CASE /\ run' = Moved("walk", run.comp, run.fam, run.next) /\ report' = report
               /\ passed' = passed \cup {<<"graph", walk.rec>>}
               /\ walk' = [walk EXCEPT !.stack = <<Root[walk.rec]>>]
      <3>1. walk'.stack = <<Root[walk.rec]>> /\ run'.at = "walk" /\ run'.limit = run.limit
        BY <2>1, <2>2, MovedParts
      <3>2. Root[walk.rec] \in ToSet(walk'.stack)
        <4> DEFINE x == Root[walk.rec]
        <4> HIDE DEF x
        <4>1. x \in ToSet(<<x>>)
          BY DEF ToSet
        <4> QED BY <3>1, <4>1 DEF x
      <3> SUFFICES ASSUME run.limit = 0, NEW r \in AllRecords, r \notin report.graph,
                          NEW n \in Nodes(r), Found(r, n)'
                   PROVE  Settled(r, n)' \/ (walk.rec = r /\ n \in ToSet(walk'.stack))
        BY <2>1, <2>2, <3>1 DEF Followed, Nodes, Does
      <3>3. CASE Found(r, n)
        <4>1. Settled(r, n)
          BY <1>1, <2>1, <3>3 DEF Followed
        <4> QED BY <2>1, <2>2, <4>1, SettledStays
      <3>4. CASE ~Found(r, n)
        <4>1. \A t : <<r, t>> \in passed' => <<r, t>> \in passed
          BY <1>2, <2>2
        <4>2. n = Root[r] /\ <<"graph", r>> \in passed' /\ <<"graph", r>> \notin passed
          BY <3>4, <4>1 DEF Found
        <4>3. r = walk.rec
          BY <2>2, <4>2
        <4> QED BY <3>2, <4>2, <4>3
      <3> QED BY <3>3, <3>4
    <2>3. CASE UNCHANGED passed
      BY <1>1, <1>8, <2>1, <2>3, FollowedStays DEF Onward, ReportGrows
    <2> QED BY <1>1, <1>8, <2>2, <2>3, OpenRecordTyped
  <1>9. ASSUME Onward, WalkDone PROVE Followed'
    <2>1. /\ Does("walk") /\ before' = before /\ passed' = passed /\ (walk.stack = <<>> \/ Enough)
          /\ report' = [report EXCEPT !.graph = IF walk.bad # {} THEN report.graph \cup {walk.rec}
                                                ELSE report.graph]
          /\ run' = Moved(AfterPlace, run.comp, run.fam, run.next) /\ report \in Reports
      BY <1>1, <1>9, WalkDoneTyped DEF Typed
    <2>2. run'.limit = run.limit /\ run'.at # "walk"
      BY <2>1, MovedParts DEF AfterPlace
    <2>3. report.graph \subseteq report'.graph /\ (walk.bad # {} => walk.rec \in report'.graph)
      BY <2>1 DEF Reports
    <2> SUFFICES ASSUME run.limit = 0, NEW r \in AllRecords, r \notin report'.graph,
                        NEW n \in Nodes(r), Found(r, n)'
                 PROVE  Settled(r, n)'
      BY <2>2 DEF Followed, Nodes
    <2>4. Found(r, n)
      BY <2>1 DEF Found
    <2>5. walk.stack = <<>>
      BY <2>1 DEF Enough
    <2>6. ToSet(walk.stack) = {}
      BY <2>5 DEF ToSet
    <2>7. Settled(r, n)
      BY <1>1, <2>3, <2>4, <2>6 DEF Followed
    <2> QED BY <2>1, <2>7, SettledStays
  <1>10. CASE VisitNode
    BY <1>10, VisitFollowed
  <1>11. CASE Leave
    BY <1>11, FollowedFresh DEF Leave
  <1>12. CASE Untouched
    <2>1. UNCHANGED <<run, report, walk, passed, before>>
      BY <1>12 DEF Untouched
    <2>2. /\ \A r, n : Found(r, n)' <=> Found(r, n)
          /\ \A r, n : Settled(r, n)' <=> Settled(r, n)
      BY <2>1 DEF Found, Settled
    <2> QED BY <1>1, <2>1, <2>2 DEF Followed, Nodes, Does
  <1> QED BY <1>1, <1>3, <1>4, <1>5, <1>6, <1>7, <1>8, <1>9, <1>10, <1>11, <1>12, Steps

LEMMA InitChecked == ASSUME Init PROVE CheckedInv
PROOF
  <1>1. TallyInv
    BY InitTally
  <1>2. /\ run = NoRun /\ run.at = "idle" /\ passed = {} /\ ledger = {} /\ inflight = <<>>
    BY DEF Init, NoRun
  <1>3. "idle" \notin {"l2"} \cup Auditing
    BY DEF Auditing
  <1>4. DatedSoFar /\ WalkedSoFar /\ SeenMet
    BY <1>2, <1>3 DEF DatedSoFar, WalkedSoFar, SeenMet, Does
  <1>5. AuditedSoFar
    BY <1>2, <1>3 DEF AuditedSoFar, Does
  <1>6. Earned
    BY <1>2 DEF Earned, ToSet
  <1>7. Entered /\ Followed
    BY <1>2 DEF Entered, Followed, Found
  <1> QED BY <1>1, <1>4, <1>5, <1>6, <1>7 DEF CheckedInv

LEMMA NextChecked ==
  ASSUME CheckedInv, [Next]_vars, "reread" \notin Troubles
  PROVE  CheckedInv'
PROOF
  <1>1. TallyInv'
    BY NextTally DEF CheckedInv
  <1> QED BY <1>1, DatedKept, EarnedKept, AuditedKept, WalkedKept, EnteredKept, FollowedKept,
             SeenKept DEF CheckedInv

\* A record that has been handled and not reported, with no walk going on, has
\* been walked to its last blob.
LEMMA HandledWalked ==
  ASSUME Followed, ~Does("walk"), run.limit = 0, NEW r \in AllRecords, Handled(r), report.graph = {}
  PROVE  Walked(r)
PROOF
  <1>1. <<"graph", r>> \in passed
    BY DEF Handled
  <1>2. \A node \in Nodes(r) : Found(r, node) => Settled(r, node)
    BY DEF Followed
  <1>3. Settled(r, Root[r])
    BY <1>1, <1>2 DEF Found, Nodes
  <1>4. ASSUME NEW t \in DOMAIN Children, <<r, t>> \in passed, NEW i \in DOMAIN Children[t]
        PROVE  Settled(r, Children[t][i])
    <2>1. Children[t][i] \in ToSet(Children[t])
      BY DEF ToSet
    <2> QED BY <1>2, <1>4, <2>1 DEF Found, Nodes
  <1> QED BY <1>1, <1>3, <1>4 DEF Walked

\* What the invariant comes to where the run is done and has no failures.
LEMMA CheckedClean == ASSUME CheckedInv PROVE CleanMeansChecked
PROOF
  <1> SUFFICES ASSUME Does("done"), ~HasFailures
               PROVE  /\ run.tier = "record" /\ run.limit = 0 => Walked(walk.rec)
                      /\ \A c \in Computers :
                           /\ Reaches("deep") => <<"deep", Newest(c)>> \in passed
                           /\ Reaches("audit") /\ c \notin report.sets =>
                                \A f \in (run.listed \cap Listed(c)) \ Large :
                                  Name(f) \in before \/ <<"audit", f>> \in passed
                           /\ Reaches("graph") /\ run.limit = 0 /\ c \notin report.unlisted =>
                                \A r \in ToSet(Records[c]) : Walked(r)
    BY DEF CleanMeansChecked
  <1>1. /\ run \in RunTypes /\ DatedSoFar /\ AuditedSoFar /\ WalkedSoFar /\ Followed
        /\ run.at = "done" /\ ~Does("walk")
    BY DEF CheckedInv, TallyInv, Typed, Does
  <1>2. /\ report.records = {} /\ report.bad = {} /\ report.graph = {} /\ ~report.aborted
        /\ report.layout /\ (Reaches("deep") => report.keyset = "decrypted")
    BY DEF HasFailures
  <1>3. Reaches("deep") => ~CutShort
    BY <1>2 DEF CutShort
  <1>4. /\ Reaches("audit") => Reaches("deep")
        /\ Reaches("graph") <=> run.tier = "graph"
        /\ Reaches("graph") => Reaches("deep")
    BY <1>1, ReachFacts
  <1>5. ASSUME run.tier = "record", run.limit = 0 PROVE Walked(walk.rec)
    BY <1>1, <1>2, <1>5, HandledWalked DEF WalkedSoFar
  <1>6. ASSUME NEW c \in Computers, Reaches("deep") PROVE <<"deep", Newest(c)>> \in passed
    BY <1>1, <1>2, <1>3, <1>6 DEF DatedSoFar, Dated
  <1>7. ASSUME NEW c \in Computers, Reaches("audit"), c \notin report.sets,
               NEW f \in (run.listed \cap Listed(c)) \ Large
        PROVE  Name(f) \in before \/ <<"audit", f>> \in passed
    <2>1. SetAudited(c)
      BY <1>1, <1>2, <1>3, <1>4, <1>7 DEF AuditedSoFar
    <2> QED BY <1>2, <1>7, <2>1 DEF SetAudited, Audited
  <1>8. ASSUME NEW c \in Computers, Reaches("graph"), run.limit = 0, c \notin report.unlisted,
               NEW r \in ToSet(Records[c])
        PROVE  Walked(r)
    <2>1. FolderWalked(c)
      BY <1>1, <1>3, <1>4, <1>8 DEF WalkedSoFar, Does
    <2>2. Handled(r) /\ r \in AllRecords
      BY <1>8, <2>1, RecordAssumption DEF FolderWalked, AllRecords
    <2> QED BY <1>1, <1>2, <1>8, <2>2, HandledWalked
  <1> QED BY <1>5, <1>6, <1>7, <1>8

\* Where a good tree can be read a second time, a verdict without failures says
\* that what the tier is for was done: every file that was listed verified now
\* or in the ledger, but for the large ones and the sets named as skipped; every
\* newest record; every record walked to its last blob where no limit is set.
\* This holds for every number of workers, whatever rots, fails or goes, and
\* whichever run is killed.
THEOREM VerdictIsEarned ==
  ASSUME "reread" \notin Troubles
  PROVE  Spec => []CleanMeansChecked
PROOF
  <1>1. Init => CheckedInv
    BY InitChecked
  <1>2. CheckedInv /\ [Next]_vars => CheckedInv'
    BY NextChecked
  <1>3. CheckedInv => CleanMeansChecked
    BY CheckedClean
  <1> QED BY <1>1, <1>2, <1>3, PTL DEF Spec
=============================================================================
