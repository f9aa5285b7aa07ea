----------------------------- MODULE AuditDrip -----------------------------
(***************************************************************************)
(* The resumable audit (arq_validator/audit_drip.py).  A sweep over every  *)
(* object file of a destination is spread over many short fires: each      *)
(* loads one state file, lists the destination, resumes after the cursor   *)
(* stored there, audits files until its time is up and writes the state    *)
(* back.  An operator pauses and resumes the sweep through the same file.  *)
(* No lock is taken: fires may overlap each other and the operator.        *)
(***************************************************************************)
EXTENDS Integers, Sequences, SequencesExt

CONSTANTS
  Files,        \* files the destination may hold: <<computer, family, name>>
  Corrupt,      \* those whose stored bytes do not verify
  TooLarge,     \* those above skip_larger_than
  Keyed,        \* computers whose keyset opens with the password
  Cap,          \* failed_list_cap
  Fires,        \* processes that may run a fire
  Operators,    \* processes that pause and resume
  Faults,       \* which faults the environment may inject
  NoCursor      \* cursor_kind is None

\* OBJECT_FAMILIES, in its order; LexRank is the rank of each name among the
\* four as strings: blobpacks, treepacks, largeblobpacks, standardobjects.
FamilyOrder == 1..4
LexRank == <<1, 4, 2, 3>>

FaultKinds == {"listing", "keyset", "backend", "death", "slow"}

ASSUME DripAssumption ==
  /\ Files \subseteq Nat \X FamilyOrder \X Nat
  /\ Corrupt \subseteq Files
  /\ TooLarge \subseteq Files
  /\ Cap \in Nat
  /\ Faults \subseteq FaultKinds
  /\ Fires \cap Operators = {}
  /\ NoCursor \notin Files

VARIABLES
  present,      \* files on the destination
  saved,        \* the state file
  pc,           \* where each process is
  mem,          \* its AuditDripState in memory
  keys,         \* the computers whose keyset this fire decrypted
  rest          \* the part of the walk its loop has not reached

vars == <<present, saved, pc, mem, keys, rest>>
----------------------------------------------------------------------------
(* Orders on files, and the resume point. *)

Precedes(a, b) ==
  \/ a[1] < b[1]
  \/ a[1] = b[1] /\ a[2] < b[2]
  \/ a[1] = b[1] /\ a[2] = b[2] /\ a[3] < b[3]

\* Position in the walk, and Python's comparison of the two tuples.
WalkedBefore(a, b) == Precedes(a, b)
SortsBefore(a, b) == Precedes([a EXCEPT ![2] = LexRank[a[2]]],
                              [b EXCEPT ![2] = LexRank[b[2]]])

\* The files a cursor never leaves behind: all that is walked before them also
\* sorts before them.  Packs of blobs and trees always are such files; packs of
\* large blobs and standalone objects are where their computer has no tree packs.
Orderly == {f \in Files : \A g \in Files : WalkedBefore(g, f) => SortsBefore(g, f)}

\* Mutants: the resume point is one file late; it is the cursor's own file;
\* there is none.
AfterCursorOffByOne(walk, cursor) ==
  IF cursor = NoCursor THEN walk
  ELSE {f \in walk : \E g \in walk : /\ SortsBefore(cursor, g)
                                     /\ WalkedBefore(g, f)}
AtCursor(walk, cursor) ==
  IF cursor = NoCursor THEN walk
  ELSE {f \in walk : \E g \in walk : /\ ~SortsBefore(g, cursor)
                                     /\ f = g \/ WalkedBefore(g, f)}

\* What is left of the walk from the first file that sorts after the cursor.
AfterCursor(walk, cursor) ==
  IF cursor = NoCursor THEN walk
  ELSE {f \in walk : \E g \in walk : /\ SortsBefore(cursor, g)
                                     /\ f = g \/ WalkedBefore(g, f)}
----------------------------------------------------------------------------
(* The state file.  seen, unkeyed and due are history, not fields of the   *)
(* file: what this sweep went over, what it passed over for want of a      *)
(* keyset, and what was on the destination, and listed, all along.         *)

Pauses == {"none", "timed", "forever"}

Fresh == [started |-> FALSE, done |-> FALSE, cursor |-> NoCursor,
          failed |-> <<>>, processed |-> FALSE, paused |-> "none",
          seen |-> {}, unkeyed |-> {}, due |-> {}]

\* Mutant: every fire starts its own list of failures.
BeganAfresh(s) == [s EXCEPT !.processed = FALSE, !.failed = <<>>]

Began(s) == [s EXCEPT !.processed = FALSE]

NewSweep(s) == [started |-> TRUE, done |-> FALSE, cursor |-> NoCursor,
                failed |-> <<>>, processed |-> s.processed,
                paused |-> s.paused, seen |-> {}, unkeyed |-> {}, due |-> present]

AtBoundary(s) == s.done \/ ~s.started

\* What a listing leaves out is not due: nobody can tell it from what is gone.
Narrowed(s, walk) == [s EXCEPT !.due = @ \cap walk]

Completed(s) == [s EXCEPT !.done = TRUE]
Rewound(s) == [s EXCEPT !.cursor = NoCursor]

\* Mutants: the list has no cap; it ends one short of it.
NoteUncapped(list, f) == Append(list, f)
NoteShort(list, f) == IF Len(list) + 1 < Cap THEN Append(list, f) ELSE list

Note(list, f) == IF Len(list) < Cap THEN Append(list, f) ELSE list

Processed(s, f, opened, result) ==
  [s EXCEPT !.cursor = f,
            !.seen = @ \cup {f},
            !.unkeyed = IF f[1] \in opened THEN @ ELSE @ \cup {f},
            !.failed = IF result = "failed" THEN Note(@, f) ELSE @,
            !.processed = TRUE]

Init ==
  /\ present \in SUBSET Files
  /\ saved = Fresh
  /\ pc = [p \in Fires \cup Operators |-> "idle"]
  /\ mem = [p \in Fires \cup Operators |-> Fresh]
  /\ keys = [p \in Fires |-> {}]
  /\ rest = [p \in Fires |-> {}]
----------------------------------------------------------------------------
(* A fire: run_audit_drip. *)

\* The state is read once.  A fire that finds a pause in force writes the
\* state straight back; a timed pause may have run out.
LoadPaused(p) ==
  /\ pc[p] = "idle"
  /\ saved.paused # "none"
  /\ pc' = [pc EXCEPT ![p] = "saving"]
  /\ mem' = [mem EXCEPT ![p] = Began(saved)]
  /\ UNCHANGED <<present, saved, keys, rest>>

LoadState(p) ==
  /\ pc[p] = "idle"
  /\ saved.paused # "forever"
  /\ pc' = [pc EXCEPT ![p] = "discovering"]
  /\ mem' = [mem EXCEPT ![p] = Began(saved)]
  /\ UNCHANGED <<present, saved, keys, rest>>

\* The files found: a directory that fails to list reads as an empty one.
ListedDirs == {<<f[1], f[2]>> : f \in Files}
UnreadDirs == IF "listing" \in Faults THEN SUBSET ListedDirs ELSE {{}}
Listed(unread) == {f \in present : <<f[1], f[2]>> \notin unread}

\* The computers whose keyset opens: one that cannot be read counts as absent.
OpenedKeysets == IF "keyset" \in Faults THEN SUBSET Keyed ELSE {Keyed}

\* No computer found, or no keyset that opens: the fire gives up.
DiscoverNothing(p) ==
  /\ pc[p] = "discovering"
  /\ Faults \cap {"backend", "listing", "keyset"} # {} \/ Keyed = {}
  /\ pc' = [pc EXCEPT ![p] = "saving"]
  /\ UNCHANGED <<present, saved, mem, keys, rest>>

\* The sweep begins, goes on after the cursor, or has nothing left.
Discover(p) ==
  /\ pc[p] = "discovering"
  /\ \E opened \in OpenedKeysets \ {{}}, unread \in UnreadDirs :
       /\ keys' = [keys EXCEPT ![p] = opened]
       /\ LET walk == Listed(unread)
              m == Narrowed(IF AtBoundary(mem[p]) THEN NewSweep(mem[p]) ELSE mem[p], walk)
              todo == AfterCursor(walk, m.cursor)
          IN \/ /\ walk = {}
                /\ mem' = [mem EXCEPT ![p] = Completed(Rewound(Narrowed(mem[p], walk)))]
                /\ pc' = [pc EXCEPT ![p] = "saving"]
                /\ UNCHANGED rest
             \/ /\ walk # {} /\ todo = {}
                /\ mem' = [mem EXCEPT ![p] = Completed(m)]
                /\ pc' = [pc EXCEPT ![p] = "saving"]
                /\ UNCHANGED rest
             \/ /\ walk # {} /\ todo # {}
                /\ mem' = [mem EXCEPT ![p] = m]
                /\ rest' = [rest EXCEPT ![p] = todo]
                /\ pc' = [pc EXCEPT ![p] = "auditing"]
  /\ UNCHANGED <<present, saved>>

\* _audit_one_file: a backend error, a file that is gone and a file that
\* does not verify are recorded; one that is too large is passed over, and so
\* is every file of a computer without a keyset, before any call is made.
Outcomes(p, f) ==
  IF f[1] \notin keys[p] THEN {"skipped"}
  ELSE (IF "backend" \in Faults \/ f \notin present THEN {"failed"} ELSE {})
         \cup (IF f \notin present THEN {}
               ELSE IF f \in Corrupt \ TooLarge THEN {"failed"} ELSE {"passed"})

AuditNext(p) ==
  /\ pc[p] = "auditing"
  /\ \E f \in rest[p] :
       /\ \A g \in rest[p] \ {f} : WalkedBefore(f, g)
       /\ \E result \in Outcomes(p, f) :
            LET m == Processed(mem[p], f, keys[p], result)
                last == rest[p] = {f}
            IN /\ mem' = [mem EXCEPT ![p] =
                            IF last THEN Completed(Rewound(m)) ELSE m]
               /\ pc' = [pc EXCEPT ![p] =
                           IF last THEN "saving" ELSE "auditing"]
       /\ rest' = [rest EXCEPT ![p] = @ \ {f}]
  /\ UNCHANGED <<present, saved, keys>>

\* max_runtime_sec is up, checked before each file, or something raised.  The
\* time runs from before the listing: a slow one leaves none for a first file.
Stop(p) ==
  /\ pc[p] = "auditing"
  /\ mem[p].processed \/ "slow" \in Faults
  /\ pc' = [pc EXCEPT ![p] = "saving"]
  /\ UNCHANGED <<present, saved, mem, keys, rest>>

\* _finish: the one place a fire writes the state file.
Finish(p) ==
  /\ pc[p] = "saving"
  /\ saved' = mem[p]
  /\ pc' = [pc EXCEPT ![p] = "idle"]
  /\ mem' = [mem EXCEPT ![p] = Fresh]
  /\ keys' = [keys EXCEPT ![p] = {}]
  /\ rest' = [rest EXCEPT ![p] = {}]
  /\ UNCHANGED present

\* The process dies.  The state file is written in place: dying then leaves
\* one that does not parse, which load_state replaces by a fresh state.
Die(p) ==
  /\ "death" \in Faults
  /\ pc[p] # "idle"
  /\ saved' \in {saved} \cup (IF pc[p] = "saving" THEN {Fresh} ELSE {})
  /\ pc' = [pc EXCEPT ![p] = "idle"]
  /\ mem' = [mem EXCEPT ![p] = Fresh]
  /\ keys' = [keys EXCEPT ![p] = {}]
  /\ rest' = [rest EXCEPT ![p] = {}]
  /\ UNCHANGED present
----------------------------------------------------------------------------
(* The operator: pause and resume load, change and save. *)

SetPause(o) ==
  /\ pc[o] = "idle"
  /\ \E until \in Pauses \ {saved.paused} :
       mem' = [mem EXCEPT ![o] = [saved EXCEPT !.paused = until]]
  /\ pc' = [pc EXCEPT ![o] = "saving"]
  /\ UNCHANGED <<present, saved, keys, rest>>

SavePause(o) ==
  /\ pc[o] = "saving"
  /\ saved' = mem[o]
  /\ pc' = [pc EXCEPT ![o] = "idle"]
  /\ mem' = [mem EXCEPT ![o] = Fresh]
  /\ UNCHANGED <<present, keys, rest>>
----------------------------------------------------------------------------
(* Backups add files to the destination and retention removes them. *)

AddFile(f) ==
  /\ f \notin present
  /\ present' = present \cup {f}
  /\ UNCHANGED <<saved, pc, mem, keys, rest>>

\* A file that was removed is no longer due, even if it comes back.
RemoveFile(f) ==
  /\ f \in present
  /\ present' = present \ {f}
  /\ saved' = [saved EXCEPT !.due = @ \ {f}]
  /\ mem' = [p \in DOMAIN mem |-> [mem[p] EXCEPT !.due = @ \ {f}]]
  /\ UNCHANGED <<pc, keys, rest>>

FireStep(p) == \/ LoadPaused(p) \/ LoadState(p) \/ DiscoverNothing(p)
               \/ Discover(p) \/ AuditNext(p) \/ Stop(p) \/ Finish(p)
               \/ Die(p)

Next ==
  \/ \E p \in Fires : FireStep(p)
  \/ \E o \in Operators : SetPause(o) \/ SavePause(o)
  \/ \E f \in Files : AddFile(f) \/ RemoveFile(f)

Spec == Init /\ [][Next]_vars

\* A schedule keeps starting fires, and a fire that runs does not hang.
Fairness ==
  \A p \in Fires : WF_vars(\/ LoadPaused(p) \/ LoadState(p) \/ Discover(p)
                           \/ AuditNext(p) \/ Finish(p))

FairSpec == Spec /\ Fairness
----------------------------------------------------------------------------
Lists == {list \in Seq(Files) : Len(list) <= Cap}
States == [started : BOOLEAN, done : BOOLEAN, cursor : Files \cup {NoCursor},
           failed : Lists, processed : BOOLEAN, paused : Pauses,
           seen : SUBSET Files, unkeyed : SUBSET Files, due : SUBSET Files]

\* The shape of the state; the list of failures keeps within its cap.
TypeOK ==
  /\ present \in SUBSET Files
  /\ saved \in States
  /\ pc \in [Fires \cup Operators ->
               {"idle", "discovering", "auditing", "saving"}]
  /\ mem \in [Fires \cup Operators -> States]
  /\ keys \in [Fires -> SUBSET Keyed]
  /\ rest \in [Fires -> SUBSET Files]

\* A sweep recorded as complete has gone over every orderly file that was on
\* the destination from its beginning to its end and that none of its listings
\* left out, however many fires it took, whatever they lost when they died, and
\* whoever else wrote the state file (run_audit_drip, _index_after_cursor).
SweepCovers == saved.done => saved.due \cap Orderly \subseteq saved.seen

\* A complete sweep names every such file that does not verify, but for those it
\* came by without their computer's keyset, unless the list of failures is full
\* (failed_files_this_sweep).
Verifiable(s) == Files \ (TooLarge \cup s.unkeyed)
FailuresReported ==
  saved.done =>
    \/ Len(saved.failed) = Cap
    \/ saved.due \cap Orderly \cap Corrupt \cap Verifiable(saved) \subseteq ToSet(saved.failed)

\* What an unfinished sweep still owes lies after its cursor: resuming there
\* loses nothing, in the state file and in every copy of it in memory.
Owed(s) == (s.due \cap Orderly) \ s.seen
OwedLiesAhead(s) ==
  s.started /\ ~s.done =>
    \A f \in Owed(s) : s.cursor = NoCursor \/ SortsBefore(s.cursor, f)

\* What makes this so, in the state file and in every copy of it: a record
\* speaks of files that are there, it names the failures among those it went
\* over, and a fire in its loop has all that is owed still before it.
Reported(s) ==
  \/ Len(s.failed) = Cap
  \/ s.due \cap s.seen \cap Corrupt \cap Verifiable(s) \subseteq ToSet(s.failed)

Faithful(s) ==
  /\ s.done => Owed(s) = {}
  /\ Reported(s)
  /\ OwedLiesAhead(s)

InLoop(p) == pc[p] = "auditing" => Owed(mem[p]) \subseteq rest[p]

Accounted ==
  /\ Faithful(saved) /\ saved.due \subseteq present
  /\ \A p \in Fires \cup Operators :
       Faithful(mem[p]) /\ mem[p].due \subseteq present
  /\ \A p \in Fires : InLoop(p)

\* _index_after_cursor: when "nothing past the cursor remains" the "sweep is
\* effectively complete".  A sweep recorded as complete has gone over every file
\* that was there and listed all along, orderly or not.  The code does not keep
\* this: a cursor at a computer's last tree pack hides its large blob packs and
\* its standalone objects.
CompleteCoversAll == saved.done => saved.due \subseteq saved.seen

\* A destination keeps being swept to the end, whatever is added and removed.
SweepsComplete == []<>saved.done

\* pause: "so subsequent fires silent-skip".  A fire leaves the pause as it is
\* when the fire writes the state back.  The code does not keep this: it saves the
\* pause it loaded, whatever the operator has asked for since.
PauseHolds == [][\A p \in Fires : Finish(p) => saved'.paused = saved.paused]_vars
============================================================================
