-------------------------- MODULE AuditDrip_proofs --------------------------
(***************************************************************************)
(* A completed sweep has covered every orderly file and reported those     *)
(* that fail, for every number of files, fires and operators, and every    *)
(* fault.  Fires may overlap each other and the operator, die, be cut      *)
(* short anywhere, and see a part of the destination or of its keysets.    *)
(* The argument is the invariant Accounted: each copy of the state is      *)
(* right about itself, so it does not matter whose copy is written last.   *)
(***************************************************************************)
EXTENDS AuditDrip, TLAPS

Procs == Fires \cup Operators

\* The type invariant holds of the initial states.
LEMMA InitTyped == ASSUME DripAssumption, Init PROVE TypeOK
PROOF
  <1>1. Fresh \in States
    <2>1. <<>> \in Lists
      BY DEF Lists, DripAssumption
    <2> QED BY <2>1 DEF Fresh, States, Pauses
  <1> QED BY <1>1 DEF Init, TypeOK, Pauses, DripAssumption

\* The list of failures stops growing at its cap and forgets nothing before.
LEMMA NoteFacts ==
  ASSUME DripAssumption, NEW list \in Lists, NEW f \in Files
  PROVE  /\ Note(list, f) \in Lists
         /\ Len(list) = Cap => Len(Note(list, f)) = Cap
         /\ ToSet(list) \subseteq ToSet(Note(list, f))
         /\ Len(list) # Cap => f \in ToSet(Note(list, f))
PROOF
  <1>1. /\ list \in Seq(Files) /\ Len(list) \in Nat
        /\ Len(list) <= Cap /\ Cap \in Nat
    BY DEF DripAssumption, Lists
  <1>2. CASE Len(list) < Cap
    <2> DEFINE more == Append(list, f)
    <2>1. /\ Note(list, f) = more /\ more \in Seq(Files)
          /\ Len(more) = Len(list) + 1
          /\ more[Len(list) + 1] = f
          /\ \A i \in 1..Len(list) : more[i] = list[i]
          /\ DOMAIN more = 1..(Len(list) + 1)
          /\ DOMAIN list = 1..Len(list)
      BY <1>1, <1>2 DEF Note
    <2> HIDE DEF more
    <2>2. f \in ToSet(more)
      <3>1. Len(list) + 1 \in DOMAIN more
        BY <1>1, <2>1
      <3> QED BY <2>1, <3>1 DEF ToSet
    <2>3. ASSUME NEW i \in DOMAIN list
          PROVE  list[i] \in ToSet(more)
      <3>1. i \in DOMAIN more /\ more[i] = list[i]
        BY <1>1, <2>1
      <3> QED BY <3>1 DEF ToSet
    <2>4. ToSet(list) \subseteq ToSet(more)
      BY <2>3 DEF ToSet
    <2>5. Len(more) <= Cap /\ Len(list) # Cap
      <3>1. Len(more) = Len(list) + 1
        BY <2>1
      <3> QED BY <1>1, <1>2, <3>1
    <2>6. Note(list, f) = more
      BY <2>1
    <2> QED BY <2>1, <2>2, <2>4, <2>5, <2>6 DEF Lists
  <1>3. CASE ~(Len(list) < Cap)
    <2>1. Note(list, f) = list /\ Len(list) = Cap
      BY <1>1, <1>3 DEF Note
    <2> QED BY <2>1
  <1> QED BY <1>2, <1>3

\* What the helpers return is a state record again.
LEMMA HelpersTyped ==
  ASSUME DripAssumption, NEW s \in States, present \in SUBSET Files
  PROVE  /\ Fresh \in States
         /\ Began(s) \in States /\ NewSweep(s) \in States
         /\ Completed(s) \in States /\ Rewound(s) \in States
         /\ \A walk : Narrowed(s, walk) \in States
         /\ \A f \in Files : \A opened, result :
              Processed(s, f, opened, result) \in States
         /\ \A until \in Pauses : [s EXCEPT !.paused = until] \in States
         /\ \A f \in Files : [s EXCEPT !.due = @ \ {f}] \in States
PROOF
  <1>0. <<>> \in Lists
    BY DEF Lists, DripAssumption
  <1>1. Fresh \in States
    BY <1>0 DEF Fresh, States, Pauses
  <1>2. Began(s) \in States
    BY DEF States, Began
  <1>3. NewSweep(s) \in States
    BY <1>0 DEF States, NewSweep
  <1>4. Completed(s) \in States /\ Rewound(s) \in States
    BY DEF States, Completed, Rewound
  <1>5. ASSUME NEW f \in Files, NEW opened, NEW result
        PROVE  Processed(s, f, opened, result) \in States
    <2>1. s.failed \in Lists /\ s.seen \subseteq Files /\ s.unkeyed \subseteq Files
      BY DEF States
    <2>2. Note(s.failed, f) \in Lists
      BY <2>1, NoteFacts
    <2>3. (IF result = "failed" THEN Note(s.failed, f) ELSE s.failed) \in Lists
      BY <2>1, <2>2
    <2> QED BY <2>1, <2>3 DEF Processed, States
  <1>6. ASSUME NEW until \in Pauses
        PROVE  [s EXCEPT !.paused = until] \in States
    BY DEF States
  <1>7. ASSUME NEW f \in Files
        PROVE  [s EXCEPT !.due = @ \ {f}] \in States
    BY DEF States
  <1>8. ASSUME NEW walk
        PROVE  Narrowed(s, walk) \in States
    BY DEF States, Narrowed
  <1> QED BY <1>1, <1>2, <1>3, <1>4, <1>5, <1>6, <1>7, <1>8

\* Every step keeps the shape of the state.
LEMMA StepTyped ==
  ASSUME DripAssumption, TypeOK, [Next]_vars
  PROVE  TypeOK'
PROOF
  <1> USE DEF TypeOK
  <1>1. \A p \in Procs : mem[p] \in States
    BY DEF Procs
  <1>2. ASSUME NEW p \in Fires, LoadPaused(p)
        PROVE  TypeOK'
    BY <1>2, HelpersTyped DEF LoadPaused
  <1>3. ASSUME NEW p \in Fires, LoadState(p)
        PROVE  TypeOK'
    BY <1>3, HelpersTyped DEF LoadState
  <1>4. ASSUME NEW p \in Fires, DiscoverNothing(p) \/ Stop(p)
        PROVE  TypeOK'
    BY <1>4 DEF DiscoverNothing, Stop
  <1>5. ASSUME NEW p \in Fires, Discover(p)
        PROVE  TypeOK'
    <2>1. PICK opened \in SUBSET Keyed, unread \in SUBSET ListedDirs :
            /\ keys' = [keys EXCEPT ![p] = opened]
            /\ LET walk == Listed(unread)
                   m == Narrowed(IF AtBoundary(mem[p]) THEN NewSweep(mem[p])
                                                       ELSE mem[p], walk)
                   todo == AfterCursor(walk, m.cursor)
               IN \/ /\ mem' = [mem EXCEPT ![p] =
                                   Completed(Rewound(Narrowed(mem[p], walk)))]
                     /\ pc' = [pc EXCEPT ![p] = "saving"]
                     /\ UNCHANGED rest
                  \/ /\ mem' = [mem EXCEPT ![p] = Completed(m)]
                     /\ pc' = [pc EXCEPT ![p] = "saving"]
                     /\ UNCHANGED rest
                  \/ /\ mem' = [mem EXCEPT ![p] = m]
                     /\ rest' = [rest EXCEPT ![p] = todo]
                     /\ pc' = [pc EXCEPT ![p] = "auditing"]
      BY <1>5 DEF Discover, OpenedKeysets, UnreadDirs
    <2> DEFINE walk == Listed(unread)
               m == Narrowed(IF AtBoundary(mem[p]) THEN NewSweep(mem[p])
                                                   ELSE mem[p], walk)
               t == Completed(Rewound(Narrowed(mem[p], walk)))
    <2>2. m \in States /\ Completed(m) \in States
      <3>1. (IF AtBoundary(mem[p]) THEN NewSweep(mem[p]) ELSE mem[p]) \in States
        BY <1>1, HelpersTyped DEF Procs
      <3>2. m \in States
        BY <3>1, HelpersTyped
      <3> QED BY <3>2, HelpersTyped
    <2>3. t \in States
      BY <1>1, HelpersTyped DEF Procs
    <2>4. AfterCursor(Listed(unread), m.cursor) \in SUBSET Files
      BY DEF AfterCursor, Listed
    <2>5. mem' \in [Procs -> States]
      <3>1. \/ mem' = [mem EXCEPT ![p] = t]
            \/ mem' = [mem EXCEPT ![p] = Completed(m)]
            \/ mem' = [mem EXCEPT ![p] = m]
        BY <2>1
      <3> HIDE DEF m, t
      <3> QED BY <2>2, <2>3, <3>1 DEF Procs
    <2>6. rest' \in [Fires -> SUBSET Files]
      BY <2>1, <2>4
    <2>7. keys' \in [Fires -> SUBSET Keyed]
      BY <2>1
    <2>8. pc' \in [Procs -> {"idle", "discovering", "auditing", "saving"}]
      BY <2>1 DEF Procs
    <2> QED BY <1>5, <2>5, <2>6, <2>7, <2>8 DEF Discover, Procs
  <1>6. ASSUME NEW p \in Fires, AuditNext(p)
        PROVE  TypeOK'
    <2>1. PICK f \in rest[p], result \in {"skipped", "failed", "passed"} :
            /\ mem' = [mem EXCEPT ![p] =
                         IF rest[p] = {f}
                           THEN Completed(Rewound(Processed(mem[p], f, keys[p], result)))
                           ELSE Processed(mem[p], f, keys[p], result)]
            /\ pc' = [pc EXCEPT ![p] =
                        IF rest[p] = {f} THEN "saving" ELSE "auditing"]
            /\ rest' = [rest EXCEPT ![p] = @ \ {f}]
      BY <1>6 DEF AuditNext, Outcomes
    <2>2. f \in Files /\ mem[p] \in States
      OBVIOUS
    <2>3. Processed(mem[p], f, keys[p], result) \in States
      BY <2>2, HelpersTyped
    <2>4. Completed(Rewound(Processed(mem[p], f, keys[p], result))) \in States
      BY <2>3, HelpersTyped
    <2>5. mem' \in [Procs -> States]
      BY <2>1, <2>3, <2>4 DEF Procs
    <2>6. pc' \in [Procs -> {"idle", "discovering", "auditing", "saving"}]
      BY <2>1 DEF Procs
    <2>7. rest' \in [Fires -> SUBSET Files]
      BY <2>1
    <2> QED BY <1>6, <2>5, <2>6, <2>7 DEF AuditNext, Procs
  <1>7. ASSUME NEW p \in Fires, Finish(p)
        PROVE  TypeOK'
    BY <1>7, HelpersTyped DEF Finish
  <1>8. ASSUME NEW p \in Fires, Die(p)
        PROVE  TypeOK'
    BY <1>8, HelpersTyped DEF Die
  <1>9. ASSUME NEW o \in Operators, SetPause(o)
        PROVE  TypeOK'
    BY <1>9, HelpersTyped DEF SetPause
  <1>10. ASSUME NEW o \in Operators, SavePause(o)
         PROVE  TypeOK'
    <2>1. mem[o].paused \in Pauses
      BY DEF States
    <2> QED BY <1>10, <2>1, HelpersTyped DEF SavePause
  <1>11. ASSUME NEW f \in Files, AddFile(f)
         PROVE  TypeOK'
    BY <1>11 DEF AddFile
  <1>12. ASSUME NEW f \in Files, RemoveFile(f)
         PROVE  TypeOK'
    BY <1>12, HelpersTyped DEF RemoveFile
  <1>13. CASE UNCHANGED vars
    BY <1>13 DEF vars
  <1> HIDE DEF TypeOK
  <1> QED BY <1>2, <1>3, <1>4, <1>5, <1>6, <1>7, <1>8, <1>9, <1>10, <1>11,
             <1>12, <1>13 DEF Next, FireStep

\* The type invariant of AuditDrip holds in every reachable state.
THEOREM DripTypeCorrect == Spec => []TypeOK
PROOF
  <1>1. Init => TypeOK
    BY DripAssumption, InitTyped
  <1>2. TypeOK /\ [Next]_vars => TypeOK'
    BY DripAssumption, StepTyped
  <1> QED BY <1>1, <1>2, PTL DEF Spec

-----------------------------------------------------------------------------
\* What the helpers do to a record that is right about itself.

\* A fresh state claims nothing.
LEMMA FreshFaithful == ASSUME DripAssumption PROVE Faithful(Fresh)
BY DEF Faithful, Fresh, Reported, OwedLiesAhead, Owed, DripAssumption

\* Neither the pause nor the count of this fire is part of what is claimed.
LEMMA MarkedFaithful ==
  ASSUME NEW s \in States, Faithful(s)
  PROVE  /\ Faithful(Began(s))
         /\ \A until : Faithful([s EXCEPT !.paused = until])
BY DEF Faithful, Began, Reported, Verifiable, OwedLiesAhead, Owed, States

\* A sweep that begins owes everything and has no cursor.
LEMMA NewSweepFaithful ==
  ASSUME DripAssumption, NEW s \in States
  PROVE  Faithful(NewSweep(s))
BY DEF Faithful, NewSweep, Reported, OwedLiesAhead, Owed, States, DripAssumption

\* A file removed from the destination is owed no more.
LEMMA ForgottenFaithful ==
  ASSUME NEW s \in States, Faithful(s), NEW f \in Files
  PROVE  Faithful([s EXCEPT !.due = @ \ {f}])
BY DEF Faithful, Reported, Verifiable, OwedLiesAhead, Owed, States

\* Nor is a file that a listing left out.
LEMMA NarrowedFaithful ==
  ASSUME NEW s \in States, Faithful(s), NEW walk
  PROVE  /\ Faithful(Narrowed(s, walk))
         /\ Narrowed(s, walk).due = s.due \cap walk
BY DEF Faithful, Narrowed, Reported, Verifiable, OwedLiesAhead, Owed, States

\* A sweep may be completed, and its cursor reset, once nothing is owed.
LEMMA CompletedFaithful ==
  ASSUME NEW s \in States, Faithful(s), Owed(s) = {}
  PROVE  Faithful(Completed(s)) /\ Faithful(Completed(Rewound(s)))
BY DEF Faithful, Completed, Rewound, Reported, Verifiable, OwedLiesAhead, Owed, States

\* A file that was gone over moves the cursor; what is owed stays ahead if it
\* was the first of what is left, and it is named if it fails.
LEMMA ProcessedFaithful ==
  ASSUME DripAssumption,
         NEW s \in States, Faithful(s),
         NEW todo \in SUBSET Files, Owed(s) \subseteq todo,
         NEW f \in todo,
         \A g \in todo \ {f} : WalkedBefore(f, g),
         NEW opened, NEW result,
         f[1] \in opened /\ f \in (s.due \cap Corrupt) \ TooLarge => result = "failed"
  PROVE  /\ Faithful(Processed(s, f, opened, result))
         /\ Processed(s, f, opened, result).due = s.due
         /\ Owed(Processed(s, f, opened, result)) \subseteq todo \ {f}
PROOF
  <1> DEFINE m == Processed(s, f, opened, result)
  <1>1. /\ m.done = s.done /\ m.started = s.started /\ m.due = s.due
        /\ m.cursor = f /\ m.seen = s.seen \cup {f}
        /\ m.unkeyed = IF f[1] \in opened THEN s.unkeyed ELSE s.unkeyed \cup {f}
        /\ m.failed = IF result = "failed" THEN Note(s.failed, f) ELSE s.failed
    BY DEF Processed, States
  <1>2. s.failed \in Lists
    BY DEF States
  <1>3. /\ Len(s.failed) = Cap => Len(m.failed) = Cap
        /\ ToSet(s.failed) \subseteq ToSet(m.failed)
        /\ result = "failed" /\ Len(s.failed) # Cap => f \in ToSet(m.failed)
    BY <1>1, <1>2, NoteFacts
  <1> HIDE DEF m
  <1>4. Reported(m)
    <2>1. CASE Len(s.failed) = Cap
      BY <1>3, <2>1 DEF Reported
    <2>2. CASE Len(s.failed) # Cap
      <3> SUFFICES ASSUME NEW g \in m.due \cap m.seen \cap Corrupt \cap Verifiable(m)
                   PROVE  g \in ToSet(m.failed)
        BY DEF Reported
      <3>1. g \notin TooLarge /\ g \notin s.unkeyed /\ (g = f => f[1] \in opened)
        BY <1>1 DEF Verifiable
      <3>2. CASE g = f
        BY <1>1, <1>3, <2>2, <3>1, <3>2
      <3>3. CASE g # f
        <4>1. g \in s.due \cap s.seen \cap Corrupt \cap Verifiable(s)
          BY <1>1, <3>1, <3>3 DEF Verifiable
        <4> QED BY <1>3, <2>2, <4>1 DEF Faithful, Reported
      <3> QED BY <3>2, <3>3
    <2> QED BY <2>1, <2>2
  <1>5. Owed(m) \subseteq todo \ {f}
    BY <1>1 DEF Owed
  <1>6. OwedLiesAhead(m)
    <2> SUFFICES ASSUME NEW g \in Owed(m)
                 PROVE  SortsBefore(m.cursor, g)
      BY DEF OwedLiesAhead
    <2>1. WalkedBefore(f, g) /\ g \in Orderly /\ f \in Files
      BY <1>5 DEF Owed
    <2> QED BY <1>1, <2>1 DEF Orderly
  <1>7. m.done => Owed(m) = {}
    BY <1>1 DEF Faithful, Owed
  <1> QED BY <1>1, <1>4, <1>5, <1>6, <1>7 DEF Faithful, m

-----------------------------------------------------------------------------
\* The invariant.

\* What is owed by an unfinished sweep is in what its fire will walk.
LEMMA OwedIsAfterCursor ==
  ASSUME NEW s, NEW walk, OwedLiesAhead(s), s.started, ~s.done,
         s.due \subseteq walk
  PROVE  Owed(s) \subseteq AfterCursor(walk, s.cursor)
BY DEF OwedLiesAhead, AfterCursor, Owed

\* The initial state claims nothing.
LEMMA InitAccounted == ASSUME DripAssumption, Init PROVE Accounted
PROOF
  <1>1. Faithful(Fresh) /\ Fresh.due = {}
    BY FreshFaithful DEF Fresh
  <1> QED BY <1>1 DEF Init, Accounted, InLoop, DripAssumption

\* A process that takes up, or gives up, a copy of the state.
LEMMA CopyKeeps ==
  ASSUME Accounted, TypeOK, NEW p \in Procs, NEW t,
         Faithful(t), t.due \subseteq present,
         UNCHANGED <<present, saved>>,
         mem' = [mem EXCEPT ![p] = t],
         pc'[p] # "auditing",
         \A q \in Procs \ {p} : pc'[q] = pc[q],
         \A q \in Fires \ {p} : keys'[q] = keys[q] /\ rest'[q] = rest[q]
  PROVE  Accounted'
PROOF
  <1>1. \A q \in Procs \ {p} : mem'[q] = mem[q]
    BY DEF TypeOK, Procs
  <1>2. mem'[p] = t
    BY DEF TypeOK, Procs
  <1>3. \A q \in Procs : Faithful(mem'[q]) /\ mem'[q].due \subseteq present
    BY <1>1, <1>2 DEF Accounted, Procs
  <1>4. \A q \in Fires : InLoop(q)'
    BY <1>1, <1>2 DEF Accounted, InLoop, Procs
  <1> QED BY <1>3, <1>4 DEF Accounted, Procs

\* A process that writes its copy of the state and forgets it, or dies.
LEMMA WriteKeeps ==
  ASSUME DripAssumption, Accounted, TypeOK, NEW p \in Procs,
         present' = present,
         saved' \in {saved, mem[p], Fresh},
         mem' = [mem EXCEPT ![p] = Fresh],
         pc'[p] # "auditing",
         \A q \in Procs \ {p} : pc'[q] = pc[q],
         \A q \in Fires \ {p} : keys'[q] = keys[q] /\ rest'[q] = rest[q]
  PROVE  Accounted'
PROOF
  <1>1. Faithful(Fresh) /\ Fresh.due = {}
    BY FreshFaithful DEF Fresh
  <1>2. \A q \in Procs \ {p} : mem'[q] = mem[q]
    BY DEF TypeOK, Procs
  <1>3. mem'[p] = Fresh
    BY DEF TypeOK, Procs
  <1>4. Faithful(saved') /\ saved'.due \subseteq present
    BY <1>1 DEF Accounted, Procs
  <1>5. \A q \in Procs : Faithful(mem'[q]) /\ mem'[q].due \subseteq present
    BY <1>1, <1>2, <1>3 DEF Accounted, Procs
  <1>6. \A q \in Fires : InLoop(q)'
    BY <1>2, <1>3 DEF Accounted, InLoop, Procs
  <1> QED BY <1>4, <1>5, <1>6 DEF Accounted, Procs

\* Listing the destination: a sweep begins, goes on where it stopped, or ends.
LEMMA DiscoverKeeps ==
  ASSUME DripAssumption, Accounted, TypeOK, NEW p \in Fires, Discover(p)
  PROVE  Accounted'
PROOF
  <1> USE DEF Procs
  <1>1. mem[p] \in States /\ Faithful(mem[p]) /\ present \in SUBSET Files
    BY DEF Accounted, TypeOK
  <1>2. PICK opened, unread :
          /\ keys' = [keys EXCEPT ![p] = opened]
          /\ LET walk == Listed(unread)
                 m == Narrowed(IF AtBoundary(mem[p]) THEN NewSweep(mem[p])
                                                     ELSE mem[p], walk)
                 todo == AfterCursor(walk, m.cursor)
             IN \/ /\ walk = {}
                   /\ mem' = [mem EXCEPT ![p] =
                                 Completed(Rewound(Narrowed(mem[p], walk)))]
                   /\ pc' = [pc EXCEPT ![p] = "saving"]
                   /\ UNCHANGED rest
                \/ /\ todo = {}
                   /\ mem' = [mem EXCEPT ![p] = Completed(m)]
                   /\ pc' = [pc EXCEPT ![p] = "saving"]
                   /\ UNCHANGED rest
                \/ /\ mem' = [mem EXCEPT ![p] = m]
                   /\ rest' = [rest EXCEPT ![p] = todo]
                   /\ pc' = [pc EXCEPT ![p] = "auditing"]
          /\ UNCHANGED <<present, saved>>
    BY DEF Discover
  <1> DEFINE walk == Listed(unread)
             begun == IF AtBoundary(mem[p]) THEN NewSweep(mem[p]) ELSE mem[p]
             m == Narrowed(begun, walk)
             todo == AfterCursor(walk, m.cursor)
             gone == Narrowed(mem[p], walk)
  <1>3. walk \subseteq present
    BY DEF Listed
  <1>4. begun \in States /\ Faithful(begun)
    BY <1>1, NewSweepFaithful, HelpersTyped
  <1>5. /\ m \in States /\ Faithful(m) /\ m.due \subseteq walk
        /\ m.cursor = begun.cursor /\ m.started = begun.started
        /\ m.done = begun.done
    <2> HIDE DEF begun
    <2>1. /\ m.cursor = begun.cursor /\ m.started = begun.started
          /\ m.done = begun.done
      BY <1>4 DEF Narrowed, States
    <2> QED BY <1>1, <1>4, <2>1, NarrowedFaithful, HelpersTyped
  <1>6. Owed(m) \subseteq todo
    <2>1. CASE AtBoundary(mem[p])
      <3>1. m.cursor = NoCursor
        BY <1>5, <2>1 DEF NewSweep
      <3> HIDE DEF m
      <3> QED BY <1>5, <3>1 DEF AfterCursor, Owed
    <2>2. CASE ~AtBoundary(mem[p])
      <3>1. m.started /\ ~m.done
        BY <1>5, <2>2 DEF AtBoundary
      <3> HIDE DEF m, walk
      <3> QED BY <1>5, <3>1, OwedIsAfterCursor DEF Faithful
    <2> QED BY <2>1, <2>2
  <1>7. /\ gone \in States /\ Faithful(gone) /\ gone.due \subseteq walk
    BY <1>1, NarrowedFaithful, HelpersTyped
  <1>8. \/ /\ walk = {}
           /\ mem' = [mem EXCEPT ![p] = Completed(Rewound(gone))]
           /\ pc' = [pc EXCEPT ![p] = "saving"]
           /\ UNCHANGED rest
        \/ /\ todo = {}
           /\ mem' = [mem EXCEPT ![p] = Completed(m)]
           /\ pc' = [pc EXCEPT ![p] = "saving"]
           /\ UNCHANGED rest
        \/ /\ mem' = [mem EXCEPT ![p] = m]
           /\ rest' = [rest EXCEPT ![p] = todo]
           /\ pc' = [pc EXCEPT ![p] = "auditing"]
    BY <1>2
  <1> HIDE DEF walk, begun, m, todo, gone
  <1>9. /\ \A q \in Procs \ {p} : pc'[q] = pc[q] /\ mem'[q] = mem[q]
        /\ \A q \in Fires \ {p} : keys'[q] = keys[q] /\ rest'[q] = rest[q]
    BY <1>2, <1>8 DEF TypeOK
  <1>10. ASSUME NEW s \in States, Faithful(s), Owed(s) = {}, s.due \subseteq present,
                \/ mem' = [mem EXCEPT ![p] = Completed(s)]
                \/ mem' = [mem EXCEPT ![p] = Completed(Rewound(s))],
                pc' = [pc EXCEPT ![p] = "saving"]
         PROVE  Accounted'
    <2>1. PICK u : /\ mem' = [mem EXCEPT ![p] = u]
                   /\ u \in {Completed(s), Completed(Rewound(s))}
      BY <1>10
    <2>2. Faithful(u) /\ u.due \subseteq present
      BY <1>10, <2>1, CompletedFaithful DEF Completed, Rewound, States
    <2>3. pc'[p] # "auditing"
      BY <1>10 DEF TypeOK
    <2> QED BY <1>2, <1>9, <2>1, <2>2, <2>3, CopyKeeps
  <1>11. CASE /\ walk = {}
              /\ mem' = [mem EXCEPT ![p] = Completed(Rewound(gone))]
              /\ pc' = [pc EXCEPT ![p] = "saving"]
    <2>1. Owed(gone) = {} /\ gone.due \subseteq present
      BY <1>7, <1>11 DEF Owed
    <2> QED BY <1>7, <1>10, <1>11, <2>1
  <1>12. CASE /\ todo = {}
              /\ mem' = [mem EXCEPT ![p] = Completed(m)]
              /\ pc' = [pc EXCEPT ![p] = "saving"]
    <2>1. Owed(m) = {} /\ m.due \subseteq present
      BY <1>3, <1>5, <1>6, <1>12
    <2> QED BY <1>5, <1>10, <1>12, <2>1
  <1>13. CASE /\ mem' = [mem EXCEPT ![p] = m]
              /\ rest' = [rest EXCEPT ![p] = todo]
              /\ pc' = [pc EXCEPT ![p] = "auditing"]
    <2>1. mem'[p] = m /\ rest'[p] = todo
      BY <1>13 DEF TypeOK
    <2>2. \A q \in Procs : Faithful(mem'[q]) /\ mem'[q].due \subseteq present
      BY <1>3, <1>5, <1>9, <2>1 DEF Accounted
    <2>3. \A q \in Fires : InLoop(q)'
      BY <1>6, <1>9, <2>1 DEF Accounted, InLoop, Owed
    <2> QED BY <1>2, <2>2, <2>3 DEF Accounted
  <1> QED BY <1>8, <1>11, <1>12, <1>13

\* Auditing the next file.
LEMMA AuditNextKeeps ==
  ASSUME DripAssumption, Accounted, TypeOK, NEW p \in Fires, AuditNext(p)
  PROVE  Accounted'
PROOF
  <1> USE DEF Procs
  <1>1. PICK f \in rest[p], result \in {"skipped", "failed", "passed"} :
          /\ result \in Outcomes(p, f)
          /\ \A g \in rest[p] \ {f} : WalkedBefore(f, g)
          /\ mem' = [mem EXCEPT ![p] =
                       IF rest[p] = {f}
                         THEN Completed(Rewound(Processed(mem[p], f, keys[p], result)))
                         ELSE Processed(mem[p], f, keys[p], result)]
          /\ pc' = [pc EXCEPT ![p] =
                      IF rest[p] = {f} THEN "saving" ELSE "auditing"]
          /\ rest' = [rest EXCEPT ![p] = @ \ {f}]
    BY DEF AuditNext, Outcomes
  <1>2. /\ mem[p] \in States /\ Faithful(mem[p])
        /\ mem[p].due \subseteq present
        /\ Owed(mem[p]) \subseteq rest[p]
        /\ rest[p] \in SUBSET Files
    BY DEF AuditNext, Accounted, InLoop, TypeOK
  <1>3. f[1] \in keys[p] /\ f \in (mem[p].due \cap Corrupt) \ TooLarge => result = "failed"
    BY <1>1, <1>2 DEF Outcomes
  <1> DEFINE m == Processed(mem[p], f, keys[p], result)
             t == IF rest[p] = {f} THEN Completed(Rewound(m)) ELSE m
  <1>5. /\ Faithful(m) /\ m \in States
        /\ m.due = mem[p].due
        /\ Owed(m) \subseteq rest[p] \ {f}
    <2>1. m \in States
      BY <1>2, HelpersTyped DEF TypeOK
    <2>2. PICK s \in States : s = mem[p]
      BY <1>2
    <2>3. PICK todo \in SUBSET Files : todo = rest[p]
      BY <1>2
    <2>4. /\ f \in todo /\ Faithful(s) /\ Owed(s) \subseteq todo
          /\ \A g \in todo \ {f} : WalkedBefore(f, g)
          /\ f[1] \in keys[p] /\ f \in (s.due \cap Corrupt) \ TooLarge => result = "failed"
      BY <1>1, <1>2, <1>3, <2>2, <2>3
    <2>5. /\ Faithful(Processed(s, f, keys[p], result))
          /\ Processed(s, f, keys[p], result).due = s.due
          /\ Owed(Processed(s, f, keys[p], result)) \subseteq todo \ {f}
      BY <2>4, ProcessedFaithful
    <2> QED BY <2>1, <2>2, <2>3, <2>5
  <1> HIDE DEF m
  <1>6. Faithful(t) /\ t.due = m.due /\ Owed(t) = Owed(m)
    <2>1. CASE rest[p] = {f}
      <3>1. Faithful(Completed(Rewound(m)))
        BY <1>5, <2>1, CompletedFaithful
      <3>2. /\ Completed(Rewound(m)).due = m.due
            /\ Completed(Rewound(m)).seen = m.seen
        BY <1>5 DEF Completed, Rewound, States
      <3> QED BY <2>1, <3>1, <3>2 DEF Owed
    <2>2. CASE rest[p] # {f}
      BY <1>5, <2>2
    <2> QED BY <2>1, <2>2
  <1>7. mem' = [mem EXCEPT ![p] = t]
    BY <1>1 DEF m
  <1> HIDE DEF t
  <1>8. /\ mem'[p] = t /\ rest'[p] = rest[p] \ {f}
        /\ \A q \in Procs \ {p} : pc'[q] = pc[q] /\ mem'[q] = mem[q]
        /\ \A q \in Fires \ {p} : rest'[q] = rest[q]
        /\ UNCHANGED <<present, saved, keys>>
    BY <1>1, <1>7 DEF TypeOK, AuditNext
  <1>9. \A q \in Procs : Faithful(mem'[q]) /\ mem'[q].due \subseteq present
    BY <1>2, <1>5, <1>6, <1>8 DEF Accounted
  <1>10. \A q \in Fires : InLoop(q)'
    <2>1. Owed(mem'[p]) \subseteq rest'[p]
      BY <1>5, <1>6, <1>8
    <2> QED BY <1>8, <2>1 DEF Accounted, InLoop, Owed
  <1> QED BY <1>8, <1>9, <1>10 DEF Accounted

\* A file is removed from the destination, and from every account of it.
LEMMA RemoveKeeps ==
  ASSUME Accounted, TypeOK, NEW f \in Files, RemoveFile(f)
  PROVE  Accounted'
PROOF
  <1> USE DEF Procs
  <1> DEFINE Without(s) == [s EXCEPT !.due = @ \ {f}]
  <1>1. ASSUME NEW s \in States, Faithful(s), s.due \subseteq present
        PROVE  /\ Faithful(Without(s))
               /\ Without(s).due = s.due \ {f}
               /\ Owed(Without(s)) \subseteq Owed(s)
    BY <1>1, ForgottenFaithful DEF States, Owed
  <1>2. /\ present' = present \ {f}
        /\ saved' = Without(saved)
        /\ \A q \in Procs : mem'[q] = Without(mem[q])
        /\ UNCHANGED <<pc, keys, rest>>
    BY DEF RemoveFile, TypeOK
  <1> HIDE DEF Without
  <1>3. Faithful(saved') /\ saved'.due \subseteq present'
    BY <1>1, <1>2 DEF Accounted, TypeOK
  <1>4. \A q \in Procs : Faithful(mem'[q]) /\ mem'[q].due \subseteq present'
    BY <1>1, <1>2 DEF Accounted, TypeOK
  <1>5. \A q \in Fires : InLoop(q)'
    BY <1>1, <1>2 DEF Accounted, InLoop, TypeOK
  <1> QED BY <1>3, <1>4, <1>5 DEF Accounted

\* Every step keeps the accounts.
LEMMA StepAccounted ==
  ASSUME DripAssumption, TypeOK, Accounted, [Next]_vars
  PROVE  Accounted'
PROOF
  <1> USE DEF Procs
  <1>1. saved \in States /\ Faithful(saved) /\ saved.due \subseteq present
    BY DEF Accounted, TypeOK
  <1>2. /\ Faithful(Began(saved)) /\ Began(saved).due \subseteq present
        /\ \A until : LET t == [saved EXCEPT !.paused = until]
                      IN Faithful(t) /\ t.due \subseteq present
    BY <1>1, MarkedFaithful DEF Began, States
  <1>3. ASSUME NEW p \in Fires, LoadPaused(p) \/ LoadState(p)
        PROVE  Accounted'
    <2>1. /\ mem' = [mem EXCEPT ![p] = Began(saved)]
          /\ pc'[p] # "auditing"
          /\ \A q \in Procs \ {p} : pc'[q] = pc[q]
          /\ UNCHANGED <<present, saved, keys, rest>>
      BY <1>3 DEF LoadPaused, LoadState, TypeOK
    <2> QED BY <1>2, <2>1, CopyKeeps
  <1>4. ASSUME NEW p \in Fires, DiscoverNothing(p) \/ Stop(p)
        PROVE  Accounted'
    <2>1. /\ \A q \in Fires : pc'[q] = "auditing" => pc[q] = "auditing"
          /\ UNCHANGED <<present, saved, mem, keys, rest>>
      BY <1>4 DEF DiscoverNothing, Stop, TypeOK
    <2> QED BY <2>1 DEF Accounted, InLoop
  <1>5. ASSUME NEW p \in Fires, Finish(p) \/ Die(p)
        PROVE  Accounted'
    <2>1. /\ mem' = [mem EXCEPT ![p] = Fresh]
          /\ saved' \in {saved, mem[p], Fresh}
          /\ pc'[p] # "auditing"
          /\ \A q \in Procs \ {p} : pc'[q] = pc[q]
          /\ \A q \in Fires \ {p} : keys'[q] = keys[q] /\ rest'[q] = rest[q]
          /\ UNCHANGED present
      BY <1>5 DEF Finish, Die, TypeOK
    <2> QED BY <2>1, WriteKeeps
  <1>6. ASSUME NEW o \in Operators, SetPause(o)
        PROVE  Accounted'
    <2>1. PICK until :
            /\ mem' = [mem EXCEPT ![o] = [saved EXCEPT !.paused = until]]
            /\ pc'[o] # "auditing"
            /\ \A q \in Procs \ {o} : pc'[q] = pc[q]
            /\ UNCHANGED <<present, saved, keys, rest>>
      BY <1>6 DEF SetPause, TypeOK
    <2> QED BY <1>2, <2>1, CopyKeeps
  <1>7. ASSUME NEW o \in Operators, SavePause(o)
        PROVE  Accounted'
    <2>1. /\ mem' = [mem EXCEPT ![o] = Fresh]
          /\ saved' = mem[o]
          /\ pc'[o] # "auditing"
          /\ \A q \in Procs \ {o} : pc'[q] = pc[q]
          /\ UNCHANGED <<present, keys, rest>>
      BY <1>7 DEF SavePause, TypeOK
    <2> QED BY <2>1, WriteKeeps
  <1>8. ASSUME NEW f \in Files, AddFile(f)
        PROVE  Accounted'
    <2>1. /\ present \subseteq present'
          /\ UNCHANGED <<saved, pc, mem, keys, rest>>
      BY <1>8 DEF AddFile
    <2> QED BY <2>1 DEF Accounted, InLoop, Owed
  <1>9. CASE UNCHANGED vars
    BY <1>9 DEF vars, Accounted, InLoop, Owed
  <1> QED BY <1>3, <1>4, <1>5, <1>6, <1>7, <1>8, <1>9, DiscoverKeeps,
             AuditNextKeeps, RemoveKeeps DEF Next, FireStep

-----------------------------------------------------------------------------
\* The accounts are right in every reachable state.
THEOREM AlwaysAccounted == Spec => []Accounted
PROOF
  <1>1. Init => TypeOK /\ Accounted
    BY DripAssumption, InitTyped, InitAccounted
  <1>2. TypeOK /\ Accounted /\ [Next]_vars => (TypeOK /\ Accounted)'
    BY DripAssumption, StepTyped, StepAccounted
  <1> QED BY <1>1, <1>2, PTL DEF Spec

\* A sweep recorded as complete has covered every orderly file that was there,
\* and listed, all along.
THEOREM DripCovers == Spec => []SweepCovers
PROOF
  <1>1. Accounted => SweepCovers
    BY DEF Accounted, Faithful, Owed, SweepCovers
  <1> QED BY <1>1, AlwaysAccounted, PTL

\* A sweep recorded as complete names every such file that does not verify, but
\* for those passed over without their computer's keyset.
THEOREM DripReports == Spec => []FailuresReported
PROOF
  <1>1. Accounted => FailuresReported
    BY DEF Accounted, Faithful, Owed, Reported, FailuresReported
  <1> QED BY <1>1, AlwaysAccounted, PTL

=============================================================================
