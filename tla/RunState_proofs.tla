--------------------------- MODULE RunState_proofs ---------------------------
(***************************************************************************)
(* What a state file and the screen that tails it say of a run is how it   *)
(* went: for any number of producers, files, events, signals and keys, any *)
(* sizes of ring, flush and pipe, every fault at every step, and a monitor *)
(* that marks and collects whatever it finds.                              *)
(***************************************************************************)
EXTENDS RunState, SequenceTheorems, TLAPS

TailRecord == [at : {"off", "drain", "check", "lastdrain", "finalize", "done"},
               index : Nat, got : Seq(Nat), polled : BOOLEAN,
               verdict : {"none", "finished", "cancelled", "failed"}]
----------------------------------------------------------------------------
(* The ring of events. *)

LEMMA MaxOfTwo ==
  ASSUME NEW a \in Int, NEW b \in Int
  PROVE  Max({a, b}) = IF a >= b THEN a ELSE b
PROOF
  <1> DEFINE m == IF a >= b THEN a ELSE b
             P(x) == x \in {a, b} /\ \A y \in {a, b} : x >= y
  <1>1. P(m)
    OBVIOUS
  <1>2. \A x : P(x) => x = m
    OBVIOUS
  <1>3. Max({a, b}) = CHOOSE x : P(x)
    BY DEF Max
  <1> HIDE DEF P, m
  <1>4. Max({a, b}) = m
    BY <1>1, <1>2, <1>3
  <1> QED BY <1>4 DEF m

\* The ring holds the last TailMax events.
LEMMA RingFacts ==
  ASSUME RunStateAssumption, NEW n \in Nat
  PROVE  /\ TailMax \in Nat
         /\ FirstKept(n) = IF n <= TailMax THEN 1 ELSE n - TailMax + 1
         /\ TailLen(n) = IF n <= TailMax THEN n ELSE TailMax
         /\ FirstKept(n) \in Nat /\ TailLen(n) \in Nat
PROOF
  <1>1. TailMax \in Nat
    BY DEF RunStateAssumption
  <1>2. FirstKept(n) = IF 1 >= n - TailMax + 1 THEN 1 ELSE n - TailMax + 1
    BY <1>1, MaxOfTwo DEF FirstKept
  <1> QED BY <1>1, <1>2 DEF TailLen

\* Consecutive numbers.
LEMMA CountFacts ==
  ASSUME NEW k \in Nat, NEW s \in Nat, s >= 1, NEW c, c = [i \in 1..k |-> s + i - 1]
  PROVE  c \in Seq(Nat) /\ Len(c) = k /\ \A i \in 1..k : c[i] = s + i - 1
PROOF
  <1>1. \A i \in 1..k : s + i - 1 \in Nat
    OBVIOUS
  <1>2. c \in [1..k -> Nat] /\ \A i \in 1..k : c[i] = s + i - 1
    BY <1>1
  <1>3. c \in Seq(Nat)
    BY <1>2
  <1>4. Len(c) = k
    BY <1>2, <1>3, LenProperties
  <1> QED BY <1>2, <1>3, <1>4

\* What a drain forwards: a run of consecutive events that ends with the last.
LEMMA NewEventsFacts ==
  ASSUME RunStateAssumption, NEW p, tail[p].index \in Nat, NEW f, f.n \in Nat
  PROVE  /\ NewEvents(p, f) \in Seq(Nat)
         /\ TailLen(f.n) <= tail[p].index => NewEvents(p, f) = <<>>
         /\ TailLen(f.n) > tail[p].index =>
              /\ Len(NewEvents(p, f)) = TailLen(f.n) - tail[p].index
              /\ \A i \in 1..Len(NewEvents(p, f)) :
                   NewEvents(p, f)[i] = FirstKept(f.n) + tail[p].index + i - 1
PROOF
  <1> DEFINE n == f.n  x == tail[p].index  k == TailLen(n) - x  s == FirstKept(n) + x
  <1>1. FirstKept(n) \in Nat /\ TailLen(n) \in Nat /\ FirstKept(n) >= 1
    BY RingFacts
  <1>2. CASE TailLen(n) > x
    <2>1. NewEvents(p, f) = [i \in 1..k |-> s + i - 1]
      BY <1>2 DEF NewEvents
    <2>2. PICK b \in Nat, c \in Nat : b = k /\ c = s /\ c >= 1
      <3>1. k \in Nat
        BY <1>1, <1>2
      <3>2. s \in Nat /\ s >= 1
        BY <1>1
      <3> HIDE DEF k, s
      <3> QED BY <3>1, <3>2
    <2>3. PICK e : e = NewEvents(p, f)
      OBVIOUS
    <2>4. e = [i \in 1..b |-> c + i - 1]
      BY <2>1, <2>2, <2>3
    <2>5. e \in Seq(Nat) /\ Len(e) = b /\ \A i \in 1..b : e[i] = c + i - 1
      <3> HIDE DEF k, s
      <3> QED BY <2>2, <2>4, CountFacts
    <2> QED BY <1>1, <1>2, <2>2, <2>3, <2>5
  <1>3. CASE ~(TailLen(n) > x)
    <2>1. NewEvents(p, f) = <<>>
      BY <1>3 DEF NewEvents
    <2> QED BY <1>1, <1>3, <2>1
  <1> QED BY <1>2, <1>3
----------------------------------------------------------------------------
(* Types. *)

LEMMA InitTyped == ASSUME RunStateAssumption, Init PROVE TypeOK
PROOF
  <1>1. mon \in [at : {"idle", "check", "mark", "unlink"}, id : RunIds, seen : FileRecord]
    <2>1. PICK r \in RunIds : r = CHOOSE q \in RunIds : TRUE
      BY DEF RunStateAssumption
    <2>2. NoSeen \in FileRecord
      BY DEF NoSeen, NoFile, FileRecord
    <2> QED BY <2>1, <2>2 DEF Init
  <1>2. tail \in [Producers -> TailRecord]
    <2>1. <<>> \in Seq(Nat)
      OBVIOUS
    <2> QED BY <2>1 DEF Init, TailRecord
  <1>3. file \in [RunIds -> FileRecord] /\ pending \in [Producers -> FileRecord]
    BY DEF Init, NoFile, FileRecord
  <1>4. rec \in [Producers -> [status : Statuses, n : Nat]]
    BY DEF Init, Fresh, Statuses
  <1>5. pipe \in [Producers -> 0..PipeCap] /\ spawned \subseteq Producers
    BY DEF Init, RunStateAssumption
  <1> QED BY <1>1, <1>2, <1>3, <1>4, <1>5 DEF Init, TypeOK, TailRecord, Places

\* What the steps change, by variable.
LEMMA Kinds ==
  ASSUME TypeOK
  PROVE  /\ file \in [RunIds -> FileRecord] /\ pending \in [Producers -> FileRecord]
         /\ unflushed \in [Producers -> Nat] /\ pipe \in [Producers -> 0..PipeCap]
         /\ paused \in [Producers -> BOOLEAN] /\ live \in [Producers -> BOOLEAN]
         /\ ended \in [Producers -> {"not", "returned", "raised", "interrupted"}]
         /\ pc \in [Producers -> Places]
         /\ tail \in [Producers -> TailRecord]
         /\ rec \in [Producers -> [status : Statuses, n : Nat]]
  BY DEF TypeOK, TailRecord

LEMMA PlaceTyped ==
  ASSUME TypeOK, NEW p \in Producers, NEW where \in Places, Goto(p, where)
  PROVE  pc' \in [Producers -> Places]
  BY DEF TypeOK, Goto

LEMMA FileTyped ==
  ASSUME TypeOK, NEW r \in RunIds, NEW f \in FileRecord
  PROVE  [file EXCEPT ![r] = f] \in [RunIds -> FileRecord]
  BY DEF TypeOK

LEMMA FileOfTyped == ASSUME RunStateAssumption, NEW p \in Producers PROVE FileOf[p] \in RunIds
  BY DEF RunStateAssumption

LEMMA RecTyped ==
  ASSUME TypeOK, NEW p \in Producers, NEW s \in Statuses
  PROVE  /\ rec[p].status \in Statuses /\ rec[p].n \in Nat
         /\ [rec EXCEPT ![p].status = s] \in [Producers -> [status : Statuses, n : Nat]]
         /\ [rec EXCEPT ![p].n = @ + 1] \in [Producers -> [status : Statuses, n : Nat]]
         /\ OnDisk(p) \in FileRecord /\ [OnDisk(p) EXCEPT !.n = @ + 1] \in FileRecord
         /\ [OnDisk(p) EXCEPT !.status = s] \in FileRecord
         /\ [status |-> s, n |-> rec[p].n, by |-> p] \in FileRecord
         /\ [status |-> s, n |-> 0, by |-> p] \in FileRecord
PROOF
  <1>1. rec \in [Producers -> [status : Statuses, n : Nat]]
    BY DEF TypeOK
  <1>2. rec[p] \in [status : Statuses, n : Nat] /\ rec[p].status \in Statuses /\ rec[p].n \in Nat
    BY <1>1
  <1>3. rec[p].n + 1 \in Nat
    BY <1>2
  <1>4. [rec[p] EXCEPT !.status = s] \in [status : Statuses, n : Nat]
    BY <1>2
  <1>5. [rec[p] EXCEPT !.n = @ + 1] \in [status : Statuses, n : Nat]
    BY <1>2, <1>3
  <1>6. /\ [rec EXCEPT ![p].status = s] \in [Producers -> [status : Statuses, n : Nat]]
        /\ [rec EXCEPT ![p].n = @ + 1] \in [Producers -> [status : Statuses, n : Nat]]
    BY <1>1, <1>4, <1>5
  <1>7. OnDisk(p) \in FileRecord
    BY <1>2 DEF OnDisk, FileRecord
  <1>8. [OnDisk(p) EXCEPT !.n = @ + 1] \in FileRecord /\ [OnDisk(p) EXCEPT !.status = s] \in FileRecord
    BY <1>2, <1>3 DEF OnDisk, FileRecord
  <1>9. /\ [status |-> s, n |-> rec[p].n, by |-> p] \in FileRecord
        /\ [status |-> s, n |-> 0, by |-> p] \in FileRecord
    BY <1>2 DEF FileRecord
  <1> QED BY <1>2, <1>6, <1>7, <1>8, <1>9

LEMMA NoFileTyped == NoFile \in FileRecord /\ NoSeen \in FileRecord
  BY DEF NoFile, NoSeen, FileRecord

LEMMA PipeTyped ==
  ASSUME RunStateAssumption, TypeOK, NEW p \in Producers
  PROVE  [pipe EXCEPT ![p] = Written(p)] \in [Producers -> 0..PipeCap]
PROOF
  <1>1. pipe \in [Producers -> 0..PipeCap] /\ PipeCap \in Nat /\ pipe[p] \in 0..PipeCap
    BY DEF TypeOK, RunStateAssumption
  <1>2. Written(p) \in 0..PipeCap
    BY <1>1 DEF Written, Blocked
  <1> QED BY <1>1, <1>2

\* A step of a producer.
LEMMA ProducerTyped ==
  ASSUME RunStateAssumption, TypeOK, NEW p \in Producers, ProducerStep(p)
  PROVE  TypeOK'
PROOF
  <1>1. CASE Boot(p)
    <2>1. pc' \in [Producers -> Places]
      BY <1>1, PlaceTyped DEF Boot, Places
    <2> QED BY <1>1, <2>1 DEF Boot, TypeOK
  <1>2. CASE Enter(p)
    <2>1. pc' \in [Producers -> Places]
      BY <1>2, PlaceTyped DEF Enter, Places
    <2>2. rec' \in [Producers -> [status : Statuses, n : Nat]]
      BY <1>2, RecTyped DEF Enter, Statuses
    <2>3. [status |-> "running", n |-> 0, by |-> p] \in FileRecord
      BY DEF FileRecord, Statuses
    <2>4. file' \in [RunIds -> FileRecord]
      <3>1. file' = file \/ file' = [file EXCEPT ![FileOf[p]] = [status |-> "running", n |-> 0, by |-> p]]
        BY <1>2 DEF Enter
      <3> QED BY <2>3, <3>1, Kinds, FileTyped, FileOfTyped
    <2> QED BY <1>2, <2>1, <2>2, <2>4 DEF Enter, TypeOK
  <1>3. CASE OpenPlan(p)
    <2>1. pc' \in [Producers -> Places]
      BY <1>3, PlaceTyped DEF OpenPlan, Places
    <2>2. live' \in [Producers -> BOOLEAN]
          /\ ended' \in [Producers -> {"not", "returned", "raised", "interrupted"}]
      <3>1. live' = live \/ live' = [live EXCEPT ![p] = TRUE]
        BY <1>3 DEF OpenPlan
      <3>2. ended' = ended \/ ended' = [ended EXCEPT ![p] = "raised"]
        BY <1>3 DEF OpenPlan
      <3>3. ended' \in [Producers -> {"not", "returned", "raised", "interrupted"}]
        BY <3>2, Kinds
      <3>4. live' \in [Producers -> BOOLEAN]
        BY <3>1, Kinds
      <3> QED BY <3>3, <3>4
    <2> QED BY <1>3, <2>1, <2>2 DEF OpenPlan, TypeOK
  <1>4. CASE Walk(p)
    <2>1. pc' \in [Producers -> Places]
      BY <1>4, PlaceTyped DEF Walk, Places
    <2>2. rec' \in [Producers -> [status : Statuses, n : Nat]]
      BY <1>4, RecTyped DEF Walk, Statuses
    <2>3. unflushed' \in [Producers -> Nat]
      <3>1. unflushed \in [Producers -> Nat] /\ unflushed[p] + 1 \in Nat
        BY DEF TypeOK
      <3> QED BY <1>4, <3>1 DEF Walk
    <2>4. pending' \in [Producers -> FileRecord]
      <3>1. PICK f \in FileRecord : f = [OnDisk(p) EXCEPT !.n = @ + 1]
        BY RecTyped DEF Statuses
      <3>2. pending' = pending \/ pending' = [pending EXCEPT ![p] = f]
        BY <1>4, <3>1 DEF Walk
      <3> QED BY <3>2, Kinds
    <2> QED BY <1>4, <2>1, <2>2, <2>3, <2>4 DEF Walk, TypeOK
  <1>5. CASE Replace(p)
    <2>1. pc' \in [Producers -> Places]
      BY <1>5, PlaceTyped DEF Replace, Places
    <2>2. pending' \in [Producers -> FileRecord]
      BY <1>5, NoFileTyped, Kinds DEF Replace
    <2>3. file' \in [RunIds -> FileRecord]
      <3>1. pending[p] \in FileRecord /\ (file' = file \/ file' = [file EXCEPT ![FileOf[p]] = pending[p]])
        BY <1>5, Kinds DEF Replace
      <3> QED BY <3>1, Kinds, FileTyped, FileOfTyped
    <2>4. unflushed' \in [Producers -> Nat]
      BY <1>5, Kinds DEF Replace
    <2> QED BY <1>5, <2>1, <2>2, <2>3, <2>4 DEF Replace, TypeOK
  <1>6. CASE PrintLine(p)
    <2>1. pc' \in [Producers -> Places]
      BY <1>6, PlaceTyped DEF PrintLine, Places
    <2>2. pipe' \in [Producers -> 0..PipeCap]
      BY <1>6, PipeTyped DEF PrintLine
    <2> QED BY <1>6, <2>1, <2>2 DEF PrintLine, TypeOK
  <1>7. CASE EndWalk(p)
    <2>1. pc' \in [Producers -> Places]
      BY <1>7, PlaceTyped DEF EndWalk, Places
    <2>2. ended' \in [Producers -> {"not", "returned", "raised", "interrupted"}]
          /\ live' \in [Producers -> BOOLEAN]
      BY <1>7, Kinds DEF EndWalk
    <2> QED BY <1>7, <2>1, <2>2 DEF EndWalk, TypeOK
  <1>8. CASE Leave(p)
    <2>1. pc' \in [Producers -> Places]
      BY <1>8, PlaceTyped DEF Leave, Places
    <2>2. ExitStatus(p) \in Statuses
      BY RecTyped DEF ExitStatus, Statuses, Terminal
    <2>3. rec' \in [Producers -> [status : Statuses, n : Nat]]
      BY <1>8, <2>2, RecTyped DEF Leave
    <2>4. file' \in [RunIds -> FileRecord]
      <3>1. PICK s \in Statuses : s = ExitStatus(p)
        BY <2>2
      <3>2. PICK f \in FileRecord : f = [status |-> s, n |-> rec[p].n, by |-> p]
        BY RecTyped
      <3>3. file' = file \/ file' = [file EXCEPT ![FileOf[p]] = f]
        BY <1>8, <3>1, <3>2 DEF Leave
      <3> QED BY <3>3, Kinds, FileTyped, FileOfTyped
    <2> QED BY <1>8, <2>1, <2>3, <2>4 DEF Leave, TypeOK
  <1>9. CASE Report(p)
    <2>1. pc' \in [Producers -> Places]
      BY <1>9, PlaceTyped DEF Report, Places
    <2>2. pipe' \in [Producers -> 0..PipeCap]
      BY <1>9, PipeTyped, Kinds DEF Report
    <2> QED BY <1>9, <2>1, <2>2 DEF Report, TypeOK
  <1> QED BY <1>1, <1>2, <1>3, <1>4, <1>5, <1>6, <1>7, <1>8, <1>9 DEF ProducerStep

\* What a drain leaves of a tailer.
After(p, where, e) ==
  LET f == file[FileOf[p]] IN
  /\ tail' = [tail EXCEPT ![p] = e]
  /\ e.at = where /\ e.verdict = tail[p].verdict
  /\ e.got = tail[p].got \o NewEvents(p, f)
  /\ e.index = IF tail[p].index >= TailLen(f.n) THEN tail[p].index ELSE TailLen(f.n)

LEMMA DrainedFacts ==
  ASSUME RunStateAssumption, TypeOK, NEW p \in Producers,
         NEW where \in {"check", "finalize"}, Drained(p, where)
  PROVE  /\ file[FileOf[p]].n \in Nat /\ tail[p] \in TailRecord
         /\ \E e \in TailRecord : After(p, where, e)
PROOF
  <1> DEFINE f == file[FileOf[p]]
  <1>1. tail[p] \in TailRecord /\ f.n \in Nat /\ tail \in [Producers -> TailRecord]
    <2>1. f \in FileRecord
      BY Kinds, FileOfTyped
    <2> QED BY <2>1, Kinds DEF FileRecord
  <1>2. tail[p].index \in Nat /\ TailLen(f.n) \in Nat /\ tail[p].got \in Seq(Nat)
    <2>1. PICK n \in Nat : n = f.n
      BY <1>1
    <2>2. TailLen(n) \in Nat
      BY RingFacts
    <2> QED BY <1>1, <2>1, <2>2 DEF TailRecord
  <1>3. PICK m : m = Max({tail[p].index, TailLen(f.n)})
    OBVIOUS
  <1>4. m = IF tail[p].index >= TailLen(f.n) THEN tail[p].index ELSE TailLen(f.n)
    <2>1. PICK b \in Nat, c \in Nat : b = tail[p].index /\ c = TailLen(f.n)
      BY <1>2
    <2>2. Max({b, c}) = IF b >= c THEN b ELSE c
      BY MaxOfTwo
    <2> QED BY <1>3, <2>1, <2>2
  <1>5. PICK g : g = tail[p].got \o NewEvents(p, f)
    OBVIOUS
  <1>6. g \in Seq(Nat)
    <2>1. NewEvents(p, f) \in Seq(Nat)
      BY <1>1, <1>2, NewEventsFacts
    <2> QED BY <1>2, <1>5, <2>1
  <1>7. tail' = [tail EXCEPT ![p].got = g, ![p].index = m, ![p].at = where]
    BY <1>3, <1>5 DEF Drained
  <1>8. PICK e : e = [tail[p] EXCEPT !.got = g, !.index = m, !.at = where]
    OBVIOUS
  <1>9. tail' = [tail EXCEPT ![p] = e]
    BY <1>1, <1>7, <1>8
  <1>10. e \in TailRecord
    <2>1. m \in Nat
      BY <1>2, <1>4
    <2> QED BY <1>1, <1>6, <1>8, <2>1 DEF TailRecord
  <1>11. e.at = where /\ e.verdict = tail[p].verdict /\ e.got = g /\ e.index = m
    BY <1>1, <1>8 DEF TailRecord
  <1> QED BY <1>1, <1>4, <1>5, <1>9, <1>10, <1>11 DEF After

LEMMA DrainedTyped ==
  ASSUME RunStateAssumption, TypeOK, NEW p \in Producers,
         NEW where \in {"check", "finalize"}, Drained(p, where)
  PROVE  tail' \in [Producers -> TailRecord]
PROOF
  <1>1. PICK e \in TailRecord : After(p, where, e)
    BY DrainedFacts
  <1> QED BY <1>1, Kinds DEF After

LEMMA TailerTyped ==
  ASSUME RunStateAssumption, TypeOK, NEW p \in Producers, TailerStep(p)
  PROVE  TypeOK'
PROOF
  <1>1. CASE Poll(p)
    <2>1. tail' \in [Producers -> TailRecord]
      BY <1>1, DrainedTyped DEF Poll
    <2> QED BY <1>1, <2>1 DEF Poll, TypeOK, TailRecord, producerVars
  <1>2. CASE CheckExit(p)
    <2>1. tail' \in [Producers -> TailRecord]
      <3>1. PICK e : e = [tail[p] EXCEPT !.at = IF pc[p] = "gone" THEN AfterExit ELSE "drain",
                                         !.polled = pc[p] = "gone"]
        OBVIOUS
      <3>2. tail[p] \in TailRecord
        BY Kinds
      <3>3. e \in TailRecord
        BY <3>1, <3>2 DEF TailRecord, AfterExit
      <3>4. tail' = [tail EXCEPT ![p] = e]
        BY <1>2, <3>1, Kinds DEF CheckExit
      <3> QED BY <3>3, <3>4, Kinds
    <2> QED BY <1>2, <2>1 DEF CheckExit, TypeOK, TailRecord, producerVars
  <1>3. CASE LastDrain(p)
    <2>1. tail' \in [Producers -> TailRecord]
      BY <1>3, DrainedTyped DEF LastDrain
    <2> QED BY <1>3, <2>1 DEF LastDrain, TypeOK, TailRecord, producerVars
  <1>4. CASE Finalize(p)
    <2>1. tail' \in [Producers -> TailRecord]
      <3>1. PICK e : e = [tail[p] EXCEPT !.at = "done", !.verdict = Verdict(file[FileOf[p]])]
        OBVIOUS
      <3>2. tail[p] \in TailRecord
        BY Kinds
      <3>3. e \in TailRecord
        BY <3>1, <3>2 DEF TailRecord, Verdict
      <3>4. tail' = [tail EXCEPT ![p] = e]
        BY <1>4, <3>1, Kinds DEF Finalize
      <3> QED BY <3>3, <3>4, Kinds
    <2>2. pipe' \in [Producers -> 0..PipeCap]
      <3>1. 0 \in 0..PipeCap
        BY DEF RunStateAssumption
      <3> QED BY <1>4, <3>1, Kinds DEF Finalize
    <2> QED BY <1>4, <2>1, <2>2 DEF Finalize, TypeOK, TailRecord
  <1> QED BY <1>1, <1>2, <1>3, <1>4 DEF TailerStep

\* A signal that reaches a Backup, or ends the process.
LEMMA SignalTyped ==
  ASSUME RunStateAssumption, TypeOK, NEW p \in Producers, NEW to \in BOOLEAN, PauseSignal(p, to)
  PROVE  /\ pc' \in [Producers -> Places] /\ rec' \in [Producers -> [status : Statuses, n : Nat]]
         /\ paused' \in [Producers -> BOOLEAN] /\ pipe' \in [Producers -> 0..PipeCap]
         /\ unflushed' \in [Producers -> Nat] /\ file' \in [RunIds -> FileRecord]
         /\ UNCHANGED <<spawned, pending, live, ended, mon, reused, tail>>
PROOF
  <1>1. CASE Killed(p)
    <2>1. pc' \in [Producers -> Places]
      BY <1>1, PlaceTyped DEF Killed, Places
    <2> QED BY <1>1, <2>1, Kinds DEF Killed
  <1>2. CASE Toggle(p, to)
    <2>1. rec' \in [Producers -> [status : Statuses, n : Nat]]
      BY <1>2, RecTyped DEF Toggle, Statuses
    <2>2. paused' \in [Producers -> BOOLEAN]
      <3>1. paused' = [paused EXCEPT ![p] = to]
        BY <1>2 DEF Toggle
      <3> QED BY <3>1, Kinds
    <2>3. pipe' \in [Producers -> 0..PipeCap]
      BY <1>2, PipeTyped DEF Toggle
    <2>4. unflushed' \in [Producers -> Nat]
      <3>1. unflushed[p] + 1 \in Nat
        BY Kinds
      <3>2. unflushed' = [unflushed EXCEPT ![p] = 0] \/ unflushed' = [unflushed EXCEPT ![p] = @ + 1]
        BY <1>2 DEF Toggle
      <3> QED BY <3>1, <3>2, Kinds
    <2>5. file' \in [RunIds -> FileRecord]
      <3>1. PICK f \in FileRecord : f = [OnDisk(p) EXCEPT !.n = @ + 1]
        BY RecTyped DEF Statuses
      <3>2. file' = file \/ file' = [file EXCEPT ![FileOf[p]] = f]
        BY <1>2, <3>1 DEF Toggle
      <3> QED BY <3>2, Kinds, FileTyped, FileOfTyped
    <2>6. UNCHANGED <<spawned, pc, pending, live, ended, mon, reused, tail>>
      BY <1>2 DEF Toggle
    <2> QED BY <2>1, <2>2, <2>3, <2>4, <2>5, <2>6, Kinds
  <1>3. CASE UNCHANGED <<spawned, producerVars, file, mon, reused, tail>>
    BY <1>3, Kinds DEF producerVars
  <1> QED BY <1>1, <1>2, <1>3 DEF PauseSignal

\* The keys of the screen.
LEMMA KeysTyped ==
  ASSUME RunStateAssumption, TypeOK, NEW p \in Producers, PressPause(p) \/ PressCancel(p)
  PROVE  TypeOK'
PROOF
  <1>1. screen \in [open : BOOLEAN, paused : BOOLEAN, keys : Nat]
    BY DEF TypeOK
  <1>2. (~screen.paused) \in BOOLEAN
    <2>1. (~screen.paused) = TRUE \/ (~screen.paused) = FALSE
      BY Zenon
    <2> QED BY <2>1
  <1>3. screen' \in [open : BOOLEAN, paused : BOOLEAN, keys : Nat]
    <2>1. PICK k \in Nat : k = screen.keys + 1
      BY <1>1
    <2>2. PICK b \in BOOLEAN : b = (~screen.paused)
      BY <1>2
    <2>3. screen' = [screen EXCEPT !.paused = b, !.keys = k] \/ screen' = [screen EXCEPT !.keys = k]
      <3>1. screen' = [screen EXCEPT !.paused = (~screen.paused), !.keys = screen.keys + 1]
              \/ screen' = [screen EXCEPT !.keys = screen.keys + 1]
        BY DEF PressPause, PressCancel
      <3> QED BY <2>1, <2>2, <3>1, Zenon
    <2> DEFINE S == [open : BOOLEAN, paused : BOOLEAN, keys : Nat]
    <2>4. [screen EXCEPT !.paused = b, !.keys = k] \in S
      BY <1>1
    <2>5. [screen EXCEPT !.keys = k] \in S
      BY <1>1
    <2> HIDE DEF S
    <2>6. screen' \in S
      BY <2>3, <2>4, <2>5
    <2> QED BY <2>6 DEF S
  <1>4. CASE PressCancel(p)
    <2>1. pc' \in [Producers -> Places]
      BY <1>4, PlaceTyped DEF PressCancel, Killed, Places
    <2> QED BY <1>3, <1>4, <2>1 DEF PressCancel, Killed, TypeOK
  <1>5. CASE PressPause(p) /\ PauseSignal(p, ~screen.paused)
    <2>2. /\ pc' \in [Producers -> Places] /\ rec' \in [Producers -> [status : Statuses, n : Nat]]
          /\ paused' \in [Producers -> BOOLEAN] /\ pipe' \in [Producers -> 0..PipeCap]
          /\ unflushed' \in [Producers -> Nat] /\ file' \in [RunIds -> FileRecord]
          /\ UNCHANGED <<spawned, pending, live, ended, mon, reused, tail>>
      BY <1>2, <1>5, SignalTyped
    <2> QED BY <1>3, <2>2 DEF TypeOK
  <1>6. CASE PressPause(p) /\ ~PauseSignal(p, ~screen.paused)
    <2>1. tail' = [tail EXCEPT ![p].polled = TRUE] /\ UNCHANGED <<spawned, producerVars, file, mon, reused>>
      BY <1>6 DEF PressPause
    <2>2. PICK e : e = [tail[p] EXCEPT !.polled = TRUE]
      OBVIOUS
    <2>3. tail' = [tail EXCEPT ![p] = e] /\ e \in TailRecord
      <3>1. tail[p] \in TailRecord
        BY Kinds
      <3>2. e \in TailRecord
        BY <2>2, <3>1 DEF TailRecord
      <3> QED BY <2>1, <2>2, <3>2, Kinds
    <2>4. tail' \in [Producers -> TailRecord]
      BY <2>3, Kinds
    <2> QED BY <1>3, <2>1, <2>4 DEF TypeOK, TailRecord, producerVars
  <1> QED BY <1>4, <1>5, <1>6

\* The monitor.
MonitorStep ==
  \/ MonitorCheck \/ MonitorMark \/ MonitorFails \/ CollectUnlink
  \/ \E r \in RunIds : MonitorRead(r) \/ CollectRead(r)

MonType == [at : {"idle", "check", "mark", "unlink"}, id : RunIds, seen : FileRecord]

LEMMA MonitorTyped == ASSUME RunStateAssumption, TypeOK, MonitorStep PROVE TypeOK'
PROOF
  <1>1. mon \in MonType /\ mon.seen \in FileRecord /\ mon.id \in RunIds
    BY DEF TypeOK, MonType
  <1>2. CASE MonitorCheck
    <2>1. mon' \in MonType
      BY <1>1, <1>2, NoFileTyped DEF MonitorCheck, MonType
    <2> QED BY <1>2, <2>1 DEF MonitorCheck, TypeOK, MonType, producerVars
  <1>3. CASE MonitorMark
    <2>1. mon' \in MonType
      BY <1>1, <1>3, NoFileTyped DEF MonitorMark, MonType
    <2>2. Stale(mon.seen) \in FileRecord
      BY <1>1 DEF Stale, FileRecord, Statuses, Terminal
    <2>3. file' \in [RunIds -> FileRecord]
      BY <1>1, <1>3, <2>2, FileTyped DEF MonitorMark
    <2> QED BY <1>3, <2>1, <2>3 DEF MonitorMark, TypeOK, MonType, producerVars
  <1>4. CASE MonitorFails
    <2>1. mon' \in MonType
      BY <1>1, <1>4, NoFileTyped DEF MonitorFails, MonType
    <2> QED BY <1>4, <2>1 DEF MonitorFails, TypeOK, MonType, producerVars
  <1>5. CASE CollectUnlink
    <2>1. mon' \in MonType
      BY <1>1, <1>5, NoFileTyped DEF CollectUnlink, MonType
    <2>2. file' \in [RunIds -> FileRecord]
      BY <1>1, <1>5, NoFileTyped, FileTyped DEF CollectUnlink
    <2> QED BY <1>5, <2>1, <2>2 DEF CollectUnlink, TypeOK, MonType, producerVars
  <1>6. ASSUME NEW r \in RunIds, MonitorRead(r) \/ CollectRead(r) PROVE TypeOK'
    <2>1. mon' \in MonType
      BY <1>6, Kinds DEF MonitorRead, CollectRead, MonType
    <2> QED BY <1>6, <2>1 DEF MonitorRead, CollectRead, TypeOK, MonType, producerVars
  <1> QED BY <1>2, <1>3, <1>4, <1>5, <1>6 DEF MonitorStep
----------------------------------------------------------------------------
(* The invariant. *)

\* Steps inside the writer's block, where the record is "running".
Inside == {"opening", "walking", "flushing", "printing", "leaving", "failing"}

\* A producer's own books agree with where it is.
Local(p) ==
  /\ pc[p] \in Inside => rec[p].status = "running"
  /\ pc[p] = "flushing" => pending[p].status = "running" /\ pending[p].by = p
  /\ pending[p].n <= rec[p].n
  /\ live[p] => pc[p] \in {"walking", "flushing", "printing", "gone"}
  /\ pc[p] = "leaving" => ended[p] = "returned"

\* A state file speaks of the producer it names, of no event it has not seen,
\* and of an end that came.
FileTrue(r) ==
  LET p == file[r].by IN
  IF file[r].status = "none" THEN file[r].n = 0
  ELSE
    /\ p \in Producers /\ FileOf[p] = r /\ pc[p] # "unspawned"
    /\ file[r].n <= rec[p].n
    /\ file[r].status = "stale" => pc[p] = "gone"
    /\ file[r].status = "completed" =>
         ended[p] = "returned" /\ pc[p] \in {"summary", "gone"} /\ file[r].n = rec[p].n

\* So does the record the monitor has in hand; its producer is dead once its
\* pid was asked.
SeenTrue ==
  mon.at \in {"check", "mark"} =>
    LET p == mon.seen.by IN
    /\ p \in Producers /\ FileOf[p] = mon.id /\ pc[p] # "unspawned"
    /\ mon.seen.status = "running" /\ mon.seen.n <= rec[p].n
    /\ mon.at = "mark" => pc[p] = "gone"

\* A behaviour is the screen's or cron's.
OneLauncher == spawned \in Launches /\ \A p \in Producers : pc[p] # "unspawned" => spawned = {} \/ p \in spawned

Numbers(n) == [i \in 1..n |-> i]

\* What the tailer has forwarded: in order, up to its index while the ring has
\* room, and up to the producer's last event once that has ended and been read.
TailTrue(p) ==
  LET t == tail[p] IN
  /\ t.at # "off" => p \in spawned
  /\ t.index <= TailMax
  /\ \A i, j \in DOMAIN t.got : i < j => t.got[i] < t.got[j]
  /\ t.index < TailMax => \A i \in DOMAIN t.got : t.got[i] <= t.index
  /\ t.index <= rec[p].n
  /\ rec[p].n <= TailMax => t.got = Numbers(t.index)
  /\ t.at \in {"lastdrain", "finalize", "done"} => pc[p] = "gone"
  /\ t.at = "finalize" /\ file[FileOf[p]].status = "completed" => TailLen(file[FileOf[p]].n) <= t.index
  /\ t.verdict # "none" => t.at = "done"
  /\ t.verdict = "finished" => ended[p] = "returned" /\ (rec[p].n <= TailMax => t.got = Numbers(rec[p].n))

RunsInv ==
  /\ TypeOK
  /\ OneLauncher
  /\ \A p \in Producers : Local(p) /\ TailTrue(p)
  /\ \A r \in RunIds : FileTrue(r)
  /\ SeenTrue

----------------------------------------------------------------------------
(* What a step of a producer's does, whichever it is. *)

\* What it writes of itself, if it writes.
Wrote(p) ==
  LET f == file'[FileOf[p]] IN
  /\ f.by = p /\ f.status \notin {"stale", "none"} /\ f.n <= rec'[p].n
  /\ f.status = "completed" => ended'[p] = "returned" /\ pc'[p] \in {"summary", "gone"} /\ f.n = rec'[p].n

Acts(p) ==
  /\ pc[p] # "gone" /\ pc'[p] # "unspawned"
  /\ \A q \in Producers : q # p =>
       /\ pc'[q] = pc[q] /\ rec'[q] = rec[q] /\ pending'[q] = pending[q]
       /\ live'[q] = live[q] /\ ended'[q] = ended[q]
  /\ \A r \in RunIds : r # FileOf[p] => file'[r] = file[r]
  /\ file'[FileOf[p]] = file[FileOf[p]] \/ Wrote(p)
  /\ spawned' = spawned /\ mon' = mon
  /\ rec'[p].n >= rec[p].n
  /\ Local(p)'
  /\ pc[p] = "summary" => pc'[p] = "gone" /\ rec'[p].n = rec[p].n /\ ended'[p] = ended[p]

\* Tailers are left alone, but for one that starts or has its child polled.
TailSame(q) ==
  /\ tail'[q].index = tail[q].index /\ tail'[q].got = tail[q].got /\ tail'[q].verdict = tail[q].verdict
  /\ \/ tail'[q].at = tail[q].at
     \/ tail'[q].at = "drain" /\ q \in spawned /\ pc[q] = "unspawned"

\* The files of the screen's runs are their own.
LEMMA OwnFile ==
  ASSUME RunStateAssumption, OneLauncher, NEW p \in Producers, NEW q \in Producers,
         p \in spawned, q \in spawned \/ spawned = {}, FileOf[p] = FileOf[q]
  PROVE  p = q
  BY DEF RunStateAssumption, OneLauncher

LEMMA ActsKeep ==
  ASSUME RunStateAssumption, RunsInv, TypeOK', NEW p \in Producers, Acts(p),
         p \in spawned \/ spawned = {}, \A q \in Producers : TailSame(q)
  PROVE  RunsInv'
PROOF
  <1>1. OneLauncher'
    BY DEF RunsInv, OneLauncher, Acts
  <1>2. ASSUME NEW q \in Producers PROVE Local(q)'
    <2>1. CASE q = p
      BY <2>1 DEF Acts
    <2>2. CASE q # p
      BY <2>2 DEF RunsInv, Local, Acts
    <2> QED BY <2>1, <2>2
  <1>3. \A q \in Producers : rec[q].n \in Nat /\ rec'[q].n \in Nat
    <2>1. rec \in [Producers -> [status : Statuses, n : Nat]]
      BY DEF RunsInv, TypeOK
    <2>2. rec' \in [Producers -> [status : Statuses, n : Nat]]
      BY DEF TypeOK
    <2> QED BY <2>1, <2>2
  <1>4. \A r \in RunIds : file[r].n \in Nat /\ file'[r].n \in Nat
    BY Kinds DEF RunsInv, TypeOK, FileRecord
  <1>5. ASSUME NEW r \in RunIds PROVE FileTrue(r)'
    <2> DEFINE q == file[r].by
    <2>1. FileTrue(r)
      BY DEF RunsInv
    <2>2. CASE file'[r] = file[r] /\ file[r].status = "none"
      BY <2>1, <2>2 DEF FileTrue
    <2>3. CASE file'[r] = file[r] /\ file[r].status # "none" /\ q # p
      BY <2>1, <2>3 DEF FileTrue, Acts
    <2>4. CASE file'[r] = file[r] /\ file[r].status # "none" /\ q = p
      <3>1. file[r].n <= rec'[p].n
        BY <1>3, <1>4, <2>1, <2>4 DEF FileTrue, Acts
      <3>2. file[r].status # "stale"
        BY <2>1, <2>4 DEF FileTrue, Acts
      <3>3. file[r].status = "completed" =>
              ended'[p] = "returned" /\ pc'[p] \in {"summary", "gone"} /\ file[r].n = rec'[p].n
        BY <2>1, <2>4 DEF FileTrue, Acts
      <3> QED BY <2>1, <2>4, <3>1, <3>2, <3>3 DEF FileTrue, Acts
    <2>5. CASE r = FileOf[p] /\ Wrote(p)
      BY <2>5 DEF FileTrue, Wrote, Acts
    <2> QED BY <2>2, <2>3, <2>4, <2>5 DEF Acts
  <1>6. SeenTrue'
    <2>1. mon' = mon /\ mon.seen.n \in Int
      BY DEF Acts, RunsInv, TypeOK, FileRecord
    <2>2. CASE mon.seen.by = p
      BY <1>3, <2>1, <2>2 DEF RunsInv, SeenTrue, Acts
    <2>3. CASE mon.seen.by # p
      BY <2>1, <2>3 DEF RunsInv, SeenTrue, Acts
    <2> QED BY <2>2, <2>3
  <1>7. ASSUME NEW q \in Producers PROVE TailTrue(q)'
    <2>1. TailTrue(q) /\ TailSame(q) /\ tail[q].index \in Nat /\ TailMax \in Nat
      BY Kinds DEF RunsInv, TailRecord, RunStateAssumption
    <2>2. CASE q = p
      <3>1. tail[p].at \notin {"lastdrain", "finalize", "done"} /\ tail[p].verdict = "none"
        BY <2>1, <2>2, Kinds DEF TailTrue, Acts, TailRecord, RunsInv
      <3>2. rec[p].n <= rec'[p].n /\ rec[p].n \in Nat /\ rec'[p].n \in Nat
        BY <1>3 DEF Acts
      <3>3. tail[p].index <= rec'[p].n /\ (rec'[p].n <= TailMax => rec[p].n <= TailMax)
        BY <2>1, <2>2, <3>2 DEF TailTrue
      <3> QED BY <2>1, <2>2, <3>1, <3>3 DEF TailTrue, TailSame, Acts, Numbers
    <2>3. CASE q # p
      <3>1. pc'[q] = pc[q] /\ rec'[q] = rec[q] /\ ended'[q] = ended[q] /\ spawned' = spawned
        BY <2>3 DEF Acts
      <3>2. tail[q].at # "off" => file'[FileOf[q]] = file[FileOf[q]]
        <4> SUFFICES ASSUME tail[q].at # "off" PROVE FileOf[q] # FileOf[p]
          BY FileOfTyped DEF Acts
        <4>1. q \in spawned
          BY <2>1 DEF TailTrue
        <4> QED BY <2>3, <4>1, OwnFile DEF RunsInv
      <3>3. tail'[q].at = tail[q].at \/ (tail'[q].at = "drain" /\ q \in spawned /\ tail[q].verdict = "none")
        <4>1. CASE pc[q] = "unspawned"
          <5>1. tail[q].verdict = "none"
            BY <2>1, <4>1, Kinds DEF TailTrue, TailRecord, RunsInv
          <5> QED BY <2>1, <5>1 DEF TailSame
        <4> QED BY <2>1, <4>1 DEF TailSame
      <3> QED BY <2>1, <3>1, <3>2, <3>3 DEF TailTrue, TailSame, Numbers
    <2> QED BY <2>2, <2>3
  <1> QED BY <1>1, <1>2, <1>5, <1>6, <1>7 DEF RunsInv

\* Dying is an act like any other.
LEMMA KilledActs ==
  ASSUME RunStateAssumption, RunsInv, NEW p \in Producers, pc[p] \notin {"unspawned", "gone"}, Killed(p)
  PROVE  Acts(p)
PROOF
  <1>1. /\ pc' = [pc EXCEPT ![p] = "gone"]
        /\ UNCHANGED <<spawned, rec, pending, live, ended, file, mon>>
    BY DEF Killed, Goto
  <1>2. /\ pc'[p] = "gone" /\ \A q \in Producers : q # p => pc'[q] = pc[q]
        /\ rec[p].n \in Nat
    BY <1>1, Kinds DEF RunsInv
  <1>3. Local(p)'
    BY <1>1, <1>2 DEF RunsInv, Local, Inside
  <1> QED BY <1>1, <1>2, <1>3 DEF Acts

LEMMA StepActs ==
  ASSUME RunStateAssumption, RunsInv, NEW p \in Producers, ProducerStep(p)
  PROVE  Acts(p)
PROOF
  <1> DEFINE where == pc'[p]
  <1>1. TypeOK /\ Local(p) /\ FileOf[p] \in RunIds
    BY FileOfTyped DEF RunsInv
  <1>2. /\ pc \in [Producers -> Places] /\ rec \in [Producers -> [status : Statuses, n : Nat]]
        /\ file \in [RunIds -> FileRecord] /\ pending \in [Producers -> FileRecord]
        /\ live \in [Producers -> BOOLEAN]
        /\ ended \in [Producers -> {"not", "returned", "raised", "interrupted"}]
    BY <1>1, Kinds
  <1>3. rec[p].n \in Nat /\ rec[p].status \in Statuses /\ pending[p].n \in Nat
    BY <1>2 DEF FileRecord
  <1>4. CASE Boot(p)
    <2>1. \E w \in {"entering", "gone"} : pc' = [pc EXCEPT ![p] = w]
      BY <1>4 DEF Boot, Goto
    <2>2. pc[p] = "boot" /\ UNCHANGED <<spawned, rec, pending, live, ended, file, mon>>
      BY <1>4 DEF Boot
    <2>3. /\ pc'[p] \in {"entering", "gone"} /\ \A q \in Producers : q # p => pc'[q] = pc[q]
      BY <1>2, <2>1
    <2>4. Local(p)'
      BY <1>1, <2>2, <2>3 DEF Local, Inside
    <2> QED BY <1>3, <2>2, <2>3, <2>4 DEF Acts
  <1>5. CASE Enter(p)
    <2>1. /\ pc[p] = "entering" /\ UNCHANGED <<spawned, pending, live, ended, mon>>
          /\ rec' = [rec EXCEPT ![p].status = "running"]
      BY <1>5 DEF Enter
    <2>2. /\ pc'[p] \in {"opening", "reporting"} /\ \A q \in Producers : q # p => pc'[q] = pc[q]
      BY <1>2, <1>5 DEF Enter, Goto
    <2>3. /\ rec'[p].status = "running" /\ rec'[p].n = rec[p].n
          /\ \A q \in Producers : q # p => rec'[q] = rec[q]
      BY <1>2, <2>1
    <2>4. file' = file \/ file' = [file EXCEPT ![FileOf[p]] = [status |-> "running", n |-> 0, by |-> p]]
      BY <1>5 DEF Enter
    <2>5. /\ \A r \in RunIds : r # FileOf[p] => file'[r] = file[r]
          /\ \/ file'[FileOf[p]] = file[FileOf[p]]
             \/ file'[FileOf[p]] = [status |-> "running", n |-> 0, by |-> p]
      BY <1>1, <1>2, <2>4
    <2>6. file'[FileOf[p]] = file[FileOf[p]] \/ Wrote(p)
      BY <1>3, <2>3, <2>5 DEF Wrote
    <2>7. Local(p)'
      BY <1>1, <2>1, <2>2, <2>3 DEF Local, Inside
    <2> QED BY <1>3, <2>1, <2>2, <2>3, <2>5, <2>6, <2>7 DEF Acts
  <1>6. CASE OpenPlan(p)
    <2>1. pc[p] = "opening" /\ UNCHANGED <<spawned, rec, pending, file, mon>>
      BY <1>6 DEF OpenPlan
    <2>2. /\ pc'[p] \in {"walking", "failing"} /\ \A q \in Producers : q # p => pc'[q] = pc[q]
      BY <1>2, <1>6 DEF OpenPlan, Goto
    <2>3. \A q \in Producers : q # p => live'[q] = live[q] /\ ended'[q] = ended[q]
      BY <1>2, <1>6 DEF OpenPlan
    <2>4. live'[p] => pc'[p] = "walking" \/ live[p]
      BY <1>2, <1>6 DEF OpenPlan, Goto
    <2>5. Local(p)'
      BY <1>1, <2>1, <2>2, <2>4 DEF Local, Inside
    <2> QED BY <1>3, <2>1, <2>2, <2>3, <2>5 DEF Acts
  <1>7. CASE Walk(p)
    <2>1. pc[p] = "walking" /\ UNCHANGED <<spawned, live, ended, file, mon>>
      BY <1>7 DEF Walk
    <2>2. /\ pc'[p] \in {"flushing", "walking", "printing"}
          /\ \A q \in Producers : q # p => pc'[q] = pc[q]
      BY <1>2, <1>7 DEF Walk, Goto
    <2>3. /\ rec'[p].status = rec[p].status /\ rec'[p].n = rec[p].n + 1
          /\ \A q \in Producers : q # p => rec'[q] = rec[q]
      BY <1>2, <1>7 DEF Walk
    <2>4. \/ pending' = [pending EXCEPT ![p] = [OnDisk(p) EXCEPT !.n = @ + 1]]
          \/ pending' = pending /\ pc'[p] # "flushing"
      BY <1>2, <1>7 DEF Walk, Goto
    <2>5. \A q \in Producers : q # p => pending'[q] = pending[q]
      BY <1>2, <2>4
    <2>6. \/ pending'[p] = [OnDisk(p) EXCEPT !.n = @ + 1]
          \/ pending'[p] = pending[p] /\ pc'[p] # "flushing"
      BY <1>2, <2>4
    <2>7. rec[p].status = "running" /\ pending[p].n <= rec[p].n
      BY <1>1, <2>1 DEF Local, Inside
    <2>8. /\ pc'[p] = "flushing" => pending'[p].status = "running" /\ pending'[p].by = p
          /\ pending'[p].n <= rec'[p].n
      BY <1>3, <2>3, <2>6, <2>7 DEF OnDisk
    <2>9. Local(p)'
      BY <1>1, <2>1, <2>2, <2>3, <2>7, <2>8 DEF Local, Inside
    <2> QED BY <1>3, <2>1, <2>2, <2>3, <2>5, <2>9 DEF Acts
  <1>8. CASE Replace(p)
    <2>1. pc[p] = "flushing" /\ UNCHANGED <<spawned, rec, live, ended, mon>>
      BY <1>8 DEF Replace
    <2>2. /\ pc'[p] \in {"walking", "printing"} /\ \A q \in Producers : q # p => pc'[q] = pc[q]
      BY <1>2, <1>8 DEF Replace, Goto
    <2>3. /\ pending'[p] = NoFile /\ \A q \in Producers : q # p => pending'[q] = pending[q]
      BY <1>2, <1>8 DEF Replace
    <2>4. file' = file \/ file' = [file EXCEPT ![FileOf[p]] = pending[p]]
      BY <1>8 DEF Replace
    <2>5. /\ \A r \in RunIds : r # FileOf[p] => file'[r] = file[r]
          /\ file'[FileOf[p]] = file[FileOf[p]] \/ file'[FileOf[p]] = pending[p]
      BY <1>1, <1>2, <2>4
    <2>6. pending[p].status = "running" /\ pending[p].by = p /\ pending[p].n <= rec[p].n
      BY <1>1, <2>1 DEF Local
    <2>7. file'[FileOf[p]] = file[FileOf[p]] \/ Wrote(p)
      BY <2>1, <2>5, <2>6 DEF Wrote
    <2>8. Local(p)'
      BY <1>1, <1>3, <2>1, <2>2, <2>3 DEF Local, Inside, NoFile
    <2> QED BY <1>3, <2>1, <2>2, <2>3, <2>5, <2>7, <2>8 DEF Acts
  <1>9. CASE PrintLine(p)
    <2>1. pc[p] = "printing" /\ UNCHANGED <<spawned, rec, pending, live, ended, file, mon>>
      BY <1>9 DEF PrintLine
    <2>2. /\ pc'[p] = "walking" /\ \A q \in Producers : q # p => pc'[q] = pc[q]
      BY <1>2, <1>9 DEF PrintLine, Goto
    <2>3. Local(p)'
      BY <1>1, <2>1, <2>2 DEF Local, Inside
    <2> QED BY <1>3, <2>1, <2>2, <2>3 DEF Acts
  <1>10. CASE EndWalk(p)
    <2>1. pc[p] = "walking" /\ UNCHANGED <<spawned, rec, pending, file, mon>>
      BY <1>10 DEF EndWalk
    <2>2. /\ \/ pc'[p] = "leaving" /\ ended'[p] = "returned"
             \/ pc'[p] = "failing" /\ ended'[p] = "raised"
          /\ \A q \in Producers : q # p => pc'[q] = pc[q] /\ ended'[q] = ended[q]
      BY <1>2, <1>10 DEF EndWalk, Goto
    <2>3. live' = [live EXCEPT ![p] = FALSE]
      BY <1>10 DEF EndWalk
    <2>4. ~live'[p] /\ \A q \in Producers : q # p => live'[q] = live[q]
      BY <1>2, <2>3
    <2>5. Local(p)'
      BY <1>1, <2>1, <2>2, <2>4 DEF Local, Inside
    <2> QED BY <1>3, <2>1, <2>2, <2>4, <2>5 DEF Acts
  <1>11. CASE Leave(p)
    <2>1. pc[p] \in {"leaving", "failing"} /\ UNCHANGED <<spawned, pending, live, ended, mon>>
      BY <1>11 DEF Leave
    <2>2. rec[p].status = "running" /\ ~live[p] /\ (pc[p] = "leaving" => ended[p] = "returned")
      BY <1>1, <2>1 DEF Local, Inside
    <2>3. ExitStatus(p) = IF pc[p] = "failing" THEN "failed" ELSE "completed"
      BY <2>1, <2>2 DEF ExitStatus
    <2>4. /\ pc'[p] \in {"reporting", "summary"} /\ \A q \in Producers : q # p => pc'[q] = pc[q]
      BY <1>2, <1>11 DEF Leave, Goto
    <2>5. /\ rec'[p].n = rec[p].n /\ \A q \in Producers : q # p => rec'[q] = rec[q]
      BY <1>2, <1>11 DEF Leave
    <2>6. PICK f : f = [status |-> ExitStatus(p), n |-> rec[p].n, by |-> p]
      OBVIOUS
    <2>7. \/ file' = file
          \/ file' = [file EXCEPT ![FileOf[p]] = f] /\ (pc[p] = "leaving" => pc'[p] = "summary")
      BY <1>2, <1>11, <2>1, <2>6 DEF Leave, Goto
    <2>8. /\ \A r \in RunIds : r # FileOf[p] => file'[r] = file[r]
          /\ \/ file'[FileOf[p]] = file[FileOf[p]]
             \/ file'[FileOf[p]] = f /\ (pc[p] = "leaving" => pc'[p] = "summary")
      BY <1>1, <1>2, <2>7
    <2>9. file'[FileOf[p]] = file[FileOf[p]] \/ Wrote(p)
      BY <1>3, <2>1, <2>2, <2>3, <2>5, <2>6, <2>8 DEF Wrote
    <2>10. Local(p)'
      BY <1>1, <2>1, <2>2, <2>4, <2>5 DEF Local, Inside
    <2> QED BY <1>3, <2>1, <2>4, <2>5, <2>8, <2>9, <2>10 DEF Acts
  <1>12. CASE Report(p)
    <2>1. pc[p] \in {"summary", "reporting"} /\ UNCHANGED <<spawned, rec, pending, live, ended, file, mon>>
      BY <1>12 DEF Report
    <2>2. /\ pc'[p] = "gone" /\ \A q \in Producers : q # p => pc'[q] = pc[q]
      BY <1>2, <1>12 DEF Report, Goto
    <2>3. Local(p)'
      BY <1>1, <2>1, <2>2 DEF Local, Inside
    <2> QED BY <1>3, <2>1, <2>2, <2>3 DEF Acts
  <1> QED BY <1>4, <1>5, <1>6, <1>7, <1>8, <1>9, <1>10, <1>11, <1>12 DEF ProducerStep

LEMMA InterruptActs ==
  ASSUME RunStateAssumption, RunsInv, NEW p \in Producers, Interrupt(p)
  PROVE  Acts(p)
PROOF
  <1>1. Local(p) /\ FileOf[p] \in RunIds
    BY FileOfTyped DEF RunsInv
  <1>2. /\ pc \in [Producers -> Places] /\ rec \in [Producers -> [status : Statuses, n : Nat]]
        /\ file \in [RunIds -> FileRecord] /\ live \in [Producers -> BOOLEAN]
        /\ ended \in [Producers -> {"not", "returned", "raised", "interrupted"}]
    BY Kinds DEF RunsInv
  <1>3. rec[p].n \in Nat
    BY <1>2
  <1>4. pc[p] \notin {"unspawned", "gone"} /\ UNCHANGED <<spawned, pending, mon>>
    BY DEF Interrupt, Gone
  <1>5. pc'[p] = "gone" /\ \A q \in Producers : q # p => pc'[q] = pc[q]
    BY <1>2 DEF Interrupt, Goto
  <1>6. \A q \in Producers : q # p => live'[q] = live[q]
    <2>1. live' = [live EXCEPT ![p] = FALSE]
      BY DEF Interrupt
    <2> QED BY <1>2, <2>1
  <1>7. CASE pc[p] \in {"opening", "walking", "flushing", "printing"}
    <2>1. /\ rec' = [rec EXCEPT ![p].status = "cancelled"]
          /\ ended' = [ended EXCEPT ![p] = "interrupted"]
      BY <1>7 DEF Interrupt
    <2>2. PICK f : f = [OnDisk(p) EXCEPT !.status = "cancelled"]
      OBVIOUS
    <2>3. file' = [file EXCEPT ![FileOf[p]] = f]
      BY <1>7, <2>2 DEF Interrupt
    <2>4. f.by = p /\ f.status = "cancelled" /\ f.n = rec[p].n
      BY <2>2 DEF OnDisk
    <2>5. /\ rec'[p].n = rec[p].n
          /\ \A q \in Producers : q # p => rec'[q] = rec[q] /\ ended'[q] = ended[q]
      BY <1>2, <2>1
    <2>6. file'[FileOf[p]] = f /\ \A r \in RunIds : r # FileOf[p] => file'[r] = file[r]
      BY <1>1, <1>2, <2>3
    <2>7. Wrote(p)
      BY <1>3, <2>4, <2>5, <2>6 DEF Wrote
    <2>8. Local(p)'
      BY <1>1, <1>4, <1>5, <2>5 DEF Local, Inside
    <2> QED BY <1>3, <1>4, <1>5, <1>6, <1>7, <2>5, <2>6, <2>7, <2>8 DEF Acts
  <1>8. CASE pc[p] \notin {"opening", "walking", "flushing", "printing"}
    <2>1. UNCHANGED <<rec, ended, file>>
      BY <1>8 DEF Interrupt
    <2>2. Local(p)'
      BY <1>1, <1>4, <1>5, <2>1 DEF Local, Inside
    <2> QED BY <1>3, <1>4, <1>5, <1>6, <2>1, <2>2 DEF Acts
  <1> QED BY <1>7, <1>8

\* A signal that reaches a Backup writes the record of a run that goes on.
LEMMA ToggleActs ==
  ASSUME RunStateAssumption, RunsInv, NEW p \in Producers, NEW to \in BOOLEAN,
         pc[p] \notin {"unspawned", "gone"}, live[p], Toggle(p, to)
  PROVE  Acts(p)
PROOF
  <1>1. Local(p) /\ FileOf[p] \in RunIds
    BY FileOfTyped DEF RunsInv
  <1>2. /\ rec \in [Producers -> [status : Statuses, n : Nat]] /\ file \in [RunIds -> FileRecord]
        /\ pending \in [Producers -> FileRecord]
    BY Kinds DEF RunsInv
  <1>3. rec[p].n \in Nat /\ pending[p].n \in Nat
    BY <1>2 DEF FileRecord
  <1>4. pc[p] \in {"walking", "flushing", "printing"} /\ rec[p].status = "running"
    BY <1>1 DEF Local, Inside
  <1>5. UNCHANGED <<spawned, pc, pending, live, ended, mon>> /\ rec' = [rec EXCEPT ![p].n = @ + 1]
    BY DEF Toggle
  <1>6. /\ rec'[p].n = rec[p].n + 1 /\ rec'[p].status = rec[p].status
        /\ \A q \in Producers : q # p => rec'[q] = rec[q]
    BY <1>2, <1>5
  <1>7. PICK f : f = [OnDisk(p) EXCEPT !.n = @ + 1]
    OBVIOUS
  <1>8. file' = file \/ file' = [file EXCEPT ![FileOf[p]] = f]
    BY <1>7 DEF Toggle
  <1>9. /\ \A r \in RunIds : r # FileOf[p] => file'[r] = file[r]
        /\ file'[FileOf[p]] = file[FileOf[p]] \/ file'[FileOf[p]] = f
    BY <1>1, <1>2, <1>8
  <1>10. f.by = p /\ f.status = "running" /\ f.n = rec[p].n + 1
    BY <1>4, <1>7 DEF OnDisk
  <1>11. file'[FileOf[p]] = file[FileOf[p]] \/ Wrote(p)
    BY <1>3, <1>6, <1>9, <1>10 DEF Wrote
  <1>12. Local(p)'
    BY <1>1, <1>3, <1>4, <1>5, <1>6 DEF Local, Inside
  <1> QED BY <1>3, <1>4, <1>5, <1>6, <1>9, <1>11, <1>12 DEF Acts

LEMMA SpawnActs ==
  ASSUME RunStateAssumption, RunsInv, NEW p \in Producers, Spawn(p)
  PROVE  Acts(p) /\ (\A q \in Producers : TailSame(q)) /\ (p \in spawned \/ spawned = {}) /\ TypeOK'
PROOF
  <1>1. /\ pc \in [Producers -> Places] /\ tail \in [Producers -> TailRecord]
        /\ rec \in [Producers -> [status : Statuses, n : Nat]]
    BY Kinds DEF RunsInv
  <1>2. pc' = [pc EXCEPT ![p] = "boot"] /\ pc[p] = "unspawned"
    BY DEF Spawn, Goto
  <1>3. pc'[p] = "boot" /\ \A q \in Producers : q # p => pc'[q] = pc[q]
    BY <1>1, <1>2
  <1>4. UNCHANGED <<spawned, rec, pending, live, ended, file, mon>> /\ rec[p].n \in Nat
    BY <1>1 DEF Spawn
  <1>5. Local(p)'
    BY <1>2, <1>3, <1>4 DEF RunsInv, Local, Inside
  <1>6. Acts(p)
    BY <1>2, <1>3, <1>4, <1>5 DEF Acts
  <1>7. \/ spawned = {} /\ tail' = tail
        \/ p \in spawned /\ tail' = [tail EXCEPT ![p].at = "drain"]
    BY DEF Spawn
  <1>8. \A q \in Producers : TailSame(q)
    <2>1. CASE tail' = tail
      BY <2>1 DEF TailSame
    <2>2. CASE p \in spawned /\ tail' = [tail EXCEPT ![p].at = "drain"]
      BY <1>1, <1>2, <2>2 DEF TailSame, TailRecord
    <2> QED BY <1>7, <2>1, <2>2
  <1>9. tail' \in [Producers -> TailRecord]
    <2>1. CASE tail' = tail
      BY <1>1, <2>1
    <2>2. CASE tail' = [tail EXCEPT ![p].at = "drain"]
      <3>1. PICK e : e = [tail[p] EXCEPT !.at = "drain"]
        OBVIOUS
      <3>2. tail[p] \in TailRecord
        BY <1>1
      <3>3. e \in TailRecord
        BY <3>1, <3>2 DEF TailRecord
      <3>4. tail' = [tail EXCEPT ![p] = e]
        BY <1>1, <2>2, <3>1
      <3> QED BY <1>1, <3>3, <3>4
    <2> QED BY <1>7, <2>1, <2>2
  <1>10. pc' \in [Producers -> Places]
    BY <1>1, <1>2 DEF Places
  <1>11. TypeOK'
    BY <1>9, <1>10 DEF Spawn, RunsInv, TypeOK, TailRecord
  <1> QED BY <1>6, <1>7, <1>8, <1>11
----------------------------------------------------------------------------
(* The tailer and the monitor. *)

\* The file a tailer reads is its own producer's, or is not there.
LEMMA TailsItsOwn ==
  ASSUME RunStateAssumption, RunsInv, NEW p \in Producers, p \in spawned
  PROVE  LET f == file[FileOf[p]] IN
         /\ f.n \in Nat /\ rec[p].n \in Nat /\ f.n <= rec[p].n
         /\ f.status = "completed" => ended[p] = "returned" /\ f.n = rec[p].n
PROOF
  <1> DEFINE f == file[FileOf[p]]
  <1>1. FileOf[p] \in RunIds /\ f \in FileRecord /\ rec[p].n \in Nat
    BY FileOfTyped, Kinds DEF RunsInv
  <1>2. f.n \in Nat /\ FileTrue(FileOf[p])
    BY <1>1 DEF FileRecord, RunsInv
  <1>3. CASE f.status = "none"
    BY <1>1, <1>2, <1>3 DEF FileTrue
  <1>4. CASE f.status # "none"
    <2>1. f.by \in Producers /\ FileOf[f.by] = FileOf[p] /\ pc[f.by] # "unspawned"
      BY <1>2, <1>4 DEF FileTrue
    <2>2. f.by = p
      BY <2>1, OwnFile DEF RunsInv, OneLauncher
    <2> QED BY <1>1, <1>2, <1>4, <2>2 DEF FileTrue
  <1> QED BY <1>3, <1>4

\* Sequences that grow by a run of consecutive numbers.
LEMMA NumbersGrow ==
  ASSUME NEW x \in Nat, NEW y \in Nat, x < y, NEW s \in Seq(Nat), Len(s) = y - x,
         \A i \in 1..Len(s) : s[i] = x + i
  PROVE  Numbers(x) \o s = Numbers(y)
PROOF
  <1>1. PICK a : a = Numbers(x)
    OBVIOUS
  <1>2. a \in Seq(Nat) /\ Len(a) = x /\ \A i \in 1..x : a[i] = i
    BY <1>1 DEF Numbers
  <1>3. PICK g : g = a \o s
    OBVIOUS
  <1>4. /\ g \in Seq(Nat) /\ Len(g) = Len(a) + Len(s)
        /\ \A i \in 1..(Len(a) + Len(s)) : g[i] = IF i <= Len(a) THEN a[i] ELSE s[i - Len(a)]
    BY <1>2, <1>3, ConcatProperties
  <1>5. Len(g) = y
    BY <1>2, <1>4
  <1>6. ASSUME NEW i \in 1..y PROVE g[i] = i
    <2>1. CASE i <= x
      BY <1>2, <1>4, <1>5, <2>1
    <2>2. CASE i > x
      <3>1. i - x \in 1..Len(s)
        BY <2>2
      <3>2. i \in 1..(Len(a) + Len(s)) /\ ~(i <= Len(a)) /\ i - Len(a) = i - x
        BY <1>2, <2>2
      <3>3. g[i] = s[i - x]
        BY <1>4, <3>2
      <3>4. s[i - x] = x + (i - x)
        BY <3>1
      <3> QED BY <3>3, <3>4
    <2> QED BY <2>1, <2>2
  <1>7. PICK h : h = Numbers(y)
    OBVIOUS
  <1>8. h \in Seq(Nat) /\ Len(h) = y /\ \A i \in 1..y : h[i] = i
    BY <1>7 DEF Numbers
  <1>9. g = h
    BY <1>4, <1>5, <1>6, <1>8, SeqEqual
  <1> QED BY <1>1, <1>3, <1>7, <1>9

Ordered(a) == \A i, j \in DOMAIN a : i < j => a[i] < a[j]
UpTo(a, x) == \A i \in DOMAIN a : a[i] <= x
Continues(s, k) == \A i \in 1..Len(s) : s[i] = k + i - 1

LEMMA OrderGrows ==
  ASSUME NEW x \in Nat, NEW k \in Nat, k >= 1, NEW a \in Seq(Nat), NEW s \in Seq(Nat),
         Ordered(a), UpTo(a, x), Continues(s, k + x)
  PROVE  /\ Ordered(a \o s)
         /\ k = 1 => UpTo(a \o s, x + Len(s))
PROOF
  <1>a. PICK g : g = a \o s
    OBVIOUS
  <1>b. /\ \A i, j \in DOMAIN a : i < j => a[i] < a[j]
        /\ \A i \in DOMAIN a : a[i] <= x
        /\ \A i \in 1..Len(s) : s[i] = k + x + i - 1
    BY DEF Ordered, UpTo, Continues
  <1>1. /\ g \in Seq(Nat) /\ Len(g) = Len(a) + Len(s)
        /\ \A i \in 1..(Len(a) + Len(s)) : g[i] = IF i <= Len(a) THEN a[i] ELSE s[i - Len(a)]
    BY <1>a, ConcatProperties
  <1>2. Len(a) \in Nat /\ Len(s) \in Nat /\ DOMAIN a = 1..Len(a) /\ DOMAIN g = 1..(Len(a) + Len(s))
    BY <1>1
  <1>3. ASSUME NEW i \in 1..Len(a) PROVE g[i] = a[i] /\ a[i] \in Nat /\ a[i] <= x
    <2>1. i \in 1..(Len(a) + Len(s)) /\ i <= Len(a) /\ i \in DOMAIN a
      BY <1>2
    <2> QED BY <1>1, <1>2, <1>b, <2>1, ElementOfSeq
  <1>4. ASSUME NEW i \in (Len(a) + 1)..(Len(a) + Len(s)) PROVE g[i] = k + x + (i - Len(a)) - 1
    <2>1. i \in 1..(Len(a) + Len(s)) /\ ~(i <= Len(a)) /\ i - Len(a) \in 1..Len(s)
      BY <1>2
    <2> QED BY <1>1, <1>b, <2>1
  <1>5. \A i \in DOMAIN g : i \in Nat /\ (i \in 1..Len(a) \/ i \in (Len(a) + 1)..(Len(a) + Len(s)))
    BY <1>2
  <1>6. ASSUME NEW i \in DOMAIN g, NEW j \in DOMAIN g, i < j PROVE g[i] < g[j]
    <2>1. CASE i \in 1..Len(a) /\ j \in 1..Len(a)
      BY <1>2, <1>3, <1>6, <1>b, <2>1
    <2>2. CASE i \in 1..Len(a) /\ j \in (Len(a) + 1)..(Len(a) + Len(s))
      <3>1. g[i] \in Nat /\ g[i] <= x
        BY <1>3, <2>2
      <3>2. j - Len(a) >= 1 /\ j \in Nat
        BY <1>2, <2>2
      <3>3. g[j] = k + x + (j - Len(a)) - 1
        BY <1>4, <2>2
      <3> QED BY <1>2, <3>1, <3>2, <3>3
    <2>3. CASE i \in (Len(a) + 1)..(Len(a) + Len(s)) /\ j \in (Len(a) + 1)..(Len(a) + Len(s))
      <3>1. g[i] = k + x + (i - Len(a)) - 1 /\ g[j] = k + x + (j - Len(a)) - 1
        BY <1>4, <2>3
      <3> QED BY <1>2, <1>5, <1>6, <3>1
    <2> QED BY <1>2, <1>5, <1>6, <2>1, <2>2, <2>3
  <1>7. ASSUME k = 1, NEW i \in DOMAIN g PROVE g[i] <= x + Len(s)
    <2>1. CASE i \in 1..Len(a)
      BY <1>2, <1>3, <2>1
    <2>2. CASE i \in (Len(a) + 1)..(Len(a) + Len(s))
      <3>1. g[i] = x + (i - Len(a)) /\ i <= Len(a) + Len(s) /\ i \in Nat
        BY <1>2, <1>4, <1>7, <2>2
      <3> QED BY <1>2, <3>1
    <2> QED BY <1>5, <2>1, <2>2
  <1> QED BY <1>6, <1>7, <1>a DEF Ordered, UpTo

\* What is forwarded stays in order and complete.
LEMMA DrainKeeps ==
  ASSUME RunStateAssumption, RunsInv, NEW p \in Producers, p \in spawned,
         NEW where \in {"check", "finalize"}, Drained(p, where),
         tail[p].at \in {"drain", "lastdrain"}, where = "finalize" => tail[p].at = "lastdrain",
         UNCHANGED <<spawned, producerVars, file>>
  PROVE  TailTrue(p)'
PROOF
  <1>1. TypeOK /\ TailTrue(p) /\ TailMax \in Nat
    BY DEF RunsInv, RunStateAssumption
  <1>2. PICK e \in TailRecord : After(p, where, e)
    BY <1>1, DrainedFacts
  <1>3. PICK f : f = file[FileOf[p]]
    OBVIOUS
  <1>4. PICK t \in TailRecord : t = tail[p]
    BY <1>1, Kinds
  <1>5. PICK x \in Nat : x = t.index
    BY DEF TailRecord
  <1>6. PICK a \in Seq(Nat) : a = t.got
    BY DEF TailRecord
  <1>7. PICK m \in Nat : m = rec[p].n
    BY TailsItsOwn
  <1>8. f.n \in Nat /\ f.n <= m
    BY <1>3, <1>7, TailsItsOwn
  <1>9. PICK T : T = TailLen(f.n)
    OBVIOUS
  <1>10. PICK k : k = FirstKept(f.n)
    OBVIOUS
  <1>11. /\ k = IF f.n <= TailMax THEN 1 ELSE f.n - TailMax + 1
         /\ T = IF f.n <= TailMax THEN f.n ELSE TailMax
         /\ k \in Nat /\ T \in Nat /\ k >= 1
    <2>1. PICK n \in Nat : n = f.n
      BY <1>8
    <2>2. /\ k = IF n <= TailMax THEN 1 ELSE n - TailMax + 1
          /\ T = IF n <= TailMax THEN n ELSE TailMax
          /\ k \in Nat /\ T \in Nat
      BY <1>9, <1>10, <2>1, RingFacts
    <2>3. k >= 1
      BY <1>1, <2>1, <2>2
    <2> QED BY <2>1, <2>2, <2>3
  <1>12. PICK s : s = NewEvents(p, f)
    OBVIOUS
  <1>13. /\ s \in Seq(Nat)
         /\ T <= x => s = <<>>
         /\ T > x => Len(s) = T - x /\ \A i \in 1..Len(s) : s[i] = k + x + i - 1
    <2>1. tail[p].index = x /\ tail[p].index \in Nat
      BY <1>4, <1>5
    <2>2. /\ NewEvents(p, f) \in Seq(Nat)
          /\ TailLen(f.n) <= tail[p].index => NewEvents(p, f) = <<>>
          /\ TailLen(f.n) > tail[p].index =>
               /\ Len(NewEvents(p, f)) = TailLen(f.n) - tail[p].index
               /\ \A i \in 1..Len(NewEvents(p, f)) :
                    NewEvents(p, f)[i] = FirstKept(f.n) + tail[p].index + i - 1
      BY <1>8, <2>1, NewEventsFacts, ZenonT(40)
    <2> QED BY <1>9, <1>10, <1>12, <2>1, <2>2
  <1>14. /\ tail'[p] = e /\ e.at = where /\ e.verdict = t.verdict /\ e.got = a \o s
         /\ e.index = IF x >= T THEN x ELSE T
    BY <1>1, <1>2, <1>3, <1>4, <1>5, <1>6, <1>9, <1>12, Kinds DEF After
  <1>15. UNCHANGED <<spawned, pc, rec, ended, file>>
    BY DEF producerVars
  <1>16. /\ t.at # "off" => p \in spawned
         /\ x <= TailMax /\ x <= m
         /\ \A i, j \in DOMAIN a : i < j => a[i] < a[j]
         /\ x < TailMax => \A i \in DOMAIN a : a[i] <= x
         /\ m <= TailMax => a = Numbers(x)
         /\ t.at = "lastdrain" => pc[p] = "gone"
         /\ t.verdict = "none"
    BY <1>1, <1>4, <1>5, <1>6, <1>7 DEF TailTrue
  <1>17. PICK g : g = a \o s
    OBVIOUS
  <1>18. /\ \A i, j \in DOMAIN g : i < j => g[i] < g[j]
         /\ e.index < TailMax => \A i \in DOMAIN g : g[i] <= e.index
         /\ m <= TailMax => g = Numbers(e.index)
    <2>1. CASE T <= x
      <3>1. s = <<>> /\ e.index = x
        BY <1>11, <1>13, <1>14, <2>1
      <3>2. g = a
        BY <1>17, <3>1, ConcatEmptySeq
      <3> QED BY <1>16, <3>1, <3>2
    <2>2. CASE T > x
      <3>1. /\ e.index = T /\ x < TailMax /\ Len(s) = T - x /\ x + Len(s) = T
            /\ \A i \in 1..Len(s) : s[i] = k + x + i - 1
        <4>1. Len(s) = T - x /\ \A i \in 1..Len(s) : s[i] = k + x + i - 1
          BY <1>13, <2>2
        <4>2. e.index = T
          BY <1>11, <1>14, <2>2
        <4>3. T <= TailMax
          BY <1>1, <1>8, <1>11
        <4> QED BY <1>1, <1>11, <2>2, <4>1, <4>2, <4>3
      <3>2. \A i \in DOMAIN a : a[i] <= x
        BY <1>16, <3>1
      <3>3. /\ \A i, j \in DOMAIN g : i < j => g[i] < g[j]
            /\ k = 1 => \A i \in DOMAIN g : g[i] <= x + Len(s)
        <4>1. k \in Nat /\ k >= 1 /\ s \in Seq(Nat)
          BY <1>11, <1>13
        <4>2. Ordered(a) /\ UpTo(a, x) /\ Continues(s, k + x)
          BY <1>16, <3>1, <3>2 DEF Ordered, UpTo, Continues
        <4>3. Ordered(a \o s) /\ (k = 1 => UpTo(a \o s, x + Len(s)))
          BY <4>1, <4>2, OrderGrows
        <4> QED BY <1>17, <4>3 DEF Ordered, UpTo
      <3>4. T < TailMax => k = 1
        BY <1>1, <1>8, <1>11
      <3>5. ASSUME m <= TailMax PROVE g = Numbers(T)
        <4>1. k = 1 /\ a = Numbers(x)
          BY <1>1, <1>8, <1>11, <1>16, <3>5
        <4>2. ASSUME NEW i \in 1..Len(s) PROVE s[i] = x + i
          <5>1. s[i] = k + x + i - 1 /\ i \in Int
            BY <3>1
          <5> QED BY <4>1, <5>1
        <4>3. T \in Nat /\ x < T /\ s \in Seq(Nat) /\ Len(s) = T - x
          BY <1>11, <1>13, <2>2
        <4>4. Numbers(x) \o s = Numbers(T)
          BY <4>2, <4>3, NumbersGrow
        <4> QED BY <1>17, <4>1, <4>4
      <3> QED BY <3>1, <3>3, <3>4, <3>5
    <2> QED BY <1>11, <2>1, <2>2
  <1>19. e.index <= TailMax /\ e.index <= m /\ T <= e.index
    BY <1>1, <1>8, <1>11, <1>14, <1>16
  <1>20. e.at \in {"lastdrain", "finalize", "done"} => pc[p] = "gone"
    BY <1>14, <1>16, <1>4
  <1>21. TailLen(file'[FileOf[p]].n) <= e.index
    BY <1>3, <1>9, <1>15, <1>19
  <1>22. rec'[p].n = m /\ e.got = g /\ e.verdict = "none" /\ e.at # "off"
    BY <1>7, <1>14, <1>15, <1>16, <1>17
  <1> QED BY <1>14, <1>15, <1>18, <1>19, <1>20, <1>21, <1>22 DEF TailTrue

\* A tailer's step changes nothing but what that tailer has.
LEMMA TailerKeeps ==
  ASSUME RunStateAssumption, RunsInv, NEW p \in Producers, p \in spawned, TailerStep(p)
  PROVE  RunsInv'
PROOF
  <1>1. TypeOK'
    BY TailerTyped DEF RunsInv
  <1>2. UNCHANGED <<spawned, pc, rec, unflushed, pending, paused, live, ended, file, mon>>
    BY DEF TailerStep, Poll, CheckExit, LastDrain, Finalize, producerVars
  <1>3. \A q \in Producers : q # p => tail'[q] = tail[q]
    <2>1. tail \in [Producers -> TailRecord]
      BY Kinds DEF RunsInv
    <2>2. CASE Poll(p)
      BY <2>1, <2>2 DEF Poll, Drained
    <2>3. CASE CheckExit(p)
      BY <2>1, <2>3 DEF CheckExit
    <2>4. CASE LastDrain(p)
      BY <2>1, <2>4 DEF LastDrain, Drained
    <2>5. CASE Finalize(p)
      BY <2>1, <2>5 DEF Finalize
    <2> QED BY <2>2, <2>3, <2>4, <2>5 DEF TailerStep
  <1>4. TailTrue(p)'
    <2>1. CASE Poll(p)
      <3>1. tail[p].at = "drain" /\ Drained(p, "check") /\ UNCHANGED <<spawned, producerVars, file>>
        BY <2>1 DEF Poll
      <3> QED BY <3>1, DrainKeeps
    <2>2. CASE LastDrain(p)
      <3>1. tail[p].at = "lastdrain" /\ Drained(p, "finalize") /\ UNCHANGED <<spawned, producerVars, file>>
        BY <2>2 DEF LastDrain
      <3> QED BY <3>1, DrainKeeps
    <2>3. CASE CheckExit(p)
      <3>1. PICK e : e = [tail[p] EXCEPT !.at = IF pc[p] = "gone" THEN "lastdrain" ELSE "drain",
                                         !.polled = pc[p] = "gone"]
        OBVIOUS
      <3>2. tail[p] \in TailRecord /\ tail \in [Producers -> TailRecord]
        BY Kinds DEF RunsInv
      <3>3. tail'[p] = e
        BY <2>3, <3>1, <3>2 DEF CheckExit, AfterExit
      <3>4. /\ e.index = tail[p].index /\ e.got = tail[p].got /\ e.verdict = tail[p].verdict
            /\ e.at \in {"lastdrain", "drain"} /\ (e.at = "lastdrain" => pc[p] = "gone")
        BY <3>1, <3>2 DEF TailRecord
      <3>5. TailTrue(p) /\ tail[p].verdict = "none"
        BY <2>3, <3>2 DEF CheckExit, RunsInv, TailTrue, TailRecord
      <3> QED BY <1>2, <3>3, <3>4, <3>5 DEF TailTrue, Numbers
    <2>4. CASE Finalize(p)
      <3>1. PICK e : e = [tail[p] EXCEPT !.at = "done", !.verdict = Verdict(file[FileOf[p]])]
        OBVIOUS
      <3>2. tail[p] \in TailRecord /\ tail \in [Producers -> TailRecord]
        BY Kinds DEF RunsInv
      <3>3. tail'[p] = e
        BY <2>4, <3>1, <3>2 DEF Finalize
      <3>4. /\ e.index = tail[p].index /\ e.got = tail[p].got /\ e.at = "done"
            /\ (e.verdict = "finished" => file[FileOf[p]].status = "completed")
        BY <3>1, <3>2 DEF TailRecord, Verdict
      <3>5. TailTrue(p) /\ tail[p].at = "finalize"
        BY <2>4 DEF Finalize, RunsInv
      <3>6. ASSUME file[FileOf[p]].status = "completed"
            PROVE  ended[p] = "returned" /\ (rec[p].n <= TailMax => tail[p].got = Numbers(rec[p].n))
        <4>1. PICK n \in Nat : n = file[FileOf[p]].n /\ n = rec[p].n /\ ended[p] = "returned"
          BY <3>6, TailsItsOwn
        <4>2. PICK x \in Nat : x = tail[p].index
          BY <3>2 DEF TailRecord
        <4>3. x <= n /\ TailLen(n) <= x
          BY <3>5, <3>6, <4>1, <4>2 DEF TailTrue
        <4>4. n <= TailMax => x = n
          BY <4>3, RingFacts
        <4> QED BY <3>5, <4>1, <4>2, <4>4 DEF TailTrue
      <3> QED BY <1>2, <3>3, <3>4, <3>5, <3>6 DEF TailTrue, Numbers
    <2> QED BY <2>1, <2>2, <2>3, <2>4 DEF TailerStep
  <1>5. ASSUME NEW q \in Producers PROVE Local(q)' /\ TailTrue(q)'
    <2>1. Local(q) /\ TailTrue(q)
      BY DEF RunsInv
    <2>2. Local(q)'
      BY <1>2, <2>1 DEF Local
    <2>3. CASE q # p
      BY <1>2, <1>3, <2>1, <2>2, <2>3 DEF TailTrue, Numbers
    <2> QED BY <1>4, <2>2, <2>3
  <1>6. \A r \in RunIds : FileTrue(r)'
    BY <1>2 DEF RunsInv, FileTrue
  <1>7. SeenTrue' /\ OneLauncher'
    BY <1>2 DEF RunsInv, SeenTrue, OneLauncher
  <1> QED BY <1>1, <1>5, <1>6, <1>7 DEF RunsInv

\* A record the monitor puts back, or takes away, is of a dead producer; no
\* tailer that waits for its verdict takes it for a completed one.
LEMMA MonitorKeeps ==
  ASSUME RunStateAssumption, RunsInv, MonitorStep
  PROVE  RunsInv'
PROOF
  <1>1. TypeOK' /\ TypeOK
    BY MonitorTyped DEF RunsInv
  <1>2. UNCHANGED <<spawned, pc, rec, unflushed, pending, paused, live, ended, reused, tail, screen>>
    BY DEF MonitorStep, MonitorCheck, MonitorMark, MonitorFails, CollectUnlink, MonitorRead, CollectRead, producerVars
  <1>3. mon \in MonType /\ mon.seen \in FileRecord /\ mon.id \in RunIds /\ mon.seen.n \in Nat
        /\ file \in [RunIds -> FileRecord]
    BY <1>1, Kinds DEF TypeOK, MonType, FileRecord
  <1>4. \A r \in RunIds : FileTrue(r)
    BY DEF RunsInv
  \* What becomes of the files.
  <1>5. ASSUME NEW r \in RunIds
        PROVE  /\ FileTrue(r)'
               /\ file'[r] = file[r] \/ file'[r].status # "completed"
    <2>1. CASE file' = file
      BY <1>2, <1>4, <2>1 DEF FileTrue
    <2>2. CASE MonitorMark
      <3>1. file' = [file EXCEPT ![mon.id] = Stale(mon.seen)]
        BY <2>2 DEF MonitorMark
      <3>2. PICK f : f = Stale(mon.seen)
        OBVIOUS
      <3>3. f.status = "stale" /\ f.n = mon.seen.n /\ f.by = mon.seen.by
        BY <1>3, <3>2 DEF Stale, FileRecord
      <3>4. CASE r # mon.id
        <4>1. file'[r] = file[r]
          BY <1>3, <3>1, <3>4
        <4> QED BY <1>2, <1>4, <4>1 DEF FileTrue
      <3>5. CASE r = mon.id
        <4>1. file'[r] = f
          BY <1>3, <3>1, <3>2, <3>5
        <4>2. /\ f.by \in Producers /\ FileOf[f.by] = r /\ pc[f.by] = "gone" /\ f.n <= rec[f.by].n
          BY <2>2, <3>3, <3>5 DEF MonitorMark, RunsInv, SeenTrue
        <4>3. pc'[f.by] = "gone" /\ rec' = rec
          BY <1>2, <4>2
        <4> QED BY <3>3, <4>1, <4>2, <4>3 DEF FileTrue
      <3> QED BY <3>4, <3>5
    <2>3. CASE CollectUnlink
      <3>1. file' = [file EXCEPT ![mon.id] = NoFile]
        BY <2>3 DEF CollectUnlink
      <3>2. CASE r # mon.id
        <4>1. file'[r] = file[r]
          BY <1>3, <3>1, <3>2
        <4> QED BY <1>2, <1>4, <4>1 DEF FileTrue
      <3>3. CASE r = mon.id
        <4>1. file'[r] = NoFile
          BY <1>3, <3>1, <3>3
        <4> QED BY <4>1 DEF FileTrue, NoFile
      <3> QED BY <3>2, <3>3
    <2> QED BY <2>1, <2>2, <2>3 DEF MonitorStep, MonitorCheck, MonitorFails, MonitorRead, CollectRead
  \* What the monitor has in hand.
  <1>6. SeenTrue'
    <2>1. CASE MonitorCheck
      <3>1. PICK s : s = mon.seen
        OBVIOUS
      <3>2. s.by \in Producers /\ FileOf[s.by] = mon.id /\ pc[s.by] # "unspawned"
            /\ s.status = "running" /\ s.n <= rec[s.by].n
        BY <2>1, <3>1 DEF MonitorCheck, RunsInv, SeenTrue
      <3>3. mon'.at \in {"mark", "idle"} /\ mon'.id = mon.id
            /\ (mon'.at = "mark" => mon'.seen = s /\ Deserted(s))
        BY <1>3, <2>1, <3>1 DEF MonitorCheck, MonType
      <3>4. Deserted(s) => pc[s.by] = "gone"
        BY <3>2 DEF Deserted, PidAlive, Gone
      <3> QED BY <1>2, <3>2, <3>3, <3>4 DEF SeenTrue
    <2>2. ASSUME NEW r \in RunIds, MonitorRead(r) PROVE SeenTrue'
      <3>1. mon'.at = "check" /\ mon'.id = r /\ mon'.seen = file[r] /\ file[r].status = "running"
        BY <2>2 DEF MonitorRead
      <3> QED BY <1>2, <1>4, <3>1 DEF SeenTrue, FileTrue
    <2>3. CASE mon'.at \in {"idle", "unlink"}
      BY <2>3 DEF SeenTrue
    <2>4. CASE MonitorMark \/ MonitorFails \/ CollectUnlink \/ \E r \in RunIds : CollectRead(r)
      <3>1. mon'.at \in {"idle", "unlink"}
        <4>1. CASE mon' = [mon EXCEPT !.at = "idle", !.seen = NoSeen]
          BY <1>3, <4>1 DEF MonType
        <4>2. ASSUME NEW r \in RunIds, CollectRead(r) PROVE mon'.at = "unlink"
          BY <4>2 DEF CollectRead
        <4> QED BY <2>4, <4>1, <4>2 DEF MonitorMark, MonitorFails, CollectUnlink
      <3> QED BY <2>3, <3>1
    <2> QED BY <2>1, <2>2, <2>4 DEF MonitorStep
  <1>7. ASSUME NEW p \in Producers PROVE Local(p)' /\ TailTrue(p)'
    <2>1. Local(p) /\ TailTrue(p) /\ FileOf[p] \in RunIds
      BY FileOfTyped DEF RunsInv
    <2>2. Local(p)'
      BY <1>2, <2>1 DEF Local
    <2>3. file'[FileOf[p]] = file[FileOf[p]] \/ file'[FileOf[p]].status # "completed"
      BY <1>5, <2>1
    <2>4. TailTrue(p)'
      BY <1>2, <2>1, <2>3 DEF TailTrue, Numbers
    <2> QED BY <2>2, <2>4
  <1>8. OneLauncher'
    BY <1>2 DEF RunsInv, OneLauncher
  <1> QED BY <1>1, <1>5, <1>6, <1>7, <1>8 DEF RunsInv
----------------------------------------------------------------------------
(* Every step. *)

\* Whoever has started belongs to the screen, or nobody does.
LEMMA StartedBelongs ==
  ASSUME RunsInv, NEW p \in Producers, pc[p] # "unspawned"
  PROVE  p \in spawned \/ spawned = {}
  BY DEF RunsInv, OneLauncher

LEMMA KilledKeeps ==
  ASSUME RunStateAssumption, RunsInv, NEW p \in Producers, ~Gone(p), Killed(p), TypeOK'
  PROVE  RunsInv'
PROOF
  <1>1. pc[p] \notin {"unspawned", "gone"}
    BY DEF Gone
  <1>2. Acts(p)
    BY <1>1, KilledActs
  <1>3. \A q \in Producers : TailSame(q)
    BY DEF Killed, TailSame
  <1> QED BY <1>1, <1>2, <1>3, ActsKeep, StartedBelongs

LEMMA KilledTyped ==
  ASSUME TypeOK, NEW p \in Producers, Killed(p), UNCHANGED screen
  PROVE  TypeOK'
PROOF
  <1>1. pc' \in [Producers -> Places]
    BY PlaceTyped DEF Killed, Places
  <1> QED BY <1>1 DEF Killed, TypeOK

\* Steps that leave every producer, file and event where they are.
LEMMA StillKeeps ==
  ASSUME RunsInv, TypeOK', UNCHANGED <<spawned, pc, rec, pending, live, ended, file, mon>>,
         \A q \in Producers : /\ tail'[q].index = tail[q].index /\ tail'[q].got = tail[q].got
                              /\ tail'[q].verdict = tail[q].verdict /\ tail'[q].at = tail[q].at
  PROVE  RunsInv'
PROOF
  <1>1. ASSUME NEW q \in Producers PROVE Local(q)' /\ TailTrue(q)'
    <2>1. Local(q) /\ TailTrue(q)
      BY DEF RunsInv
    <2>2. Local(q)'
      BY <2>1 DEF Local
    <2>3. TailTrue(q)'
      BY <2>1 DEF TailTrue, Numbers
    <2> QED BY <2>2, <2>3
  <1>2. \A r \in RunIds : FileTrue(r)'
    BY DEF RunsInv, FileTrue
  <1>3. SeenTrue' /\ OneLauncher'
    BY DEF RunsInv, SeenTrue, OneLauncher
  <1> QED BY <1>1, <1>2, <1>3 DEF RunsInv

LEMMA InterruptKeeps ==
  ASSUME RunStateAssumption, RunsInv, NEW p \in Producers, Interrupt(p)
  PROVE  RunsInv'
PROOF
  <1>1. TypeOK /\ Acts(p) /\ pc[p] # "unspawned"
    BY InterruptActs DEF RunsInv, Interrupt, Gone
  <1>2. \A q \in Producers : TailSame(q)
    BY DEF Interrupt, TailSame
  <1>3. pc' \in [Producers -> Places]
    BY <1>1, PlaceTyped DEF Interrupt, Places
  <1>4. live' \in [Producers -> BOOLEAN]
    <2>1. live' = [live EXCEPT ![p] = FALSE]
      BY DEF Interrupt
    <2> QED BY <1>1, <2>1, Kinds
  <1>5. rec' \in [Producers -> [status : Statuses, n : Nat]]
    <2>1. PICK g \in [Producers -> [status : Statuses, n : Nat]] : g = [rec EXCEPT ![p].status = "cancelled"]
      BY <1>1, RecTyped DEF Statuses, Terminal
    <2>2. rec' = rec \/ rec' = g
      BY <2>1 DEF Interrupt
    <2> QED BY <1>1, <2>1, <2>2, Kinds
  <1>6. ended' \in [Producers -> {"not", "returned", "raised", "interrupted"}]
    <2>1. ended' = ended \/ ended' = [ended EXCEPT ![p] = "interrupted"]
      BY DEF Interrupt
    <2> QED BY <1>1, <2>1, Kinds
  <1>7. file' \in [RunIds -> FileRecord]
    <2>1. PICK f \in FileRecord : f = [OnDisk(p) EXCEPT !.status = "cancelled"]
      BY <1>1, RecTyped DEF Statuses, Terminal
    <2>2. file' = file \/ file' = [file EXCEPT ![FileOf[p]] = f]
      BY <2>1 DEF Interrupt
    <2> QED BY <1>1, <2>2, Kinds, FileTyped, FileOfTyped
  <1>8. TypeOK'
    BY <1>1, <1>3, <1>4, <1>5, <1>6, <1>7 DEF Interrupt, TypeOK
  <1> QED BY <1>1, <1>2, <1>8, ActsKeep, StartedBelongs

LEMMA PressPauseKeeps ==
  ASSUME RunStateAssumption, RunsInv, NEW p \in Producers, PressPause(p)
  PROVE  RunsInv'
PROOF
  <1>1. TypeOK /\ TypeOK' /\ tail \in [Producers -> TailRecord]
    BY KeysTyped, Kinds DEF RunsInv
  <1> DEFINE to == ~screen.paused
  <1>2. to \in BOOLEAN
    <2>1. to = TRUE \/ to = FALSE
      BY Zenon
    <2> QED BY <2>1
  <1>3. CASE ~Gone(p) /\ Killed(p)
    BY <1>1, <1>3, KilledKeeps
  <1>4. CASE ~Gone(p) /\ live[p] /\ Toggle(p, to)
    <2>1. pc[p] \notin {"unspawned", "gone"}
      BY <1>4 DEF Gone
    <2>2. Acts(p)
      BY <1>2, <1>4, <2>1, ToggleActs
    <2>3. \A q \in Producers : TailSame(q)
      BY <1>4 DEF Toggle, TailSame
    <2> QED BY <1>1, <2>1, <2>2, <2>3, ActsKeep, StartedBelongs
  <1>5. CASE UNCHANGED <<spawned, producerVars, file, mon, reused, tail>>
    BY <1>1, <1>5, StillKeeps DEF producerVars
  <1>6. CASE tail' = [tail EXCEPT ![p].polled = TRUE] /\ UNCHANGED <<spawned, producerVars, file, mon, reused>>
    <2>1. ASSUME NEW q \in Producers
          PROVE  /\ tail'[q].index = tail[q].index /\ tail'[q].got = tail[q].got
                 /\ tail'[q].verdict = tail[q].verdict /\ tail'[q].at = tail[q].at
      <3>1. tail[q] \in TailRecord
        BY <1>1
      <3>2. tail'[q] = tail[q] \/ tail'[q] = [tail[q] EXCEPT !.polled = TRUE]
        BY <1>1, <1>6
      <3> QED BY <3>1, <3>2 DEF TailRecord
    <2> QED BY <1>1, <1>6, <2>1, StillKeeps DEF producerVars
  <1> QED BY <1>3, <1>4, <1>5, <1>6 DEF PressPause, PauseSignal

LEMMA InitSound == ASSUME RunStateAssumption, Init PROVE RunsInv
PROOF
  <1>1. OneLauncher
    BY DEF Init, OneLauncher
  <1>2. ASSUME NEW p \in Producers PROVE Local(p) /\ TailTrue(p)
    <2>1. /\ tail[p].at = "off" /\ tail[p].index = 0 /\ tail[p].got = <<>> /\ tail[p].verdict = "none"
          /\ rec[p].n = 0 /\ pending[p].n = 0 /\ pc[p] = "unspawned" /\ live[p] = FALSE
      BY DEF Init, Fresh, NoFile
    <2>2. TailMax \in Nat
      BY DEF RunStateAssumption
    <2>3. Numbers(0) = <<>> /\ DOMAIN <<>> = {}
      BY DEF Numbers
    <2>4. Local(p)
      BY <2>1 DEF Local, Inside
    <2>5. TailTrue(p)
      BY <2>1, <2>2, <2>3 DEF TailTrue
    <2> QED BY <2>4, <2>5
  <1>3. \A r \in RunIds : FileTrue(r)
    BY DEF Init, FileTrue, NoFile
  <1>4. SeenTrue
    BY DEF Init, SeenTrue
  <1> QED BY <1>1, <1>2, <1>3, <1>4, InitTyped DEF RunsInv

LEMMA NextSound == ASSUME RunStateAssumption, RunsInv, [Next]_vars PROVE RunsInv'
PROOF
  <1>1. ASSUME NEW p \in Producers, Spawn(p) PROVE RunsInv'
    BY <1>1, SpawnActs, ActsKeep
  <1>2. ASSUME NEW p \in Producers, ProducerStep(p) PROVE RunsInv'
    <2>1. TypeOK' /\ Acts(p)
      BY <1>2, ProducerTyped, StepActs DEF RunsInv
    <2>2. tail' = tail /\ pc[p] # "unspawned"
      BY <1>2 DEF ProducerStep, Boot, Enter, OpenPlan, Walk, Replace, PrintLine, EndWalk, Leave, Report
    <2>3. \A q \in Producers : TailSame(q)
      BY <2>2 DEF TailSame
    <2> QED BY <2>1, <2>2, <2>3, ActsKeep, StartedBelongs
  <1>3. ASSUME NEW p \in Producers, Kill(p) PROVE RunsInv'
    <2>1. ~Gone(p) /\ Killed(p) /\ UNCHANGED screen
      BY <1>3 DEF Kill
    <2> QED BY <2>1, KilledKeeps, KilledTyped DEF RunsInv
  <1>4. ASSUME NEW p \in Producers, Interrupt(p) PROVE RunsInv'
    BY <1>4, InterruptKeeps
  <1>5. ASSUME NEW p \in Producers, Reuse(p) PROVE RunsInv'
    <2>1. reused' \subseteq Producers
      BY <1>5 DEF Reuse, RunsInv, TypeOK
    <2>2. TypeOK'
      BY <1>5, <2>1 DEF Reuse, RunsInv, TypeOK, producerVars
    <2> QED BY <1>5, <2>2, StillKeeps DEF Reuse, producerVars
  <1>6. ASSUME NEW p \in spawned, TailerStep(p) PROVE RunsInv'
    <2>1. p \in Producers
      BY DEF RunsInv, TypeOK
    <2> QED BY <1>6, <2>1, TailerKeeps
  <1>7. ASSUME NEW p \in spawned, PressPause(p) PROVE RunsInv'
    <2>1. p \in Producers
      BY DEF RunsInv, TypeOK
    <2> QED BY <1>7, <2>1, PressPauseKeeps
  <1>8. ASSUME NEW p \in spawned, PressCancel(p) PROVE RunsInv'
    <2>1. p \in Producers
      BY DEF RunsInv, TypeOK
    <2>2. ~Gone(p) /\ Killed(p)
      BY <1>8 DEF PressCancel
    <2> QED BY <1>8, <2>1, <2>2, KilledKeeps, KeysTyped DEF RunsInv
  <1>9. CASE Quit
    <2>1. screen' \in [open : BOOLEAN, paused : BOOLEAN, keys : Nat]
      BY <1>9 DEF Quit, RunsInv, TypeOK
    <2>2. TypeOK'
      BY <1>9, <2>1 DEF Quit, RunsInv, TypeOK, producerVars
    <2> QED BY <1>9, <2>2, StillKeeps DEF Quit, producerVars
  <1>10. CASE MonitorStep
    BY <1>10, MonitorKeeps
  <1>11. ASSUME NEW r \in RunIds, MonitorCancel(r) PROVE RunsInv'
    <2>1. PICK p : p = file[r].by
      OBVIOUS
    <2>2. p \in Producers
      BY <1>11, <2>1 DEF MonitorCancel, RunsInv, FileTrue
    <2>3. ~Gone(p) /\ Killed(p) /\ UNCHANGED screen
      BY <1>11, <2>1 DEF MonitorCancel
    <2> QED BY <2>2, <2>3, KilledKeeps, KilledTyped DEF RunsInv
  <1>12. CASE UNCHANGED vars
    <2>1. TypeOK'
      BY <1>12 DEF vars, producerVars, RunsInv, TypeOK
    <2> QED BY <1>12, <2>1, StillKeeps DEF vars, producerVars
  <1> QED BY <1>1, <1>2, <1>3, <1>4, <1>5, <1>6, <1>7, <1>8, <1>9, <1>10, <1>11, <1>12
       DEF Next, MonitorStep

LEMMA InvSound ==
  ASSUME RunStateAssumption, RunsInv
  PROVE  TypeOK /\ ForwardedInOrder /\ FinishedMeansAll /\ StaleNamesTheDead
PROOF
  <1>1. ForwardedInOrder
    BY DEF RunsInv, TailTrue, ForwardedInOrder
  <1>2. FinishedMeansAll
    BY DEF RunsInv, TailTrue, FinishedMeansAll, Numbers
  <1>3. StaleNamesTheDead
    BY DEF RunsInv, FileTrue, StaleNamesTheDead
  <1> QED BY <1>1, <1>2, <1>3 DEF RunsInv
----------------------------------------------------------------------------
(* The theorems. *)

\* The books of producers, files, tailers and monitor agree in every state.
THEOREM RunsInvariant == Spec => []RunsInv
PROOF
  <1>1. Init => RunsInv
    BY RunStateAssumption, InitSound
  <1>2. RunsInv /\ [Next]_vars => RunsInv'
    BY RunStateAssumption, NextSound
  <1> QED BY <1>1, <1>2, PTL DEF Spec

\* Every variable of the producers, the screen and the monitor keeps its type.
THEOREM RunsTyped == Spec => []TypeOK
PROOF
  <1>1. RunsInv => TypeOK
    BY RunStateAssumption, InvSound
  <1> QED BY <1>1, RunsInvariant, PTL

\* The panel shows events in the order they happened, none twice, whatever
\* the ring has dropped between two polls.
THEOREM ShownInOrder == Spec => []ForwardedInOrder
PROOF
  <1>1. RunsInv => ForwardedInOrder
    BY RunStateAssumption, InvSound
  <1> QED BY <1>1, RunsInvariant, PTL

\* A panel that says "finished" is of a run that returned, and has shown every
\* event of one that fits the ring.
THEOREM FinishedIsTrue == Spec => []FinishedMeansAll
PROOF
  <1>1. RunsInv => FinishedMeansAll
    BY RunStateAssumption, InvSound
  <1> QED BY <1>1, RunsInvariant, PTL

\* The monitor calls no living run stale, however its read, its look at the
\* pid and its write fall between the producer's own.
THEOREM OnlyTheDeadAreStale == Spec => []StaleNamesTheDead
PROOF
  <1>1. RunsInv => StaleNamesTheDead
    BY RunStateAssumption, InvSound
  <1> QED BY <1>1, RunsInvariant, PTL
=============================================================================
