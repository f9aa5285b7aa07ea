----------------------------- MODULE Tui_proofs -----------------------------
(***************************************************************************)
(* What holds of the TUI for every number of processes, plans, sources,    *)
(* checkpoints and destinations, whatever the operators do and however     *)
(* often: the result of a run tells what happened at each destination, a   *)
(* cancelled run leaves nothing open, no plan is torn by a process that    *)
(* stamps it, and the crontab keeps the operator's lines.                  *)
(***************************************************************************)
EXTENDS Tui, TLAPS, FiniteSetTheorems, SequenceTheorems, WellFoundedInduction
----------------------------------------------------------------------------
(* Types. *)

Places == {"home", "wizard", "saving", "running", "marking", "filling",
           "replacing", "table", "gone"}

\* A process that has a plan in hand.
InHand == {"wizard", "saving", "running", "marking", "filling", "replacing"}

Files == [state : {"none", "whole", "torn"}, edit : Nat, last : Nat]
Jobs == PlanIds \cup {Gc}
TabLines == [kind : {"marker"}, plan : Jobs, edit : {0}]
       \cup [kind : {"entry"}, plan : Jobs, edit : Nat]
       \cup [kind : {"own"}, plan : {"none"}, edit : Nat]

\* A table in order: every entry below its marker, one marker to a plan.
Is(tab, kind) == {i \in DOMAIN tab : tab[i].kind = kind}

Ordered(tab) ==
  /\ \A i \in Is(tab, "marker") :
       i + 1 \in Is(tab, "entry") /\ tab[i + 1].plan = tab[i].plan
  /\ \A i \in Is(tab, "entry") : i - 1 \in Is(tab, "marker")
  /\ \A i, j \in Is(tab, "marker") : tab[i].plan = tab[j].plan => i = j

Tables == {tab \in Seq(TabLines) : Ordered(tab)}

Procs == [at : Places, plan : PlanIds \cup {Idle.plan}, copy : Files,
          fd : {"none", "file", "tmp", "lost"}, tab : Tables]

PlansTyped ==
  /\ file \in [PlanIds -> Files]
  /\ tmp \in [PlanIds -> Files]
  /\ proc \in [Tuis -> Procs]
  /\ \A t \in Tuis : proc[t].at \in InHand => proc[t].plan \in PlanIds
  /\ made \in [PlanIds -> SUBSET Nat]
  /\ \A p \in PlanIds : IsFiniteSet(made[p])
  /\ stamp \in Nat
  /\ crontab \in Tables
  /\ own \subseteq [kind : {"own"}, plan : {"none"}, edit : Nat]
  /\ left \in [Deeds -> Nat]

\* The places of a worker thread, of a plan with one destination and of a
\* plan with several.
Single == {"new", "publish", "plan"}
Several == {"top", "open", "done", "close", "ok", "outcome"}
Walking == {"walk", "record"}
Over == {"posted", "ended"}

Threads == [at : {"off"} \cup Single \cup Several \cup Walking \cup Over,
            dest : Nat, src : Nat, check : Nat]

WorkersTyped ==
  /\ extra \in BOOLEAN
  /\ dests \in 1..MaxDests
  /\ th \in Threads
  /\ bk \in [cancelled : BOOLEAN, paused : BOOLEAN]
  /\ published \in BOOLEAN
  /\ flag \in BOOLEAN
  /\ dog \in {"off", "polling"}
  /\ outcomes \in Seq(BOOLEAN)
  /\ records \in [1..MaxDests -> SUBSET (1..Sources)]
  /\ opened \in Nat
  /\ after \in Nat
  /\ verdict \in {"none", "finished", "failed", "cancelled"}
  /\ panel \in [open : BOOLEAN, over : BOOLEAN,
                toast : {"none", "complete", "failed"}]
----------------------------------------------------------------------------
(* The invariants. *)

\* Which destinations are behind the thread, which is in its hands, and
\* which are ahead.
Behind == \A d \in DOMAIN outcomes : outcomes[d] <=> records[d] = 1..Sources

Ahead ==
  th.at \in {"off"} \cup Single \cup Several \cup Walking =>
    \A d \in 1..MaxDests : d > th.dest => records[d] = {}

InTurn ==
  /\ th.at = "off" => outcomes = <<>> /\ th.dest = 0
  /\ ~Multi => outcomes = <<>> /\ th.at \notin Several
  /\ Multi => th.at \notin Single
  /\ ~Multi /\ th.at \in Single \cup Walking => th.dest = 1
  /\ Multi /\ th.at \in Several \cup Walking => Len(outcomes) + 1 = th.dest
  /\ th.at = "top" => th.dest \in 1..(dests + 1)
  /\ th.at \in (Several \ {"top"}) \cup Walking => th.dest \in 1..dests

Written ==
  /\ th.at \in Single \cup {"open"} => records[th.dest] = {}
  /\ th.at = "top" /\ th.dest <= dests => records[th.dest] = {}
  /\ th.at \in Walking => th.src \in 1..Sources /\ th.check \in 1..Checks
                          /\ records[th.dest] = 1..(th.src - 1)
  /\ th.at \in {"done", "ok"} => records[th.dest] = 1..Sources
  /\ th.at \in {"close", "outcome"} => records[th.dest] # 1..Sources

Told ==
  /\ verdict # "none" => th.at \in Over
  /\ verdict = "finished" /\ Multi /\ ~flag => Len(outcomes) = dests
  /\ verdict = "finished" /\ ~Multi => records[1] = 1..Sources

\* What is open, and what a cancel has let begin.
Released ==
  /\ Multi => IF th.at \in Walking \cup {"done", "close"} THEN opened = 1
              ELSE opened = 0 /\ dog = "off"
  /\ ~flag \/ th.at = "open" => after = 0
  /\ after <= 1

WorkerInv ==
  WorkersTyped /\ Behind /\ Ahead /\ InTurn /\ Written /\ Told /\ Released

\* A process about to write a stamp has a plan to write.
CopyWhole ==
  \A t \in Tuis : proc[t].at \in {"marking", "filling"} => Parses(proc[t].copy)

\* Who saves a plan is alone on it, and stamps that cross are of one version.
Apart(p) ==
  \A t, u \in Tuis : HasOpen(t, p) /\ HasOpen(u, p) /\ t # u =>
    proc[t].at # "saving" /\ proc[t].copy.edit = proc[u].copy.edit

\* A file somebody is about to write is half a file, or has that version.
Takes(f, t) == f.state = "torn" \/ (f.state = "whole" /\ f.edit = proc[t].copy.edit)

Ready(p) ==
  \A t \in Tuis : proc[t].plan = p =>
    /\ proc[t].at = "saving" => proc[t].fd = "file" /\ file[p].state = "torn"
    /\ proc[t].at = "filling" /\ proc[t].fd = "tmp" => Takes(tmp[p], t)
    /\ proc[t].at = "filling" /\ proc[t].fd = "file" => Takes(file[p], t)

\* Half a plan is in the hands of somebody who will write it, and so is half a
\* temporary file that somebody will move.
Holds(t, p, f) ==
  proc[t].plan = p /\ proc[t].at \in {"saving", "filling"} /\ proc[t].fd = f

Held(p) ==
  /\ file[p].state = "torn" => \E t \in Tuis : Holds(t, p, "file")
  /\ tmp[p].state = "torn" /\ (\E u \in Tuis : HasOpen(u, p) /\ proc[u].at # "saving") =>
       \E t \in Tuis : Holds(t, p, "tmp")

\* A plan nobody has hurt.
Whole(p) == p \notin hurt => Apart(p) /\ Ready(p) /\ Held(p)

FilesInv == PlansTyped /\ CopyWhole /\ \A p \in PlanIds : Whole(p)

\* The operator's lines are in the crontab, and in every table a process is
\* about to put in its place.
OwnKept ==
  /\ own \subseteq ToSet(crontab)
  /\ \A t \in Tuis : At(t, "table") => own \subseteq ToSet(proc[t].tab)

TabsInv == PlansTyped /\ OwnKept
----------------------------------------------------------------------------
(* The worker. *)

\* The steps of the worker, its watchdog and its screen.
WorkerStep ==
  \/ StartWorker \/ ThreadStep \/ Watch \/ OnWorkerDone
  \/ PressCancel \/ CloseScreen \/ PressPause \/ WorkerDies

LEMMA WorkerMoves ==
  ASSUME [Next]_vars
  PROVE  WorkerStep \/ UNCHANGED workerVars
BY DEF Next, vars, StartScreen, Thread, Finished, ScreenKey, FileStep, Fails, Key, Dies,
       WorkerStep

LEMMA WorkerStarts == ASSUME Init PROVE WorkerInv
<1> USE WorkersAssumption DEF Init, WorkersInit, FreshBackup
<1>1. WorkersTyped
  <2>1. th \in Threads  BY DEF Threads, Single, Several, Walking, Over
  <2>2. records \in [1..MaxDests -> SUBSET (1..Sources)]  OBVIOUS
  <2>3. bk \in [cancelled : BOOLEAN, paused : BOOLEAN]  OBVIOUS
  <2>4. panel \in [open : BOOLEAN, over : BOOLEAN, toast : {"none", "complete", "failed"}]
    OBVIOUS
  <2>5. outcomes \in Seq(BOOLEAN)  OBVIOUS
  <2> QED  BY <2>1, <2>2, <2>3, <2>4, <2>5 DEF WorkersTyped
<1>2. Behind /\ Ahead /\ Told /\ Released
  BY DEF Behind, Ahead, Told, Released, Walking, Multi
<1>3. InTurn /\ Written
  BY DEF InTurn, Written, Single, Several, Walking, Multi
<1> QED  BY <1>1, <1>2, <1>3 DEF WorkerInv

LEMMA WorkerTypes ==
  ASSUME WorkerInv, WorkerStep
  PROVE  WorkersTyped'
<1> USE WorkersAssumption DEF WorkerInv
<1> DEFINE Ats == {"off"} \cup Single \cup Several \cup Walking \cup Over
<1>a. th \in Threads /\ th.dest + 1 \in Nat /\ th.src + 1 \in Nat /\ th.check + 1 \in Nat
  BY DEF WorkersTyped, Threads
<1>b. ASSUME NEW a \in Ats, NEW d \in Nat, NEW s \in Nat, NEW c \in Nat
      PROVE  /\ [th EXCEPT !.at = a] \in Threads
             /\ [th EXCEPT !.check = c] \in Threads
             /\ [th EXCEPT !.at = a, !.dest = d] \in Threads
             /\ [th EXCEPT !.at = a, !.src = s, !.check = c] \in Threads
             /\ [th EXCEPT !.at = a, !.src = s, !.check = c, !.dest = d] \in Threads
  BY <1>a DEF Threads
<1>c. {"off", "new", "publish", "plan", "top", "open", "done", "close", "ok", "outcome",
       "walk", "record", "posted", "ended"} \subseteq Ats
  BY DEF Single, Several, Walking, Over
<1> HIDE DEF Ats
<1>1. CASE StartWorker
  <2> DEFINE first == IF Multi THEN "top" ELSE "new"
  <2>1. first \in Ats /\ 1 \in Nat /\ "ended" \in Ats  BY <1>c
  <2>2. th' = [th EXCEPT !.at = first, !.dest = 1] \/ th' = [th EXCEPT !.at = "ended"]
    BY <1>1 DEF StartWorker
  <2>3. opened' \in Nat
    BY <1>1 DEF StartWorker, WorkersTyped
  <2>4. panel' = [panel EXCEPT !.open = TRUE] \/ panel' = panel
    BY <1>1 DEF StartWorker
  <2> HIDE DEF first
  <2>5. th' \in Threads
    <3>1. [th EXCEPT !.at = first, !.dest = 1] \in Threads  BY <2>1, <1>b
    <3>2. [th EXCEPT !.at = "ended"] \in Threads  BY <2>1, <1>b
    <3> QED  BY <2>2, <3>1, <3>2
  <2>6. panel' \in [open : BOOLEAN, over : BOOLEAN, toast : {"none", "complete", "failed"}]
    BY <2>4 DEF WorkersTyped
  <2> QED  BY <1>1, <2>3, <2>5, <2>6 DEF StartWorker, WorkersTyped
<1>2. CASE NewBackup
  <2>1. th' \in Threads
    BY ZenonT(40), <1>2, <1>a, <1>b, <1>c DEF NewBackup, Post, FreshBackup
  <2> QED  BY <1>2, <2>1 DEF NewBackup, Post, FreshBackup, WorkersTyped
<1>3. CASE Publish
  <2>1. th' \in Threads
    BY <1>3, <1>a, <1>b, <1>c DEF Publish
  <2> QED  BY <1>3, <2>1 DEF Publish, WorkersTyped
<1>4. CASE InitPlan
  <2>1. [th EXCEPT !.at = "walk", !.src = 1, !.check = 1] \in Threads  BY <1>b, <1>c
  <2>2. th' \in Threads  BY <1>4, <2>1, <1>b, <1>c DEF InitPlan, FirstSource, Post
  <2> QED  BY <1>4, <2>2 DEF InitPlan, FirstSource, Post, WorkersTyped
<1>5. CASE Checkpoint
  <2>1. th' \in Threads
    BY <1>5, <1>a, <1>b, <1>c DEF Checkpoint, Raise, Post
  <2> QED  BY <1>5, <2>1 DEF Checkpoint, Raise, Post, WorkersTyped
<1>6. CASE WriteRecord
  <2>1. [th EXCEPT !.at = "walk", !.src = @ + 1, !.check = 1] \in Threads
    BY <1>a, <1>b, <1>c
  <2>2. th' \in Threads
    BY <1>6, <2>1, <1>b, <1>c DEF WriteRecord, Raise, Post
  <2>3. th.src \in 1..Sources /\ th.dest \in 1..MaxDests
    BY <1>6 DEF WriteRecord, Written, InTurn, Several, Walking, WorkersTyped, Multi
  <2>4. records' \in [1..MaxDests -> SUBSET (1..Sources)]
    BY SMTT(30), <1>6, <2>3 DEF WriteRecord, WorkersTyped
  <2> QED  BY <1>6, <2>2, <2>4 DEF WriteRecord, Raise, Post, WorkersTyped
<1>7. CASE NextDest
  <2>1. th' \in Threads
    BY <1>7, <1>a, <1>b, <1>c DEF NextDest, GivesUp, Post
  <2> QED  BY <1>7, <2>1 DEF NextDest, GivesUp, Post, WorkersTyped
<1>8. CASE OpenDest
  <2>1. [th EXCEPT !.at = "walk", !.src = 1, !.check = 1] \in Threads  BY <1>b, <1>c
  <2>2. th' \in Threads  BY <1>8, <2>1, <1>b, <1>c DEF OpenDest, FirstSource
  <2>3. /\ opened' \in {opened, opened + 1}
        /\ after' \in {after, after + 1}
        /\ dog' \in {dog, "polling"}
    BY <1>8 DEF OpenDest
  <2>4. bk' = FreshBackup \/ bk' = bk  BY <1>8 DEF OpenDest
  <2>5. FreshBackup \in [cancelled : BOOLEAN, paused : BOOLEAN]  BY DEF FreshBackup
  <2>6. bk' \in [cancelled : BOOLEAN, paused : BOOLEAN]
    BY <2>4, <2>5 DEF WorkersTyped
  <2> QED  BY <1>8, <2>2, <2>3, <2>6 DEF OpenDest, WorkersTyped
<1>9. CASE Watch
  <2>1. th' \in Threads
    BY <1>9, <1>a, <1>b, <1>c DEF Watch
  <2> QED  BY <1>9, <2>1 DEF Watch, WorkersTyped
<1>10. CASE CloseDest
  <2>1. th' \in Threads
    BY <1>10, <1>a, <1>b, <1>c DEF CloseDest, Closed
  <2> QED  BY <1>10, <2>1 DEF CloseDest, Closed, WorkersTyped, Released, InTurn, Several, Walking
<1>11. CASE NoteOutcome
  <2>1. th' \in Threads
    BY <1>11, <1>a, <1>b, <1>c DEF NoteOutcome, AfterFailure
  <2> QED  BY <1>11, <2>1 DEF NoteOutcome, AfterFailure, WorkersTyped
<1>12. CASE OnWorkerDone
  <2>1. th' \in Threads
    BY <1>12, <1>a, <1>b, <1>c DEF OnWorkerDone
  <2> QED  BY <1>12, <2>1 DEF OnWorkerDone, WorkersTyped
<1>13. CASE PressCancel
  <2>1. th' \in Threads
    BY <1>13, <1>a, <1>b, <1>c DEF PressCancel
  <2> QED  BY <1>13, <2>1 DEF PressCancel, WorkersTyped
<1>14. CASE CloseScreen
  <2>1. th' \in Threads
    BY <1>14, <1>a, <1>b, <1>c DEF CloseScreen
  <2> QED  BY <1>14, <2>1 DEF CloseScreen, WorkersTyped
<1>15. CASE PressPause
  <2>1. th' \in Threads
    BY <1>15, <1>a, <1>b, <1>c DEF PressPause
  <2> QED  BY <1>15, <2>1 DEF PressPause, WorkersTyped
<1>16. CASE WorkerDies
  <2>1. th' \in Threads
    BY <1>16, <1>a, <1>b, <1>c DEF WorkerDies
  <2> QED  BY <1>16, <2>1 DEF WorkerDies, WorkersTyped
<1> QED
  BY <1>1, <1>2, <1>3, <1>4, <1>5, <1>6, <1>7, <1>8, <1>9, <1>10, <1>11, <1>12, <1>13, <1>14, <1>15, <1>16
     DEF WorkerStep, ThreadStep
LEMMA WorkerGoesOn ==
  ASSUME WorkerInv, WorkerStep \/ UNCHANGED workerVars
  PROVE  WorkerInv'
<1> USE WorkersAssumption DEF WorkerInv
<1>0. WorkersTyped'
  BY WorkerTypes DEF workerVars, WorkersTyped, Threads
<1>t. /\ dests \in 1..MaxDests /\ th.dest \in Nat /\ th.src \in Nat /\ th.check \in Nat
      /\ outcomes \in Seq(BOOLEAN) /\ records \in [1..MaxDests -> SUBSET (1..Sources)]
      /\ opened \in Nat /\ after \in Nat /\ flag \in BOOLEAN
      /\ th.at \in {"off"} \cup Single \cup Several \cup Walking \cup Over
  BY DEF WorkersTyped, Threads
<1>1. CASE StartWorker
  <2>1. /\ th.at = "off"
        /\ \/ th'.at = (IF Multi THEN "top" ELSE "new") /\ th'.dest = 1
           \/ ~Multi /\ th'.at = "ended"
        /\ Multi => opened' = 0
    BY <1>1 DEF StartWorker, WorkersTyped, Threads
  <2>2. UNCHANGED <<extra, dests, bk, published, flag, dog, outcomes, records, after, verdict>>
    BY <1>1 DEF StartWorker
  <2>3. (Behind /\ Told)'
    BY <2>1, <2>2, <1>t DEF Behind, Told, InTurn, Written, Single, Several, Walking, Over, Multi
  <2>4. Ahead'
    BY <2>1, <2>2, <1>t DEF Ahead, InTurn, Single, Several, Walking, Over, Multi
  <2>5. InTurn'
    BY <2>1, <2>2, <1>t DEF InTurn, Written, Single, Several, Walking, Over, Multi
  <2>6. Written'
    BY <2>1, <2>2, <1>t DEF Written, Ahead, InTurn, Single, Several, Walking, Over, Multi
  <2>7. Released'
    BY <2>1, <2>2, <1>t DEF Released, InTurn, Single, Several, Walking, Over, Multi
  <2> QED  BY <1>0, <2>3, <2>4, <2>5, <2>6, <2>7
<1>2. CASE NewBackup
  BY SMTT(30), <1>2, <1>0, <1>t DEF NewBackup, Post, Behind, Ahead, InTurn, Written, Told, Released,
     Single, Several, Walking, Over, Multi, WorkersTyped, Threads
<1>3. CASE Publish
  BY <1>3, <1>0, <1>t DEF Publish, Behind, Ahead, InTurn, Written, Told, Released,
     Single, Several, Walking, Over, Multi, WorkersTyped, Threads
<1>4. CASE InitPlan
  <2>1. /\ th.at = "plan"
        /\ \/ th'.at = "walk" /\ th'.dest = th.dest /\ th'.src = 1 /\ th'.check = 1 /\ verdict' = verdict
           \/ th'.at = "posted" /\ th'.dest = th.dest /\ verdict' = "failed"
    BY <1>4 DEF InitPlan, FirstSource, Post, WorkersTyped, Threads
  <2>2. UNCHANGED <<extra, dests, bk, published, flag, dog, outcomes, records, opened, after, panel>>
    BY <1>4 DEF InitPlan
  <2>3. (Behind /\ Told)'
    BY <2>1, <2>2, <1>t DEF Behind, Told, InTurn, Written, Single, Several, Walking, Over, Multi
  <2>4. Ahead'
    BY <2>1, <2>2, <1>t DEF Ahead, InTurn, Single, Several, Walking, Over, Multi
  <2>5. InTurn'
    BY <2>1, <2>2, <1>t DEF InTurn, Written, Single, Several, Walking, Over, Multi
  <2>6. Written'
    <3>1. records[th.dest] = 1..(1 - 1) /\ 1 \in 1..Sources /\ 1 \in 1..Checks
      BY <2>1 DEF Written, Single
    <3> QED  BY <3>1, <2>1, <2>2, <1>t DEF Written, Single, Several, Walking, Over, Multi
  <2>7. Released'
    BY <2>1, <2>2, <1>t DEF Released, InTurn, Single, Several, Walking, Over, Multi
  <2> QED  BY <1>0, <2>3, <2>4, <2>5, <2>6, <2>7
<1>5. CASE Checkpoint
  <2>1. /\ th.at = "walk"
        /\ th'.dest = th.dest /\ th'.src = th.src
        /\ \/ Multi /\ th'.at = "close" /\ verdict' = verdict
           \/ ~Multi /\ th'.at = "posted" /\ verdict' = "cancelled"
           \/ th.check < Checks /\ th'.at = "walk" /\ th'.check = th.check + 1 /\ verdict' = verdict
           \/ th'.at = "record" /\ th'.check = th.check /\ verdict' = verdict
    BY <1>5 DEF Checkpoint, Raise, Post, WorkersTyped, Threads
  <2>2. UNCHANGED <<extra, dests, bk, published, flag, dog, outcomes, records, opened, after, panel>>
    BY <1>5 DEF Checkpoint
  <2>3. (Behind /\ Told)'
    BY <2>1, <2>2, <1>t DEF Behind, Told, InTurn, Written, Single, Several, Walking, Over, Multi
  <2>4. Ahead'
    BY <2>1, <2>2, <1>t DEF Ahead, InTurn, Single, Several, Walking, Over, Multi
  <2>5. InTurn'
    BY <2>1, <2>2, <1>t DEF InTurn, Written, Single, Several, Walking, Over, Multi
  <2>6. Written'
    BY SMTT(30), <2>1, <2>2, <1>t DEF Written, Ahead, InTurn, Single, Several, Walking, Over, Multi
  <2>7. Released'
    BY <2>1, <2>2, <1>t DEF Released, InTurn, Single, Several, Walking, Over, Multi
  <2> QED  BY <1>0, <2>3, <2>4, <2>5, <2>6, <2>7
<1>6. CASE WriteRecord
  <2>1. th.at = "record" /\ UNCHANGED <<extra, dests, bk, published, flag, dog, outcomes, opened,
                                       after, panel>>
    BY <1>6 DEF WriteRecord
  <2>2. /\ th.src \in 1..Sources /\ th.dest \in 1..MaxDests
        /\ records[th.dest] = 1..(th.src - 1)
    BY <2>1, <1>t DEF Written, InTurn, Several, Walking, Multi
  <2>3. CASE Raise("failed") /\ records' = records
    <3>1. /\ th'.dest = th.dest /\ th'.at = IF Multi THEN "close" ELSE "posted"
          /\ Multi => verdict' = verdict
          /\ ~Multi => verdict' = "failed"
      BY <2>3 DEF Raise, Post, WorkersTyped, Threads
    <3>2. records[th.dest] # 1..Sources
      BY <2>2
    <3> QED
      BY <2>1, <2>3, <3>1, <3>2, <1>0, <1>t DEF Behind, Ahead, InTurn, Written, Told, Released,
             Single, Several, Walking, Over, Multi
  <2>4. CASE /\ records' = [records EXCEPT ![th.dest] = @ \cup {th.src}]
             /\ th.src < Sources
             /\ th' = [th EXCEPT !.at = "walk", !.src = @ + 1, !.check = 1]
             /\ verdict' = verdict
    <3>1. /\ th'.dest = th.dest /\ th'.at = "walk" /\ th'.src = th.src + 1 /\ th'.check = 1
          /\ th'.src \in 1..Sources
      BY <2>2, <2>4 DEF WorkersTyped, Threads
    <3>2. /\ records'[th.dest] = records[th.dest] \cup {th.src}
          /\ \A d \in 1..MaxDests : d # th.dest => records'[d] = records[d]
      BY <2>2, <2>4, <1>t
    <3>3. 1..(th.src - 1) \cup {th.src} = 1..(th'.src - 1)
      BY <2>2, <2>4, <3>1
    <3>4. Behind'
      <4>1. \A d \in DOMAIN outcomes : d \in 1..MaxDests /\ d # th.dest
        BY <2>1, <1>t DEF InTurn, Single, Several, Walking, Over, Multi
      <4> QED  BY <4>1, <2>1, <3>2 DEF Behind
    <3>5. Told'
      <4>1. verdict = "none"  BY <2>1 DEF Told, Over
      <4>2. ~Multi => th.dest = 1  BY <2>1 DEF InTurn, Walking
      <4> QED  BY <4>1, <4>2, <2>1, <2>2, <2>4, <3>1, <3>2, <3>3 DEF Told, Over, Multi
    <3>7. Ahead'
      <4>1. th.at \in Walking  BY <2>1 DEF Walking
      <4>2. \A d \in 1..MaxDests : d > th'.dest => d # th.dest /\ d > th.dest
        BY <3>1, <1>t
      <4> QED  BY <4>1, <4>2, <3>2 DEF Ahead
    <3>8. Written'
      BY <2>1, <2>2, <3>1, <3>2, <3>3 DEF Written, Single, Several, Walking, Over, Multi
    <3>6. (InTurn /\ Released)'
      BY <2>1, <3>1, <1>t DEF InTurn, Released, Single, Several, Walking, Over, Multi
    <3> QED  BY <1>0, <3>4, <3>5, <3>6, <3>7, <3>8
  <2>5. CASE /\ records' = [records EXCEPT ![th.dest] = @ \cup {th.src}]
             /\ th.src >= Sources
             /\ IF Multi THEN th' = [th EXCEPT !.at = "done"] /\ UNCHANGED verdict
                ELSE Post("finished")
    <3>1. /\ th'.dest = th.dest /\ th'.at = IF Multi THEN "done" ELSE "posted"
          /\ Multi => verdict' = verdict
          /\ ~Multi => verdict' = "finished"
      BY <2>5 DEF Post, WorkersTyped, Threads
    <3>2. /\ records'[th.dest] = records[th.dest] \cup {th.src}
          /\ \A d \in 1..MaxDests : d # th.dest => records'[d] = records[d]
      BY <2>2, <2>5, <1>t
    <3>3. 1..(th.src - 1) \cup {th.src} = 1..Sources
      BY <2>2, <2>5
    <3>4. Behind'
      <4>1. \A d \in DOMAIN outcomes : d \in 1..MaxDests /\ d # th.dest
        BY <2>1, <1>t DEF InTurn, Single, Several, Walking, Over, Multi
      <4> QED  BY <4>1, <2>1, <3>2 DEF Behind
    <3>5. Told'
      <4>1. verdict = "none"  BY <2>1 DEF Told, Over
      <4>2. ~Multi => th.dest = 1  BY <2>1 DEF InTurn, Walking
      <4> QED  BY <4>1, <4>2, <2>1, <2>2, <2>5, <3>1, <3>2, <3>3 DEF Told, Over, Multi
    <3>7. Ahead'
      <4>1. th.at \in Walking  BY <2>1 DEF Walking
      <4>2. \A d \in 1..MaxDests : d > th'.dest => d # th.dest /\ d > th.dest
        BY <3>1, <1>t
      <4> QED  BY <4>1, <4>2, <3>2 DEF Ahead
    <3>8. Written'
      BY <2>1, <2>2, <3>1, <3>2, <3>3 DEF Written, Single, Several, Walking, Over, Multi
    <3>6. (InTurn /\ Released)'
      BY <2>1, <3>1, <1>t DEF InTurn, Released, Single, Several, Walking, Over, Multi
    <3> QED  BY <1>0, <3>4, <3>5, <3>6, <3>7, <3>8
  <2> QED  BY <1>6, <2>2, <2>3, <2>4, <2>5, <1>t DEF WriteRecord
<1>7. CASE NextDest
  <2>1. /\ th.at = "top" /\ th'.dest = th.dest
        /\ \/ (flag \/ th.dest > dests) /\ th'.at = "posted" /\ verdict' = "finished"
           \/ ~flag /\ th.dest <= dests /\ th'.at = "open" /\ verdict' = verdict
    BY <1>7, <1>t DEF NextDest, GivesUp, Post, WorkersTyped, Threads
  <2>2. UNCHANGED <<extra, dests, bk, published, flag, dog, outcomes, records, opened, after, panel>>
    BY <1>7 DEF NextDest
  <2>3. (Behind /\ Told)'
    <3>1. Multi /\ Len(outcomes) + 1 = th.dest /\ Len(outcomes) \in Nat /\ th.dest \in 1..(dests + 1)
      BY <2>1, <1>t DEF InTurn, Several
    <3> QED  BY <3>1, <2>1, <2>2, <1>t DEF Behind, Told, Over, Multi
  <2>4. (Ahead /\ InTurn /\ Written /\ Released)'
    BY <2>1, <2>2, <1>t DEF Ahead, InTurn, Written, Released, Single, Several, Walking, Over, Multi
  <2> QED  BY <1>0, <2>3, <2>4
<1>8. CASE OpenDest
  <2>1. /\ th.at = "open"
        /\ th'.dest = th.dest
        /\ \/ /\ th'.at = "walk" /\ th'.src = 1 /\ th'.check = 1
              /\ opened' = opened + 1
           \/ th'.at = "outcome" /\ opened' = opened /\ dog' = dog
           \/ th'.at = "close" /\ opened' = opened + 1
        /\ after' = IF flag THEN after + 1 ELSE after
    BY <1>8 DEF OpenDest, FirstSource, WorkersTyped, Threads
  <2>2. UNCHANGED <<extra, dests, published, flag, outcomes, records, verdict, panel>>
    BY <1>8 DEF OpenDest
  <2>3. (Behind /\ Told)'
    BY <2>1, <2>2, <1>t DEF Behind, Told, InTurn, Written, Single, Several, Walking, Over, Multi
  <2>4. Ahead'
    BY <2>1, <2>2, <1>t DEF Ahead, InTurn, Single, Several, Walking, Over, Multi
  <2>5. InTurn'
    BY <2>1, <2>2, <1>t DEF InTurn, Written, Single, Several, Walking, Over, Multi
  <2>6. Written'
    <3>1. records[th.dest] = {} /\ 1 \in 1..Sources /\ 1 \in 1..Checks /\ 1..(1 - 1) = {}
      BY <2>1 DEF Written, Single
    <3> QED  BY <3>1, <2>1, <2>2, <1>t DEF Written, Single, Several, Walking, Over, Multi
  <2>7. Released'
    BY <2>1, <2>2, <1>t DEF Released, InTurn, Single, Several, Walking, Over, Multi
  <2> QED  BY <1>0, <2>3, <2>4, <2>5, <2>6, <2>7
<1>9. CASE Watch
  BY <1>9, <1>0, <1>t DEF Watch, Behind, Ahead, InTurn, Written, Told, Released,
     Single, Several, Walking, Over, Multi, WorkersTyped, Threads
<1>10. CASE CloseDest
  <2>1. /\ \/ th.at = "done" /\ th'.at = "ok"
           \/ th.at = "close" /\ th'.at = "outcome"
        /\ th'.dest = th.dest
        /\ opened' = opened - 1 /\ dog' = "off"
    BY <1>10 DEF CloseDest, Closed, WorkersTyped, Threads
  <2>2. UNCHANGED <<extra, dests, bk, published, flag, outcomes, records, after, verdict, panel>>
    BY <1>10 DEF CloseDest
  <2>3. (Behind /\ Told)'
    BY <2>1, <2>2, <1>t DEF Behind, Told, InTurn, Written, Single, Several, Walking, Over, Multi
  <2>4. Ahead'
    BY <2>1, <2>2, <1>t DEF Ahead, InTurn, Single, Several, Walking, Over, Multi
  <2>5. InTurn'
    BY <2>1, <2>2, <1>t DEF InTurn, Written, Single, Several, Walking, Over, Multi
  <2>6. Written'
    BY <2>1, <2>2, <1>t DEF Written, Ahead, InTurn, Single, Several, Walking, Over, Multi
  <2>7. Released'
    BY <2>1, <2>2, <1>t DEF Released, InTurn, Single, Several, Walking, Over, Multi
  <2> QED  BY <1>0, <2>3, <2>4, <2>5, <2>6, <2>7
<1>11. CASE NoteOutcome
  <2>1. /\ th.at \in {"ok", "outcome"}
        /\ th'.at = "top" /\ th'.dest = th.dest + 1
        /\ outcomes' = Append(outcomes, th.at = "ok")
    BY <1>11 DEF NoteOutcome, AfterFailure, WorkersTyped, Threads
  <2>2. UNCHANGED <<extra, dests, bk, published, flag, dog, records, opened, after, verdict, panel>>
    BY <1>11 DEF NoteOutcome
  <2>3. /\ Multi /\ Len(outcomes) \in Nat /\ th.dest = Len(outcomes) + 1
        /\ th.dest \in 1..dests
    BY <2>1, <1>t DEF InTurn, Several
  <2>4. Behind'
    <3>1. (th.at = "ok") <=> records[th.dest] = 1..Sources
      BY <2>1 DEF Written
    <3> SUFFICES ASSUME NEW d \in DOMAIN outcomes'
                 PROVE  outcomes'[d] <=> records[d] = 1..Sources
      BY <2>2 DEF Behind
    <3>2. CASE d = th.dest
      <4>1. outcomes'[d] = (th.at = "ok")  BY <3>2, <2>1, <2>3, <1>t
      <4> QED  BY <4>1, <3>1, <3>2
    <3>3. CASE d # th.dest
      <4>1. d \in DOMAIN outcomes /\ outcomes'[d] = outcomes[d]
        BY <3>3, <2>1, <2>3, <1>t
      <4> QED  BY <4>1 DEF Behind
    <3> QED  BY <3>2, <3>3
  <2>5. Ahead'
    <3>1. th.at \in Several /\ th'.dest = th.dest + 1  BY <2>1 DEF Several
    <3> SUFFICES ASSUME NEW d \in 1..MaxDests, d > th'.dest
                 PROVE  records'[d] = {}
      BY <2>2 DEF Ahead
    <3>2. d > th.dest  BY <3>1, <1>t
    <3>3. records[d] = {}  BY <3>1, <3>2 DEF Ahead
    <3> QED  BY <3>3, <2>2
  <2>6. InTurn'
    <3>1. Len(outcomes') = Len(outcomes) + 1  BY <2>1, <1>t
    <3> QED  BY <3>1, <2>1, <2>2, <2>3, <1>t DEF InTurn, Single, Several, Walking, Over, Multi
  <2>7. Written'
    <3>1. th.at \in Several /\ th'.at = "top" /\ th'.dest = th.dest + 1
      BY <2>1 DEF Several
    <3>2. ASSUME th'.dest <= dests PROVE records[th'.dest] = {}
      <4>1. th'.dest \in 1..MaxDests /\ th'.dest > th.dest  BY <3>1, <3>2, <1>t
      <4> QED  BY <3>1, <4>1 DEF Ahead
    <3> QED  BY <3>1, <3>2, <2>2 DEF Written, Single, Walking
  <2>8. (Told /\ Released)'
    BY <2>1, <2>2, <1>t DEF Told, Released, Single, Several, Walking, Over, Multi
  <2> QED  BY <1>0, <2>4, <2>5, <2>6, <2>7, <2>8
<1>12. CASE OnWorkerDone
  <2>1. th.at = "posted" /\ th'.at = "ended"
    BY <1>12 DEF OnWorkerDone, WorkersTyped, Threads
  <2>2. UNCHANGED <<extra, dests, bk, published, flag, dog, outcomes, records, opened, after, verdict>>
    BY <1>12 DEF OnWorkerDone
  <2>3. (Behind /\ Told)'
    BY <2>1, <2>2, <1>t DEF Behind, Told, InTurn, Written, Single, Several, Walking, Over, Multi
  <2>4. Ahead'
    BY <2>1, <2>2, <1>t DEF Ahead, InTurn, Single, Several, Walking, Over, Multi
  <2>5. InTurn'
    BY <2>1, <2>2, <1>t DEF InTurn, Written, Single, Several, Walking, Over, Multi
  <2>6. Written'
    BY <2>1, <2>2, <1>t DEF Written, Ahead, InTurn, Single, Several, Walking, Over, Multi
  <2>7. Released'
    BY <2>1, <2>2, <1>t DEF Released, InTurn, Single, Several, Walking, Over, Multi
  <2> QED  BY <1>0, <2>3, <2>4, <2>5, <2>6, <2>7
<1>13. CASE PressCancel
  BY SMTT(30), <1>13, <1>0, <1>t DEF PressCancel, Behind, Ahead, InTurn, Written, Told, Released,
     Single, Several, Walking, Over, Multi, WorkersTyped, Threads
<1>14. CASE CloseScreen
  <2>1. Multi => opened' = opened
    BY <1>14 DEF CloseScreen, WorkersTyped, Threads
  <2>2. UNCHANGED <<extra, dests, th, bk, published, flag, dog, outcomes, records, after, verdict>>
    BY <1>14 DEF CloseScreen
  <2>3. (Behind /\ Told)'
    BY <2>1, <2>2, <1>t DEF Behind, Told, InTurn, Written, Single, Several, Walking, Over, Multi
  <2>4. Ahead'
    BY <2>1, <2>2, <1>t DEF Ahead, InTurn, Single, Several, Walking, Over, Multi
  <2>5. InTurn'
    BY <2>1, <2>2, <1>t DEF InTurn, Written, Single, Several, Walking, Over, Multi
  <2>6. Written'
    BY <2>1, <2>2, <1>t DEF Written, Ahead, InTurn, Single, Several, Walking, Over, Multi
  <2>7. Released'
    BY <2>1, <2>2, <1>t DEF Released, InTurn, Single, Several, Walking, Over, Multi
  <2> QED  BY <1>0, <2>3, <2>4, <2>5, <2>6, <2>7
<1>15. CASE PressPause
  BY SMTT(30), <1>15, <1>0, <1>t DEF PressPause, Behind, Ahead, InTurn, Written, Told, Released,
     Single, Several, Walking, Over, Multi, WorkersTyped, Threads
<1>16. CASE WorkerDies
  <2>1. th'.at = "ended" /\ dog' = "off" /\ opened' = 0
    BY <1>16 DEF WorkerDies, WorkersTyped, Threads
  <2>2. UNCHANGED <<extra, dests, bk, published, flag, outcomes, records, after, verdict>>
    BY <1>16 DEF WorkerDies
  <2>3. (Behind /\ Told)'
    BY <2>1, <2>2, <1>t DEF Behind, Told, InTurn, Written, Single, Several, Walking, Over, Multi
  <2>4. Ahead'
    BY <2>1, <2>2, <1>t DEF Ahead, InTurn, Single, Several, Walking, Over, Multi
  <2>5. InTurn'
    BY <2>1, <2>2, <1>t DEF InTurn, Written, Single, Several, Walking, Over, Multi
  <2>6. Written'
    BY <2>1, <2>2, <1>t DEF Written, Ahead, InTurn, Single, Several, Walking, Over, Multi
  <2>7. Released'
    BY <2>1, <2>2, <1>t DEF Released, InTurn, Single, Several, Walking, Over, Multi
  <2> QED  BY <1>0, <2>3, <2>4, <2>5, <2>6, <2>7
<1>17. CASE UNCHANGED workerVars
  BY <1>17, <1>0 DEF workerVars, Behind, Ahead, InTurn, Written, Told, Released, Multi
<1> QED
  BY <1>1, <1>2, <1>3, <1>4, <1>5, <1>6, <1>7, <1>8, <1>9, <1>10, <1>11, <1>12,
     <1>13, <1>14, <1>15, <1>16, <1>17 DEF WorkerStep, ThreadStep

\* What the result of a run says of each destination is what happened there:
\* see RunToldTrue.  What the screen makes of that result is another matter:
\* see SuccessShownIsSuccess.  Nothing is assumed of what fails, when the operator
\* cancels, pauses or leaves, or when a process dies (run_plan_multi,
\* BackupWorker._run).
THEOREM ResultIsTrue == Spec => []RunToldTrue
<1>1. WorkerInv => RunToldTrue
  BY DEF WorkerInv, Behind, Told, RunToldTrue
<1>2. Init => WorkerInv
  BY WorkerStarts
<1>3. WorkerInv /\ [Next]_vars => WorkerInv'
  BY WorkerMoves, WorkerGoesOn
<1> QED  BY <1>1, <1>2, <1>3, PTL DEF Spec

\* A cancel lets at most the destination begin whose turn it was, and leaves
\* no backend and no watchdog behind it: see CancelLeavesNothing
\* (run_plan_multi, _start_watchdog).
THEOREM NothingStaysOpen == Spec => []CancelLeavesNothing
<1>1. WorkerInv => CancelLeavesNothing
  BY DEF WorkerInv, Released, CancelLeavesNothing, Walking
<1>2. Init => WorkerInv
  BY WorkerStarts
<1>3. WorkerInv /\ [Next]_vars => WorkerInv'
  BY WorkerMoves, WorkerGoesOn
<1> QED  BY <1>1, <1>2, <1>3, PTL DEF Spec
----------------------------------------------------------------------------
(* Crontabs: what the code does to a table in order leaves it in order. *)

\* Every set of numbers has a least.
LEMMA LeastNatural ==
  ASSUME NEW T, T \subseteq Nat, T # {}
  PROVE  \E n \in T : \A m \in T : n <= m
<1> DEFINE R == {pair \in Nat \X Nat : pair[1] < pair[2]}
<1>1. R = OpToRel(<, Nat)
  BY Zenon DEF OpToRel
<1>2. IsWellFoundedOn(R, Nat)
  BY <1>1, NatLessThanWellFounded, Zenon
<1>3. \A m, n \in Nat : m < n => <<m, n>> \in R
  OBVIOUS
<1> HIDE DEF R
<1>4. PICK n \in T : \A m \in T : ~(<<m, n>> \in R)
  BY <1>2, WFMin, Zenon
<1>5. \A m \in T : m \in Nat /\ n \in Nat /\ ~(m < n)
  BY <1>3, <1>4
<1> QED  BY <1>5

\* The lines from the i-th on, by what the code does at the i-th.
Onward(tab, p, g) ==
  [i \in 1..(Len(tab) + Drops) |->
     IF i > Len(tab) THEN <<>>
     ELSE IF tab[i] = Marker(p) THEN g[i + Drops]
     ELSE <<tab[i]>> \o g[i + 1]]

\* A function that does at every line what the code does is what Strip runs:
\* there is only one, for its value at a line is settled by those further on.
LEMMA StripIs ==
  ASSUME NEW tab \in Seq(TabLines), NEW p, NEW g, g = Onward(tab, p, g)
  PROVE  Strip(tab, p) = g[1]
<1> DEFINE from == CHOOSE f : f = Onward(tab, p, f)
           N == Len(tab) + Drops
           T == {d \in Nat : d < N /\ from[N - d] # g[N - d]}
<1>1. from = Onward(tab, p, from)  OBVIOUS
<1>2. Strip(tab, p) = from[1]  BY DEF Strip, Onward
<1>3. N \in Nat /\ N > Len(tab) /\ Len(tab) \in Nat /\ Drops = 2  BY DEF Drops
<1> HIDE DEF from
<1>4. \A i \in 1..N :
        /\ from[i] = IF i > Len(tab) THEN <<>>
                     ELSE IF tab[i] = Marker(p) THEN from[i + 2] ELSE <<tab[i]>> \o from[i + 1]
        /\ g[i] = IF i > Len(tab) THEN <<>>
                  ELSE IF tab[i] = Marker(p) THEN g[i + 2] ELSE <<tab[i]>> \o g[i + 1]
  BY <1>1, <1>3 DEF Onward
<1>5. ASSUME T # {} PROVE FALSE
  <2>1. PICK d \in T : \A e \in T : d <= e
    BY <1>5, LeastNatural
  <2>2. d \in Nat /\ d < N /\ N - d \in 1..N /\ from[N - d] # g[N - d]
    BY <2>1, <1>3
  <2>3. N - d <= Len(tab)
    <3> DEFINE i == N - d
    <3>1. i \in 1..N /\ from[i] # g[i]  BY <2>2
    <3> HIDE DEF i
    <3>2. ~(i > Len(tab))  BY <3>1, <1>4
    <3>3. i \in Nat  BY <3>1
    <3> QED  BY <3>2, <3>3, <1>3 DEF i
  <2>4. \A j \in {1, 2} : d - j \in Nat /\ d - j < d /\ d - j < N /\ N - (d - j) = N - d + j
    BY <2>2, <2>3, <1>3
  <2>5. \A j \in {1, 2} : from[N - d + j] = g[N - d + j]
    BY <2>1, <2>4
  <2> QED  BY <2>2, <2>3, <2>5, <1>4
<1>6. from[1] = g[1]
  <2>1. N - 1 \in Nat /\ N - 1 < N /\ N - (N - 1) = 1  BY <1>3
  <2> QED  BY <2>1, <1>5
<1> QED  BY <1>2, <1>6

\* The lines from the i-th on, and the same once two lines at k are dropped.
From(tab, i) == [j \in 1..(Len(tab) + 1 - i) |-> tab[i + j - 1]]
Without(tab, k, i) ==
  [j \in 1..(Len(tab) - 1 - i) |-> IF i + j - 1 < k THEN tab[i + j - 1] ELSE tab[i + j + 1]]

LEMMA FromLine ==
  ASSUME NEW tab \in Seq(TabLines), NEW i \in Nat \ {0}, i <= Len(tab)
  PROVE  From(tab, i) = <<tab[i]>> \o From(tab, i + 1)
<1> DEFINE n == Len(tab)
<1>1. n \in Nat /\ i \in 1..n  BY DEF From
<1>2. From(tab, i + 1) = [j \in 1..(n - i) |-> tab[i + j]]
  <2>1. n + 1 - (i + 1) = n - i /\ \A j \in 1..(n - i) : i + 1 + j - 1 = i + j
    BY <1>1
  <2> QED  BY <2>1 DEF From
<1> HIDE DEF n
<1>3. <<tab[i]>> \o [j \in 1..(n - i) |-> tab[i + j]] = [j \in 1..(n + 1 - i) |-> tab[i + j - 1]]
  BY <1>1
<1> QED  BY <1>2, <1>3 DEF From, n

LEMMA WithoutLine ==
  ASSUME NEW tab \in Seq(TabLines), NEW k \in Nat, k < Len(tab), NEW i \in Nat \ {0}, i < k
  PROVE  Without(tab, k, i) = <<tab[i]>> \o Without(tab, k, i + 1)
<1> DEFINE n == Len(tab)
           after1 == [j \in 1..(n - 2 - i) |-> IF i + j < k THEN tab[i + j] ELSE tab[i + j + 2]]
<1>1. n \in Nat /\ i \in 1..n /\ i + 2 <= n  OBVIOUS
<1>2. Without(tab, k, i + 1) = after1
  <2>1. /\ n - 1 - (i + 1) = n - 2 - i
        /\ \A j \in 1..(n - 2 - i) : i + 1 + j - 1 = i + j /\ i + 1 + j + 1 = i + j + 2
    BY <1>1
  <2> QED  BY <2>1 DEF Without
<1>3. <<tab[i]>> \o after1 = Without(tab, k, i)
  <2>1. Len(<<tab[i]>>) = 1 /\ Len(after1) = n - 2 - i /\ DOMAIN after1 = 1..(n - 2 - i)
    BY <1>1
  <2>2. /\ DOMAIN (<<tab[i]>> \o after1) = 1..(n - 1 - i)
        /\ DOMAIN Without(tab, k, i) = 1..(n - 1 - i)
    BY <1>1, <2>1 DEF Without
  <2>3. ASSUME NEW j \in 1..(n - 1 - i)
        PROVE  (<<tab[i]>> \o after1)[j] = Without(tab, k, i)[j]
    <3>1. CASE j = 1
      BY <3>1, <1>1, <2>1 DEF Without
    <3>2. CASE j # 1
      <4>1. (<<tab[i]>> \o after1)[j] = after1[j - 1]
        BY SMTT(30), <3>2, <1>1, <2>1
      <4>2. j - 1 \in 1..(n - 2 - i) /\ i + (j - 1) = i + j - 1 /\ i + (j - 1) + 2 = i + j + 1
        BY <3>2, <1>1
      <4> QED  BY <4>1, <4>2 DEF Without
    <3> QED  BY <3>1, <3>2
  <2>4. <<tab[i]>> \o after1 = [j \in 1..(n - 1 - i) |-> (<<tab[i]>> \o after1)[j]]
    BY <2>1, <2>2
  <2>5. Without(tab, k, i) = [j \in 1..(n - 1 - i) |-> Without(tab, k, i)[j]]
    BY DEF Without
  <2> HIDE DEF after1
  <2> QED  BY <2>3, <2>4, <2>5
<1> QED  BY <1>2, <1>3

\* A table without the marker of a plan is left as it is.
LEMMA StripNone ==
  ASSUME NEW tab \in Seq(TabLines), NEW p, \A i \in DOMAIN tab : tab[i] # Marker(p)
  PROVE  Strip(tab, p) = tab
<1> DEFINE n == Len(tab)
           rest == [i \in 1..(n + 2) |-> From(tab, i)]
<1>1. n \in Nat /\ DOMAIN tab = 1..n /\ Drops = 2  BY DEF Drops
<1>2. ASSUME NEW i \in 1..(n + 2)
      PROVE  rest[i] = IF i > n THEN <<>>
                       ELSE IF tab[i] = Marker(p) THEN rest[i + 2]
                       ELSE <<tab[i]>> \o rest[i + 1]
  <2>1. CASE i > n
    BY <2>1, <1>1 DEF From
  <2>2. CASE i <= n
    <3>1. rest[i] = From(tab, i) /\ rest[i + 1] = From(tab, i + 1)
      BY <2>2, <1>1
    <3>2. i \in Nat \ {0} /\ i \in DOMAIN tab /\ ~(i > n)
      BY <2>2, <1>1
    <3>3. rest[i] = <<tab[i]>> \o rest[i + 1]
      BY <2>2, <3>1, <3>2, FromLine
    <3> QED  BY <3>2, <3>3
  <2>3. i > n \/ i <= n  BY <1>1
  <2> HIDE DEF rest, n
  <2> QED  BY <2>1, <2>2, <2>3
<1>3. rest = Onward(tab, p, rest)
  <2>1. rest = [i \in 1..(n + 2) |-> rest[i]]  OBVIOUS
  <2> HIDE DEF rest
  <2> QED  BY <1>1, <1>2, <2>1 DEF Onward
<1>4. rest[1] = tab
  BY <1>1 DEF From
<1> HIDE DEF rest
<1> QED  BY <1>3, <1>4, StripIs

\* From a table in order that has it, it takes the marker and the line below.
LEMMA StripOne ==
  ASSUME NEW tab \in Tables, NEW p, NEW k \in DOMAIN tab, tab[k] = Marker(p)
  PROVE  /\ k < Len(tab)
         /\ Strip(tab, p) = Without(tab, k, 1)
<1> DEFINE n == Len(tab)
           rest == [i \in 1..(n + 2) |->
                      IF i <= k THEN Without(tab, k, i) ELSE From(tab, i)]
<1>1. n \in Nat /\ DOMAIN tab = 1..n /\ Drops = 2 /\ k \in 1..n /\ tab \in Seq(TabLines)
  BY DEF Drops, Tables
<1>2. k + 1 \in 1..n /\ \A i \in 1..n : tab[i] = Marker(p) => i = k
  BY <1>1 DEF Tables, Ordered, Is, Marker
<1>3. ASSUME NEW i \in 1..(n + 2)
      PROVE  rest[i] = IF i > n THEN <<>>
                       ELSE IF tab[i] = Marker(p) THEN rest[i + 2]
                       ELSE <<tab[i]>> \o rest[i + 1]
  <2>0. i \in Nat \ {0} /\ k \in Nat  BY <1>1
  <2>1. CASE i > n
    <3>1. rest[i] = From(tab, i)  BY <2>1, <1>1
    <3>2. From(tab, i) = <<>>  BY <2>1, <1>1 DEF From
    <3> QED  BY <2>1, <3>1, <3>2
  <2>2. CASE i = k
    <3>1. rest[i + 2] = From(tab, k + 2) /\ rest[i] = Without(tab, k, k) /\ ~(i > n)
      BY <2>2, <1>1, <1>2
    <3>2. From(tab, k + 2) = [j \in 1..(n - 1 - k) |-> tab[k + j + 1]]
      <4>1. n + 1 - (k + 2) = n - 1 - k /\ \A j \in 1..(n - 1 - k) : k + 2 + j - 1 = k + j + 1
        BY <1>1
      <4> QED  BY <4>1 DEF From
    <3>3. Without(tab, k, k) = [j \in 1..(n - 1 - k) |-> tab[k + j + 1]]
      <4>1. \A j \in 1..(n - 1 - k) : ~(k + j - 1 < k)  BY <1>1
      <4> QED  BY <4>1 DEF Without
    <3> QED  BY <2>2, <3>1, <3>2, <3>3
  <2>3. CASE i < k
    <3>1. rest[i + 1] = Without(tab, k, i + 1) /\ rest[i] = Without(tab, k, i)
      BY <2>3, <1>1, <1>2
    <3>2. ~(i > n) /\ tab[i] # Marker(p) /\ k < n  BY <2>3, <1>1, <1>2
    <3>3. rest[i] = <<tab[i]>> \o rest[i + 1]
      BY SMTT(30), <2>0, <2>3, <3>1, <3>2, <1>1, WithoutLine
    <3> QED  BY <3>2, <3>3
  <2>4. CASE i > k /\ i <= n
    <3>1. rest[i + 1] = From(tab, i + 1) /\ rest[i] = From(tab, i)
      BY <2>4, <1>1
    <3>2. tab[i] # Marker(p) /\ ~(i > n)  BY <2>4, <1>1, <1>2
    <3>3. rest[i] = <<tab[i]>> \o rest[i + 1]
      BY <2>0, <2>4, <3>1, <1>1, FromLine
    <3> QED  BY <3>2, <3>3
  <2> QED  BY <2>1, <2>2, <2>3, <2>4, <1>1
<1>4. rest = Onward(tab, p, rest)
  <2>1. rest = [i \in 1..(n + 2) |-> rest[i]]  OBVIOUS
  <2> HIDE DEF rest
  <2> QED  BY <1>1, <1>3, <2>1 DEF Onward
<1>5. rest[1] = Without(tab, k, 1)
  BY <1>1, <1>2
<1> HIDE DEF rest
<1> QED  BY <1>1, <1>2, <1>4, <1>5, StripIs

\* Stripping keeps a table in order and every line that is no marker and no
\* entry, and leaves no marker of the plan.
OwnLines(tab) == {line \in ToSet(tab) : line.kind = "own"}

LEMMA StripKeeps ==
  ASSUME NEW tab \in Tables, NEW p
  PROVE  /\ Strip(tab, p) \in Tables
         /\ OwnLines(tab) \subseteq OwnLines(Strip(tab, p))
         /\ \A i \in Is(Strip(tab, p), "marker") : Strip(tab, p)[i].plan # p
<1> DEFINE n == Len(tab)
<1>1. /\ tab \in Seq(TabLines) /\ Ordered(tab) /\ n \in Nat /\ DOMAIN tab = 1..n
      /\ \A i \in 1..n : tab[i] \in TabLines
  BY DEF Tables
<1>2. CASE \A i \in DOMAIN tab : tab[i] # Marker(p)
  <2>1. Strip(tab, p) = tab
    BY <1>1, <1>2, StripNone
  <2>2. ASSUME NEW i \in Is(tab, "marker") PROVE tab[i].plan # p
    BY <1>1, <1>2 DEF Is, TabLines, Marker
  <2> QED  BY <2>1, <2>2
<1>3. CASE \E k \in DOMAIN tab : tab[k] = Marker(p)
  <2>1. PICK k \in 1..n : tab[k] = Marker(p)
    BY <1>1, <1>3
  <2> DEFINE s == Strip(tab, p)
             old(j) == IF j < k THEN j ELSE j + 2
  <2>2. /\ k < n
        /\ s = Without(tab, k, 1)
    BY <1>1, <2>1, StripOne
  <2>3. DOMAIN s = 1..(n - 2) /\ \A j \in 1..(n - 2) : s[j] = tab[old(j)]
    <3>1. n - 1 - 1 = n - 2 /\ \A j \in 1..(n - 2) : 1 + j - 1 = j /\ 1 + j + 1 = j + 2
      BY <1>1
    <3> QED  BY <2>2, <3>1 DEF Without
  <2>4. s = [j \in 1..(n - 2) |-> s[j]]
    BY <2>2, <2>3 DEF Without
  <2> HIDE DEF s
  <2>5. /\ \A j \in 1..(n - 2) : old(j) \in 1..n /\ old(j) # k /\ old(j) # k + 1
        /\ \A i, j \in 1..(n - 2) : old(i) = old(j) => i = j
        /\ n - 2 \in Nat
    BY <1>1, <2>1, <2>2
  <2>6. tab[k].kind = "marker" /\ tab[k].plan = p /\ tab[k + 1].kind = "entry" /\ k + 1 \in 1..n
    BY <1>1, <2>1 DEF Marker, Ordered, Is
  <2>7. s \in Seq(TabLines)
    BY <1>1, <2>3, <2>4, <2>5
  <2>8. ASSUME NEW i \in Is(s, "marker")
        PROVE  i + 1 \in Is(s, "entry") /\ s[i + 1].plan = s[i].plan
    <3>1. /\ i \in 1..(n - 2) /\ old(i) \in Is(tab, "marker") /\ s[i] = tab[old(i)]
          /\ old(i) + 1 \in 1..n
          /\ tab[old(i) + 1].kind = "entry" /\ tab[old(i) + 1].plan = s[i].plan
      BY <1>1, <2>3, <2>5 DEF Is, Ordered
    <3>2. i + 1 # k
      BY <3>1, <2>1, <2>6
    <3>3. i + 1 \in 1..(n - 2) /\ old(i + 1) = old(i) + 1
      BY <3>1, <3>2, <2>1, <2>6, <1>1
    <3> HIDE DEF old
    <3>4. s[i + 1] = tab[old(i) + 1]
      BY <3>3, <2>3
    <3> QED  BY <3>1, <3>3, <3>4, <2>3 DEF Is
  <2>9. ASSUME NEW i \in Is(s, "entry") PROVE i - 1 \in Is(s, "marker")
    <3>1. i \in 1..(n - 2) /\ old(i) - 1 \in 1..n /\ tab[old(i) - 1].kind = "marker"
      BY <1>1, <2>3, <2>5 DEF Is, Ordered
    <3>2. i # k
      BY <3>1, <2>1, <2>6
    <3>3. i - 1 \in 1..(n - 2) /\ old(i - 1) = old(i) - 1
      BY <3>1, <3>2, <2>1, <1>1
    <3> HIDE DEF old
    <3>4. s[i - 1] = tab[old(i) - 1]
      BY <3>3, <2>3
    <3> QED  BY <3>1, <3>3, <3>4, <2>3 DEF Is
  <2>10. \A i \in Is(s, "marker") : i \in 1..(n - 2) /\ old(i) \in Is(tab, "marker")
                                    /\ s[i] = tab[old(i)]
    BY <2>3, <2>5, <1>1 DEF Is
  <2>11. ASSUME NEW i \in Is(s, "marker"), NEW j \in Is(s, "marker"), s[i].plan = s[j].plan
         PROVE  i = j
    <3> HIDE DEF old
    <3>1. old(i) = old(j)
      BY <1>1, <2>10, <2>11 DEF Ordered
    <3> QED  BY <3>1, <2>5, <2>10
  <2>12. \A i \in Is(s, "marker") : s[i].plan # p
    <3>1. k \in Is(tab, "marker")
      BY <2>1, <2>6, <1>1 DEF Is
    <3> QED  BY <1>1, <2>5, <2>6, <2>10, <3>1 DEF Ordered
  <2>13. ASSUME NEW line \in OwnLines(tab) PROVE line \in OwnLines(s)
    <3>1. PICK i \in 1..n : line = tab[i] /\ line.kind = "own"
      BY <1>1 DEF OwnLines, ToSet
    <3>2. i # k /\ i # k + 1
      BY <3>1, <2>6
    <3>3. \E j \in 1..(n - 2) : old(j) = i
      <4>1. CASE i < k
        BY <4>1, <2>1, <2>6, <1>1
      <4>2. CASE i > k
        <5>1. i - 2 \in 1..(n - 2) /\ old(i - 2) = i
          BY <4>2, <3>2, <2>1, <1>1
        <5> HIDE DEF old
        <5> QED  BY <5>1
      <4> QED  BY <4>1, <4>2, <3>2, <2>1
    <3> HIDE DEF old
    <3>4. \E j \in DOMAIN s : s[j] = line
      BY <3>1, <3>3, <2>3
    <3> QED  BY <3>1, <3>4 DEF OwnLines, ToSet
  <2>14. s \in Tables
    BY <2>7, <2>8, <2>9, <2>11 DEF Tables, Ordered
  <2> QED  BY <2>12, <2>13, <2>14 DEF s
<1> QED  BY <1>2, <1>3

\* The two lines of a plan at the end of a table that has none of its own.
LEMMA InstallKeeps ==
  ASSUME NEW tab \in Tables, NEW p \in Jobs, p # Gc => file[p].edit \in Nat
  PROVE  Installed(tab, p) \in Tables /\ OwnLines(tab) \subseteq OwnLines(Installed(tab, p))
<1> DEFINE s == Strip(tab, p)
           e == Entry(p, IF p = Gc THEN 0 ELSE file[p].edit)
           s2 == s \o <<Marker(p), e>>
           n == Len(s)
<1>1. /\ s \in Tables /\ OwnLines(tab) \subseteq OwnLines(s)
      /\ \A i \in Is(s, "marker") : s[i].plan # p
  BY StripKeeps
<1>2. Installed(tab, p) = s2
  BY DEF Installed, Lines
<1>3. /\ Marker(p) \in TabLines /\ Marker(p).kind = "marker" /\ Marker(p).plan = p
      /\ e \in TabLines /\ e.kind = "entry" /\ e.plan = p
  BY DEF Marker, Entry, TabLines
<1> HIDE DEF s, e
<1>4. s \in Seq(TabLines) /\ Ordered(s) /\ n \in Nat /\ DOMAIN s = 1..n
  BY <1>1 DEF Tables
<1>5. /\ s2 \in Seq(TabLines) /\ DOMAIN s2 = 1..(n + 2)
      /\ \A i \in 1..n : s2[i] = s[i]
      /\ s2[n + 1] = Marker(p) /\ s2[n + 2] = e
  BY <1>3, <1>4
<1> HIDE DEF s2, n
<1>6. /\ Is(s2, "marker") = Is(s, "marker") \cup {n + 1}
      /\ Is(s2, "entry") = Is(s, "entry") \cup {n + 2}
      /\ Is(s, "marker") \subseteq 1..n /\ Is(s, "entry") \subseteq 1..n
  BY <1>3, <1>4, <1>5 DEF Is
<1>7. ASSUME NEW i \in Is(s2, "marker")
      PROVE  i + 1 \in Is(s2, "entry") /\ s2[i + 1].plan = s2[i].plan
  <2>1. CASE i = n + 1
    <3>1. i + 1 = n + 2  BY <2>1, <1>4
    <3> QED  BY <2>1, <3>1, <1>3, <1>5, <1>6
  <2>2. CASE i \in Is(s, "marker")
    BY <2>2, <1>4, <1>5, <1>6 DEF Ordered
  <2> QED  BY <2>1, <2>2, <1>6
<1>8. ASSUME NEW i \in Is(s2, "entry") PROVE i - 1 \in Is(s2, "marker")
  <2>1. CASE i = n + 2
    <3>1. i - 1 = n + 1  BY <2>1, <1>4
    <3> QED  BY <3>1, <1>6
  <2>2. CASE i \in Is(s, "entry")
    BY <2>2, <1>4, <1>6 DEF Ordered
  <2> QED  BY <2>1, <2>2, <1>6
<1>9. ASSUME NEW i \in Is(s2, "marker"), NEW j \in Is(s2, "marker"), s2[i].plan = s2[j].plan
      PROVE  i = j
  BY <1>1, <1>3, <1>4, <1>5, <1>6, <1>9 DEF Ordered
<1>10. OwnLines(s) \subseteq OwnLines(s2)
  BY <1>4, <1>5 DEF OwnLines, ToSet
<1> QED  BY <1>1, <1>2, <1>5, <1>7, <1>8, <1>9, <1>10 DEF Tables, Ordered

\* A line of the operator's at either end.
LEMMA OwnLineKeeps ==
  ASSUME NEW tab \in Tables, NEW o \in [kind : {"own"}, plan : {"none"}, edit : Nat]
  PROVE  /\ Append(tab, o) \in Tables /\ <<o>> \o tab \in Tables
         /\ ToSet(Append(tab, o)) = ToSet(tab) \cup {o}
         /\ ToSet(<<o>> \o tab) = ToSet(tab) \cup {o}
<1> DEFINE n == Len(tab)
           last == Append(tab, o)
           first == <<o>> \o tab
<1>1. tab \in Seq(TabLines) /\ Ordered(tab) /\ n \in Nat /\ DOMAIN tab = 1..n
  BY DEF Tables
<1>2. o \in TabLines /\ o.kind = "own"  BY DEF TabLines
<1>3. /\ last \in Seq(TabLines) /\ DOMAIN last = 1..(n + 1)
      /\ \A i \in 1..n : last[i] = tab[i]
      /\ last[n + 1] = o
  BY <1>1, <1>2
<1>4. /\ first \in Seq(TabLines) /\ DOMAIN first = 1..(n + 1)
      /\ \A i \in 2..(n + 1) : first[i] = tab[i - 1]
      /\ first[1] = o
  BY <1>1, <1>2
<1> HIDE DEF n, last, first
<1>5. \A kind \in {"marker", "entry"} : Is(last, kind) = Is(tab, kind) /\ Is(tab, kind) \subseteq 1..n
  BY <1>1, <1>2, <1>3 DEF Is
<1>6. Ordered(last)
  BY <1>1, <1>3, <1>5 DEF Ordered
<1>7. \A kind \in {"marker", "entry"} : \A i \in 1..n : i \in Is(tab, kind) <=> i + 1 \in Is(first, kind)
  BY <1>1, <1>4 DEF Is
<1>8. \A kind \in {"marker", "entry"} : \A i \in Is(first, kind) :
        i - 1 \in Is(tab, kind) /\ i - 1 \in 1..n /\ first[i] = tab[i - 1]
  BY <1>1, <1>2, <1>4 DEF Is
<1>9. Ordered(first)
  <2>1. ASSUME NEW i \in Is(first, "marker")
        PROVE  i + 1 \in Is(first, "entry") /\ first[i + 1].plan = first[i].plan
    <3>1. /\ i - 1 \in Is(tab, "marker") /\ i - 1 \in 1..n /\ first[i] = tab[i - 1]
          /\ i \in Nat
      BY <1>8, <1>4 DEF Is
    <3>2. (i - 1) + 1 = i /\ i \in Is(tab, "entry") /\ tab[i].plan = first[i].plan
      BY <3>1, <1>1 DEF Ordered
    <3>3. i \in 1..n  BY <3>2, <1>1 DEF Is
    <3>4. first[i + 1] = tab[i]  BY <3>3, <1>1, <1>4
    <3> QED  BY <3>2, <3>3, <3>4, <1>7
  <2>2. ASSUME NEW i \in Is(first, "entry") PROVE i - 1 \in Is(first, "marker")
    <3>1. i - 1 \in Is(tab, "entry") /\ i \in Nat  BY <1>8, <1>4 DEF Is
    <3>2. (i - 1) - 1 \in Is(tab, "marker") /\ (i - 1) - 1 \in 1..n
      BY <3>1, <1>1 DEF Ordered, Is
    <3>3. (i - 1) - 1 + 1 = i - 1  BY <3>1
    <3> QED  BY <3>2, <3>3, <1>7
  <2>3. ASSUME NEW i \in Is(first, "marker"), NEW j \in Is(first, "marker"),
               first[i].plan = first[j].plan
        PROVE  i = j
    <3>1. i - 1 = j - 1 /\ i \in Nat /\ j \in Nat
      BY <2>3, <1>1, <1>4, <1>8 DEF Ordered, Is
    <3> QED  BY <3>1
  <2> QED  BY <2>1, <2>2, <2>3 DEF Ordered
<1>10. ToSet(last) = ToSet(tab) \cup {o}
  BY <1>1, <1>3 DEF ToSet
<1>11. ToSet(first) = ToSet(tab) \cup {o}
  <2>1. ASSUME NEW i \in 1..(n + 1) PROVE first[i] = o \/ \E j \in 1..n : first[i] = tab[j]
    <3>1. i = 1 \/ (i \in 2..(n + 1) /\ i - 1 \in 1..n)  BY <1>1
    <3> QED  BY <3>1, <1>4
  <2>2. ASSUME NEW i \in 1..n PROVE \E j \in DOMAIN first : first[j] = tab[i]
    <3>1. i + 1 \in 2..(n + 1) /\ (i + 1) - 1 = i  BY <1>1
    <3>2. first[i + 1] = tab[(i + 1) - 1] /\ i + 1 \in DOMAIN first  BY <3>1, <1>1, <1>4
    <3> QED  BY <3>1, <3>2
  <2>3. ASSUME NEW line \in ToSet(first) PROVE line \in ToSet(tab) \cup {o}
    <3>1. PICK i \in 1..(n + 1) : line = first[i]
      BY <1>4 DEF ToSet
    <3>2. line = o \/ \E j \in DOMAIN tab : line = tab[j]
      BY <3>1, <2>1, <1>1
    <3> QED  BY <3>2 DEF ToSet
  <2>4. \A line \in ToSet(tab) : line \in ToSet(first)
    BY <2>2, <1>1 DEF ToSet
  <2>5. o \in ToSet(first)
    BY <1>1, <1>4 DEF ToSet
  <2> QED  BY <2>3, <2>4, <2>5
<1> QED  BY <1>3, <1>4, <1>6, <1>9, <1>10, <1>11 DEF Tables, last, first
----------------------------------------------------------------------------
(* The plans: what every step leaves typed, and tables in order. *)

\* The steps of one process, and those that are nobody's.
ProcessStep(t) ==
  \/ \E p \in PlanIds : OpenWizard(t, p) \/ RunPlan(t, p)
  \/ \E p \in Jobs : BeginInstall(t, p) \/ BeginRemove(t, p)
  \/ SaveOpen(t) \/ SaveWrite(t) \/ CloseWizard(t)
  \/ MarkRead(t) \/ MarkOpen(t) \/ MarkFill(t) \/ MarkReplace(t)
  \/ WriteTab(t) \/ TuiDies(t) \/ WriteFails(t)

PlansStep ==
  \/ \E p \in PlanIds : StartScreen(p) \/ DeletePlan(p)
  \/ \E t \in Tuis : ProcessStep(t)
  \/ OperatorEdits

LEMMA PlanMoves ==
  ASSUME [Next]_vars
  PROVE  PlansStep \/ UNCHANGED planVars
<1> USE WatchedAssumption DEF ProcessStep, PlansStep
<1>1. CASE \E p \in PlanIds : StartScreen(p)
  BY <1>1
<1>2. CASE Thread \/ ScreenKey
  BY <1>2 DEF Thread, ScreenKey
<1>3. CASE Finished
  BY <1>3 DEF Finished
<1>4. ASSUME NEW t \in Tuis, FileStep(t) \/ Fails(t) \/ Key(t) \/ Dies(t)
      PROVE  PlansStep
  BY <1>4 DEF FileStep, PlanStep, Key, AtHome, Dies, Fails, Jobs
<1>5. CASE Elsewhere /\ UNCHANGED workerVars
  BY <1>5 DEF Elsewhere
<1>6. CASE UNCHANGED vars
  BY <1>6 DEF vars
<1> QED  BY <1>1, <1>2, <1>3, <1>4, <1>5, <1>6 DEF Next

\* What a step makes of a process is one.
LEMMA EmptyTable == <<>> \in Tables
BY DEF Tables, Ordered, Is

LEMMA IdleTyped == Idle \in Procs /\ Idle.at = "home" /\ Idle.fd = "none"
BY EmptyTable DEF Idle, Procs, Places, Files, NoPlan

LEMMA ProcTyped ==
  ASSUME NEW q \in Procs, NEW a \in Places, NEW p \in PlanIds, NEW c \in Files,
         NEW f \in {"none", "file", "tmp", "lost"}, NEW tab \in Tables
  PROVE  /\ [q EXCEPT !.at = a] \in Procs
         /\ [q EXCEPT !.fd = f] \in Procs
         /\ [q EXCEPT !.at = a, !.fd = f] \in Procs
         /\ [q EXCEPT !.at = a, !.copy = c] \in Procs
         /\ [q EXCEPT !.at = a, !.tab = tab] \in Procs
         /\ [q EXCEPT !.at = a, !.plan = p, !.copy = c] \in Procs
BY DEF Procs

LEMMA PlansStart == ASSUME Init PROVE PlansTyped
<1> USE PlansAssumption DEF Init, PlansInit
<1>1. <<Own(0)>> \in Tables
  <2>1. Own(0) \in [kind : {"own"}, plan : {"none"}, edit : Nat]  BY DEF Own
  <2>2. Append(<<>>, Own(0)) \in Tables  BY <2>1, EmptyTable, OwnLineKeeps
  <2> QED  BY <2>2
<1>2. /\ NoPlan \in Files /\ Saved \in Files
  BY DEF NoPlan, Saved, Files
<1>3. /\ made \in [PlanIds -> SUBSET Nat]
      /\ \A p \in PlanIds : IsFiniteSet(made[p])
  <2>1. IsFiniteSet({}) /\ IsFiniteSet({0})  BY FS_EmptySet, FS_Singleton
  <2>2. \A p \in PlanIds : made[p] = {} \/ made[p] = {0}  OBVIOUS
  <2>3. made \in [PlanIds -> SUBSET Nat]  OBVIOUS
  <2> QED  BY <2>1, <2>2, <2>3
<1>4. own \subseteq [kind : {"own"}, plan : {"none"}, edit : Nat]
  BY DEF Own
<1>5. \A t \in Tuis : proc[t].at \notin InHand
  BY IdleTyped DEF InHand
<1> QED
  BY <1>1, <1>2, <1>3, <1>4, <1>5, IdleTyped DEF PlansTyped

\* What a step of a process may make of its own entry, and of nobody else's.
LEMMA Becomes ==
  ASSUME PlansTyped, NEW t \in Tuis, NEW q \in Procs, Become(t, q),
         q.at \in InHand => q.plan \in PlanIds
  PROVE  /\ proc' \in [Tuis -> Procs]
         /\ \A u \in Tuis : proc'[u].at \in InHand => proc'[u].plan \in PlanIds
         /\ proc'[t] = q
         /\ \A u \in Tuis \ {t} : proc'[u] = proc[u]
BY DEF PlansTyped, Become

LEMMA PlansGoOn ==
  ASSUME PlansTyped, PlansStep \/ UNCHANGED planVars
  PROVE  PlansTyped'
<1> DEFINE Stay == UNCHANGED <<file, tmp, made>> /\ crontab' = crontab /\ own' = own
           ProcsOk == /\ proc' \in [Tuis -> Procs]
                      /\ \A u \in Tuis : proc'[u].at \in InHand => proc'[u].plan \in PlanIds
<1>a. /\ Torn \in Files /\ NoPlan \in Files
      /\ \A f \in Files : \A n \in Nat : [f EXCEPT !.last = n] \in Files
  BY DEF Torn, NoPlan, Files
<1>b. Places = {"home", "wizard", "saving", "running", "marking", "filling",
                "replacing", "table", "gone"}
  BY DEF Places
<1>c. \A d \in Deeds : Spend(d) => left' \in [Deeds -> Nat]
  BY DEF Spend, PlansTyped
<1>d. /\ {"edit", "run", "screen", "cron", "own", "delete", "die", "fail"} \subseteq Deeds
  BY DEF Deeds
<1>e. ASSUME NEW t \in Tuis, proc[t].at \in InHand
      PROVE  proc[t].plan \in PlanIds /\ file[proc[t].plan] \in Files /\ tmp[proc[t].plan] \in Files
  BY <1>e DEF PlansTyped
<1>f. \A t \in Tuis : proc[t] \in Procs /\ proc[t].copy \in Files
                      /\ proc[t].copy.last \in Nat /\ proc[t].tab \in Tables
  BY DEF PlansTyped, Procs, Files
<1>g. ASSUME NEW new \in Files, NEW old PROVE WrittenOver(new, old) \subseteq Files
  BY <1>a DEF WrittenOver
<1>1. ASSUME NEW p \in PlanIds, NEW t \in Tuis,
             Become(t, [Idle EXCEPT !.at = "wizard", !.plan = p, !.copy = file[p]])
             \/ Become(t, [Idle EXCEPT !.at = "running", !.plan = p, !.copy = file[p]])
      PROVE  ProcsOk
  <2>1. file[p] \in Files  BY DEF PlansTyped
  <2>2. \A a \in {"wizard", "running"} :
          /\ [Idle EXCEPT !.at = a, !.plan = p, !.copy = file[p]] \in Procs
          /\ [Idle EXCEPT !.at = a, !.plan = p, !.copy = file[p]].plan = p
    BY <2>1, <1>b, IdleTyped DEF Procs
  <2> QED  BY <1>1, <2>2, Becomes
<1>2. ASSUME NEW t \in Tuis, Become(t, Idle) PROVE ProcsOk
  BY <1>2, IdleTyped, Becomes DEF InHand
<1>3. CASE \E p \in PlanIds : StartScreen(p)
  <2>1. ProcsOk
    BY <1>1, <1>3, WatchedAssumption DEF StartScreen, PlansTyped
  <2> QED  BY <1>3, <2>1, <1>c, <1>d DEF StartScreen, PlansTyped
<1>4. CASE \E p \in PlanIds : DeletePlan(p)
  <2>1. PICK p \in PlanIds : DeletePlan(p)  BY <1>4
  <2>2. \A u \in Tuis : proc'[u] = proc[u] \/ proc'[u] = [proc[u] EXCEPT !.fd = "lost"]
    BY <2>1 DEF DeletePlan, Unlinked
  <2>3. \A u \in Tuis : /\ [proc[u] EXCEPT !.fd = "lost"] \in Procs
                         /\ [proc[u] EXCEPT !.fd = "lost"].at = proc[u].at
                         /\ [proc[u] EXCEPT !.fd = "lost"].plan = proc[u].plan
    BY <1>f DEF Procs
  <2>4. \A u \in Tuis : proc'[u] \in Procs
                        /\ (proc'[u].at \in InHand => proc'[u].plan \in PlanIds)
    BY <2>2, <2>3, <1>e, <1>f
  <2>5. proc' = [u \in Tuis |-> proc'[u]]
    BY <2>1 DEF DeletePlan, Unlinked
  <2> QED  BY <2>1, <2>4, <2>5, <1>a, <1>c, <1>d DEF DeletePlan, PlansTyped
<1>5. ASSUME NEW t \in Tuis, NEW p \in PlanIds, OpenWizard(t, p) \/ RunPlan(t, p)
      PROVE  PlansTyped'
  BY <1>1, <1>5, <1>c, <1>d DEF OpenWizard, RunPlan, PlansTyped
<1>6. ASSUME NEW t \in Tuis, NEW p \in Jobs, BeginInstall(t, p) \/ BeginRemove(t, p)
      PROVE  PlansTyped'
  <2>1. ASSUME NEW tab \in ReadTab PROVE tab \in Tables
    BY <2>1, EmptyTable DEF ReadTab, PlansTyped
  <2>2. p # Gc => file[p].edit \in Nat
    BY DEF Jobs, PlansTyped, Files
  <2>3. \A tab \in ReadTab : Installed(tab, p) \in Tables /\ Strip(tab, p) \in Tables
    BY <2>1, <2>2, InstallKeeps, StripKeeps
  <2>4. ASSUME NEW tab \in Tables, Become(t, [Idle EXCEPT !.at = "table", !.tab = tab])
        PROVE  ProcsOk
    <3>1. /\ [Idle EXCEPT !.at = "table", !.tab = tab] \in Procs
          /\ [Idle EXCEPT !.at = "table", !.tab = tab].at = "table"
      BY <1>a, <1>b, IdleTyped DEF Procs, Idle
    <3> QED  BY <2>4, <3>1, Becomes DEF InHand
  <2>5. ProcsOk
    BY <1>6, <2>3, <2>4 DEF BeginInstall, BeginRemove, PlansTyped
  <2> QED  BY <1>6, <2>5, <1>c, <1>d DEF BeginInstall, BeginRemove, PlansTyped
<1>7. ASSUME NEW t \in Tuis, SaveOpen(t) PROVE PlansTyped'
  <2>1. /\ [proc[t] EXCEPT !.at = "saving", !.fd = "file"] \in Procs
        /\ [proc[t] EXCEPT !.at = "saving", !.fd = "file"].plan = proc[t].plan
    BY <1>b, <1>f DEF Procs
  <2>2. proc[t].plan \in PlanIds
    BY <1>7, <1>e DEF SaveOpen, At, InHand
  <2>3. ProcsOk
    BY <1>7, <2>1, <2>2, Becomes DEF SaveOpen
  <2> QED  BY <1>7, <2>3, <1>a DEF SaveOpen, PlansTyped
<1>8. ASSUME NEW t \in Tuis, SaveWrite(t) PROVE PlansTyped'
  <2>1. proc[t].plan \in PlanIds
    BY <1>8, <1>e DEF SaveWrite, At, InHand
  <2>2. Captured(t) \in Nat
    BY <2>1, FS_CardinalityType DEF Captured, PlansTyped
  <2>3. Draft(t) \in Files /\ Draft(t).edit \in Nat
    BY <2>2, <1>f DEF Draft, Files
  <2>4. file' \in [PlanIds -> Files]
    BY <1>8, <2>1, <2>3, <1>g DEF SaveWrite, PlansTyped
  <2>5. made' \in [PlanIds -> SUBSET Nat] /\ \A p \in PlanIds : IsFiniteSet(made'[p])
    <3>1. made' = [made EXCEPT ![proc[t].plan] = @ \cup {Draft(t).edit}]
      BY <1>8 DEF SaveWrite
    <3>2. IsFiniteSet(made[proc[t].plan] \cup {Draft(t).edit})
      BY <2>1, FS_AddElement DEF PlansTyped
    <3> QED  BY <2>1, <2>3, <3>1, <3>2 DEF PlansTyped
  <2> QED  BY <1>2, <1>8, <2>4, <2>5 DEF SaveWrite, PlansTyped
<1>9. ASSUME NEW t \in Tuis, CloseWizard(t) PROVE PlansTyped'
  BY <1>2, <1>9 DEF CloseWizard, PlansTyped
<1>10. ASSUME NEW t \in Tuis, MarkRead(t) PROVE PlansTyped'
  <2>1. stamp' \in Nat /\ stamp + 1 \in Nat  BY <1>10 DEF MarkRead, PlansTyped
  <2>2. proc[t].plan \in PlanIds /\ file[proc[t].plan] \in Files
    BY <1>10, <1>e DEF MarkRead, At, InHand
  <2> DEFINE c == [file[proc[t].plan] EXCEPT !.last = stamp + 1]
             q == [proc[t] EXCEPT !.at = "marking", !.copy = c]
  <2>3. c \in Files  BY <2>1, <2>2, <1>a
  <2> HIDE DEF c
  <2>4. q \in Procs /\ q.plan = proc[t].plan
    BY <2>3, <1>b, <1>f DEF Procs
  <2> HIDE DEF q
  <2>5. Become(t, q) \/ Become(t, Idle)
    BY <1>10 DEF MarkRead, q, c
  <2>6. ProcsOk
    BY <1>2, <2>2, <2>4, <2>5, Becomes
  <2> QED  BY <1>10, <2>1, <2>6 DEF MarkRead, PlansTyped
<1>11. ASSUME NEW t \in Tuis, MarkOpen(t) PROVE PlansTyped'
  <2>1. /\ [proc[t] EXCEPT !.at = "filling", !.fd = "tmp"] \in Procs
        /\ [proc[t] EXCEPT !.at = "filling", !.fd = "tmp"].plan = proc[t].plan
    BY <1>b, <1>f DEF Procs
  <2>2. proc[t].plan \in PlanIds
    BY <1>11, <1>e DEF MarkOpen, At, InHand
  <2>3. ProcsOk
    BY <1>11, <2>1, <2>2, Becomes DEF MarkOpen, Scratch
  <2> QED  BY <1>11, <2>3, <1>a DEF MarkOpen, Scratch, PlansTyped
<1>12. ASSUME NEW t \in Tuis, MarkFill(t) PROVE PlansTyped'
  <2>1. /\ [proc[t] EXCEPT !.at = "replacing", !.fd = "none"] \in Procs
        /\ [proc[t] EXCEPT !.at = "replacing", !.fd = "none"].plan = proc[t].plan
    BY <1>b, <1>f DEF Procs
  <2>2. proc[t].plan \in PlanIds
    BY <1>12, <1>e DEF MarkFill, At, InHand
  <2>3. ProcsOk
    BY <1>12, <2>1, <2>2, Becomes DEF MarkFill
  <2>4. file' \in [PlanIds -> Files] /\ tmp' \in [PlanIds -> Files]
    BY <1>12, <2>2, <1>f, <1>g DEF MarkFill, PlansTyped
  <2> QED  BY <1>12, <2>3, <2>4 DEF MarkFill, PlansTyped
<1>13. ASSUME NEW t \in Tuis, MarkReplace(t) PROVE PlansTyped'
  <2>1. proc[t].plan \in PlanIds /\ tmp[proc[t].plan] \in Files
    BY <1>13, <1>e DEF MarkReplace, At, InHand
  <2>2. \A u \in Tuis : proc'[u] \in {Idle, proc[u], [proc[u] EXCEPT !.fd = "file"],
                                      [proc[u] EXCEPT !.fd = "lost"]}
    BY <1>13 DEF MarkReplace, Become, PlansTyped
  <2>3. \A u \in Tuis : \A f \in {"file", "lost"} :
          /\ [proc[u] EXCEPT !.fd = f] \in Procs
          /\ [proc[u] EXCEPT !.fd = f].at = proc[u].at
          /\ [proc[u] EXCEPT !.fd = f].plan = proc[u].plan
    BY <1>f DEF Procs
  <2>4. ASSUME NEW u \in Tuis
        PROVE  proc'[u] \in Procs /\ (proc'[u].at \in InHand => proc'[u].plan \in PlanIds)
    <3>1. proc[u] \in Procs /\ (proc[u].at \in InHand => proc[u].plan \in PlanIds)
      BY <1>e, <1>f
    <3>2. Idle \in Procs /\ Idle.at \notin InHand
      BY IdleTyped DEF Idle, InHand
    <3>3. \A f \in {"file", "lost"} :
            LET next == [proc[u] EXCEPT !.fd = f]
            IN  next \in Procs /\ (next.at \in InHand => next.plan \in PlanIds)
      BY <2>3, <3>1
    <3> HIDE DEF Procs, InHand
    <3> QED  BY <2>2, <3>1, <3>2, <3>3
  <2>5. proc' = [u \in Tuis |-> proc'[u]]
    BY <1>13 DEF MarkReplace, Become, PlansTyped
  <2>6. file' \in [PlanIds -> Files] /\ tmp' \in [PlanIds -> Files]
    BY <1>13, <2>1, <1>a DEF MarkReplace, PlansTyped
  <2> QED  BY <1>13, <2>4, <2>5, <2>6 DEF MarkReplace, PlansTyped
<1>14. ASSUME NEW t \in Tuis, WriteTab(t) PROVE PlansTyped'
  BY <1>2, <1>14, <1>f DEF WriteTab, PlansTyped
<1>15. ASSUME NEW t \in Tuis, TuiDies(t) PROVE PlansTyped'
  <2>1. [Idle EXCEPT !.at = "gone"] \in Procs /\ [Idle EXCEPT !.at = "gone"].at = "gone"
    BY <1>b, IdleTyped DEF Procs
  <2>2. ProcsOk
    BY <1>15, <2>1, Becomes DEF TuiDies, InHand
  <2> QED  BY <1>15, <2>2, <1>c, <1>d DEF TuiDies, PlansTyped
<1>16. CASE OperatorEdits
  <2>1. Own(left.own) \in [kind : {"own"}, plan : {"none"}, edit : Nat]
    BY <1>d DEF Own, PlansTyped
  <2>2. crontab' \in Tables
    <3>1. crontab' = Append(crontab, Own(left.own)) \/ crontab' = <<Own(left.own)>> \o crontab
      BY <1>16 DEF OperatorEdits
    <3>2. crontab \in Tables  BY DEF PlansTyped
    <3>3. Append(crontab, Own(left.own)) \in Tables
      BY <2>1, <3>2, OwnLineKeeps
    <3>4. <<Own(left.own)>> \o crontab \in Tables
      BY <2>1, <3>2, OwnLineKeeps
    <3> QED  BY <3>1, <3>3, <3>4
  <2> QED  BY <1>16, <2>1, <2>2, <1>c, <1>d DEF OperatorEdits, PlansTyped
<1>17. CASE UNCHANGED planVars
  BY <1>17 DEF planVars, PlansTyped
<1>18. ASSUME NEW t \in Tuis, MarkFails(t) PROVE PlansTyped'
  BY <1>2, <1>18, <1>c, <1>d DEF MarkFails, PlansTyped
<1>19. ASSUME NEW t \in Tuis, SaveFails(t) PROVE PlansTyped'
  <2>1. /\ [proc[t] EXCEPT !.at = "wizard", !.fd = "none"] \in Procs
        /\ [proc[t] EXCEPT !.at = "wizard", !.fd = "none"].plan = proc[t].plan
    BY <1>b, <1>f DEF Procs
  <2>2. proc[t].plan \in PlanIds
    BY <1>19, <1>e DEF SaveFails, At, InHand
  <2>3. ProcsOk
    BY <1>19, <2>1, <2>2, Becomes DEF SaveFails
  <2> QED  BY <1>19, <2>3, <1>c, <1>d DEF SaveFails, PlansTyped
<1> QED
  BY <1>3, <1>4, <1>5, <1>6, <1>7, <1>8, <1>9, <1>10, <1>11, <1>12, <1>13, <1>14, <1>15,
     <1>16, <1>17, <1>18, <1>19 DEF PlansStep, ProcessStep, WriteFails
----------------------------------------------------------------------------
(* The files of a plan. *)

\* A process that has a file of a plan open.
Writing == {"saving", "filling", "replacing"}

\* A plan whose files, and whose writers, a step leaves alone stays as it was.
LEMMA LeftAlone ==
  ASSUME NEW p \in PlanIds, Whole(p),
         file'[p] = file[p], tmp'[p] = tmp[p], hurt \subseteq hurt',
         \A u \in Tuis : proc'[u] = proc[u] \/ ~(HasOpen(u, p) \/ HasOpen(u, p)')
  PROVE  Whole(p)'
<1> SUFFICES ASSUME p \notin hurt' PROVE (Apart(p) /\ Ready(p) /\ Held(p))'
  BY DEF Whole
<1>1. Apart(p) /\ Ready(p) /\ Held(p)
  BY DEF Whole
<1>2. \A u \in Tuis : HasOpen(u, p) \/ HasOpen(u, p)' => proc'[u] = proc[u]
  OBVIOUS
<1>3. Apart(p)'
  BY <1>1, <1>2 DEF Apart, HasOpen
<1>4. Ready(p)'
  BY <1>1, <1>2 DEF Ready, Takes, HasOpen
<1>5. Held(p)'
  BY <1>1, <1>2 DEF Held, Holds, HasOpen
<1> QED  BY <1>3, <1>4, <1>5

\* A step of a process that has nothing open, before or after.
LEMMA NothingOpened ==
  ASSUME FilesInv, PlansTyped', NEW t \in Tuis, UNCHANGED <<file, tmp, hurt>>,
         proc[t].at \notin Writing, proc'[t].at \notin Writing,
         proc'[t].at = "marking" => Parses(proc'[t].copy),
         \A u \in Tuis \ {t} : proc'[u] = proc[u]
  PROVE  FilesInv'
<1>1. \A p \in PlanIds : Whole(p)'
  BY LeftAlone DEF FilesInv, HasOpen, Writing
<1>2. CopyWhole'
  BY DEF FilesInv, CopyWhole, Parses, Writing
<1> QED  BY <1>1, <1>2 DEF FilesInv

LEMMA FilesStart == ASSUME Init PROVE FilesInv
<1>1. PlansTyped  BY PlansStart
<1>2. \A t \in Tuis : proc[t].at = "home"
  BY IdleTyped DEF Init, PlansInit
<1>3. \A p \in PlanIds : file[p].state # "torn"
  BY DEF Init, PlansInit, NoPlan, Saved
<1> QED
  BY <1>1, <1>2, <1>3 DEF FilesInv, Whole, Apart, Ready, Held, CopyWhole, HasOpen

LEMMA FilesGoOn ==
  ASSUME FilesInv, PlansStep \/ UNCHANGED planVars
  PROVE  FilesInv'
<1>a. PlansTyped /\ PlansTyped'
  BY PlansGoOn DEF FilesInv
<1>b. CopyWhole /\ \A p \in PlanIds : Whole(p)
  BY DEF FilesInv
<1>c. SUFFICES CopyWhole' /\ \A p \in PlanIds : Whole(p)'
  BY <1>a DEF FilesInv
<1>d. /\ DOMAIN proc = Tuis /\ DOMAIN file = PlanIds /\ DOMAIN tmp = PlanIds
      /\ \A t \in Tuis : proc[t] \in [at : Places, plan : PlanIds \cup {Idle.plan}, copy : Files,
                                      fd : {"none", "file", "tmp", "lost"}, tab : Tables]
  BY <1>a DEF PlansTyped, Procs
<1>e. \A t \in Tuis : \A p : HasOpen(t, p) <=> proc[t].plan = p /\ proc[t].at \in Writing
  BY DEF HasOpen, Writing
<1>f. ASSUME NEW t \in Tuis, NEW q, Become(t, q)
      PROVE  proc'[t] = q /\ \A u \in Tuis \ {t} : proc'[u] = proc[u]
  BY <1>d, <1>f DEF Become
<1>g. Idle.at = "home" /\ Idle.fd = "none" /\ Idle \in Procs
  BY IdleTyped
<1>1. ASSUME NEW t \in Tuis, NEW q, Become(t, q), UNCHANGED <<file, tmp, hurt>>,
             proc[t].at \notin Writing, q.at \notin Writing,
             q.at = "marking" => Parses(q.copy)
      PROVE  FilesInv'
  BY <1>a, <1>1, <1>f, NothingOpened
<1>2. ASSUME NEW t \in Tuis, NEW p \in PlanIds, OpenWizard(t, p) \/ RunPlan(t, p)
      PROVE  FilesInv'
  <2>1. \A a \in Places : [Idle EXCEPT !.at = a, !.plan = p, !.copy = file[p]].at = a
    BY <1>g DEF Procs
  <2> QED  BY <1>1, <1>2, <2>1 DEF OpenWizard, RunPlan, At, Writing, Places
<1>3. ASSUME NEW p \in PlanIds, StartScreen(p)
      PROVE  FilesInv'
  <2>1. [Idle EXCEPT !.at = "running", !.plan = p, !.copy = file[p]].at = "running"
    BY <1>g DEF Procs
  <2>2. CASE UNCHANGED proc
    BY <1>3, <1>a, <2>2, <1>e, NothingOpened, WatchedAssumption DEF StartScreen, At, Writing
  <2>3. CASE Become(Watched, [Idle EXCEPT !.at = "running", !.plan = p, !.copy = file[p]])
    BY <1>1, <1>3, <2>1, <2>3, WatchedAssumption DEF StartScreen, At, Writing
  <2> QED  BY <1>3, <2>2, <2>3 DEF StartScreen
<1>4. ASSUME NEW t \in Tuis, NEW p \in Jobs, BeginInstall(t, p) \/ BeginRemove(t, p)
      PROVE  FilesInv'
  <2>1. \A tab : [Idle EXCEPT !.at = "table", !.tab = tab].at = "table"
    BY <1>g DEF Procs
  <2>2. CASE UNCHANGED proc
    BY <1>4, <1>a, <2>2, NothingOpened DEF BeginInstall, BeginRemove, At, Writing
  <2>3. CASE \E tab : Become(t, [Idle EXCEPT !.at = "table", !.tab = tab])
    BY <1>1, <1>4, <2>1, <2>3 DEF BeginInstall, BeginRemove, At, Writing
  <2> QED  BY <1>4, <2>2, <2>3 DEF BeginInstall, BeginRemove
<1>5. ASSUME NEW t \in Tuis, CloseWizard(t) \/ WriteTab(t)
      PROVE  FilesInv'
  BY <1>1, <1>5, <1>g DEF CloseWizard, WriteTab, At, Writing
<1>6. ASSUME NEW t \in Tuis, MarkRead(t)
      PROVE  FilesInv'
  <2> DEFINE c == [file[proc[t].plan] EXCEPT !.last = stamp + 1]
             q == [proc[t] EXCEPT !.at = "marking", !.copy = c]
  <2>1. proc[t].plan \in PlanIds
    BY <1>6, <1>a DEF MarkRead, At, PlansTyped, InHand
  <2>2. c.state = file[proc[t].plan].state
    BY <2>1, <1>a DEF PlansTyped, Files
  <2> HIDE DEF c
  <2>3. q.at = "marking" /\ q.copy = c
    BY <1>d
  <2>4. Become(t, Idle) \/ (Parses(c) /\ Become(t, q))
    BY <1>6, <2>2 DEF MarkRead, Parses, c
  <2> HIDE DEF q
  <2> QED  BY <1>1, <1>6, <1>g, <2>3, <2>4 DEF MarkRead, At, Writing
<1>7. ASSUME NEW t \in Tuis, SaveOpen(t)
      PROVE  CopyWhole' /\ \A p \in PlanIds : Whole(p)'
  <2>0. PICK p0 \in PlanIds : p0 = proc[t].plan
    BY <1>7, <1>a DEF SaveOpen, At, PlansTyped, InHand
  <2> DEFINE q == [proc[t] EXCEPT !.at = "saving", !.fd = "file"]
  <2>a. q.at = "saving" /\ q.fd = "file" /\ q.plan = proc[t].plan /\ q.copy = proc[t].copy
    BY <1>d
  <2>b. Become(t, q)
    BY <1>7 DEF SaveOpen
  <2> HIDE DEF q
  <2>1. /\ proc[t].at = "wizard" /\ proc[t].plan = p0
        /\ proc'[t].at = "saving" /\ proc'[t].fd = "file" /\ proc'[t].plan = p0
        /\ \A u \in Tuis \ {t} : proc'[u] = proc[u]
    BY <1>7, <2>0, <2>a, <2>b, <1>f DEF SaveOpen, At
  <2>2. /\ file'[p0].state = "torn" /\ tmp' = tmp /\ hurt \subseteq hurt'
        /\ \A p \in PlanIds \ {p0} : file'[p] = file[p]
        /\ p0 \notin hurt' => \A u \in Tuis \ {t} : ~HasOpen(u, p0)
    BY <1>7, <1>d, <2>1 DEF SaveOpen, Hurt, OthersOn, Torn, NoPlan
  <2>3. CopyWhole'
    BY <1>b, <2>1 DEF CopyWhole
  <2>4. Whole(p0)'
    BY <1>b, <2>1, <2>2 DEF Whole, Apart, Ready, Held, Holds, HasOpen
  <2>5. ASSUME NEW p \in PlanIds \ {p0} PROVE Whole(p)'
    BY <1>b, <2>1, <2>2, LeftAlone DEF HasOpen
  <2> QED  BY <2>3, <2>4, <2>5
<1>8. ASSUME NEW t \in Tuis, SaveWrite(t)
      PROVE  CopyWhole' /\ \A p \in PlanIds : Whole(p)'
  <2>0. PICK p0 \in PlanIds : p0 = proc[t].plan
    BY <1>8, <1>a DEF SaveWrite, At, PlansTyped, InHand
  <2>1. /\ proc[t].at = "saving" /\ proc[t].plan = p0
        /\ proc'[t].at = "home"
        /\ \A u \in Tuis \ {t} : proc'[u] = proc[u]
    BY <1>8, <2>0, <1>f, <1>g DEF SaveWrite, At
  <2>2. /\ tmp' = tmp /\ hurt' = hurt
        /\ \A p \in PlanIds \ {p0} : file'[p] = file[p]
    BY <1>8, <1>d, <2>1 DEF SaveWrite
  <2>3. proc[t].fd = "file" /\ file[p0].state = "torn" => file'[p0].state = "whole"
    <3>1. Draft(t).state = "whole"  BY DEF Draft
    <3> QED  BY <1>8, <1>d, <2>1, <3>1 DEF SaveWrite, WrittenOver, Parses
  <2>4. CopyWhole'
    BY <1>b, <2>1 DEF CopyWhole
  <2>5. Whole(p0)'
    <3> SUFFICES ASSUME p0 \notin hurt PROVE (Apart(p0) /\ Ready(p0) /\ Held(p0))'
      BY <2>2 DEF Whole
    <3>1. Apart(p0) /\ Ready(p0)
      BY <1>b DEF Whole
    <3>2. \A u \in Tuis : ~HasOpen(u, p0)'
      BY <3>1, <2>1 DEF Apart, HasOpen
    <3>3. file'[p0].state = "whole"
      BY <3>1, <2>1, <2>3 DEF Ready
    <3> QED  BY <3>2, <3>3 DEF Apart, Ready, Held, Holds, HasOpen
  <2>6. ASSUME NEW p \in PlanIds \ {p0} PROVE Whole(p)'
    BY <1>b, <2>1, <2>2, LeftAlone DEF HasOpen
  <2> QED  BY <2>4, <2>5, <2>6
<1>9. ASSUME NEW p0 \in PlanIds, DeletePlan(p0)
      PROVE  CopyWhole' /\ \A p \in PlanIds : Whole(p)'
  <2>1. /\ file[p0].state = "whole" /\ file'[p0].state = "none" /\ tmp' = tmp /\ hurt' = hurt
        /\ \A p \in PlanIds \ {p0} : file'[p] = file[p]
    BY <1>9, <1>d DEF DeletePlan, Parses, NoPlan
  <2>2. \A u \in Tuis : /\ proc'[u].at = proc[u].at /\ proc'[u].plan = proc[u].plan
                        /\ proc'[u].copy = proc[u].copy
                        /\ proc[u].plan # p0 \/ proc[u].fd # "file" => proc'[u] = proc[u]
                        /\ proc[u].plan = p0 => proc'[u].fd # "file"
    BY <1>9, <1>d DEF DeletePlan, Unlinked
  <2>3. CopyWhole'
    BY <1>b, <2>2 DEF CopyWhole
  <2>4. Whole(p0)'
    <3> SUFFICES ASSUME p0 \notin hurt PROVE (Apart(p0) /\ Ready(p0) /\ Held(p0))'
      BY <2>1 DEF Whole
    <3>1. Apart(p0) /\ Ready(p0) /\ Held(p0)
      BY <1>b DEF Whole
    <3>2. Apart(p0)'
      BY <3>1, <2>2 DEF Apart, HasOpen
    <3>3. \A u \in Tuis : proc[u].plan = p0 => proc[u].at # "saving"
      BY <3>1, <2>1 DEF Ready
    <3>4. ASSUME NEW u \in Tuis, proc'[u].plan = p0
          PROVE  /\ proc'[u].at # "saving" /\ proc'[u].fd # "file"
                 /\ proc'[u].at = "filling" /\ proc'[u].fd = "tmp" => Takes(tmp[p0], u)'
      <4>1. proc'[u].at # "saving" /\ proc'[u].fd # "file"
        BY <3>3, <3>4, <2>2
      <4>2. ASSUME proc'[u].at = "filling", proc'[u].fd = "tmp" PROVE Takes(tmp[p0], u)'
        <5>1. CASE proc[u].fd = "file"
          BY <5>1, <4>2, <3>4, <2>2, <1>9, <1>d DEF DeletePlan, Unlinked
        <5>2. CASE proc[u].fd # "file"
          <6>1. proc'[u] = proc[u]
            BY <5>2, <2>2
          <6>2. Takes(tmp[p0], u)
            BY <6>1, <4>2, <3>4, <3>1 DEF Ready
          <6> QED  BY <6>1, <6>2, <2>1 DEF Takes
        <5> QED  BY <5>1, <5>2
      <4> QED  BY <4>1, <4>2
    <3>5. Ready(p0)'
      BY <3>4 DEF Ready
    <3>6. Held(p0)'
      BY <3>1, <2>1, <2>2 DEF Held, Holds, HasOpen
    <3> QED  BY <3>2, <3>5, <3>6
  <2>5. ASSUME NEW p \in PlanIds \ {p0} PROVE Whole(p)'
    BY <1>b, <2>1, <2>2, LeftAlone DEF HasOpen
  <2> QED  BY <2>3, <2>4, <2>5
<1>10. ASSUME NEW t \in Tuis, MarkOpen(t)
       PROVE  CopyWhole' /\ \A p \in PlanIds : Whole(p)'
  <2>0. PICK p0 \in PlanIds : p0 = proc[t].plan
    BY <1>10, <1>a DEF MarkOpen, At, PlansTyped, InHand
  <2> DEFINE q == [proc[t] EXCEPT !.at = "filling", !.fd = "tmp"]
  <2>a. q.at = "filling" /\ q.fd = "tmp" /\ q.plan = proc[t].plan /\ q.copy = proc[t].copy
    BY <1>d
  <2>b. Become(t, q)
    BY <1>10 DEF MarkOpen, Scratch
  <2> HIDE DEF q
  <2>1. /\ proc[t].at = "marking" /\ proc[t].plan = p0
        /\ proc'[t].at = "filling" /\ proc'[t].fd = "tmp" /\ proc'[t].plan = p0
        /\ proc'[t].copy = proc[t].copy
        /\ \A u \in Tuis \ {t} : proc'[u] = proc[u]
    BY <1>10, <2>0, <2>a, <2>b, <1>f DEF MarkOpen, Scratch, At
  <2>2. /\ tmp'[p0].state = "torn" /\ file' = file /\ hurt \subseteq hurt'
        /\ \A p \in PlanIds \ {p0} : tmp'[p] = tmp[p]
        /\ p0 \notin hurt' => \A u \in Tuis \ {t} : HasOpen(u, p0) =>
             proc[u].at # "saving" /\ proc[u].copy.edit = proc[t].copy.edit
    BY <1>10, <1>d, <2>1 DEF MarkOpen, Scratch, Hurt, Crossed, OthersOn, At, Torn, NoPlan
  <2>3. CopyWhole'
    BY <1>b, <2>1 DEF CopyWhole
  <2>4. Whole(p0)'
    <3> SUFFICES ASSUME p0 \notin hurt' PROVE (Apart(p0) /\ Ready(p0) /\ Held(p0))'
      BY DEF Whole
    <3>1. Apart(p0) /\ Ready(p0) /\ Held(p0)
      BY <1>b, <2>2 DEF Whole
    <3>2. \A u \in Tuis \ {t} : HasOpen(u, p0)' => HasOpen(u, p0)
      BY <2>1 DEF HasOpen
    <3>3. Apart(p0)'
      BY <3>1, <3>2, <2>1, <2>2 DEF Apart
    <3>4. Ready(p0)'
      BY <3>1, <2>1, <2>2 DEF Ready, Takes
    <3>5. Held(p0)'
      BY <3>1, <2>1, <2>2 DEF Held, Holds
    <3> QED  BY <3>3, <3>4, <3>5
  <2>5. ASSUME NEW p \in PlanIds \ {p0} PROVE Whole(p)'
    BY <1>b, <2>1, <2>2, LeftAlone DEF HasOpen
  <2> QED  BY <2>3, <2>4, <2>5
<1>11. ASSUME NEW t \in Tuis, MarkFill(t)
       PROVE  CopyWhole' /\ \A p \in PlanIds : Whole(p)'
  <2>0. PICK p0 \in PlanIds : p0 = proc[t].plan
    BY <1>11, <1>a DEF MarkFill, At, PlansTyped, InHand
  <2> DEFINE q == [proc[t] EXCEPT !.at = "replacing", !.fd = "none"]
  <2>a. q.at = "replacing" /\ q.fd = "none" /\ q.plan = proc[t].plan /\ q.copy = proc[t].copy
    BY <1>d
  <2>b. Become(t, q)
    BY <1>11 DEF MarkFill
  <2> HIDE DEF q
  <2>1. /\ proc[t].at = "filling" /\ proc[t].plan = p0
        /\ proc'[t].at = "replacing" /\ proc'[t].plan = p0
        /\ \A u \in Tuis \ {t} : proc'[u] = proc[u]
    BY <1>11, <2>0, <2>a, <2>b, <1>f DEF MarkFill, At
  <2>2. /\ hurt' = hurt
        /\ \A p \in PlanIds \ {p0} : file'[p] = file[p] /\ tmp'[p] = tmp[p]
    BY <1>11, <1>d, <2>1 DEF MarkFill
  <2>3. /\ proc[t].copy.state = "whole" /\ proc'[t].copy = proc[t].copy
        /\ proc'[t].fd = "none"
    BY <1>b, <2>1, <2>a, <2>b, <1>f DEF CopyWhole, Parses
  <2>c. ASSUME NEW old, Takes(old, t) PROVE WrittenOver(proc[t].copy, old) = {proc[t].copy}
    BY <2>c DEF Takes, WrittenOver, Parses
  <2>d. /\ proc[t].fd = "tmp" /\ Takes(tmp[p0], t) =>
             tmp'[p0] = proc[t].copy /\ file' = file
        /\ proc[t].fd = "file" /\ Takes(file[p0], t) =>
             file'[p0] = proc[t].copy /\ tmp' = tmp
        /\ proc[t].fd \notin {"tmp", "file"} => file' = file /\ tmp' = tmp
    BY <1>11, <1>d, <2>1, <2>c DEF MarkFill
  <2>4. CopyWhole'
    BY <1>b, <2>1 DEF CopyWhole
  <2>5. Whole(p0)'
    <3> SUFFICES ASSUME p0 \notin hurt PROVE (Apart(p0) /\ Ready(p0) /\ Held(p0))'
      BY <2>2 DEF Whole
    <3>1. Apart(p0) /\ Ready(p0) /\ Held(p0)
      BY <1>b DEF Whole
    <3>2. Apart(p0)'
      BY <3>1, <2>1, <2>3 DEF Apart, HasOpen
    <3>3. \A u \in Tuis \ {t} : proc[u].plan = p0 =>
            /\ proc[u].at # "saving"
            /\ proc[u].at = "filling" => proc[u].copy.edit = proc[t].copy.edit
      BY <3>1, <2>1 DEF Apart, HasOpen
    <3>4. /\ tmp'[p0] = tmp[p0] \/ (tmp'[p0] = proc[t].copy /\ proc[t].fd = "tmp")
          /\ file'[p0] = file[p0] \/ (file'[p0] = proc[t].copy /\ proc[t].fd = "file")
          /\ proc[t].fd = "tmp" => tmp'[p0] = proc[t].copy
          /\ proc[t].fd = "file" => file'[p0] = proc[t].copy
      BY <3>1, <2>1, <2>d DEF Ready
    <3>5. Ready(p0)'
      BY <3>1, <3>3, <3>4, <2>1, <2>3 DEF Ready, Takes
    <3>6. Held(p0)'
      BY <3>1, <3>4, <2>1, <2>3 DEF Held, Holds, HasOpen
    <3> QED  BY <3>2, <3>5, <3>6
  <2>6. ASSUME NEW p \in PlanIds \ {p0} PROVE Whole(p)'
    BY <1>b, <2>1, <2>2, LeftAlone DEF HasOpen
  <2> QED  BY <2>4, <2>5, <2>6
<1>12. ASSUME NEW t \in Tuis, MarkReplace(t)
       PROVE  CopyWhole' /\ \A p \in PlanIds : Whole(p)'
  <2>0. PICK p0 \in PlanIds : p0 = proc[t].plan
    BY <1>12, <1>a DEF MarkReplace, At, PlansTyped, InHand
  <2>1. /\ proc[t].at = "replacing" /\ proc[t].plan = p0 /\ proc'[t].at = "home"
        /\ \A u \in Tuis \ {t} : /\ proc'[u].at = proc[u].at /\ proc'[u].plan = proc[u].plan
                                 /\ proc'[u].copy = proc[u].copy
                                 /\ proc[u].plan # p0 => proc'[u] = proc[u]
    BY <1>12, <2>0, <1>d, <1>g DEF MarkReplace, Become, At
  <2>2. /\ hurt' = hurt
        /\ \A p \in PlanIds \ {p0} : file'[p] = file[p] /\ tmp'[p] = tmp[p]
        /\ \/ /\ file'[p0] = tmp[p0] /\ tmp'[p0].state = "none"
              /\ \A u \in Tuis \ {t} : proc[u].plan = p0 =>
                   proc'[u].fd = IF proc[u].fd = "tmp" THEN "file"
                                 ELSE IF proc[u].fd = "file" THEN "lost" ELSE proc[u].fd
           \/ /\ file'[p0] = file[p0] /\ tmp'[p0] = tmp[p0]
              /\ \A u \in Tuis \ {t} : proc'[u] = proc[u]
    BY <1>12, <1>d, <2>1 DEF MarkReplace, Become, NoPlan
  <2>3. CopyWhole'
    BY <1>b, <2>1 DEF CopyWhole
  <2>4. Whole(p0)'
    <3> SUFFICES ASSUME p0 \notin hurt PROVE (Apart(p0) /\ Ready(p0) /\ Held(p0))'
      BY <2>2 DEF Whole
    <3>1. Apart(p0) /\ Ready(p0) /\ Held(p0)
      BY <1>b DEF Whole
    <3>2. Apart(p0)'
      BY <3>1, <2>1 DEF Apart, HasOpen
    <3>3. \A u \in Tuis : proc[u].plan = p0 => proc[u].at # "saving"
      BY <3>1, <2>1 DEF Apart, HasOpen
    <3>4. Ready(p0)'
      BY <3>1, <3>3, <2>1, <2>2 DEF Ready, Takes
    <3>5. tmp[p0].state = "torn" => \E u \in Tuis \ {t} : Holds(u, p0, "tmp")
      BY <3>1, <2>1 DEF Held, Holds, HasOpen
    <3>6. file[p0].state = "torn" => \E u \in Tuis \ {t} : Holds(u, p0, "file")
      BY <3>1, <2>1 DEF Held, Holds
    <3>7. Held(p0)'
      BY <3>5, <3>6, <2>1, <2>2 DEF Held, Holds
    <3> QED  BY <3>2, <3>4, <3>7
  <2>5. ASSUME NEW p \in PlanIds \ {p0} PROVE Whole(p)'
    BY <1>b, <2>1, <2>2, LeftAlone DEF HasOpen
  <2> QED  BY <2>3, <2>4, <2>5
<1>13. ASSUME NEW t \in Tuis, TuiDies(t) \/ WriteFails(t)
       PROVE  CopyWhole' /\ \A p \in PlanIds : Whole(p)'
  <2> DEFINE p0 == proc[t].plan
  <2>0. /\ [Idle EXCEPT !.at = "gone"].at = "gone"
        /\ [proc[t] EXCEPT !.at = "wizard", !.fd = "none"].at = "wizard"
    BY <1>d, <1>g DEF Procs
  <2>1. /\ proc'[t].at \in {"gone", "home", "wizard"}
        /\ \A u \in Tuis \ {t} : proc'[u] = proc[u]
    BY <1>13, <2>0, <1>f, <1>g DEF TuiDies, WriteFails, SaveFails, MarkFails
  <2>2. /\ file' = file /\ tmp' = tmp /\ hurt \subseteq hurt'
        /\ proc[t].at = "saving" \/ StampHarms(t) => p0 \in hurt'
    BY <1>13 DEF TuiDies, WriteFails, SaveFails, MarkFails, At, Hurt
  <2>3. CopyWhole'
    BY <1>b, <2>1 DEF CopyWhole
  <2>4. ASSUME NEW p \in PlanIds PROVE Whole(p)'
    <3> SUFFICES ASSUME p \notin hurt' PROVE (Apart(p) /\ Ready(p) /\ Held(p))'
      BY DEF Whole
    <3>1. Apart(p) /\ Ready(p) /\ Held(p)
      BY <1>b, <2>2 DEF Whole
    <3>2. Apart(p)' /\ Ready(p)'
      BY <3>1, <2>1, <2>2 DEF Apart, Ready, Takes, HasOpen
    <3>3. ASSUME proc[t].plan = p
          PROVE  /\ proc[t].at # "saving"
                 /\ proc[t].at = "filling" =>
                      proc[t].fd = "tmp" /\ \A u \in Tuis \ {t} : ~HasOpen(u, p)
      BY <3>3, <2>2 DEF StampHarms, At, Scratch, OthersOn
    <3>4. Held(p)'
      <4>1. CASE proc[t].plan = p /\ proc[t].at = "filling"
        BY <4>1, <3>1, <3>3, <2>1, <2>2 DEF Held, Holds, HasOpen
      <4>2. CASE ~(proc[t].plan = p /\ proc[t].at = "filling")
        BY <4>2, <3>1, <3>3, <2>1, <2>2 DEF Held, Holds, HasOpen
      <4> QED  BY <4>1, <4>2
    <3> QED  BY <3>2, <3>4
  <2> QED  BY <2>3, <2>4
<1>14. CASE OperatorEdits \/ UNCHANGED planVars
  BY <1>14, <1>b, LeftAlone DEF OperatorEdits, planVars, CopyWhole
<1> QED
  BY <1>2, <1>3, <1>4, <1>5, <1>6, <1>7, <1>8, <1>9, <1>10, <1>11, <1>12, <1>13, <1>14,
     <1>a DEF FilesInv, PlansStep, ProcessStep

\* Half a plan file is in somebody's hands or was left by a save that was cut
\* short or crossed by a writer, by stamps of two versions that crossed, or by
\* a stamp cut short across another: see QuietMeansWhole.  Any number of
\* stamps of one version may cross, and one that dies or cannot write on its
\* own never costs the plan (mark_run), whatever else is done to it.
THEOREM HalfPlansAreAccounted == Spec => []QuietMeansWhole
<1>1. FilesInv => QuietMeansWhole
  BY DEF FilesInv, Whole, Held, Holds, QuietMeansWhole, HasOpen
<1>2. Init => FilesInv
  BY FilesStart
<1>3. FilesInv /\ [Next]_vars => FilesInv'
  BY PlanMoves, FilesGoOn
<1> QED  BY <1>1, <1>2, <1>3, PTL DEF Spec
----------------------------------------------------------------------------
(* The crontab. *)

\* However tables are read, staged and written, and by however many
\* processes, the crontab is in order: every entry stands below its marker
\* and no plan is scheduled twice.  This needs nothing of the table's reader
\* or of the operator (_strip_plan_from_crontab, install_to_user_crontab).
CrontabOrdered == Ordered(crontab)

THEOREM NoPlanRunsTwice == Spec => []CrontabOrdered
<1>1. PlansTyped => CrontabOrdered
  BY DEF PlansTyped, Tables, CrontabOrdered
<1>2. Init => PlansTyped
  BY PlansStart
<1>3. PlansTyped /\ [Next]_vars => PlansTyped'
  BY PlanMoves, PlansGoOn
<1> QED  BY <1>1, <1>2, <1>3, PTL DEF Spec

LEMMA OwnGoesOn ==
  ASSUME Troubles = {}, TabsInv, PlansStep \/ UNCHANGED planVars
  PROVE  TabsInv'
<1>a. PlansTyped /\ PlansTyped'
  BY PlansGoOn DEF TabsInv
<1>b. /\ own \subseteq ToSet(crontab) /\ crontab \in Tables
      /\ \A line \in own : line.kind = "own"
      /\ \A t \in Tuis : proc[t].at = "table" => own \subseteq ToSet(proc[t].tab)
  BY <1>a DEF TabsInv, OwnKept, PlansTyped, At
<1>c. SUFFICES OwnKept'
  BY <1>a DEF TabsInv
<1>d. /\ DOMAIN proc = Tuis
      /\ \A t \in Tuis : proc[t] \in [at : Places, plan : PlanIds \cup {Idle.plan}, copy : Files,
                                      fd : {"none", "file", "tmp", "lost"}, tab : Tables]
  BY <1>a DEF PlansTyped, Procs
<1>e. ASSUME NEW t \in Tuis, NEW q, Become(t, q)
      PROVE  proc'[t] = q /\ \A u \in Tuis \ {t} : proc'[u] = proc[u]
  BY <1>d, <1>e DEF Become
<1>f. Idle.at = "home" /\ Idle \in Procs
  BY IdleTyped
<1>1. ASSUME UNCHANGED <<crontab, own>>,
             \A u \in Tuis : proc'[u].at = "table" =>
               proc[u].at = "table" /\ proc'[u].tab = proc[u].tab
      PROVE  OwnKept'
  BY <1>b, <1>1 DEF OwnKept, At
<1>2. ASSUME NEW t \in Tuis, NEW q, Become(t, q), q.at # "table", UNCHANGED <<crontab, own>>
      PROVE  OwnKept'
  BY <1>1, <1>2, <1>e
<1>3. ASSUME NEW p \in PlanIds, StartScreen(p)
      PROVE  OwnKept'
  <2>1. [Idle EXCEPT !.at = "running", !.plan = p, !.copy = file[p]].at = "running"
    BY <1>f DEF Procs
  <2> QED  BY <1>1, <1>2, <1>3, <2>1, WatchedAssumption DEF StartScreen
<1>4. ASSUME NEW p \in PlanIds, DeletePlan(p)
      PROVE  OwnKept'
  <2>1. \A u \in Tuis : proc'[u].at = proc[u].at /\ proc'[u].tab = proc[u].tab
    BY <1>4, <1>d DEF DeletePlan, Unlinked
  <2> QED  BY <1>1, <1>4, <2>1 DEF DeletePlan
<1>5. ASSUME NEW t \in Tuis, NEW p \in PlanIds, OpenWizard(t, p) \/ RunPlan(t, p)
      PROVE  OwnKept'
  <2>1. \A a \in {"wizard", "running"} :
          [Idle EXCEPT !.at = a, !.plan = p, !.copy = file[p]].at # "table"
    BY <1>f DEF Procs
  <2> QED  BY <1>2, <1>5, <2>1 DEF OpenWizard, RunPlan
<1>6. ASSUME NEW t \in Tuis, NEW p \in Jobs, BeginInstall(t, p) \/ BeginRemove(t, p)
      PROVE  OwnKept'
  <2>1. ReadTab = {crontab}
    BY DEF ReadTab
  <2>2. p # Gc => file[p].edit \in Nat
    BY <1>a DEF Jobs, PlansTyped, Files
  <2>3. \A tab \in {Strip(crontab, p), Installed(crontab, p)} : own \subseteq ToSet(tab)
    <3>1. own \subseteq OwnLines(crontab)  BY <1>b DEF OwnLines
    <3>2. /\ OwnLines(crontab) \subseteq OwnLines(Strip(crontab, p))
          /\ OwnLines(crontab) \subseteq OwnLines(Installed(crontab, p))
      BY <1>b, <2>2, StripKeeps, InstallKeeps
    <3> QED  BY <3>1, <3>2 DEF OwnLines
  <2>4. ASSUME NEW tab \in {Strip(crontab, p), Installed(crontab, p)},
               Become(t, [Idle EXCEPT !.at = "table", !.tab = tab])
        PROVE  OwnKept'
    <3>1. [Idle EXCEPT !.at = "table", !.tab = tab].tab = tab
      BY <1>f DEF Procs
    <3>2. UNCHANGED <<crontab, own>>
      BY <1>6 DEF BeginInstall, BeginRemove
    <3> QED  BY ZenonT(40), <1>b, <1>e, <2>3, <2>4, <3>1, <3>2 DEF OwnKept, At
  <2>5. CASE UNCHANGED proc
    BY <1>1, <1>6, <2>5 DEF BeginInstall, BeginRemove
  <2> QED  BY <1>6, <2>1, <2>4, <2>5 DEF BeginInstall, BeginRemove
<1>7. ASSUME NEW t \in Tuis, SaveOpen(t) \/ MarkOpen(t) \/ MarkFill(t) \/ MarkRead(t)
      PROVE  OwnKept'
  <2>1. CASE MarkRead(t)
    <3> DEFINE c == [file[proc[t].plan] EXCEPT !.last = stamp + 1]
               q == [proc[t] EXCEPT !.at = "marking", !.copy = c]
    <3>1. (Become(t, q) \/ Become(t, Idle)) /\ UNCHANGED <<crontab, own>>
      BY <2>1 DEF MarkRead
    <3> HIDE DEF c
    <3>2. q.at # "table"  BY <1>d
    <3> HIDE DEF q
    <3> QED  BY <1>2, <1>f, <3>1, <3>2
  <2>2. CASE SaveOpen(t)
    <3> DEFINE q == [proc[t] EXCEPT !.at = "saving", !.fd = "file"]
    <3>1. q.at # "table"  BY <1>d
    <3>2. Become(t, q) /\ UNCHANGED <<crontab, own>>
      BY <2>2 DEF SaveOpen
    <3> HIDE DEF q
    <3> QED  BY <1>2, <3>1, <3>2
  <2>3. CASE MarkOpen(t)
    <3> DEFINE q == [proc[t] EXCEPT !.at = "filling", !.fd = Scratch]
    <3>1. q.at # "table"  BY <1>d
    <3>2. Become(t, q) /\ UNCHANGED <<crontab, own>>
      BY <2>3 DEF MarkOpen
    <3> HIDE DEF q
    <3> QED  BY <1>2, <3>1, <3>2
  <2>4. CASE MarkFill(t)
    <3> DEFINE q == [proc[t] EXCEPT !.at = "replacing", !.fd = "none"]
    <3>1. q.at # "table"  BY <1>d
    <3>2. Become(t, q) /\ UNCHANGED <<crontab, own>>
      BY <2>4 DEF MarkFill
    <3> HIDE DEF q
    <3> QED  BY <1>2, <3>1, <3>2
  <2> QED  BY <1>7, <2>1, <2>2, <2>3, <2>4
<1>8. ASSUME NEW t \in Tuis, SaveWrite(t) \/ CloseWizard(t)
      PROVE  OwnKept'
  BY <1>2, <1>8, <1>f DEF SaveWrite, CloseWizard
<1>9. ASSUME NEW t \in Tuis, TuiDies(t)
      PROVE  OwnKept'
  <2>1. [Idle EXCEPT !.at = "gone"].at = "gone"
    BY <1>f DEF Procs
  <2> QED  BY <1>2, <1>9, <2>1 DEF TuiDies
<1>10. ASSUME NEW t \in Tuis, MarkReplace(t)
       PROVE  OwnKept'
  <2>1. \A u \in Tuis : proc'[u].at = "table" =>
          proc[u].at = "table" /\ proc'[u].tab = proc[u].tab
    BY <1>10, <1>d, <1>f DEF MarkReplace, Become
  <2> QED  BY <1>1, <1>10, <2>1 DEF MarkReplace
<1>11. ASSUME NEW t \in Tuis, WriteTab(t)
       PROVE  OwnKept'
  <2>1. /\ crontab' = proc[t].tab /\ own' = own /\ proc[t].at = "table"
        /\ proc'[t].at = "home" /\ \A u \in Tuis \ {t} : proc'[u] = proc[u]
    BY <1>11, <1>e, <1>f DEF WriteTab, At
  <2> QED  BY <1>b, <2>1 DEF OwnKept, At
<1>12. CASE OperatorEdits
  <2>1. /\ \A t \in Tuis : proc[t].at # "table"
        /\ proc' = proc
    BY <1>12 DEF OperatorEdits, At
  <2>2. Own(left.own) \in [kind : {"own"}, plan : {"none"}, edit : Nat]
    BY <1>a DEF Own, PlansTyped, Deeds
  <2>3. /\ ToSet(Append(crontab, Own(left.own))) = ToSet(crontab) \cup {Own(left.own)}
        /\ ToSet(<<Own(left.own)>> \o crontab) = ToSet(crontab) \cup {Own(left.own)}
    BY <1>b, <2>2, OwnLineKeeps
  <2>4. /\ own' = own \cup {Own(left.own)}
        /\ \/ crontab' = Append(crontab, Own(left.own))
           \/ crontab' = <<Own(left.own)>> \o crontab
    BY <1>12 DEF OperatorEdits
  <2>5. own' \subseteq ToSet(crontab')
    BY <1>b, <2>3, <2>4
  <2> QED  BY <2>1, <2>5 DEF OwnKept, At
<1>13. CASE UNCHANGED planVars
  BY <1>1, <1>13 DEF planVars
<1>14. ASSUME NEW t \in Tuis, WriteFails(t)
       PROVE  OwnKept'
  <2>1. [proc[t] EXCEPT !.at = "wizard", !.fd = "none"].at = "wizard"
    BY <1>d
  <2> QED  BY <1>2, <1>14, <1>f, <2>1 DEF WriteFails, SaveFails, MarkFails
<1> QED
  BY <1>3, <1>4, <1>5, <1>6, <1>7, <1>8, <1>9, <1>10, <1>11, <1>12, <1>13, <1>14
     DEF PlansStep, ProcessStep

\* Where the table can be read and the operator does not edit it between
\* reading and writing, no line of the operator's is ever lost, and the
\* entries are as CrontabOrdered says: see CrontabKept.
THEOREM OperatorLinesStay ==
  ASSUME Troubles = {}
  PROVE  Spec => []CrontabKept
<1>1. TabsInv => CrontabKept
  <2> SUFFICES ASSUME TabsInv PROVE CrontabKept
    OBVIOUS
  <2>1. Ordered(crontab) /\ own \subseteq ToSet(crontab)
    BY DEF TabsInv, OwnKept, PlansTyped, Tables
  <2> QED  BY <2>1 DEF Ordered, Is, CrontabKept
<1>2. Init => TabsInv
  <2> SUFFICES ASSUME Init PROVE TabsInv
    OBVIOUS
  <2>1. own \subseteq ToSet(crontab)
    BY DEF Init, PlansInit, ToSet
  <2>2. \A t \in Tuis : proc[t].at # "table"
    BY IdleTyped DEF Init, PlansInit
  <2> QED  BY <2>1, <2>2, PlansStart DEF TabsInv, OwnKept, At
<1>3. TabsInv /\ [Next]_vars => TabsInv'
  BY PlanMoves, OwnGoesOn
<1> QED  BY <1>1, <1>2, <1>3, PTL DEF Spec
=============================================================================
