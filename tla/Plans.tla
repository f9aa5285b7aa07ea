------------------------------- MODULE Plans -------------------------------
(***************************************************************************)
(* The plans of the TUI and the schedules made from them                   *)
(* (arq_tui/state.py, scheduling.py, their screens and the plans command). *)
(*                                                                         *)
(* A plan is one JSON file.  Any number of TUI processes list, edit, run   *)
(* and stamp plans and install schedules in one crontab, each a            *)
(* read-modify-write without a lock; cron fires what is installed.         *)
(***************************************************************************)
EXTENDS Naturals, Sequences, FiniteSets, SequencesExt

CONSTANTS
  Tuis,      \* TUI processes
  PlanIds,
  Gc,        \* stands for the entry that collects old run records
  Budgets,   \* bounds: how often operators may do what, [Deeds -> Nat] each
  Troubles   \* "overlap": crontab -e during an install; "unread": crontab -l fails

Deeds == {"edit", "run", "screen", "cron", "own", "delete", "die", "fail"}

ASSUME PlansAssumption ==
  /\ Gc \notin PlanIds
  /\ Budgets \subseteq [Deeds -> Nat]
  /\ Troubles \subseteq {"overlap", "unread"}

VARIABLES
  file,      \* the plan files
  tmp,       \* the .json.tmp beside each
  proc,      \* what each TUI is doing: [at, plan, copy, fd, was, tab]
  made,      \* history: the versions the wizard has saved of each
  hurt,      \* history: plans a writer was cut short or crossed on, see below
  stamp,     \* the clock: stamps issued
  crontab,   \* the lines of the crontab
  own,       \* history: the lines the operator put there
  left       \* what is left of the budget

planVars == <<file, tmp, proc, made, hurt, stamp, crontab, own, left>>

NoPlan == [state |-> "none", edit |-> 0, last |-> 0]
Saved == [state |-> "whole", edit |-> 0, last |-> 0]
Torn == [NoPlan EXCEPT !.state = "torn"]
Idle == [at |-> "home", plan |-> CHOOSE p \in PlanIds : TRUE, copy |-> NoPlan,
         fd |-> "none", tab |-> <<>>]

\* What list_plans and mark_run can use; a torn file is skipped.
Parses(f) == f.state = "whole"

\* Lines of a crontab: the marker of a plan, its entry, the operator's own.
Marker(p) == [kind |-> "marker", plan |-> p, edit |-> 0]
Entry(p, e) == [kind |-> "entry", plan |-> p, edit |-> e]
Own(n) == [kind |-> "own", plan |-> "none", edit |-> n]

PlansInit ==
  /\ file \in [PlanIds -> {NoPlan, Saved}]
  /\ tmp = [p \in PlanIds |-> NoPlan]
  /\ proc = [t \in Tuis |-> Idle]
  /\ made = [p \in PlanIds |-> IF file[p] = Saved THEN {0} ELSE {}]
  /\ hurt = {}
  /\ stamp = 0
  /\ crontab = <<Own(0)>>
  /\ own = {Own(0)}
  /\ left \in Budgets

At(t, where) == proc[t].at = where
Become(t, new) == proc' = [proc EXCEPT ![t] = new]
Goto(t, where) == Become(t, [proc[t] EXCEPT !.at = where])
Spend(what) == left[what] > 0 /\ left' = [left EXCEPT ![what] = @ - 1]
----------------------------------------------------------------------------
(* The wizard. *)

\* A fresh plan, or a copy of one that parses.
OpenWizard(t, p) ==
  /\ At(t, "home")
  /\ Spend("edit")
  /\ Parses(file[p]) \/ (file[p].state = "none" /\ made[p] = {})
  /\ Become(t, [Idle EXCEPT !.at = "wizard", !.plan = p, !.copy = file[p]])
  /\ UNCHANGED <<file, tmp, made, hurt, stamp, crontab, own>>

\* A process is between opening a file of the plan and being done with it.
HasOpen(t, p) == proc[t].plan = p /\ proc[t].at \in {"saving", "filling", "replacing"}
OthersOn(t) == {u \in Tuis \ {t} : HasOpen(u, proc[t].plan)}
Hurt(t, when) == hurt' = IF when THEN hurt \cup {proc[t].plan} ELSE hurt

\* The file is opened for writing: its content is gone.
SaveOpen(t) ==
  /\ At(t, "wizard")
  /\ file' = [file EXCEPT ![proc[t].plan] = Torn]
  /\ Become(t, [proc[t] EXCEPT !.at = "saving", !.fd = "file"])
  /\ Hurt(t, OthersOn(t) # {})
  /\ UNCHANGED <<tmp, made, stamp, crontab, own, left>>

CloseWizard(t) ==
  /\ At(t, "wizard")
  /\ Become(t, Idle)
  /\ UNCHANGED <<file, tmp, made, hurt, stamp, crontab, own, left>>

\* What its steps captured and accepted: a version of the plan of its own.
Captured(t) == Cardinality(made[proc[t].plan])

\* What the wizard saves: what was captured, and the stamp as it was when
\* the wizard was opened.
Draft(t) == [state |-> "whole", edit |-> Captured(t), last |-> proc[t].copy.last]

\* A file that another has written meanwhile is overwritten from its start:
\* the longer of the two leaves its end behind.
WrittenOver(new, old) ==
  IF Parses(old) /\ old.edit # new.edit THEN {new, Torn} ELSE {new}

SaveWrite(t) ==
  LET p == proc[t].plan IN
  /\ At(t, "saving")
  /\ IF proc[t].fd = "file"
     THEN file' \in {[file EXCEPT ![p] = f] : f \in WrittenOver(Draft(t), file[p])}
     ELSE UNCHANGED file
  /\ made' = [made EXCEPT ![p] = @ \cup {Draft(t).edit}]
  /\ Become(t, Idle)
  /\ UNCHANGED <<tmp, hurt, stamp, crontab, own, left>>

\* The write fails: the wizard says so and stays open, over half a file.
SaveFails(t) ==
  /\ At(t, "saving")
  /\ Spend("fail")
  /\ Become(t, [proc[t] EXCEPT !.at = "wizard", !.fd = "none"])
  /\ Hurt(t, TRUE)
  /\ UNCHANGED <<file, tmp, made, stamp, crontab, own>>

\* Whoever has the file open when its name goes to another holds a file
\* nobody will see.
Unlinked(p, f) == [t \in Tuis |-> IF proc[t].plan = p /\ proc[t].fd = f
                                  THEN [proc[t] EXCEPT !.fd = "lost"] ELSE proc[t]]

\* `plans delete`, on a plan that could be listed.
DeletePlan(p) ==
  /\ Spend("delete")
  /\ Parses(file[p])
  /\ file' = [file EXCEPT ![p] = NoPlan]
  /\ proc' = Unlinked(p, "file")
  /\ UNCHANGED <<tmp, made, hurt, stamp, crontab, own>>
----------------------------------------------------------------------------
(* A run and its stamp. *)

RunPlan(t, p) ==
  /\ At(t, "home")
  /\ Spend("run")
  /\ Parses(file[p])
  /\ Become(t, [Idle EXCEPT !.at = "running", !.plan = p, !.copy = file[p]])
  /\ UNCHANGED <<file, tmp, made, hurt, stamp, crontab, own>>

\* mark_run reads the plan as it is now; it gives up on one that is gone or
\* does not parse.
MarkRead(t) ==
  LET p == proc[t].plan IN
  /\ At(t, "running")
  /\ stamp' = stamp + 1
  /\ IF Parses(file[p])
     THEN Become(t, [proc[t] EXCEPT !.at = "marking",
                                    !.copy = [file[p] EXCEPT !.last = stamp + 1]])
     ELSE Become(t, Idle)
  /\ UNCHANGED <<file, tmp, made, hurt, crontab, own, left>>

\* Mutant: the temporary file is the plan's own.
ScratchInPlace == "file"

\* The file that is written before it takes the plan's name.
Scratch == "tmp"

\* Stamps of one version may cross, a save must not: its content is another.
Crossed(t) ==
  \E u \in OthersOn(t) : At(u, "saving") \/ proc[u].copy.edit # proc[t].copy.edit

MarkOpen(t) ==
  LET p == proc[t].plan IN
  /\ At(t, "marking")
  /\ Become(t, [proc[t] EXCEPT !.at = "filling", !.fd = Scratch])
  /\ IF Scratch = "tmp"
     THEN tmp' = [tmp EXCEPT ![p] = Torn] /\ UNCHANGED file
     ELSE file' = [file EXCEPT ![p] = Torn] /\ UNCHANGED tmp
  /\ Hurt(t, Crossed(t))
  /\ UNCHANGED <<made, stamp, crontab, own, left>>

\* Where it is by now: under its name, or already moved over the plan.
MarkFill(t) ==
  LET p == proc[t].plan IN
  /\ At(t, "filling")
  /\ \/ /\ proc[t].fd = "tmp"
        /\ tmp' \in {[tmp EXCEPT ![p] = f] : f \in WrittenOver(proc[t].copy, tmp[p])}
        /\ UNCHANGED file
     \/ /\ proc[t].fd = "file"
        /\ file' \in {[file EXCEPT ![p] = f] : f \in WrittenOver(proc[t].copy, file[p])}
        /\ UNCHANGED tmp
     \/ proc[t].fd \in {"lost", "none"} /\ UNCHANGED <<file, tmp>>
  /\ Become(t, [proc[t] EXCEPT !.at = "replacing", !.fd = "none"])
  /\ UNCHANGED <<made, hurt, stamp, crontab, own, left>>

\* os.replace moves whatever has the temporary name; without one it fails.
MarkReplace(t) ==
  LET p == proc[t].plan IN
  /\ At(t, "replacing")
  /\ IF tmp[p].state = "none"
     THEN Become(t, Idle) /\ UNCHANGED <<file, tmp>>
     ELSE /\ file' = [file EXCEPT ![p] = tmp[p]]
          /\ tmp' = [tmp EXCEPT ![p] = NoPlan]
          /\ proc' = [u \in Tuis |->
               IF u = t THEN Idle
               ELSE IF proc[u].plan # p THEN proc[u]
               ELSE IF proc[u].fd = "tmp" THEN [proc[u] EXCEPT !.fd = "file"]
               ELSE IF proc[u].fd = "file" THEN [proc[u] EXCEPT !.fd = "lost"]
               ELSE proc[u]]
  /\ UNCHANGED <<made, hurt, stamp, crontab, own, left>>

\* A stamp that is given up leaves half a file, which harms the plan where
\* another process is about to move it or has moved it there.
StampHarms(t) == At(t, "filling") /\ (proc[t].fd # Scratch \/ OthersOn(t) # {})

\* The write, or the replace, fails: mark_run gives up and leaves what it has
\* written.
MarkFails(t) ==
  /\ proc[t].at \in {"marking", "filling", "replacing"}
  /\ Spend("fail")
  /\ Become(t, Idle)
  /\ Hurt(t, StampHarms(t))
  /\ UNCHANGED <<file, tmp, made, stamp, crontab, own>>

\* The process is killed where it stands.
TuiDies(t) ==
  /\ ~At(t, "gone")
  /\ Spend("die")
  /\ Become(t, [Idle EXCEPT !.at = "gone"])
  /\ Hurt(t, At(t, "saving") \/ StampHarms(t))
  /\ UNCHANGED <<file, tmp, made, stamp, crontab, own>>
----------------------------------------------------------------------------
(* Schedules. *)

\* Mutant: a line too many is dropped.
DropsOneMore == 3

\* Lines dropped where a plan's marker stands: it and the entry below it.
Drops == 2

\* _strip_plan_from_crontab: the lines from the i-th on, without the plan's.
Strip(lines, p) ==
  LET from[i \in 1..(Len(lines) + Drops)] ==
        IF i > Len(lines) THEN <<>>
        ELSE IF lines[i] = Marker(p) THEN from[i + Drops]
        ELSE <<lines[i]>> \o from[i + 1]
  IN from[1]

\* crontab -l: any failure reads as an empty table.
ReadTab == {crontab} \cup (IF "unread" \in Troubles THEN {<<>>} ELSE {})

\* The entry of a plan runs it as it is now, whatever becomes of it later.
Lines(p) == <<Marker(p), Entry(p, IF p = Gc THEN 0 ELSE file[p].edit)>>

\* What is written back on an install: the rest as it was, the new entry last.
Installed(tab, p) == Strip(tab, p) \o Lines(p)

\* [i] on the plan staged from the list, or on a listed schedule whose plan
\* can still be read; the collector needs no plan.
BeginInstall(t, p) ==
  /\ At(t, "home")
  /\ Spend("cron")
  /\ p # Gc => Parses(file[p])
  /\ \E tab \in ReadTab :
       Become(t, [Idle EXCEPT !.at = "table", !.tab = Installed(tab, p)])
  /\ UNCHANGED <<file, tmp, made, hurt, stamp, crontab, own>>

\* What the schedule screen lists: markers of plans, though the plan be gone.
Scheduled ==
  {crontab[i].plan : i \in {j \in DOMAIN crontab : crontab[j].kind = "marker"}} \ {Gc}

\* [r] on a listed schedule, or remove_gc_schedule, which lists nothing.  A
\* table it would not change is not written.
BeginRemove(t, p) ==
  /\ At(t, "home")
  /\ Spend("cron")
  /\ p \in Scheduled \cup {Gc}
  /\ \E tab \in ReadTab :
       IF Strip(tab, p) = tab THEN UNCHANGED proc
       ELSE Become(t, [Idle EXCEPT !.at = "table", !.tab = Strip(tab, p)])
  /\ UNCHANGED <<file, tmp, made, hurt, stamp, crontab, own>>

\* crontab <file> replaces the whole table.
WriteTab(t) ==
  /\ At(t, "table")
  /\ crontab' = proc[t].tab
  /\ Become(t, Idle)
  /\ UNCHANGED <<file, tmp, made, hurt, stamp, own, left>>

\* crontab -e: the operator adds a line of his own at either end.
OperatorEdits ==
  /\ Spend("own")
  /\ "overlap" \in Troubles \/ \A t \in Tuis : ~At(t, "table")
  /\ crontab' \in {Append(crontab, Own(left.own)), <<Own(left.own)>> \o crontab}
  /\ own' = own \cup {Own(left.own)}
  /\ UNCHANGED <<file, tmp, proc, made, hurt, stamp>>

PlanStep(t) ==
  \/ SaveOpen(t) \/ SaveWrite(t) \/ MarkOpen(t) \/ MarkFill(t) \/ MarkReplace(t)
  \/ WriteTab(t)

\* The disk is full, or the directory is gone.
WriteFails(t) == SaveFails(t) \/ MarkFails(t)

AtHome(t) ==
  \/ \E p \in PlanIds : OpenWizard(t, p) \/ RunPlan(t, p)
  \/ \E p \in PlanIds \cup {Gc} : BeginInstall(t, p) \/ BeginRemove(t, p)

Elsewhere == OperatorEdits \/ \E p \in PlanIds : DeletePlan(p)
----------------------------------------------------------------------------
(* Properties. *)

\* When nobody is writing a plan its file parses or is gone: a stamp that is
\* cut short costs the stamp and never the plan, and stamps of one version of
\* it may cross as they like (mark_run).  Left out are plans whose save was
\* cut short or crossed by another writer, on which stamps of two versions
\* crossed, or a stamp cut short across another, whose files the code does
\* lose: see CrashCorruptsNothing.
QuietMeansWhole ==
  \A p \in PlanIds \ hurt :
    file[p].state = "torn" => \E t \in Tuis : HasOpen(t, p)

\* "Atomic write - same write-tmp + os.replace pattern used everywhere else so
\* a crash mid-update can't corrupt the plan file" (mark_run): a plan nobody
\* is writing is never half a plan.  It does not hold: save writes in place,
\* and stamps of two processes share one temporary file.
CrashCorruptsNothing ==
  \A p \in PlanIds :
    file[p].state = "torn" => \E t \in Tuis : HasOpen(t, p)

\* However installs, removals and the operator's edits follow each other,
\* every entry stands below its marker, no plan is run twice, and "[t]he
\* operator's other crontab lines are preserved verbatim", where the table
\* could be read and nobody edited it meanwhile (_strip_plan_from_crontab,
\* generate_crontab_entry, parse_crontab_entries).
CrontabKept ==
  LET Is(kind) == {i \in DOMAIN crontab : crontab[i].kind = kind} IN
  /\ \A i \in Is("marker") : i + 1 \in Is("entry") /\ crontab[i + 1].plan = crontab[i].plan
  /\ \A i \in Is("entry") : i - 1 \in Is("marker")
  /\ \A i, j \in Is("marker") : crontab[i].plan = crontab[j].plan => i = j
  /\ own \subseteq ToSet(crontab)
=============================================================================
