-------------------------------- MODULE Tui --------------------------------
(***************************************************************************)
(* The TUI as a whole: plans, their schedules, and one backup screen with  *)
(* its worker in detail.  The watched process starts the screen from its   *)
(* plan list and stamps the plan in the handler of the worker's last       *)
(* message; the runs of the other processes are one step each.             *)
(***************************************************************************)
EXTENDS Plans, Workers

CONSTANT Watched  \* the TUI whose backup screen is modelled in detail

ASSUME WatchedAssumption == Watched \in Tuis

vars == <<planVars, workerVars>>

\* A behaviour whose budget opens no screen needs one plan shape only.
Init == PlansInit /\ WorkersInit /\ (left["screen"] = 0 => ~Multi)

\* _run_plan pushes the screen, which starts its worker or closes again.
StartScreen(p) ==
  /\ At(Watched, "home") /\ Parses(file[p])
  /\ Spend("screen")
  /\ StartWorker
  /\ IF panel'.open
     THEN Become(Watched, [Idle EXCEPT !.at = "running", !.plan = p, !.copy = file[p]])
     ELSE UNCHANGED proc
  /\ UNCHANGED <<file, tmp, made, hurt, stamp, crontab, own>>

\* The worker's last message is handled: the screen shows how it went and
\* goes on to stamp the plan.
Finished == OnWorkerDone /\ MarkRead(Watched)

Dies(t) ==
  /\ TuiDies(t)
  /\ IF t = Watched THEN WorkerDies ELSE UNCHANGED workerVars

Thread == (ThreadStep \/ Watch) /\ UNCHANGED planVars

\* A process whose screen is open takes keys there, one that has none takes
\* them in its plan list.
Key(t) ==
  \/ CloseWizard(t) /\ UNCHANGED workerVars
  \/ AtHome(t) /\ (t = Watched => ~panel.open) /\ UNCHANGED workerVars
  \/ MarkRead(t) /\ (t = Watched => ~panel.open) /\ UNCHANGED workerVars

ScreenKey ==
  /\ At(Watched, "home") \/ At(Watched, "running")
  /\ PressCancel \/ PressPause \/ CloseScreen
  /\ UNCHANGED planVars

FileStep(t) == PlanStep(t) /\ UNCHANGED workerVars

Fails(t) == WriteFails(t) /\ UNCHANGED workerVars

Next ==
  \/ \E p \in PlanIds : StartScreen(p)
  \/ Thread \/ Finished \/ ScreenKey
  \/ \E t \in Tuis : FileStep(t) \/ Fails(t) \/ Key(t) \/ Dies(t)
  \/ Elsewhere /\ UNCHANGED workerVars

Spec == Init /\ [][Next]_vars

\* Threads and handlers go on; nobody has to press a key or start anything.
Fairness ==
  /\ WF_vars(ThreadStep /\ UNCHANGED planVars)
  /\ WF_vars(Watch /\ UNCHANGED planVars)
  /\ WF_vars(Finished \/ \E t \in Tuis : FileStep(t))

FairSpec == Spec /\ Fairness
=============================================================================
