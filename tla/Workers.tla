------------------------------ MODULE Workers ------------------------------
(***************************************************************************)
(* The backup screen and the worker thread it starts in its own process    *)
(* (arq_tui/screens/backup_run.py, workers.py, multi_destination.py).      *)
(*                                                                         *)
(* A plan of one destination gets a BackupWorker, one Backup over all its  *)
(* sources; one that lists additional destinations, though its own be      *)
(* blank, gets run_plan_multi, one Backup after another and a watchdog     *)
(* thread beside each.  Keys come from the event loop's thread at any      *)
(* step.  (The third mode, a child process, is module RunState.)           *)
(***************************************************************************)
EXTENDS Naturals, Sequences

CONSTANTS
  MaxDests,  \* bound: destinations of the plan
  Sources,   \* its source folders
  Checks,    \* checkpoints of the walk of one source
  Failing    \* what may go wrong: "destination", "walk"

ASSUME WorkersAssumption ==
  /\ {MaxDests, Sources, Checks} \subseteq Nat \ {0}
  /\ Failing \subseteq {"destination", "walk"}

VARIABLES
  extra,     \* the plan lists additional destinations
  dests,     \* destinations of the plan
  th,        \* the worker thread: [at, dest, src, check]
  bk,        \* its Backup's flags: [cancelled, paused]
  published, \* the screen can reach the Backup (BackupWorker._backup)
  flag,      \* _cancelled of the worker
  dog,       \* the watchdog of run_plan_multi
  outcomes,  \* PerDestinationOutcome.ok of the destinations so far
  records,   \* history: per destination, the sources whose record is written
  opened,    \* backends open
  after,     \* history: destinations begun since the cancel
  verdict,   \* the message posted at the end
  panel      \* what the screen shows: [open, over, toast]

workerVars == <<extra, dests, th, bk, published, flag, dog, outcomes, records, opened,
                after, verdict, panel>>

\* Which of the two workers runs a plan.
Multi == extra
FreshBackup == [cancelled |-> FALSE, paused |-> FALSE]

WorkersInit ==
  /\ extra \in BOOLEAN
  /\ dests \in 1..MaxDests
  /\ ~Multi => dests = 1
  /\ th = [at |-> "off", dest |-> 0, src |-> 0, check |-> 0]
  /\ bk = FreshBackup
  /\ published = FALSE
  /\ flag = FALSE
  /\ dog = "off"
  /\ outcomes = <<>>
  /\ records = [d \in 1..MaxDests |-> {}]
  /\ opened = 0
  /\ after = 0
  /\ verdict = "none"
  /\ panel = [open |-> FALSE, over |-> FALSE, toast |-> "none"]
----------------------------------------------------------------------------
(* on_mount: the screen starts its worker. *)

StartWorker ==
  /\ th.at = "off"
  /\ \/ /\ panel' = [panel EXCEPT !.open = TRUE]
        /\ th' = [th EXCEPT !.at = IF Multi THEN "top" ELSE "new", !.dest = 1]
        /\ opened' = IF Multi THEN 0 ELSE 1
     \/ /\ ~Multi /\ "destination" \in Failing
        /\ th' = [th EXCEPT !.at = "ended"]
        /\ UNCHANGED <<panel, opened>>
  /\ UNCHANGED <<extra, dests, bk, published, flag, dog, outcomes, records, after, verdict>>

\* The last message of the thread; it waits for the event loop to take it.
Post(what) ==
  /\ verdict' = what
  /\ th' = [th EXCEPT !.at = "posted"]

\* The thread goes on with the first source.
FirstSource == th' = [th EXCEPT !.at = "walk", !.src = 1, !.check = 1]
----------------------------------------------------------------------------
(* BackupWorker._run. *)

NewBackup ==
  /\ th.at = "new"
  /\ \/ /\ th' = [th EXCEPT !.at = "publish"]
        /\ UNCHANGED verdict
     \/ "destination" \in Failing /\ Post("failed")
  /\ bk' = FreshBackup
  /\ UNCHANGED <<extra, dests, published, flag, dog, outcomes, records, opened, after, panel>>

Publish ==
  /\ th.at = "publish"
  /\ published' = TRUE
  /\ th' = [th EXCEPT !.at = "plan"]
  /\ UNCHANGED <<extra, dests, bk, flag, dog, outcomes, records, opened, after, verdict, panel>>

InitPlan ==
  /\ th.at = "plan"
  /\ \/ FirstSource /\ UNCHANGED verdict
     \/ "destination" \in Failing /\ Post("failed")
  /\ UNCHANGED <<extra, dests, bk, published, flag, dog, outcomes, records, opened, after, panel>>
----------------------------------------------------------------------------
(* add_folder, as the worker sees it. *)

\* The exception leaves the loop over the sources: it ends a single run, and
\* in run_plan_multi becomes the outcome of the destination.
Raise(what) ==
  IF Multi
  THEN th' = [th EXCEPT !.at = "close"] /\ UNCHANGED verdict
  ELSE Post(what)

\* Mutant: the loop at a checkpoint asks for the pause alone.
SpinsPaused == bk.paused

Spins == bk.paused /\ ~bk.cancelled

\* A checkpoint: it spins while paused and raises once cancelled.
Checkpoint ==
  /\ th.at = "walk"
  /\ ~Spins
  /\ IF bk.cancelled
     THEN Raise("cancelled")
     ELSE /\ th' = IF th.check < Checks THEN [th EXCEPT !.check = @ + 1]
                   ELSE [th EXCEPT !.at = "record"]
          /\ UNCHANGED verdict
  /\ UNCHANGED <<extra, dests, bk, published, flag, dog, outcomes, records, opened, after, panel>>

\* Past its last checkpoint the folder's record is written, or it raises.
WriteRecord ==
  /\ th.at = "record"
  /\ \/ /\ records' = [records EXCEPT ![th.dest] = @ \cup {th.src}]
        /\ IF th.src < Sources
           THEN /\ th' = [th EXCEPT !.at = "walk", !.src = @ + 1, !.check = 1]
                /\ UNCHANGED verdict
           ELSE IF Multi THEN th' = [th EXCEPT !.at = "done"] /\ UNCHANGED verdict
           ELSE Post("finished")
     \/ /\ "walk" \in Failing
        /\ Raise("failed")
        /\ UNCHANGED records
  /\ UNCHANGED <<extra, dests, bk, published, flag, dog, outcomes, opened, after, panel>>
----------------------------------------------------------------------------
(* run_plan_multi. *)

\* Mutant: the flag is not looked at between destinations.
GivesUpNever == FALSE

GivesUp == flag

\* The top of the loop: give up, or go for the next destination.
NextDest ==
  /\ th.at = "top"
  /\ IF GivesUp \/ th.dest > dests
     THEN Post("finished")
     ELSE th' = [th EXCEPT !.at = "open"] /\ UNCHANGED verdict
  /\ UNCHANGED <<extra, dests, bk, published, flag, dog, outcomes, records, opened, after, panel>>

\* The backend, the Backup, its plan, and the watchdog; each may raise.
OpenDest ==
  /\ th.at = "open"
  /\ after' = IF flag THEN after + 1 ELSE after
  /\ \/ /\ FirstSource
        /\ bk' = FreshBackup
        /\ opened' = opened + 1
        /\ dog' = "polling"
     \/ /\ "destination" \in Failing
        /\ th' = [th EXCEPT !.at = "outcome"]
        /\ UNCHANGED <<bk, opened, dog>>
     \/ /\ "destination" \in Failing
        /\ th' = [th EXCEPT !.at = "close"]
        /\ opened' = opened + 1
        /\ UNCHANGED <<bk, dog>>
  /\ UNCHANGED <<extra, dests, published, flag, outcomes, records, verdict, panel>>

\* The watchdog polls until it is told to stop or has forwarded a cancel.
Watch ==
  /\ dog = "polling"
  /\ flag
  /\ bk' = [cancelled |-> TRUE, paused |-> FALSE]
  /\ dog' = "off"
  /\ UNCHANGED <<extra, dests, th, published, flag, outcomes, records, opened, after, verdict, panel>>

Closed == opened - 1

\* The two finally blocks: the watchdog ends, the backend is closed.
CloseDest ==
  /\ th.at \in {"done", "close"}
  /\ dog' = "off"
  /\ opened' = Closed
  /\ th' = [th EXCEPT !.at = IF th.at = "done" THEN "ok" ELSE "outcome"]
  /\ UNCHANGED <<extra, dests, bk, published, flag, outcomes, records, after, verdict, panel>>

\* Mutant: the loop is left with the destination that failed.
AfterFailureBreak == dests + 1

\* The destination that failed does not keep the next from being tried.
AfterFailure == th.dest + 1

NoteOutcome ==
  /\ th.at \in {"ok", "outcome"}
  /\ outcomes' = Append(outcomes, th.at = "ok")
  /\ th' = [th EXCEPT !.at = "top", !.src = 0, !.check = 0,
                      !.dest = IF th.at = "ok" THEN @ + 1 ELSE AfterFailure]
  /\ UNCHANGED <<extra, dests, bk, published, flag, dog, records, opened, after, verdict, panel>>
----------------------------------------------------------------------------
(* The screen. *)

\* on_worker_finished, on_worker_failed: a result of any shape is a success,
\* a cancel is no error.
OnWorkerDone ==
  /\ th.at = "posted"
  /\ panel.open
  /\ panel' = [panel EXCEPT !.over = TRUE,
                            !.toast = IF verdict = "finished" THEN "complete" ELSE "failed"]
  /\ th' = [th EXCEPT !.at = "ended"]
  /\ UNCHANGED <<extra, dests, bk, published, flag, dog, outcomes, records, opened, after, verdict>>

\* [escape]: the worker's flag, and the Backup where the worker has one.
PressCancel ==
  /\ panel.open /\ ~panel.over
  /\ flag' = TRUE
  /\ bk' = IF published THEN [cancelled |-> TRUE, paused |-> FALSE] ELSE bk
  /\ UNCHANGED <<extra, dests, th, published, dog, outcomes, records, opened, after, verdict, panel>>

\* [escape] once it is over closes the screen and the backend it opened.
CloseScreen ==
  /\ panel.open /\ panel.over
  /\ panel' = [panel EXCEPT !.open = FALSE]
  /\ opened' = IF Multi THEN opened ELSE 0
  /\ UNCHANGED <<extra, dests, th, bk, published, flag, dog, outcomes, records, after, verdict>>

\* [p] where there is a Backup to pause: none with several destinations.
PressPause ==
  /\ panel.open /\ published
  /\ bk' = [bk EXCEPT !.paused = ~@]
  /\ UNCHANGED <<extra, dests, th, published, flag, dog, outcomes, records, opened, after, verdict, panel>>

\* The process ends; its threads are daemons.
WorkerDies ==
  /\ th' = [th EXCEPT !.at = "ended"]
  /\ dog' = "off"
  /\ opened' = 0
  /\ panel' = [panel EXCEPT !.open = FALSE]
  /\ UNCHANGED <<extra, dests, bk, published, flag, outcomes, records, after, verdict>>

ThreadStep ==
  \/ NewBackup \/ Publish \/ InitPlan \/ Checkpoint \/ WriteRecord
  \/ NextDest \/ OpenDest \/ CloseDest \/ NoteOutcome
----------------------------------------------------------------------------
(* Properties. *)

\* What the result says of each destination is what happened there, whatever
\* failed or was cancelled on the way: a destination is called good exactly
\* when it holds a record of every source, one that failed hides none behind
\* it, and a single run that finished has them all (run_plan_multi, _run).
RunToldTrue ==
  /\ \A d \in DOMAIN outcomes : outcomes[d] <=> records[d] = 1..Sources
  /\ verdict = "finished" /\ Multi /\ ~flag => Len(outcomes) = dests
  /\ verdict = "finished" /\ ~Multi => records[1] = 1..Sources

\* Once cancelled a run begins at most the destination whose turn it was, and
\* between destinations no backend is open and no watchdog is left.
CancelLeavesNothing ==
  /\ after <= 1
  /\ Multi /\ th.at \in {"top", "posted", "ended"} => opened = 0 /\ dog = "off"

\* A cancel that reached a Backup, or a worker with a watchdog, ends the run,
\* paused or not.
CancelEndsWorker ==
  (flag /\ (bk.cancelled \/ Multi) /\ th.at # "off") ~> th.at = "ended"

\* "The WorkerFinished result carries the full MultiBackupResult so the
\* screen can render partial-success summaries" (workers.py): what the
\* operator is told is a success, and did not cancel, is one.  It does not
\* hold: on_worker_finished looks into no result, and a run that lost a
\* destination is shown complete.
SuccessShownIsSuccess ==
  panel.toast = "complete" /\ ~flag => \A d \in 1..dests : records[d] = 1..Sources

\* "The Esc key requests cooperative cancellation.  For in-process mode that
\* flips Backup.cancel()" (backup_run.py): the Backup of a cancelled run of one
\* destination is cancelled when it walks.  It does not hold: a cancel that
\* comes before the thread has published its Backup reaches none.
CancelReachesBackup == flag /\ ~Multi /\ th.at = "walk" => bk.cancelled
=============================================================================
