------------------------------- MODULE MCTui -------------------------------
(***************************************************************************)
(* Small instances of Tui for TLC: what the operators may do in one        *)
(* behaviour is drawn from a few budgets, so that the screen with its      *)
(* threads, the writers of one plan and the crontab are each explored to   *)
(* their depth, but not multiplied with each other.                        *)
(***************************************************************************)
EXTENDS Tui, TLC

Nothing == [d \in Deeds |-> 0]
OneScreen == [Nothing EXCEPT !.screen = 1, !.die = 1, !.edit = 1]
Writers == [Nothing EXCEPT !.edit = 1, !.run = 2, !.delete = 1, !.die = 1, !.fail = 1]
Schedulers == [Nothing EXCEPT !.cron = 3, !.own = 1]
EachAlone == {OneScreen, Writers, Schedulers}

\* What refutes CrashCorruptsNothing (two runs whose stamps cross, a save that is
\* cut short), CrontabKept where crontab -l fails, SuccessShownIsSuccess and
\* CancelReachesBackup, each with few steps.
TwoStamps == {[Nothing EXCEPT !.run = 2, !.die = 1]}
OneSave == {[Nothing EXCEPT !.edit = 1, !.die = 1]}
OneInstall == {[Nothing EXCEPT !.cron = 1]}
JustAScreen == {[Nothing EXCEPT !.screen = 1]}
=============================================================================
