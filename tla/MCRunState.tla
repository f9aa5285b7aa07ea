----------------------------- MODULE MCRunState -----------------------------
(***************************************************************************)
(* Small instances of RunState for TLC.                                    *)
(***************************************************************************)
EXTENDS RunState, TLC

CONSTANTS p1, p2, f1

\* One run of the screen, or two of cron on the file of their plan.
ScreenOrCron == {{p1}, {}}
FewEvents == p1 :> 1 @@ p2 :> 0
MoreEvents == p1 :> 2 @@ p2 :> 0
OneFile == p1 :> f1 @@ p2 :> f1
=============================================================================
