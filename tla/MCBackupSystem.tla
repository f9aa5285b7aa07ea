--------------------------- MODULE MCBackupSystem ---------------------------
(***************************************************************************)
(* Small instances of BackupSystem for TLC.                                *)
(***************************************************************************)
EXTENDS BackupSystem, TLC

\* Contents of one size class are alike.
Alike == Permutations(Contents \ Large)

NoKinds == {}
KeepOne == {[last |-> 1, limits |-> <<>>]}

\* "The newest record", "the newest of each of two days" and "everything".
TwoLong == {2}
ThreePolicies ==
  {[last |-> 1, limits |-> (2 :> 0)],
   [last |-> NoLimit, limits |-> (2 :> 2)],
   [last |-> NoLimit, limits |-> (2 :> 0)]}
=============================================================================
