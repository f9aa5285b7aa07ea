---------------------------- MODULE MCAuditDrip ----------------------------
(***************************************************************************)
(* Small instances of AuditDrip for TLC.  A file is <<computer, family,    *)
(* name>>, families numbered in walk order.                                *)
(***************************************************************************)
EXTENDS AuditDrip

\* The three families of a packed backup, of which large blob packs are walked
\* after tree packs and sort before them, on two computers.
PackedBackup == {<<1, 2, 1>>, <<1, 3, 1>>, <<2, 1, 1>>}
BlobAndTree == {<<1, 2, 1>>, <<2, 1, 1>>}
\* Enough to refute CompleteCoversAll.
TreeAndLarge == {<<1, 2, 1>>, <<1, 3, 1>>}

\* Families that walk and sort alike: the blobs and trees of a packed backup,
\* and the standalone objects of another computer.
TwoComputers == {<<1, 1, 1>>, <<1, 2, 1>>, <<2, 4, 1>>}

OneTree == {<<1, 2, 1>>}
NoFiles == {}
FirstComputer == {1}
BothComputers == {1, 2}
=============================================================================
