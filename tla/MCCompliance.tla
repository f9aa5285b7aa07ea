---------------------------- MODULE MCCompliance ----------------------------
(***************************************************************************)
(* A small instance of Compliance for TLC: two folders, the first with a   *)
(* data blob, extended attributes and a tree, the second with a tree only; *)
(* more objects than the samples hold.                                     *)
(***************************************************************************)
EXTENDS Compliance

Asked4(encrypted, packed, tree, custom) ==
  [encrypted |-> encrypted, packed |-> packed, tree |-> tree, custom |-> custom]
FourOptions ==
  {Asked4(TRUE, FALSE, 3, FALSE), Asked4(TRUE, FALSE, 4, TRUE), Asked4(TRUE, TRUE, 4, FALSE),
   Asked4(FALSE, FALSE, 3, TRUE)}
TwoFolders == <<"f1", "f2">>
TheirBlobs == [f1 |-> <<"d", "x", "t1">>, f2 |-> <<"t2">>]
Kinds == [d |-> "data", x |-> "xattrs", t1 |-> "tree", t2 |-> "tree"]
\* Of each object keys that are asked for and one that is not, those that tell
\* shapes apart and those that hold what is nested.
SomeKeys ==
  {"isEncrypted", "chunkerVersion", "standardObjectDirs", "backupFolderPlansByUUID", "scheduleJSON",
   "transferRateJSON", "emailReportJSON", "version", "budgetGB", "type", "scheduleType", "maxKBPS",
   "localMountPoint", "diskIdentifier", "node", "isTree", "treeBlobLoc", "holes"}
TheirFiles == [f1 |-> {"a", "b"}, f2 |-> {"a"}]
=============================================================================
