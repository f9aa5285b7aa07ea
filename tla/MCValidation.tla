---------------------------- MODULE MCValidation ----------------------------
(***************************************************************************)
(* Small instances of Validation for TLC: two computers, the first with    *)
(* two families, the second with one large file and a record that shares a *)
(* file of the first.                                                      *)
(***************************************************************************)
EXTENDS Validation, TLC

TwoComputers == "c" :> << <<"f1", "f2", "f3", "f4", "f5">>, <<"f6">> >> @@ "d" :> << <<"g1">> >>
TwoFolders == "c" :> <<"r1", "r2">> @@ "d" :> <<"s1">>
Dir(tree, xattrs) == [tree |-> <<tree>>, data |-> <<>>, xattrs |-> xattrs, acl |-> <<>>]
Plain(data, acl) == [tree |-> <<>>, data |-> data, xattrs |-> <<>>, acl |-> acl]
Roots == "r1" :> Dir("f6", <<"f2">>) @@ "r2" :> Dir("f5", <<>>) @@ "s1" :> Plain(<<"g1">>, <<>>)
Trees == "f6" :> <<Dir("f5", <<>>), Dir("f5", <<"f3">>)>> @@ "f5" :> <<Plain(<<"f1", "f2">>, <<"f4">>)>>
OneLarge == {"g1"}
Command(tier, width, incremental, limit) ==
  [tier |-> tier, width |-> width, incremental |-> incremental, limit |-> limit,
   whole |-> tier = "quick"]
AllTiers ==
  {Command(t, 1, FALSE, 0) : t \in {"dryrun", "quick", "deep"}} \cup
  {Command("audit", 2, TRUE, 0), Command("graph", 1, FALSE, 0),
   Command("record", 1, TRUE, 0), Command("record", 1, FALSE, 2)}
=============================================================================
