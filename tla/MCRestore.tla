----------------------------- MODULE MCRestore -----------------------------
(***************************************************************************)
(* Small instances of Restore for TLC: two records of one folder, with a   *)
(* subdirectory, a file of three names and a symbolic link, the content of *)
(* the three names changed between them.                                   *)
(***************************************************************************)
EXTENDS Restore, TLC

Dir(p, tree) == [path |-> p, kind |-> "dir", blobs |-> <<tree>>, inode |-> 0]
File(p, b, ino) == [path |-> p, kind |-> "file", blobs |-> b, inode |-> ino]
Symlink(p, to) == [path |-> p, kind |-> "symlink", blobs |-> to, inode |-> 0]

Snapshot(root, linked) ==
  <<Dir(<<>>, root), File(<<"a">>, linked, 1), Dir(<<"d">>, "t"), File(<<"d", "b">>, linked, 1),
    File(<<"d", "c">>, <<"p", "q">>, 0), File(<<"e">>, linked, 1), Symlink(<<"s">>, <<"a">>)>>

TwoSnapshots == "r1" :> Snapshot("t1", <<"x">>) @@ "r2" :> Snapshot("t2", <<"y">>)
AllOrSome == {{}, {<<"d", "b">>}, {<<"a">>, <<"d">>}}

Own(body) == [kind |-> "file", body |-> body]
Empty == <<>>
\* A file of the user's own in the way, and one that was renamed before.
InTheWay == <<"X", "d", "c">> :> Own(<<"own">>) @@ <<"X", "d", "c", "~1">> :> Own(<<"older">>)
          @@ <<"X", "a">> :> Own(<<"mine">>)
ADir == [kind |-> "dir", body |-> <<>>]
DirsInTheWay == <<"X", "d">> :> ADir @@ <<"X", "d", "b">> :> ADir @@ <<"X", "s">> :> ADir
FileForDir == <<"X", "d">> :> Own(<<"own">>)
Starts == {Empty, InTheWay, DirsInTheWay, FileForDir}
Tried == <<"~1", "~2">>
=============================================================================
