--------------------------- MODULE SnapshotStore ---------------------------
(***************************************************************************)
(* What a destination promises: a set of snapshots, each the view of one   *)
(* folder at one second, that anyone with the password can restore.  A     *)
(* backup run drafts a view file by file and publishes the whole of it in  *)
(* one step, or abandons it.  Nothing else changes a snapshot but pruning, *)
(* which removes one whole snapshot at a time.                             *)
(***************************************************************************)
CONSTANTS
  Walkers,    \* whoever drafts snapshots
  Folders,
  Files,
  Contents,
  NoFolder,   \* the folder of a draft nobody has begun
  NoContent,  \* what a view says of a file that was left out
  Times

VARIABLES
  snaps,      \* [folder, time, view]
  drafts      \* [folder, view] of each walker

Snapshot(folder, time, view) ==
  [folder |-> folder, time |-> time, view |-> view]
Others(folder, time) ==
  {s \in snaps : s.folder # folder \/ s.time # time}

NoView == [file \in Files |-> NoContent]
NoDraft == [folder |-> NoFolder, view |-> NoView]

Init ==
  /\ snaps = {}
  /\ drafts = [w \in Walkers |-> NoDraft]

Begin(w, folder) ==
  /\ drafts[w] = NoDraft
  /\ drafts' = [drafts EXCEPT ![w].folder = folder]
  /\ UNCHANGED snaps

Take(w, file, content) ==
  /\ drafts[w].folder # NoFolder
  /\ drafts' = [drafts EXCEPT ![w].view[file] = content]
  /\ UNCHANGED snaps

\* The draft becomes the folder's only snapshot of that second.
Publish(w, time) ==
  /\ drafts[w].folder # NoFolder
  /\ snaps' = Others(drafts[w].folder, time)
                \cup {Snapshot(drafts[w].folder, time, drafts[w].view)}
  /\ drafts' = [drafts EXCEPT ![w] = NoDraft]

Abandon(w) ==
  /\ drafts' = [drafts EXCEPT ![w] = NoDraft]
  /\ UNCHANGED snaps

Prune(s) ==
  /\ snaps' = Others(s.folder, s.time)
  /\ UNCHANGED drafts

Next ==
  \/ \E w \in Walkers :
       \/ \E folder \in Folders : Begin(w, folder)
       \/ \E file \in Files, content \in Contents : Take(w, file, content)
       \/ \E time \in Times : Publish(w, time)
       \/ Abandon(w)
  \/ \E s \in snaps : Prune(s)

Spec == Init /\ [][Next]_<<snaps, drafts>>
=============================================================================
