-------------------------------- MODULE Sftp --------------------------------
(***************************************************************************)
(* One SftpBackend, shared by the threads that list and read through it    *)
(* (arq_validator/sftp.py).                                                *)
(*                                                                         *)
(* Every operation is a few batches for the server.  A batch is tried      *)
(* again with back-off while its error looks like a rate limit, and once   *)
(* over a new ssh master when it looks like a dropped connection.  The     *)
(* connection may be lost before, within or after what a batch does.       *)
(***************************************************************************)
EXTENDS Naturals, FiniteSets

CONSTANTS
  Threads,
  Paths,        \* absolute paths on the server
  MaxAttempts,  \* _BackoffPolicy.max_attempts
  Threshold,    \* rate_limit_abort_threshold
  Shell,        \* whether the server runs ssh commands, or sftp alone
  Passwords,    \* the ways to log in: TRUE with a password, FALSE with a key
  MaxCalls,     \* bound: operations
  MaxFaults     \* bound: commands the network or the server fails

ASSUME SftpAssumption ==
  /\ {MaxAttempts, Threshold} \subseteq Nat \ {0}
  /\ {Shell} \cup Passwords \subseteq BOOLEAN
  /\ {MaxCalls, MaxFaults} \subseteq Nat

VARIABLES
  server,    \* what is at each path
  part,      \* what is at its .partial name
  password,  \* how this backend logs in
  master,    \* _master: the ssh process it holds, 0 for None
  sock,      \* _sock: the control socket it uses, 0 for None
  procs,     \* ssh masters that run
  spawned,   \* masters started so far
  streak,    \* consecutive_failures
  cache,     \* _read_cache: paths with a local copy
  call,      \* each thread's operation
  reply,     \* history: how its last operation ended
  calls,     \* operations left
  faults     \* failures left

serverVars == <<server, part>>
link == <<master, sock, procs, spawned>>
vars == <<server, part, password, master, sock, procs, spawned, streak, cache,
          call, reply, calls, faults>>

Ops == {"write", "unlink", "mkdir", "read", "exists"}
Changing == {"write", "unlink", "mkdir"}
NoReply == [op |-> "none", ok |-> FALSE]
Resting == [at |-> "idle", op |-> "none", path |-> CHOOSE p \in Paths : TRUE, was |-> "none",
            batch |-> "none", via |-> 0, attempt |-> 0, reopened |-> FALSE,
            tries |-> 0, out |-> "none"]

Init ==
  /\ server \in [Paths -> {"none", "old"}]
  /\ part = [p \in Paths |-> "none"]
  /\ password \in Passwords
  /\ master = 1 /\ sock = 1 /\ procs = {1} /\ spawned = 1
  /\ streak = 0
  /\ cache = {}
  /\ call = [t \in Threads |-> Resting]
  /\ reply = [t \in Threads |-> NoReply]
  /\ calls = MaxCalls
  /\ faults = MaxFaults

At(t, where) == call[t].at = where
Goto(t, where) == call' = [call EXCEPT ![t].at = where]
----------------------------------------------------------------------------
(* Operations and the batches they are made of. *)

\* The operation is over; ok is what its caller is told.
Return(t, ok) ==
  /\ call' = [call EXCEPT ![t] = Resting]
  /\ reply' = [reply EXCEPT ![t] = [op |-> call[t].op, ok |-> ok]]

\* _require_open, and the command is built around the socket of this moment.
Open == master # 0 /\ sock # 0

Batch(t, c, batch) ==
  call' = [call EXCEPT ![t] = [c EXCEPT !.at = "invoke", !.batch = batch, !.via = sock,
                                        !.attempt = 0, !.reopened = FALSE, !.tries = 0]]

\* The next batch of the operation; a closed backend raises instead.
Send(t, batch) ==
  IF Open THEN Batch(t, call[t], batch) /\ UNCHANGED reply
  ELSE Return(t, FALSE)

First == [write |-> "put", unlink |-> "rm", mkdir |-> "cd", read |-> "head", exists |-> "cd"]

\* Threads of one process change a path one at a time; a plan's paths are
\* files or directories, not both.
Begin(t, op, p) ==
  /\ At(t, "idle")
  /\ calls > 0
  /\ \A u \in Threads \ {t} : ~At(u, "idle") => (call[u].path # p \/ {op, call[u].op} \cap Changing = {})
  /\ op \in {"write", "unlink", "read"} => server[p] # "dir"
  /\ op = "mkdir" => server[p] \in {"none", "dir"}
  /\ Open
  /\ calls' = calls - 1
  /\ Batch(t, [Resting EXCEPT !.op = op, !.path = p, !.was = server[p]], First[op])
  /\ UNCHANGED <<serverVars, password, link, streak, cache, reply, faults>>

\* Mutant: unlink takes every failure for a file that is gone.
GoneAnyway(out) == out # "ok"

\* "No such file" is what unlink wants.
Gone(out) == out = "missing"

\* What follows a batch that came back, by the operation it belongs to.
AfterBatch(t, out) ==
  LET c == call[t]  ok == out = "ok" IN
  CASE c.batch = "put"    -> IF ok THEN Return(t, TRUE) ELSE Send(t, "rmpart")
    [] c.batch = "rmpart" -> Return(t, FALSE)
    [] c.batch = "rm"     -> Return(t, ok \/ Gone(out))
    [] c.batch = "cd"     -> IF ok THEN Return(t, TRUE)
                             ELSE Send(t, IF c.op = "mkdir" THEN "mkdir" ELSE "ls")
    [] c.batch = "mkdir"  -> IF ok THEN Return(t, TRUE) ELSE Send(t, "cdafter")
    [] c.batch = "head"   -> IF ok \/ c.path \in cache THEN Return(t, TRUE) ELSE Send(t, "get")
    [] OTHER              -> Return(t, ok)

\* An exception leaves the operation where it is: only the removal of a partial
\* file is guarded, and the operation has failed by then.
Raise(t) == Return(t, FALSE)
----------------------------------------------------------------------------
(* What the server does. *)

\* Mutant: put goes straight to the path.
PutSteps(p, s, q) ==
  {[s |-> s, q |-> q], [s |-> [s EXCEPT ![p] = "torn"], q |-> q],
   [s |-> [s EXCEPT ![p] = "new"], q |-> q]}

\* How far put and rename may get: the file grows under its partial name and
\* takes its own in one step.
PutRename(p, s, q) ==
  {[s |-> s, q |-> q], [s |-> s, q |-> [q EXCEPT ![p] = "torn"]],
   [s |-> s, q |-> [q EXCEPT ![p] = "new"]],
   [s |-> [s EXCEPT ![p] = "new"], q |-> [q EXCEPT ![p] = "none"]]}

Here == [s |-> server, q |-> part]

\* The batch in full.
Done(batch, p) ==
  CASE batch = "put"    -> CHOOSE x \in PutRename(p, server, part) : x.s[p] = "new" /\ x.q[p] = "none"
    [] batch = "rm"     -> [Here EXCEPT !.s[p] = "none"]
    [] batch = "rmpart" -> [Here EXCEPT !.q[p] = "none"]
    [] batch = "mkdir"  -> [Here EXCEPT !.s[p] = "dir"]
    [] OTHER            -> Here

\* What may have happened when the answer does not come.
Cut(batch, p) == IF batch = "put" THEN PutRename(p, server, part) ELSE {Here, Done(batch, p)}

\* What the server says of a batch it carries out.
Says(batch, p) ==
  CASE batch \in {"rm", "get", "ls"} -> IF server[p] = "none" THEN "missing" ELSE "ok"
    [] batch = "rmpart"              -> IF part[p] = "none" THEN "missing" ELSE "ok"
    [] batch \in {"cd", "cdafter"}   -> IF server[p] = "dir" THEN "ok" ELSE "failed"
    [] batch = "mkdir"               -> IF server[p] = "none" THEN "ok" ELSE "failed"
    [] batch = "head"                -> IF Shell /\ server[p] # "none" THEN "ok" ELSE "failed"
    [] OTHER                         -> "ok"

Became(x) == server' = x.s /\ part' = x.q

Answered(t, out) ==
  call' = [call EXCEPT ![t].at = "answer", ![t].out = out, ![t].tries = @ + 1]

\* The command runs: over its master, or without one over a connection of its
\* own, for which a password login has no password to give.
Invoke(t) ==
  LET c == call[t]  p == c.path IN
  /\ At(t, "invoke")
  /\ IF c.via \in procs \/ ~password
     THEN \/ /\ Answered(t, Says(c.batch, p))
             /\ Became(IF Says(c.batch, p) = "ok" THEN Done(c.batch, p) ELSE Here)
             /\ UNCHANGED <<procs, faults>>
          \/ /\ faults > 0 /\ faults' = faults - 1
             /\ Answered(t, "limited")
             /\ UNCHANGED <<serverVars, procs>>
          \/ /\ faults > 0 /\ faults' = faults - 1
             /\ Answered(t, "failed")
             /\ \E x \in IF c.batch = "put" THEN Cut("put", p) ELSE {Here} :
                  x.s = server /\ Became(x)
             /\ UNCHANGED procs
          \/ /\ faults > 0 /\ faults' = faults - 1
             /\ Answered(t, "dropped")
             /\ \E x \in Cut(c.batch, p) : Became(x)
             /\ procs' = procs \ {c.via}
     ELSE /\ Answered(t, IF c.via = sock THEN "dropped" ELSE "failed")
          /\ UNCHANGED <<serverVars, procs, faults>>
  /\ UNCHANGED <<password, master, sock, spawned, streak, cache, reply, calls>>

\* The command outlives its timeout: TimeoutExpired passes by the tally, the
\* loop and the removal of a partial file, and ends the operation.
TimeOut(t) ==
  LET c == call[t] IN
  /\ At(t, "invoke")
  /\ c.via \in procs \/ ~password
  /\ faults > 0 /\ faults' = faults - 1
  /\ \E x \in Cut(c.batch, c.path) : Became(x)
  /\ Raise(t)
  /\ UNCHANGED <<password, link, streak, cache, calls>>
----------------------------------------------------------------------------
(* _run_with_backoff. *)

Matched(out) == out \in {"limited", "dropped"}

\* _RateLimitTracker.record
Recorded(out) == IF Matched(out) THEN streak + 1 ELSE 0

\* Mutant: the reconnect is not marked as used.
ReopenedNever(t) == FALSE

\* Whether this batch has had its reconnect.
Reopened(t) == TRUE

\* The next round of the loop, or the end of it.
Again(t, failures) ==
  IF call[t].attempt + 1 < MaxAttempts
  THEN call' = [call EXCEPT ![t].at = "invoke", ![t].attempt = @ + 1] /\ UNCHANGED reply
  ELSE IF failures >= Threshold THEN Raise(t)
  ELSE AfterBatch(t, call[t].out)

Answer(t) ==
  LET c == call[t] IN
  /\ At(t, "answer")
  /\ streak' = Recorded(c.out)
  /\ cache' = IF c.batch = "get" /\ c.out = "ok" THEN cache \cup {c.path} ELSE cache
  /\ IF ~Matched(c.out) THEN AfterBatch(t, c.out)
     ELSE IF c.out = "dropped" /\ ~c.reopened
     THEN /\ call' = [call EXCEPT ![t].at = "teardown", ![t].reopened = Reopened(t)]
          /\ UNCHANGED reply
     ELSE Again(t, Recorded(c.out))
  /\ UNCHANGED <<serverVars, password, link, calls, faults>>

\* _teardown_master
Teardown(t) ==
  /\ At(t, "teardown")
  /\ procs' = procs \ {master}
  /\ master' = 0
  /\ Goto(t, "enter")
  /\ UNCHANGED <<serverVars, password, sock, spawned, streak, cache, reply, calls, faults>>

\* __enter__ finds the master another thread has opened, or opens one.
Enter(t) ==
  /\ At(t, "enter")
  /\ IF master = 0 THEN Goto(t, "spawn") /\ UNCHANGED reply
     ELSE IF master \in procs THEN Goto(t, "invoke") /\ UNCHANGED reply
     ELSE Again(t, streak)
  /\ UNCHANGED <<serverVars, password, link, streak, cache, calls, faults>>

\* A new process, under a socket of its own.
Spawn(t) ==
  /\ At(t, "spawn")
  /\ spawned' = spawned + 1
  /\ master' = spawned'
  /\ sock' = spawned'
  /\ procs' = procs \cup {spawned'}
  /\ Goto(t, "wait")
  /\ UNCHANGED <<serverVars, password, streak, cache, reply, calls, faults>>

\* Mutant: a master that another thread tore down is waited for.
ReadyWaits(t) ==
  /\ At(t, "wait")
  /\ master \in procs
  /\ \/ Goto(t, "invoke") /\ UNCHANGED <<master, sock, procs, cache, reply, faults>>
     \/ /\ faults > 0
        /\ faults' = faults - 1
        /\ procs' = procs \ {master}
        /\ master' = 0 /\ sock' = 0 /\ cache' = {}
        /\ Again(t, streak)
  /\ UNCHANGED <<serverVars, password, spawned, streak, calls>>

\* Its socket appears and the command is tried once more; or another thread
\* tore it down; or it does not come up, and _cleanup closes the backend.
Ready(t) ==
  /\ At(t, "wait")
  /\ \/ /\ master \in procs
        /\ Goto(t, "invoke")
        /\ UNCHANGED <<master, sock, procs, cache, reply, faults>>
     \/ /\ master \notin procs
        /\ Again(t, streak)
        /\ UNCHANGED <<master, sock, procs, cache, faults>>
     \/ /\ master \in procs /\ faults > 0
        /\ faults' = faults - 1
        /\ procs' = procs \ {master}
        /\ master' = 0 /\ sock' = 0 /\ cache' = {}
        /\ Again(t, streak)
  /\ UNCHANGED <<serverVars, password, spawned, streak, calls>>

Step(t) == \/ Invoke(t) \/ TimeOut(t) \/ Answer(t)
           \/ Teardown(t) \/ Enter(t) \/ Spawn(t) \/ Ready(t)

Next ==
  \E t \in Threads : Step(t) \/ \E op \in Ops, p \in Paths : Begin(t, op, p)

Spec == Init /\ [][Next]_vars

\* A thread that is in an operation goes on with it: every command has a
\* timeout.
FairSpec == Spec /\ \A t \in Threads : WF_vars(Step(t))
----------------------------------------------------------------------------
(* Properties. *)

\* With the bound on what one batch costs: an attempt each, and one more over
\* a reconnect ("so a genuinely unrecoverable master doesn't trap us").
TypeOK ==
  /\ server \in [Paths -> {"none", "old", "new", "torn", "dir"}]
  /\ part \in [Paths -> {"none", "torn", "new"}]
  /\ master \in 0..spawned /\ sock \in 0..spawned /\ procs \subseteq 1..spawned
  /\ cache \subseteq Paths
  /\ \A t \in Threads : call[t].attempt < MaxAttempts /\ call[t].tries <= MaxAttempts + 1
  /\ \A t \in Threads : reply[t].op \in Ops \cup {"none"}

\* A file is whole under its own name, wherever a write of it was cut off and
\* however often it was tried again (write_all).
TornNever == \A p \in Paths : server[p] # "torn"

\* What a caller was told is so: a write, removal or directory that succeeded
\* has taken effect and left no partial file, though its answer was lost and
\* it was sent again; one that failed left what was there or what should be.
SaidIsDone ==
  [][\A t \in Threads :
       LET p == call[t].path  op == call[t].op IN
       (op \in Changing /\ call'[t].at = "idle" /\ ~At(t, "idle")) =>
         LET want == [write |-> "new", unlink |-> "none", mkdir |-> "dir"][op] IN
         IF reply'[t].ok THEN server'[p] = want /\ (op = "write" => part'[p] = "none")
         ELSE server'[p] \in {call[t].was, want}]_vars

\* Whatever the server and the network do, every operation comes back.
CallsReturn == \A t \in Threads : call[t].at # "idle" ~> call[t].at = "idle"
=============================================================================
