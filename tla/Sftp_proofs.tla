----------------------------- MODULE Sftp_proofs -----------------------------
(***************************************************************************)
(* What one SftpBackend tells its callers is so, for any number of threads *)
(* and paths, any retry limits, either kind of server and login, and any   *)
(* number of faults, dropped answers and reconnects.                       *)
(*                                                                         *)
(* The argument: an operation that changes a path has it to itself, so     *)
(* while it runs the path holds what was there when it began or what it    *)
(* wants; every answer but a dropped one speaks of the server as it is;    *)
(* and a batch that ran and was not heard of is one that can run again.    *)
(***************************************************************************)
EXTENDS Sftp, TLAPS

Places == {"invoke", "answer", "teardown", "enter", "spawn", "wait"}
Reopening == {"teardown", "enter", "spawn", "wait"}
Outs == {"none", "ok", "missing", "failed", "limited", "dropped"}
Whole == {"none", "old", "new", "dir"}
Parts == {"none", "torn", "new"}

\* The batches of each operation, and what one that changes a path is for.
Batches == [write |-> {"put", "rmpart"}, unlink |-> {"rm"}, mkdir |-> {"cd", "mkdir", "cdafter"},
            read |-> {"head", "get"}, exists |-> {"cd", "ls"}]
AllBatches == {"put", "rmpart", "rm", "cd", "mkdir", "cdafter", "head", "get", "ls"}
Want == [write |-> "new", unlink |-> "none", mkdir |-> "dir"]

Calls == [at : Places, op : Ops, path : Paths, was : Whole, batch : AllBatches, via : Nat,
          attempt : Nat, reopened : BOOLEAN, tries : Nat, out : Outs]

\* A connection is reopened for a batch that was dropped, and once.
Typed(c) ==
  /\ c \in Calls
  /\ c.batch \in Batches[c.op]
  /\ c.at \in Reopening => c.reopened /\ c.out = "dropped"

\* One command an attempt, and one more once the connection was reopened.
Counted(c) ==
  /\ c.attempt < MaxAttempts
  /\ c.tries <= c.attempt + (IF c.at = "invoke" THEN 0 ELSE 1)
                 + (IF c.reopened /\ c.at \notin Reopening THEN 1 ELSE 0)

\* What a changing operation knows of its path, s and q being what is there and
\* under its partial name.
Backed(c, s, q) ==
  c.op \in Changing =>
    /\ s[c.path] \in {c.was, Want[c.op]}
    /\ c.at = "answer" /\ c.out = "ok" /\ c.batch # "rmpart" => s[c.path] = Want[c.op]
    /\ c.at = "answer" /\ c.out = "ok" /\ c.batch = "put" => q[c.path] = "none"
    /\ c.at = "answer" /\ c.out = "missing" /\ c.batch = "rm" => s[c.path] = "none"

\* An answer to the operation, true or not, of what it is for.
True(c, ok, s, q) ==
  c.op \in Changing =>
    IF ok THEN s[c.path] = Want[c.op] /\ (c.op = "write" => q[c.path] = "none")
    ELSE s[c.path] \in {c.was, Want[c.op]}

Sound(c, s, q) == c = Resting \/ (Typed(c) /\ Counted(c) /\ Backed(c, s, q))

Apart(c, d) ==
  (c.at # "idle" /\ d.at # "idle" /\ c.path = d.path) => c.op \notin Changing /\ d.op \notin Changing

FilesWhole == server \in [Paths -> Whole] /\ part \in [Paths -> Parts]

LinkTyped ==
  /\ spawned \in Nat /\ master \in 0..spawned /\ sock \in 0..spawned /\ procs \subseteq 1..spawned
  /\ cache \subseteq Paths
  /\ reply \in [Threads -> [op : Ops \cup {"none"}, ok : BOOLEAN]]

CallsSound ==
  /\ call = [t \in Threads |-> call[t]]
  /\ \A t \in Threads : Sound(call[t], server, part)
  /\ \A t, u \in Threads : t # u => Apart(call[t], call[u])

SftpInv == FilesWhole /\ LinkTyped /\ CallsSound
----------------------------------------------------------------------------
(* What the operations' tables say. *)

LEMMA Tables ==
  /\ \A op \in Ops : Batches[op] \subseteq AllBatches
  /\ \A op \in Ops : First[op] \in Batches[op]
  /\ Want["write"] = "new" /\ Want["unlink"] = "none" /\ Want["mkdir"] = "dir"
  /\ Changing \subseteq Ops
  BY DEF Batches, AllBatches, Ops, First, Want, Changing

\* The invariant gives the type invariant and the first property.
LEMMA InvIsEnough == ASSUME SftpAssumption, SftpInv PROVE TypeOK /\ TornNever
PROOF
  <1>1. server \in [Paths -> {"none", "old", "new", "torn", "dir"}] /\ part \in [Paths -> {"none", "torn", "new"}]
    BY DEF SftpInv, FilesWhole, Whole, Parts
  <1>2. TornNever
    BY DEF SftpInv, FilesWhole, Whole, TornNever
  <1>3. ASSUME NEW t \in Threads
        PROVE  call[t].attempt < MaxAttempts /\ call[t].tries <= MaxAttempts + 1
    <2>1. CASE call[t] = Resting
      BY <2>1 DEF Resting, SftpAssumption
    <2>2. CASE Typed(call[t]) /\ Counted(call[t])
      <3>1. call[t].attempt \in Nat /\ call[t].tries \in Nat /\ MaxAttempts \in Nat
        BY <2>2 DEF Typed, Calls, SftpAssumption
      <3> QED BY <2>2, <3>1 DEF Counted
    <2> QED BY <2>1, <2>2 DEF SftpInv, CallsSound, Sound
  <1>4. \A t \in Threads : reply[t].op \in Ops \cup {"none"}
    BY DEF SftpInv, LinkTyped
  <1> QED BY <1>1, <1>2, <1>3, <1>4 DEF TypeOK, SftpInv, LinkTyped

LEMMA InitSound == ASSUME SftpAssumption, Init PROVE SftpInv
PROOF
  <1>1. FilesWhole
    BY DEF Init, FilesWhole, Whole, Parts
  <1>2. LinkTyped
    BY DEF Init, LinkTyped, NoReply
  <1>3. CallsSound
    <2>1. \A t \in Threads : call[t] = Resting
      BY DEF Init
    <2>2. Resting.at = "idle"
      BY DEF Resting
    <2> QED BY <2>1, <2>2 DEF Init, CallsSound, Sound, Apart
  <1> QED BY <1>1, <1>2, <1>3 DEF SftpInv

\* A thread that moves on within its operation, or ends it, leaves every other
\* operation as sound as it was: only its own path changed, if any.
LEMMA OneCallMoves ==
  ASSUME SftpInv, NEW t \in Threads, NEW e,
         call' = [call EXCEPT ![t] = e],
         Sound(e, server', part'),
         e = Resting \/ (call[t].at # "idle" /\ e.path = call[t].path /\ e.op = call[t].op),
         \/ UNCHANGED serverVars
         \/ /\ call[t].at # "idle"
            /\ call[t].op \in Changing
            /\ \A q \in Paths : q # call[t].path => server'[q] = server[q] /\ part'[q] = part[q]
  PROVE  CallsSound'
PROOF
  <1>1. DOMAIN call = Threads /\ DOMAIN call' = Threads
    BY DEF SftpInv, CallsSound
  <1>2. call'[t] = e /\ \A u \in Threads : u # t => call'[u] = call[u]
    BY <1>1
  <1>3. call' = [u \in Threads |-> call'[u]]
    BY <1>1
  <1>4. ASSUME NEW u \in Threads PROVE Sound(call'[u], server', part')
    <2>1. CASE u = t
      BY <1>2, <2>1
    <2>2. CASE u # t
      <3>1. call'[u] = call[u] /\ Sound(call[u], server, part) /\ Apart(call[t], call[u])
        BY <1>2, <2>2 DEF SftpInv, CallsSound
      <3>2. CASE call[u] = Resting
        BY <3>1, <3>2 DEF Sound
      <3>3. CASE Typed(call[u]) /\ Counted(call[u]) /\ Backed(call[u], server, part)
        <4>1. call[u].path \in Paths /\ call[u].at # "idle"
          BY <3>3 DEF Typed, Calls, Places
        <4>2. CASE UNCHANGED serverVars
          <5>1. Backed(call[u], server', part')
            BY <3>1, <3>3, <4>2 DEF Backed, serverVars
          <5> QED BY <3>1, <3>3, <5>1 DEF Sound, Typed, Counted
        <4>3. CASE /\ call[t].at # "idle" /\ call[t].op \in Changing
                   /\ \A q \in Paths : q # call[t].path => server'[q] = server[q] /\ part'[q] = part[q]
          <5>1. call[u].path # call[t].path
            BY <3>1, <4>1, <4>3 DEF Apart
          <5>2. Backed(call[u], server', part')
            BY <3>1, <3>3, <4>1, <4>3, <5>1 DEF Backed
          <5> QED BY <3>1, <3>3, <5>2 DEF Sound, Typed, Counted
        <4> QED BY <4>2, <4>3
      <3> QED BY <3>1, <3>2, <3>3 DEF Sound
    <2> QED BY <2>1, <2>2
  <1>5. ASSUME NEW u \in Threads, NEW v \in Threads, u # v PROVE Apart(call'[u], call'[v])
    <2>1. Resting.at = "idle"
      BY DEF Resting
    <2>2. Apart(call[u], call[v])
      BY <1>5 DEF SftpInv, CallsSound
    <2>3. CASE u = t
      BY <1>2, <1>5, <2>1, <2>2, <2>3 DEF Apart
    <2>4. CASE v = t
      BY <1>2, <1>5, <2>1, <2>2, <2>4 DEF Apart
    <2>5. CASE u # t /\ v # t
      BY <1>2, <2>2, <2>5
    <2> QED BY <2>3, <2>4, <2>5
  <1> QED BY <1>3, <1>4, <1>5 DEF CallsSound
----------------------------------------------------------------------------
(* How operations end and go on. *)

\* What an answer that was heard says of the server.
Heard(c, out, s, q) ==
  c.op \in Changing =>
    /\ out = "ok" /\ c.batch # "rmpart" => s[c.path] = Want[c.op]
    /\ out = "ok" /\ c.batch = "put" => q[c.path] = "none"
    /\ out = "missing" /\ c.batch = "rm" => s[c.path] = "none"

\* The thread's operation is sound afterwards, and what its caller is told is so.
Goes(t) ==
  /\ CallsSound'
  /\ reply' \in [Threads -> [op : Ops \cup {"none"}, ok : BOOLEAN]]
  /\ call'[t].at = "idle" => True(call[t], reply'[t].ok, server', part')

\* An operation under way is typed, counted and backed.
LEMMA UnderWay ==
  ASSUME SftpInv, NEW t \in Threads, call[t].at # "idle"
  PROVE  Typed(call[t]) /\ Counted(call[t]) /\ Backed(call[t], server, part)
  BY DEF SftpInv, CallsSound, Sound, Resting

LEMMA ReturnGoes ==
  ASSUME SftpInv, NEW t \in Threads, call[t].at # "idle", UNCHANGED serverVars,
         NEW ok \in BOOLEAN, Return(t, ok), True(call[t], ok, server, part)
  PROVE  Goes(t)
PROOF
  <1>1. call' = [call EXCEPT ![t] = Resting]
        /\ reply' = [reply EXCEPT ![t] = [op |-> call[t].op, ok |-> ok]]
    BY DEF Return
  <1>2. CallsSound'
    <2>1. PICK e : e = Resting
      OBVIOUS
    <2> QED BY <1>1, <2>1, OneCallMoves DEF Sound
  <1>3. call[t].op \in Ops
    BY UnderWay DEF Typed, Calls
  <1>4. reply' \in [Threads -> [op : Ops \cup {"none"}, ok : BOOLEAN]] /\ reply'[t].ok = ok
    BY <1>1, <1>3 DEF SftpInv, LinkTyped
  <1> QED BY <1>2, <1>4 DEF Goes, True, serverVars

LEMMA BatchGoes ==
  ASSUME SftpAssumption, SftpInv, NEW t \in Threads, call[t].at # "idle", UNCHANGED serverVars,
         UNCHANGED reply, NEW batch \in Batches[call[t].op], Batch(t, call[t], batch)
  PROVE  Goes(t)
PROOF
  <1>1. PICK e : e = [call[t] EXCEPT !.at = "invoke", !.batch = batch, !.via = sock,
                                     !.attempt = 0, !.reopened = FALSE, !.tries = 0]
    OBVIOUS
  <1>2. call' = [call EXCEPT ![t] = e]
    BY <1>1 DEF Batch
  <1>3. Typed(call[t]) /\ Backed(call[t], server, part) /\ sock \in Nat
    BY UnderWay DEF SftpInv, LinkTyped
  <1>4. Typed(e)
    <2>1. batch \in AllBatches
      BY <1>3, Tables DEF Typed, Calls
    <2>2. e \in Calls
      BY <1>1, <1>3, <2>1 DEF Typed, Calls, Places
    <2>3. e.at = "invoke" /\ e.op = call[t].op /\ e.batch = batch
      BY <1>1, <1>3 DEF Typed, Calls
    <2> QED BY <2>2, <2>3 DEF Typed, Reopening
  <1>5. e.at = "invoke" /\ e.attempt = 0 /\ e.tries = 0 /\ ~e.reopened
        /\ e.path = call[t].path /\ e.op = call[t].op /\ e.was = call[t].was
    BY <1>1, <1>3 DEF Typed, Calls
  <1>6. Counted(e)
    BY <1>5 DEF Counted, Reopening, SftpAssumption
  <1>7. Backed(e, server', part')
    BY <1>3, <1>5 DEF Backed, Reopening, serverVars
  <1>8. CallsSound'
    BY <1>2, <1>4, <1>5, <1>6, <1>7, OneCallMoves DEF Sound
  <1>9. call'[t].at # "idle"
    BY <1>2, <1>5 DEF SftpInv, CallsSound
  <1> QED BY <1>8, <1>9 DEF Goes, SftpInv, LinkTyped

\* The next batch, or the backend is closed and the operation fails.
LEMMA SendGoes ==
  ASSUME SftpAssumption, SftpInv, NEW t \in Threads, call[t].at # "idle", UNCHANGED serverVars,
         NEW batch \in Batches[call[t].op], Send(t, batch)
  PROVE  Goes(t)
PROOF
  <1>1. CASE Open
    BY <1>1, BatchGoes DEF Send
  <1>2. CASE ~Open
    <2>1. True(call[t], FALSE, server, part)
      BY UnderWay DEF True, Backed
    <2> QED BY <1>2, <2>1, ReturnGoes DEF Send
  <1> QED BY <1>1, <1>2

\* What the operation makes of its batch's answer.
LEMMA AfterBatchGoes ==
  ASSUME SftpAssumption, SftpInv, NEW t \in Threads, call[t].at # "idle", UNCHANGED serverVars,
         NEW out, Heard(call[t], out, server, part), AfterBatch(t, out)
  PROVE  Goes(t)
PROOF
  <1> DEFINE c == call[t]  ok == out = "ok"
  <1>1. Typed(c) /\ Backed(c, server, part)
    BY UnderWay
  <1>2. c.op \in Ops /\ c.batch \in AllBatches /\ c.batch \in Batches[c.op]
    BY <1>1 DEF Typed, Calls
  <1>3. True(c, FALSE, server, part)
    BY <1>1 DEF True, Backed
  <1>4. CASE c.batch = "put"
    <2>1. c.op = "write" /\ "rmpart" \in Batches[c.op]
      BY <1>2, <1>4 DEF Batches, Ops
    <2>2. CASE ok
      <3>1. True(c, TRUE, server, part)
        BY <1>4, <2>2 DEF True, Heard
      <3> QED BY <1>4, <2>2, <3>1, ReturnGoes DEF AfterBatch
    <2>3. CASE ~ok
      BY <1>4, <2>1, <2>3, SendGoes DEF AfterBatch
    <2> QED BY <2>2, <2>3
  <1>5. CASE c.batch = "rmpart"
    BY <1>3, <1>5, ReturnGoes DEF AfterBatch
  <1>6. CASE c.batch = "rm"
    <2>1. c.op = "unlink" /\ Want[c.op] = "none"
      BY <1>2, <1>6 DEF Batches, Ops, Want
    <2>2. ASSUME ok \/ Gone(out) PROVE True(c, TRUE, server, part)
      BY <1>6, <2>1, <2>2 DEF True, Heard, Gone
    <2>3. Return(t, ok \/ Gone(out))
      BY <1>6 DEF AfterBatch
    <2> QED BY <1>3, <2>2, <2>3, ReturnGoes
  <1>7. CASE c.batch = "cd"
    <2>1. "mkdir" \in Batches["mkdir"] /\ "ls" \in Batches["exists"]
          /\ c.op \in {"mkdir", "exists"}
      BY <1>2, <1>7 DEF Batches, Ops
    <2>2. CASE ok
      <3>1. True(c, TRUE, server, part)
        BY <1>7, <2>1, <2>2 DEF True, Heard
      <3> QED BY <1>7, <2>2, <3>1, ReturnGoes DEF AfterBatch
    <2>3. CASE ~ok /\ c.op = "mkdir"
      <3>1. Send(t, "mkdir")
        BY <1>7, <2>3 DEF AfterBatch
      <3> QED BY <2>1, <2>3, <3>1, SendGoes
    <2>4. CASE ~ok /\ c.op = "exists"
      <3>1. Send(t, "ls")
        BY <1>7, <2>4 DEF AfterBatch
      <3> QED BY <2>1, <2>4, <3>1, SendGoes
    <2> QED BY <2>1, <2>2, <2>3, <2>4
  <1>8. CASE c.batch = "mkdir"
    <2>1. c.op = "mkdir" /\ "cdafter" \in Batches[c.op]
      BY <1>2, <1>8 DEF Batches, Ops
    <2>2. CASE ok
      <3>1. True(c, TRUE, server, part)
        BY <1>8, <2>1, <2>2 DEF True, Heard
      <3> QED BY <1>8, <2>2, <3>1, ReturnGoes DEF AfterBatch
    <2>3. CASE ~ok
      BY <1>8, <2>1, <2>3, SendGoes DEF AfterBatch
    <2> QED BY <2>2, <2>3
  <1>9. CASE c.batch = "head"
    <2>1. c.op = "read" /\ "get" \in Batches[c.op]
      BY <1>2, <1>9 DEF Batches, Ops
    <2>2. True(c, TRUE, server, part)
      BY <2>1 DEF True, Changing
    <2>3. CASE ok \/ c.path \in cache
      BY <1>9, <2>2, <2>3, ReturnGoes DEF AfterBatch
    <2>4. CASE ~(ok \/ c.path \in cache)
      BY <1>9, <2>1, <2>4, SendGoes DEF AfterBatch
    <2> QED BY <2>3, <2>4
  <1>10. CASE c.batch \in {"cdafter", "get", "ls"}
    <2>1. Return(t, ok)
      BY <1>10 DEF AfterBatch
    <2>2. c.op \in {"mkdir", "read", "exists"}
      BY <1>2, <1>10 DEF Batches, Ops
    <2>3. ASSUME ok PROVE True(c, TRUE, server, part)
      BY <1>10, <2>2, <2>3 DEF True, Heard
    <2> QED BY <1>3, <2>1, <2>3, ReturnGoes
  <1> QED BY <1>2, <1>4, <1>5, <1>6, <1>7, <1>8, <1>9, <1>10 DEF AllBatches
----------------------------------------------------------------------------
(* The retry loop. *)

\* A step of the loop changes where an operation is, its attempt and whether
\* it has reconnected, never what it is about.
LEMMA LoopGoes ==
  ASSUME SftpInv, NEW t \in Threads, call[t].at # "idle", UNCHANGED serverVars, UNCHANGED reply,
         NEW e, Typed(e), Counted(e), e.at # "answer",
         e.op = call[t].op, e.path = call[t].path, e.was = call[t].was,
         call' = [call EXCEPT ![t] = e]
  PROVE  Goes(t)
PROOF
  <1>1. Backed(e, server', part')
    BY UnderWay DEF Backed, serverVars
  <1>2. CallsSound'
    BY <1>1, OneCallMoves DEF Sound
  <1>3. call'[t] = e /\ e.at # "idle"
    BY DEF SftpInv, CallsSound, Typed, Calls, Places
  <1> QED BY <1>2, <1>3 DEF Goes, SftpInv, LinkTyped

\* Another attempt, the error raised, or what the last answer is taken for.
LEMMA AgainGoes ==
  ASSUME SftpAssumption, SftpInv, NEW t \in Threads, call[t].at \in Reopening \cup {"answer"},
         UNCHANGED serverVars, Matched(call[t].out),
         NEW failures, Again(t, failures)
  PROVE  Goes(t)
PROOF
  <1> DEFINE c == call[t]
  <1>1. Typed(c) /\ Counted(c) /\ Backed(c, server, part) /\ c.at # "idle"
    BY UnderWay DEF Reopening
  <1>2. CASE c.attempt + 1 < MaxAttempts
    <2>1. PICK e : e = [c EXCEPT !.at = "invoke", !.attempt = @ + 1]
      OBVIOUS
    <2>2. call' = [call EXCEPT ![t] = e] /\ UNCHANGED reply
      BY <1>2, <2>1 DEF Again, SftpInv, CallsSound
    <2>3. /\ e.at = "invoke" /\ e.attempt = c.attempt + 1 /\ e.tries = c.tries
          /\ e.reopened = c.reopened /\ e.op = c.op /\ e.path = c.path /\ e.was = c.was
      BY <1>1, <2>1 DEF Typed, Calls
    <2>4. Typed(e)
      <3>1. c.attempt + 1 \in Nat
        BY <1>1 DEF Typed, Calls
      <3>2. e.at = "invoke" /\ e \in Calls
        BY <1>1, <2>1, <3>1 DEF Typed, Calls, Places
      <3>3. e.batch = c.batch
        BY <1>1, <2>1 DEF Typed, Calls
      <3> QED BY <1>1, <2>3, <3>2, <3>3 DEF Typed, Reopening
    <2>5. c.attempt \in Nat /\ c.tries \in Nat
      BY <1>1 DEF Typed, Calls
    <2>6. c.tries <= c.attempt + 1 + (IF c.reopened THEN 1 ELSE 0)
      BY <1>1, <2>5 DEF Counted, Reopening
    <2>7. Counted(e)
      BY <1>2, <2>3, <2>5, <2>6 DEF Counted, Reopening
    <2> QED BY <1>1, <2>2, <2>3, <2>4, <2>7, LoopGoes DEF Reopening
  <1>3. CASE ~(c.attempt + 1 < MaxAttempts) /\ failures >= Threshold
    <2>1. True(c, FALSE, server, part)
      BY <1>1 DEF True, Backed
    <2>2. Return(t, FALSE)
      BY <1>3 DEF Again, Raise
    <2> QED BY <1>1, <2>1, <2>2, ReturnGoes
  <1>4. CASE ~(c.attempt + 1 < MaxAttempts) /\ ~(failures >= Threshold)
    <2>1. Heard(c, c.out, server, part)
      BY DEF Heard, Matched
    <2>2. AfterBatch(t, c.out)
      BY <1>4 DEF Again
    <2> QED BY <1>1, <2>1, <2>2, AfterBatchGoes
  <1> QED BY <1>2, <1>3, <1>4

LEMMA AnswerGoes ==
  ASSUME SftpAssumption, SftpInv, NEW t \in Threads, Answer(t)
  PROVE  Goes(t)
PROOF
  <1> DEFINE c == call[t]
  <1>1. At(t, "answer") /\ c.at = "answer" /\ UNCHANGED serverVars
    BY DEF Answer, At
  <1>2. Typed(c) /\ Counted(c) /\ Backed(c, server, part)
    BY <1>1, UnderWay
  <1>3. CASE ~Matched(c.out)
    <2>1. AfterBatch(t, c.out)
      BY <1>3 DEF Answer
    <2>2. Heard(c, c.out, server, part)
      BY <1>1, <1>2 DEF Heard, Backed
    <2> QED BY <1>1, <2>1, <2>2, AfterBatchGoes
  <1>4. CASE Matched(c.out) /\ c.out = "dropped" /\ ~c.reopened
    <2>1. PICK e : e = [c EXCEPT !.at = "teardown", !.reopened = TRUE]
      OBVIOUS
    <2>2. call' = [call EXCEPT ![t] = e] /\ UNCHANGED reply
      BY <1>4, <2>1 DEF Answer, Reopened, SftpInv, CallsSound
    <2>3. /\ e.at = "teardown" /\ e.attempt = c.attempt /\ e.tries = c.tries /\ e.out = "dropped"
          /\ e.reopened /\ e.op = c.op /\ e.path = c.path /\ e.was = c.was
      BY <1>2, <1>4, <2>1 DEF Typed, Calls
    <2>4. Typed(e)
      <3>1. e \in Calls /\ e.batch = c.batch
        BY <1>2, <2>1 DEF Typed, Calls, Places
      <3> QED BY <1>2, <2>3, <3>1 DEF Typed
    <2>5. Counted(e)
      BY <1>1, <1>2, <1>4, <2>3 DEF Counted, Reopening
    <2> QED BY <1>1, <2>2, <2>3, <2>4, <2>5, LoopGoes
  <1>5. CASE Matched(c.out) /\ ~(c.out = "dropped" /\ ~c.reopened)
    <2>1. Again(t, Recorded(c.out))
      BY <1>5 DEF Answer
    <2> QED BY <1>1, <1>5, <2>1, AgainGoes
  <1> QED BY <1>3, <1>4, <1>5

\* Through the reconnect, one place to the next.
LEMMA PlaceGoes ==
  ASSUME SftpAssumption, SftpInv, NEW t \in Threads, call[t].at \in Reopening,
         NEW where \in Places \ {"answer"}, Goto(t, where), UNCHANGED serverVars, UNCHANGED reply
  PROVE  Goes(t)
PROOF
  <1> DEFINE c == call[t]
  <1>1. Typed(c) /\ Counted(c) /\ Backed(c, server, part) /\ c.at # "idle"
    BY UnderWay DEF Reopening
  <1>2. PICK e : e = [c EXCEPT !.at = where]
    OBVIOUS
  <1>3. call' = [call EXCEPT ![t] = e]
    BY <1>2 DEF Goto, SftpInv, CallsSound
  <1>4. /\ e.at = where /\ e.attempt = c.attempt /\ e.tries = c.tries /\ e.out = c.out
        /\ e.reopened = c.reopened /\ e.op = c.op /\ e.path = c.path /\ e.was = c.was
    BY <1>1, <1>2 DEF Typed, Calls
  <1>5. Typed(e)
    BY <1>1, <1>2, <1>4 DEF Typed, Calls
  <1>6. c.tries <= c.attempt + 1 /\ c.reopened /\ c.attempt \in Nat /\ c.tries \in Nat
    <2>1. c.attempt \in Nat /\ c.tries \in Nat
      BY <1>1 DEF Typed, Calls
    <2> QED BY <1>1, <2>1 DEF Typed, Counted, Reopening
  <1>7. Counted(e)
    <2>1. CASE where = "invoke"
      BY <1>1, <1>4, <1>6, <2>1 DEF Counted, Reopening
    <2>2. CASE where \in Reopening
      BY <1>1, <1>4, <1>6, <2>2 DEF Counted, Reopening
    <2> QED BY <2>1, <2>2 DEF Places, Reopening
  <1> QED BY <1>1, <1>3, <1>4, <1>5, <1>7, LoopGoes DEF Places

LEMMA TeardownGoes == ASSUME SftpAssumption, SftpInv, NEW t \in Threads, Teardown(t) PROVE Goes(t)
  BY PlaceGoes DEF Teardown, At, Reopening, Places

LEMMA SpawnGoes == ASSUME SftpAssumption, SftpInv, NEW t \in Threads, Spawn(t) PROVE Goes(t)
  BY PlaceGoes DEF Spawn, At, Reopening, Places

\* A master that is there is used, one that died costs an attempt.
LEMMA EnterGoes == ASSUME SftpAssumption, SftpInv, NEW t \in Threads, Enter(t) PROVE Goes(t)
PROOF
  <1>1. call[t].at = "enter" /\ UNCHANGED serverVars
    BY DEF Enter, At
  <1>2. Matched(call[t].out)
    BY <1>1, UnderWay DEF Typed, Matched, Reopening
  <1>3. CASE Again(t, streak)
    BY <1>1, <1>2, <1>3, AgainGoes DEF Reopening
  <1>4. CASE (Goto(t, "spawn") \/ Goto(t, "invoke")) /\ UNCHANGED reply
    BY <1>1, <1>4, PlaceGoes DEF Reopening, Places
  <1> QED BY <1>3, <1>4 DEF Enter

LEMMA ReadyGoes == ASSUME SftpAssumption, SftpInv, NEW t \in Threads, Ready(t) PROVE Goes(t)
PROOF
  <1>1. call[t].at = "wait" /\ UNCHANGED serverVars
    BY DEF Ready, At
  <1>2. Matched(call[t].out)
    BY <1>1, UnderWay DEF Typed, Matched, Reopening
  <1>3. CASE Again(t, streak)
    BY <1>1, <1>2, <1>3, AgainGoes DEF Reopening
  <1>4. CASE Goto(t, "invoke") /\ UNCHANGED reply
    BY <1>1, <1>4, PlaceGoes DEF Reopening, Places
  <1> QED BY <1>3, <1>4 DEF Ready
----------------------------------------------------------------------------
(* Commands. *)

\* What a batch makes of a path, if anything.
Makes == [b \in AllBatches |-> IF b = "put" THEN "new" ELSE IF b = "rm" THEN "none" ELSE "dir"]

\* Wherever a batch is cut off: only its own path changes, to what it makes.
Effect(x, b, p) ==
  /\ x.s \in [Paths -> Whole] /\ x.q \in [Paths -> Parts]
  /\ \A r \in Paths : r # p => x.s[r] = server[r] /\ x.q[r] = part[r]
  /\ x.s[p] \in {server[p], Makes[b]}
  /\ b \notin {"put", "rmpart", "rm", "mkdir"} => x.s = server /\ x.q = part
  /\ b = "rmpart" => x.s = server

LEMMA HereEffect ==
  ASSUME FilesWhole, NEW b \in AllBatches, NEW p \in Paths
  PROVE  Effect(Here, b, p)
  BY DEF FilesWhole, Effect, Here

LEMMA PutEffect ==
  ASSUME FilesWhole, NEW p \in Paths, NEW x \in PutRename(p, server, part)
  PROVE  Effect(x, "put", p)
PROOF
  <1>1. Makes["put"] = "new"
    BY DEF Makes, AllBatches
  <1>2. CASE x = [s |-> server, q |-> part]
    BY <1>1, <1>2 DEF FilesWhole, Effect
  <1>3. CASE x = [s |-> server, q |-> [part EXCEPT ![p] = "torn"]]
    BY <1>1, <1>3 DEF FilesWhole, Effect, Parts
  <1>4. CASE x = [s |-> server, q |-> [part EXCEPT ![p] = "new"]]
    BY <1>1, <1>4 DEF FilesWhole, Effect, Parts
  <1>5. CASE x = [s |-> [server EXCEPT ![p] = "new"], q |-> [part EXCEPT ![p] = "none"]]
    BY <1>1, <1>5 DEF FilesWhole, Effect, Parts, Whole
  <1> QED BY <1>2, <1>3, <1>4, <1>5 DEF PutRename

LEMMA DoneEffect ==
  ASSUME FilesWhole, NEW b \in AllBatches, NEW p \in Paths
  PROVE  /\ Effect(Done(b, p), b, p)
         /\ b \in {"put", "rm", "mkdir"} => Done(b, p).s[p] = Makes[b]
         /\ b = "put" => Done(b, p).q[p] = "none"
         /\ b = "put" => Done(b, p) \in PutRename(p, server, part)
PROOF
  <1>1. CASE b = "put"
    <2> DEFINE full == [s |-> [server EXCEPT ![p] = "new"], q |-> [part EXCEPT ![p] = "none"]]
               P == PutRename(p, server, part)
    <2>1. full \in P /\ full.s[p] = "new" /\ full.q[p] = "none"
      BY DEF PutRename, FilesWhole
    <2>2. Done(b, p) = CHOOSE x \in P : x.s[p] = "new" /\ x.q[p] = "none"
      BY <1>1 DEF Done
    <2> HIDE DEF full, P
    <2>3. Done(b, p) \in P /\ Done(b, p).s[p] = "new" /\ Done(b, p).q[p] = "none"
      BY <2>1, <2>2
    <2>4. Effect(Done(b, p), "put", p)
      BY <2>3, PutEffect DEF P
    <2> QED BY <1>1, <2>3, <2>4 DEF Makes, P
  <1>2. CASE b = "rm"
    <2>1. Done(b, p) = [s |-> [server EXCEPT ![p] = "none"], q |-> part]
      BY <1>2 DEF Done, Here
    <2> QED BY <1>2, <2>1 DEF FilesWhole, Effect, Makes, Whole
  <1>3. CASE b = "mkdir"
    <2>1. Done(b, p) = [s |-> [server EXCEPT ![p] = "dir"], q |-> part]
      BY <1>3 DEF Done, Here
    <2> QED BY <1>3, <2>1 DEF FilesWhole, Effect, Makes, Whole
  <1>4. CASE b = "rmpart"
    <2>1. Done(b, p) = [s |-> server, q |-> [part EXCEPT ![p] = "none"]]
      BY <1>4 DEF Done, Here
    <2> QED BY <1>4, <2>1 DEF FilesWhole, Effect, Parts
  <1>5. CASE b \notin {"put", "rm", "mkdir", "rmpart"}
    <2>1. Done(b, p) = Here
      BY <1>5 DEF Done
    <2> QED BY <1>5, <2>1, HereEffect
  <1> QED BY <1>1, <1>2, <1>3, <1>4, <1>5

LEMMA CutEffect ==
  ASSUME FilesWhole, NEW b \in AllBatches, NEW p \in Paths, NEW x \in Cut(b, p)
  PROVE  Effect(x, b, p)
  BY HereEffect, PutEffect, DoneEffect DEF Cut

\* What a command does, heard of or not, is its own operation's: its path goes
\* to what is wanted if anywhere, and nothing else changes.
LEMMA EffectIsOwn ==
  ASSUME SftpInv, NEW t \in Threads, call[t].at # "idle",
         NEW x, Effect(x, call[t].batch, call[t].path), Became(x)
  PROVE  /\ call[t].op \in Changing => x.s[call[t].path] \in {call[t].was, Want[call[t].op]}
         /\ \/ UNCHANGED serverVars
            \/ /\ call[t].op \in Changing
               /\ \A q \in Paths : q # call[t].path => server'[q] = server[q] /\ part'[q] = part[q]
PROOF
  <1> DEFINE c == call[t]  p == c.path  b == c.batch
  <1>1. /\ Typed(c) /\ Backed(c, server, part)
        /\ b \in AllBatches /\ p \in Paths /\ c.op \in Ops /\ b \in Batches[c.op]
    BY UnderWay DEF Typed, Calls
  <1>2. ASSUME c.op \in Changing PROVE x.s[p] \in {c.was, Want[c.op]}
    <2>1. server[p] \in {c.was, Want[c.op]} /\ x.s[p] \in {server[p], Makes[b]}
      BY <1>1, <1>2 DEF Backed, Effect
    <2>2. CASE b \in {"put", "rm", "mkdir"}
      <3>1. Makes[b] = Want[c.op]
        BY <1>1, <1>2, <2>2 DEF Makes, AllBatches, Want, Batches, Changing
      <3> QED BY <2>1, <3>1
    <2>3. CASE b \notin {"put", "rm", "mkdir"}
      <3>1. x.s = server
        BY <2>3 DEF Effect
      <3> QED BY <2>1, <3>1
    <2> QED BY <2>2, <2>3
  <1>3. server' = x.s /\ part' = x.q
    BY DEF Became
  <1>4. CASE c.op \in Changing
    BY <1>2, <1>3, <1>4 DEF Effect
  <1>5. CASE c.op \notin Changing
    <2>1. b \in {"head", "get", "cd", "ls"}
      BY <1>1, <1>5 DEF Batches, Changing, Ops
    <2>2. x.s = server /\ x.q = part
      BY <2>1 DEF Effect
    <2> QED BY <1>3, <1>5, <2>2 DEF serverVars
  <1> QED BY <1>4, <1>5

\* Where a command leaves the server, and what is heard of it.
LEMMA InvokeEffect ==
  ASSUME SftpInv, NEW t \in Threads, Invoke(t)
  PROVE  \E out \in Outs : \E x :
           /\ Answered(t, out) /\ Became(x) /\ Effect(x, call[t].batch, call[t].path)
           /\ out = "ok" => x = Done(call[t].batch, call[t].path)
           /\ out \in {"ok", "missing"} => out = Says(call[t].batch, call[t].path)
PROOF
  <1> DEFINE c == call[t]  p == c.path  b == c.batch
  <1>1. c.batch \in AllBatches /\ p \in Paths
    BY UnderWay DEF Invoke, At, Typed, Calls
  <1>2. FilesWhole
    BY DEF SftpInv
  <1>3. Says(b, p) \in {"ok", "missing", "failed"}
    BY DEF Says
  <1>4. CASE Answered(t, Says(b, p)) /\ Became(IF Says(b, p) = "ok" THEN Done(b, p) ELSE Here)
    <2>1. Effect(IF Says(b, p) = "ok" THEN Done(b, p) ELSE Here, b, p)
      BY <1>1, <1>2, HereEffect, DoneEffect
    <2> QED BY <1>3, <1>4, <2>1 DEF Outs
  <1>5. CASE \E out \in {"limited", "dropped", "failed"} : Answered(t, out) /\ UNCHANGED serverVars
    <2>1. PICK out \in {"limited", "dropped", "failed"} : Answered(t, out) /\ UNCHANGED serverVars
      BY <1>5
    <2>2. Became(Here)
      BY <2>1 DEF Became, Here, serverVars
    <2> QED BY <1>1, <1>2, <2>1, <2>2, HereEffect DEF Outs
  <1>6. CASE \E out \in {"failed", "dropped"}, x \in Cut(b, p) : Answered(t, out) /\ Became(x)
    BY <1>1, <1>2, <1>6, CutEffect DEF Outs
  <1>7. ASSUME Answered(t, "failed"), \E x \in IF b = "put" THEN Cut("put", p) ELSE {Here} : Became(x)
        PROVE  \E x \in Cut(b, p) : Became(x)
    BY <1>7 DEF Cut
  <1> QED BY <1>4, <1>5, <1>6, <1>7 DEF Invoke

LEMMA InvokeGoes ==
  ASSUME SftpAssumption, SftpInv, NEW t \in Threads, Invoke(t)
  PROVE  Goes(t) /\ FilesWhole'
PROOF
  <1> DEFINE c == call[t]  p == c.path  b == c.batch
  <1>0. PICK out \in Outs : \E x :
          /\ Answered(t, out) /\ Became(x) /\ Effect(x, b, p)
          /\ out = "ok" => x = Done(b, p)
          /\ out \in {"ok", "missing"} => out = Says(b, p)
    BY InvokeEffect
  <1>1. PICK x :
          /\ Answered(t, out) /\ Became(x) /\ Effect(x, b, p)
          /\ out = "ok" => x = Done(b, p)
          /\ out \in {"ok", "missing"} => out = Says(b, p)
    BY <1>0
  <1>2. /\ c.at = "invoke" /\ Typed(c) /\ Counted(c) /\ Backed(c, server, part)
        /\ b \in AllBatches /\ p \in Paths /\ c.op \in Ops /\ b \in Batches[c.op]
    BY UnderWay DEF Invoke, At, Typed, Calls
  <1>3. FilesWhole'
    BY <1>1 DEF Became, Effect, FilesWhole
  <1>4. PICK e : e = [c EXCEPT !.at = "answer", !.out = out, !.tries = @ + 1]
    OBVIOUS
  <1>5. call' = [call EXCEPT ![t] = e]
    BY <1>1, <1>4 DEF Answered, SftpInv, CallsSound
  <1>6. /\ e.at = "answer" /\ e.out = out /\ e.tries = c.tries + 1 /\ e.attempt = c.attempt
        /\ e.reopened = c.reopened /\ e.op = c.op /\ e.path = p /\ e.was = c.was /\ e.batch = b
    BY <1>2, <1>4 DEF Typed, Calls
  <1>7. Typed(e)
    <2>1. c.tries + 1 \in Nat
      BY <1>2 DEF Typed, Calls
    <2>2. e \in Calls
      BY <1>2, <1>4, <2>1 DEF Typed, Calls, Places
    <2> QED BY <1>2, <1>6, <2>2 DEF Typed, Reopening
  <1>8. Counted(e)
    <2>1. c.tries \in Nat /\ c.attempt \in Nat
      BY <1>2 DEF Typed, Calls
    <2>2. c.tries <= c.attempt + (IF c.reopened THEN 1 ELSE 0)
      BY <1>2, <2>1 DEF Counted, Reopening
    <2> QED BY <1>2, <1>6, <2>1, <2>2 DEF Counted, Reopening
  <1>9. server' = x.s /\ part' = x.q
    BY <1>1 DEF Became
  <1>10. ASSUME c.op \in Changing PROVE x.s[p] \in {c.was, Want[c.op]}
    BY <1>1, <1>2, <1>10, EffectIsOwn
  <1>11. ASSUME c.op \in Changing, out = "ok", b # "rmpart" PROVE x.s[p] = Want[c.op]
    <2>1. x = Done(b, p) /\ Says(b, p) = "ok"
      BY <1>1, <1>11
    <2>2. CASE b \in {"put", "rm", "mkdir"}
      <3>1. Makes[b] = Want[c.op]
        BY <1>2, <1>11, <2>2 DEF Makes, AllBatches, Want, Batches, Changing
      <3> QED BY <1>2, <2>1, <2>2, <3>1, DoneEffect DEF SftpInv
    <2>3. CASE b \in {"cd", "cdafter"}
      <3>1. server[p] = "dir"
        BY <2>1, <2>3 DEF Says
      <3>2. Want[c.op] = "dir"
        BY <1>2, <1>11, <2>3 DEF Want, Batches, Changing
      <3>3. x.s = server
        BY <1>1, <2>3 DEF Effect
      <3> QED BY <3>1, <3>2, <3>3
    <2>4. b \in {"put", "rm", "mkdir", "cd", "cdafter"}
      BY <1>2, <1>11 DEF Batches, Changing
    <2> QED BY <2>2, <2>3, <2>4
  <1>12. ASSUME out = "ok", b = "put" PROVE x.q[p] = "none"
    BY <1>1, <1>2, <1>12, DoneEffect DEF SftpInv
  <1>13. ASSUME out = "missing", b = "rm" PROVE x.s[p] = "none"
    <2>1. server[p] = "none"
      BY <1>1, <1>13 DEF Says
    <2>2. Makes[b] = "none"
      BY <1>13 DEF Makes, AllBatches
    <2> QED BY <1>1, <2>1, <2>2 DEF Effect
  <1>14. Backed(e, server', part')
    BY <1>6, <1>9, <1>10, <1>11, <1>12, <1>13 DEF Backed
  <1>15. Sound(e, server', part')
    BY <1>7, <1>8, <1>14 DEF Sound
  <1>16. \/ UNCHANGED serverVars
         \/ c.op \in Changing /\ \A q \in Paths : q # p => server'[q] = server[q] /\ part'[q] = part[q]
    BY <1>1, <1>2, EffectIsOwn
  <1>17. c.at # "idle"
    BY <1>2
  <1>18. CallsSound'
    BY <1>5, <1>6, <1>15, <1>16, <1>17, OneCallMoves
  <1>19. call'[t] = e /\ UNCHANGED reply
    BY <1>5 DEF Invoke, SftpInv, CallsSound
  <1> QED BY <1>3, <1>6, <1>18, <1>19 DEF Goes, SftpInv, LinkTyped

\* A command that outlives its timeout ends the operation wherever it is; what
\* the server has of it by then is what was there or what is wanted.
LEMMA TimeOutGoes ==
  ASSUME SftpAssumption, SftpInv, NEW t \in Threads, TimeOut(t)
  PROVE  Goes(t) /\ FilesWhole'
PROOF
  <1> DEFINE c == call[t]  p == c.path  b == c.batch
  <1>1. c.at # "idle" /\ b \in AllBatches /\ p \in Paths /\ c.op \in Ops
    BY UnderWay DEF TimeOut, At, Typed, Calls
  <1>2. PICK x \in Cut(b, p) : Became(x)
    BY DEF TimeOut
  <1>3. Effect(x, b, p)
    BY <1>1, CutEffect DEF SftpInv
  <1>4. FilesWhole'
    BY <1>2, <1>3 DEF Became, Effect, FilesWhole
  <1>5. call' = [call EXCEPT ![t] = Resting] /\ reply' = [reply EXCEPT ![t] = [op |-> c.op, ok |-> FALSE]]
    BY DEF TimeOut, Raise, Return
  <1>6. CallsSound'
    <2>1. PICK e : e = Resting
      OBVIOUS
    <2> QED BY <1>1, <1>2, <1>3, <1>5, <2>1, EffectIsOwn, OneCallMoves DEF Sound
  <1>7. reply' \in [Threads -> [op : Ops \cup {"none"}, ok : BOOLEAN]] /\ reply'[t].ok = FALSE
    BY <1>1, <1>5 DEF SftpInv, LinkTyped
  <1>8. True(c, FALSE, server', part')
    BY <1>1, <1>2, <1>3, EffectIsOwn DEF True, Became
  <1> QED BY <1>4, <1>6, <1>7, <1>8 DEF Goes

\* A thread that begins takes a path no changing operation has, and no changing
\* operation begins on one that is in use.
LEMMA BeginGoes ==
  ASSUME SftpAssumption, SftpInv, NEW t \in Threads, NEW op \in Ops, NEW p \in Paths, Begin(t, op, p)
  PROVE  CallsSound' /\ UNCHANGED <<serverVars, link, cache, reply>>
PROOF
  <1> DEFINE Bare == [at : {"idle"}, op : Ops \cup {"none"}, path : Paths, was : Whole,
                      batch : AllBatches \cup {"none"}, via : Nat, attempt : Nat,
                      reopened : BOOLEAN, tries : Nat, out : Outs]
             c == [Resting EXCEPT !.op = op, !.path = p, !.was = server[p]]
  <1>1. Resting \in Bare /\ Resting.out = "none"
    <2>1. PICK d \in Paths : d = CHOOSE q \in Paths : TRUE
      OBVIOUS
    <2> QED BY <2>1 DEF Resting, Whole, Outs
  <1>2. sock \in Nat /\ server[p] \in Whole
    BY DEF SftpInv, LinkTyped, FilesWhole
  <1>3. c \in Bare /\ c.op = op /\ c.path = p /\ c.was = server[p]
    BY <1>1, <1>2
  <1>4. Batch(t, c, First[op]) /\ UNCHANGED <<serverVars, link, cache, reply>>
    BY DEF Begin
  <1> HIDE DEF c
  <1>5. PICK e : e = [c EXCEPT !.at = "invoke", !.batch = First[op], !.via = sock,
                               !.attempt = 0, !.reopened = FALSE, !.tries = 0]
    OBVIOUS
  <1>6. call' = [call EXCEPT ![t] = e] /\ UNCHANGED <<serverVars, link, cache, reply>>
    BY <1>5, <1>4 DEF Batch
  <1>7. First[op] \in Batches[op] /\ First[op] \in AllBatches
    BY Tables
  <1>8. /\ e.at = "invoke" /\ e.op = op /\ e.path = p /\ e.was = server[p] /\ e.batch = First[op]
        /\ e.attempt = 0 /\ e.tries = 0 /\ ~e.reopened
    BY <1>5, <1>3
  <1>9. e \in Calls
    BY <1>5, <1>2, <1>3, <1>7 DEF Calls, Places
  <1>10. DOMAIN call = Threads /\ DOMAIN call' = Threads
    BY <1>6 DEF SftpInv, CallsSound
  <1>11. call'[t] = e /\ \A u \in Threads : u # t => call'[u] = call[u]
    BY <1>6, <1>10
  <1>12. Sound(e, server, part)
    <2>1. Typed(e)
      BY <1>7, <1>8, <1>9 DEF Typed, Reopening
    <2>2. Counted(e)
      BY <1>8 DEF Counted, Reopening, SftpAssumption
    <2>3. Backed(e, server, part)
      BY <1>8 DEF Backed
    <2> QED BY <2>1, <2>2, <2>3 DEF Sound
  <1>13. ASSUME NEW u \in Threads, u # t PROVE Apart(e, call[u])
    <2>1. ~At(u, "idle") => (call[u].path # p \/ {op, call[u].op} \cap Changing = {})
      BY <1>13 DEF Begin
    <2> QED BY <1>8, <2>1 DEF Apart, At
  <1>14. ASSUME NEW u \in Threads PROVE Sound(call'[u], server', part')
    BY <1>6, <1>11, <1>12 DEF SftpInv, CallsSound, serverVars
  <1>15. ASSUME NEW u \in Threads, NEW v \in Threads, u # v PROVE Apart(call'[u], call'[v])
    <2>1. CASE u = t
      BY <1>11, <1>13, <1>15, <2>1
    <2>2. CASE v = t
      BY <1>11, <1>13, <1>15, <2>2 DEF Apart
    <2>3. CASE u # t /\ v # t
      BY <1>11, <1>15, <2>3 DEF SftpInv, CallsSound
    <2> QED BY <2>1, <2>2, <2>3
  <1>16. call' = [u \in Threads |-> call'[u]]
    BY <1>6, <1>10
  <1> QED BY <1>6, <1>14, <1>15, <1>16 DEF CallsSound

\* The backend's own books.
LEMMA LinkStays ==
  ASSUME SftpInv, NEW t \in Threads, Step(t), reply' \in [Threads -> [op : Ops \cup {"none"}, ok : BOOLEAN]]
  PROVE  LinkTyped'
PROOF
  <1>1. /\ spawned \in Nat /\ master \in 0..spawned /\ sock \in 0..spawned
        /\ procs \subseteq 1..spawned /\ cache \subseteq Paths
    BY DEF SftpInv, LinkTyped
  <1>2. CASE Invoke(t)
    <2>1. UNCHANGED <<master, sock, spawned, cache>> /\ procs' \subseteq procs
      BY <1>2 DEF Invoke
    <2> QED BY <1>1, <2>1 DEF LinkTyped
  <1>8. CASE TimeOut(t)
    BY <1>1, <1>8 DEF TimeOut, LinkTyped, link
  <1>3. CASE Answer(t)
    <2>1. UNCHANGED <<master, sock, procs, spawned>> /\ cache' \subseteq cache \cup {call[t].path}
      BY <1>3 DEF Answer, link
    <2>2. call[t].path \in Paths
      BY <1>3, UnderWay DEF Answer, At, Typed, Calls
    <2> QED BY <1>1, <2>1, <2>2 DEF LinkTyped
  <1>4. CASE Teardown(t)
    BY <1>1, <1>4 DEF Teardown, LinkTyped
  <1>5. CASE Enter(t)
    BY <1>1, <1>5 DEF Enter, LinkTyped, link
  <1>6. CASE Spawn(t)
    <2>1. /\ spawned' = spawned + 1 /\ master' = spawned + 1 /\ sock' = spawned + 1
          /\ procs' = procs \cup {spawned + 1} /\ cache' = cache
      BY <1>6 DEF Spawn
    <2>2. spawned' \in Nat /\ master' \in 0..spawned' /\ sock' \in 0..spawned'
      BY <1>1, <2>1
    <2>3. procs' \subseteq 1..spawned'
      BY <1>1, <2>1
    <2> QED BY <1>1, <2>1, <2>2, <2>3 DEF LinkTyped
  <1>7. CASE Ready(t)
    <2>1. /\ spawned' = spawned /\ master' \in {master, 0} /\ sock' \in {sock, 0}
          /\ procs' \subseteq procs /\ cache' \subseteq cache
      BY <1>7 DEF Ready
    <2> QED BY <1>1, <2>1 DEF LinkTyped
  <1> QED BY <1>2, <1>3, <1>4, <1>5, <1>6, <1>7, <1>8 DEF Step

\* Every step of a thread keeps the invariant and tells its caller the truth.
LEMMA StepSound ==
  ASSUME SftpAssumption, SftpInv, NEW t \in Threads, Step(t)
  PROVE  SftpInv' /\ Goes(t)
PROOF
  <1>1. Goes(t)
    BY InvokeGoes, TimeOutGoes, AnswerGoes, TeardownGoes, EnterGoes, SpawnGoes, ReadyGoes DEF Step
  <1>2. FilesWhole'
    <2>1. CASE Invoke(t) \/ TimeOut(t)
      BY <2>1, InvokeGoes, TimeOutGoes
    <2>2. CASE Answer(t) \/ Teardown(t) \/ Enter(t) \/ Spawn(t) \/ Ready(t)
      <3>1. UNCHANGED serverVars
        BY <2>2 DEF Answer, Teardown, Enter, Spawn, Ready
      <3> QED BY <3>1 DEF SftpInv, FilesWhole, serverVars
    <2> QED BY <2>1, <2>2 DEF Step
  <1>3. LinkTyped'
    BY <1>1, LinkStays DEF Goes
  <1> QED BY <1>1, <1>2, <1>3 DEF SftpInv, Goes

LEMMA StutterSound == ASSUME SftpInv, UNCHANGED vars PROVE SftpInv'
PROOF
  <1>1. FilesWhole' /\ LinkTyped'
    BY DEF SftpInv, FilesWhole, LinkTyped, vars
  <1>2. CallsSound'
    BY DEF SftpInv, CallsSound, vars
  <1> QED BY <1>1, <1>2 DEF SftpInv

LEMMA NextSound == ASSUME SftpAssumption, SftpInv, [Next]_vars PROVE SftpInv'
PROOF
  <1>1. ASSUME NEW t \in Threads, Step(t) PROVE SftpInv'
    BY <1>1, StepSound
  <1>2. ASSUME NEW t \in Threads, NEW op \in Ops, NEW p \in Paths, Begin(t, op, p) PROVE SftpInv'
    <2>1. CallsSound' /\ UNCHANGED <<serverVars, link, cache, reply>>
      BY <1>2, BeginGoes
    <2>2. FilesWhole' /\ LinkTyped'
      BY <2>1 DEF SftpInv, FilesWhole, LinkTyped, serverVars, link
    <2> QED BY <2>1, <2>2 DEF SftpInv
  <1> QED BY <1>1, <1>2, StutterSound DEF Next

\* Only a thread that is in an operation comes to rest, and what it says then
\* is so.
LEMMA NextTells ==
  ASSUME SftpAssumption, SftpInv, [Next]_vars,
         NEW u \in Threads, call[u].at # "idle", call'[u].at = "idle"
  PROVE  True(call[u], reply'[u].ok, server', part')
PROOF
  <1>1. call' # call
    OBVIOUS
  <1>2. DOMAIN call = Threads
    BY DEF SftpInv, CallsSound
  <1>3. ASSUME NEW t \in Threads, Step(t) PROVE t = u
    <2>1. PICK e : call' = [call EXCEPT ![t] = e]
      <3>1. CASE Invoke(t)
        BY <3>1 DEF Invoke, Answered
      <3>9. CASE TimeOut(t)
        BY <3>9 DEF TimeOut, Raise, Return
      <3>2. ASSUME NEW batch, Send(t, batch) PROVE \E e : call' = [call EXCEPT ![t] = e]
        BY <3>2 DEF Send, Batch, Return
      <3>3. ASSUME NEW out, AfterBatch(t, out) PROVE \E e : call' = [call EXCEPT ![t] = e]
        BY <3>2, <3>3 DEF AfterBatch, Return
      <3>4. ASSUME NEW n, Again(t, n) PROVE \E e : call' = [call EXCEPT ![t] = e]
        BY <3>3, <3>4 DEF Again, Raise, Return
      <3>5. CASE Answer(t)
        BY <3>3, <3>4, <3>5 DEF Answer
      <3>6. ASSUME NEW where, Goto(t, where) PROVE \E e : call' = [call EXCEPT ![t] = e]
        BY <3>6 DEF Goto
      <3>7. CASE Teardown(t) \/ Spawn(t)
        BY <3>6, <3>7 DEF Teardown, Spawn
      <3>8. CASE Enter(t) \/ Ready(t)
        BY <3>4, <3>6, <3>8 DEF Enter, Ready
      <3> QED BY <1>3, <3>1, <3>5, <3>7, <3>8, <3>9 DEF Step
    <2> QED BY <1>2, <2>1
  <1>4. ASSUME NEW t \in Threads, NEW op \in Ops, NEW p \in Paths, Begin(t, op, p) PROVE FALSE
    <2>1. call[t].at = "idle" /\ t # u
      BY <1>4 DEF Begin, At
    <2>2. call'[u] = call[u]
      BY <1>2, <1>4, <2>1 DEF Begin, Batch
    <2> QED BY <2>2
  <1>5. Step(u)
    BY <1>1, <1>3, <1>4 DEF Next, vars
  <1> QED BY <1>5, StepSound DEF Goes

\* Every variable keeps its type, and no batch costs more commands than its
\* attempts and one reconnect.
THEOREM SftpTyped == Spec => []TypeOK
PROOF
  <1>1. Init => SftpInv
    BY SftpAssumption, InitSound
  <1>2. SftpInv /\ [Next]_vars => SftpInv'
    BY SftpAssumption, NextSound
  <1>3. SftpInv => TypeOK
    BY SftpAssumption, InvIsEnough
  <1> QED BY <1>1, <1>2, <1>3, PTL DEF Spec

\* A file is whole under its own name, wherever a write of it was cut off and
\* however often it was tried again.
THEOREM NothingTorn == Spec => []TornNever
PROOF
  <1>1. Init => SftpInv
    BY SftpAssumption, InitSound
  <1>2. SftpInv /\ [Next]_vars => SftpInv'
    BY SftpAssumption, NextSound
  <1>3. SftpInv => TornNever
    BY SftpAssumption, InvIsEnough
  <1> QED BY <1>1, <1>2, <1>3, PTL DEF Spec

\* What a caller was told of a write, a removal or a directory is so, though
\* its answer was lost, it was sent again and the connection was reopened.
THEOREM CallersAreToldTrue == Spec => SaidIsDone
PROOF
  <1>1. Init => SftpInv
    BY SftpAssumption, InitSound
  <1>2. SftpInv /\ [Next]_vars => SftpInv'
    BY SftpAssumption, NextSound
  <1> DEFINE Told ==
        \A t \in Threads :
          LET p == call[t].path  op == call[t].op IN
          (op \in Changing /\ call'[t].at = "idle" /\ ~At(t, "idle")) =>
            LET want == [write |-> "new", unlink |-> "none", mkdir |-> "dir"][op] IN
            IF reply'[t].ok THEN server'[p] = want /\ (op = "write" => part'[p] = "none")
            ELSE server'[p] \in {call[t].was, want}
  <1>3. SftpInv /\ [Next]_vars => Told
    BY SftpAssumption, NextTells DEF True, Want, At
  <1>4. SftpInv /\ [Next]_vars => [Told]_vars
    BY <1>3
  <1> QED BY <1>1, <1>2, <1>4, PTL DEF Spec, SaidIsDone
=============================================================================
