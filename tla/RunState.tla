------------------------------ MODULE RunState ------------------------------
(***************************************************************************)
(* A backup command, the state file it keeps and everyone who reads it     *)
(* (arq_writer/cli.py, arq_tui/runs.py, arq_tui/subprocess_workers.py,     *)
(* arq_tui/screens/runs_monitor.py and backup_run.py).                     *)
(*                                                                         *)
(* A producer is one run of `arq-backup create --state-file`.  It is       *)
(* spawned by the backup screen, which tails its state file and reports    *)
(* how it ended, or by cron, whose runs of one plan share one file.  The   *)
(* activity monitor of any TUI marks records of dead producers stale and   *)
(* collects old ones.  Nothing is locked.  Signals, death and the monitor  *)
(* come at any step.                                                       *)
(***************************************************************************)
EXTENDS Integers, Sequences, FiniteSetsExt

CONSTANTS
  Producers,   \* runs of the command: each a process with a pid of its own
  Launches,    \* per behaviour, the runs the backup screen starts; {}: cron's
  RunIds,      \* names of state files
  FileOf,      \* the --state-file of each producer
  TailMax,     \* EVENTS_TAIL_MAX
  FlushCount,  \* flush_event_count
  PipeCap,     \* lines that fit the unread pipe of a spawned producer's stderr
  NEvents,     \* bound: events the walk of each run emits
  MaxKeys,     \* bound: keys the operator presses on the backup screen
  Faults       \* what the environment may do

FaultKinds == {"kill", "interrupt", "disk", "reuse", "quit"}

ASSUME RunStateAssumption ==
  /\ Launches \subseteq SUBSET Producers
  /\ RunIds # {} /\ FileOf \in [Producers -> RunIds]
  /\ \A L \in Launches : \A p, q \in L : FileOf[p] = FileOf[q] => p = q
  /\ {TailMax, FlushCount, PipeCap, MaxKeys} \subseteq Nat
  /\ NEvents \in [Producers -> Nat]
  /\ Faults \subseteq FaultKinds

VARIABLES
  spawned,   \* the producers the backup screen starts; none: cron starts them
  pc,        \* where each producer is
  rec,       \* its RunRecord in memory: [status, n], n the events so far
  unflushed, \* events since its last flush
  pending,   \* the record it has serialised and not yet put in place
  paused,    \* Backup._paused
  live,      \* _active_backup is set
  ended,     \* history: how its work came to an end
  pipe,      \* lines on its stderr nobody has read
  file,      \* the state files
  mon,       \* the monitor: [at, id, seen]
  reused,    \* pids that now belong to some other process
  tail,      \* the tailer of each spawned producer: [at, index, got, verdict]
  screen     \* the backup screen: [open, paused, keys]

producerVars == <<pc, rec, unflushed, pending, paused, live, ended, pipe>>
vars == <<spawned, producerVars, file, mon, reused, tail, screen>>
----------------------------------------------------------------------------
(* Records. *)

Terminal == {"completed", "failed", "cancelled", "stale"}
Statuses == {"starting", "running"} \cup Terminal

NoFile == [status |-> "none", n |-> 0, by |-> "none"]
NoSeen == NoFile
Fresh == [status |-> "starting", n |-> 0]

\* What a producer writes: its record with its pid.
OnDisk(p) == [status |-> rec[p].status, n |-> rec[p].n, by |-> p]

\* The numbers of the events in a record's tail.
FirstKept(n) == Max({1, n - TailMax + 1})
TailLen(n) == n - FirstKept(n) + 1

Gone(p) == pc[p] \in {"unspawned", "gone"}

\* A child that has ended stays in the process table until it is polled.
Zombie(p) ==
  /\ p \in spawned
  /\ screen.open
  /\ pc[p] = "gone"
  /\ ~tail[p].polled

PidAlive(p) == ~Gone(p) \/ Zombie(p) \/ p \in reused

\* Where a stale record comes from, before and after the pid was checked.
Stale(seen) == [seen EXCEPT !.status = "stale"]

Init ==
  /\ spawned \in Launches
  /\ pc = [p \in Producers |-> "unspawned"]
  /\ rec = [p \in Producers |-> Fresh]
  /\ unflushed = [p \in Producers |-> 0]
  /\ pending = [p \in Producers |-> NoFile]
  /\ paused = [p \in Producers |-> FALSE]
  /\ live = [p \in Producers |-> FALSE]
  /\ ended = [p \in Producers |-> "not"]
  /\ pipe = [p \in Producers |-> 0]
  /\ file = [r \in RunIds |-> NoFile]
  /\ mon = [at |-> "idle", id |-> CHOOSE r \in RunIds : TRUE, seen |-> NoSeen]
  /\ reused = {}
  /\ tail = [p \in Producers |-> [at |-> "off", index |-> 0, got |-> <<>>,
                                  polled |-> FALSE, verdict |-> "none"]]
  /\ screen = [open |-> TRUE, paused |-> FALSE, keys |-> 0]
----------------------------------------------------------------------------
(* The producer. *)

Goto(p, where) == pc' = [pc EXCEPT ![p] = where]

\* The screen starts the command and its poll thread, on a file of its own;
\* cron starts a command on its plan's file whenever the time comes, whether
\* or not the last one has ended.
Spawn(p) ==
  /\ pc[p] = "unspawned"
  /\ \/ spawned = {} /\ UNCHANGED tail
     \/ p \in spawned /\ screen.open /\ tail' = [tail EXCEPT ![p].at = "drain"]
  /\ Goto(p, "boot")
  /\ UNCHANGED <<spawned, rec, unflushed, pending, paused, live, ended, pipe, file, mon, reused, screen>>

\* main up to the state file: handlers installed, arguments and password
\* checked.  A bad argument ends it with code 2 and no record.
Boot(p) ==
  /\ pc[p] = "boot"
  /\ \E where \in {"entering", "gone"} : Goto(p, where)
  /\ UNCHANGED <<spawned, rec, unflushed, pending, paused, live, ended, pipe, file, mon, reused, tail, screen>>

\* RunWriter.__enter__ writes the record at once; where it cannot, the
\* command prints the error and ends.
Enter(p) ==
  /\ pc[p] = "entering"
  /\ rec' = [rec EXCEPT ![p].status = "running"]
  /\ \/ /\ Goto(p, "opening")
        /\ file' = [file EXCEPT ![FileOf[p]] = [status |-> "running", n |-> 0, by |-> p]]
     \/ /\ "disk" \in Faults
        /\ Goto(p, "reporting")
        /\ UNCHANGED file
  /\ UNCHANGED <<spawned, unflushed, pending, paused, live, ended, pipe, mon, reused, tail, screen>>

\* The Backup is made and its plan opened; only then can signals reach it.
OpenPlan(p) ==
  /\ pc[p] = "opening"
  /\ \/ /\ Goto(p, "walking")
        /\ live' = [live EXCEPT ![p] = TRUE]
        /\ UNCHANGED ended
     \/ /\ Goto(p, "failing")
        /\ ended' = [ended EXCEPT ![p] = "raised"]
        /\ UNCHANGED live
  /\ UNCHANGED <<spawned, rec, unflushed, pending, paused, pipe, file, mon, reused, tail, screen>>

\* RunWriter.event: the event is counted, and the record serialised when a
\* flush is due, by count or by the clock.
Walk(p) ==
  /\ pc[p] = "walking"
  /\ ~paused[p]
  /\ rec[p].n < NEvents[p]
  /\ rec' = [rec EXCEPT ![p].n = @ + 1]
  /\ unflushed' = [unflushed EXCEPT ![p] = @ + 1]
  /\ \/ /\ pending' = [pending EXCEPT ![p] = [OnDisk(p) EXCEPT !.n = @ + 1]]
        /\ Goto(p, "flushing")
     \/ /\ unflushed[p] + 1 < FlushCount
        /\ \E where \in {"walking", "printing"} : Goto(p, where)
        /\ UNCHANGED pending
  /\ UNCHANGED <<spawned, paused, live, ended, pipe, file, mon, reused, tail, screen>>

\* os.replace, then the command's own callback: it prints every kind but
\* file_written and tree_written.  A write that fails raises into the
\* Backup's _emit, which drops it, and the print with it.
Replace(p) ==
  /\ pc[p] = "flushing"
  /\ pending' = [pending EXCEPT ![p] = NoFile]
  /\ \/ /\ file' = [file EXCEPT ![FileOf[p]] = pending[p]]
        /\ unflushed' = [unflushed EXCEPT ![p] = 0]
        /\ \E where \in {"walking", "printing"} : Goto(p, where)
     \/ /\ "disk" \in Faults
        /\ Goto(p, "walking")
        /\ UNCHANGED <<file, unflushed>>
  /\ UNCHANGED <<spawned, rec, paused, live, ended, pipe, mon, reused, tail, screen>>

\* stderr is a pipe only for a spawned producer, and nobody reads it before
\* the producer has ended.  With the TUI gone the write fails at once.
Piped(p) == p \in spawned /\ screen.open
Blocked(p) == Piped(p) /\ pipe[p] >= PipeCap

\* Mutant: a print does not wait for room.
WrittenAnyway(p) == IF Piped(p) THEN pipe[p] + 1 ELSE pipe[p]

Written(p) == IF Piped(p) /\ ~Blocked(p) THEN pipe[p] + 1 ELSE pipe[p]

PrintLine(p) ==
  /\ pc[p] = "printing"
  /\ ~Blocked(p)
  /\ pipe' = [pipe EXCEPT ![p] = Written(p)]
  /\ Goto(p, "walking")
  /\ UNCHANGED <<spawned, rec, unflushed, pending, paused, live, ended, file, mon, reused, tail, screen>>

\* The last folder is done, or one raises; the handle is dropped either way.
EndWalk(p) ==
  /\ pc[p] = "walking"
  /\ \/ Goto(p, "leaving") /\ ended' = [ended EXCEPT ![p] = "returned"]
     \/ Goto(p, "failing") /\ ended' = [ended EXCEPT ![p] = "raised"]
  /\ live' = [live EXCEPT ![p] = FALSE]
  /\ UNCHANGED <<spawned, rec, unflushed, pending, paused, pipe, file, mon, reused, tail, screen>>

\* RunWriter.__exit__.  A record that is no longer "running" is not promoted.
ExitStatus(p) ==
  IF pc[p] = "failing" THEN "failed"
  ELSE IF rec[p].status = "running" THEN "completed" ELSE rec[p].status

Leave(p) ==
  /\ pc[p] \in {"leaving", "failing"}
  /\ rec' = [rec EXCEPT ![p].status = ExitStatus(p)]
  /\ \/ /\ file' = [file EXCEPT ![FileOf[p]] = [status |-> ExitStatus(p), n |-> rec[p].n, by |-> p]]
        /\ Goto(p, IF pc[p] = "failing" THEN "reporting" ELSE "summary")
     \/ /\ "disk" \in Faults
        /\ Goto(p, "reporting")
        /\ UNCHANGED file
  /\ UNCHANGED <<spawned, unflushed, pending, paused, live, ended, pipe, mon, reused, tail, screen>>

\* The error goes to stderr, the summary to stdout; then the process ends.
Report(p) ==
  /\ \/ pc[p] = "summary" /\ UNCHANGED pipe
     \/ pc[p] = "reporting" /\ ~Blocked(p) /\ pipe' = [pipe EXCEPT ![p] = Written(p)]
  /\ Goto(p, "gone")
  /\ UNCHANGED <<spawned, rec, unflushed, pending, paused, live, ended, file, mon, reused, tail, screen>>
----------------------------------------------------------------------------
(* Signals and death. *)

Killed(p) ==
  /\ Goto(p, "gone")
  /\ UNCHANGED <<spawned, rec, unflushed, pending, paused, live, ended, pipe, file, mon, reused, tail>>

\* No handler is installed for SIGTERM: it ends the process where it stands.
Kill(p) ==
  /\ "kill" \in Faults
  /\ ~Gone(p)
  /\ Killed(p)
  /\ UNCHANGED screen

\* Ctrl-C raises KeyboardInterrupt in the main thread: inside the block the
\* record is cancelled and flushed, outside it nothing is written.  A spawned
\* producer's terminal is in raw mode and sends none.
Interrupt(p) ==
  /\ "interrupt" \in Faults
  /\ ~Gone(p)
  /\ p \notin spawned
  /\ Goto(p, "gone")
  /\ live' = [live EXCEPT ![p] = FALSE]
  /\ IF pc[p] \in {"opening", "walking", "flushing", "printing"}
     THEN /\ rec' = [rec EXCEPT ![p].status = "cancelled"]
          /\ ended' = [ended EXCEPT ![p] = "interrupted"]
          /\ file' = [file EXCEPT ![FileOf[p]] = [OnDisk(p) EXCEPT !.status = "cancelled"]]
     ELSE UNCHANGED <<rec, ended, file>>
  /\ UNCHANGED <<spawned, unflushed, pending, paused, pipe, mon, reused, tail, screen>>

\* A handler that reaches a Backup changes its flag and emits an event, in
\* the middle of whatever the main thread was doing, a flush included.
Toggle(p, to) ==
  /\ paused' = [paused EXCEPT ![p] = to]
  /\ rec' = [rec EXCEPT ![p].n = @ + 1]
  /\ pipe' = [pipe EXCEPT ![p] = Written(p)]
  /\ \/ /\ file' = [file EXCEPT ![FileOf[p]] = [OnDisk(p) EXCEPT !.n = @ + 1]]
        /\ unflushed' = [unflushed EXCEPT ![p] = 0]
     \/ /\ unflushed[p] + 1 < FlushCount
        /\ unflushed' = [unflushed EXCEPT ![p] = @ + 1]
        /\ UNCHANGED file
  /\ UNCHANGED <<spawned, pc, pending, live, ended, mon, reused, tail>>

\* SIGUSR1 and SIGUSR2: before main has run they end the process, before the
\* Backup is published they are dropped.
PauseSignal(p, to) ==
  \/ pc[p] = "boot" /\ Killed(p)
  \/ pc[p] # "boot" /\ live[p] /\ (to \/ paused[p]) /\ Toggle(p, to)
  \/ /\ pc[p] # "boot"
     /\ live[p] => ~to /\ ~paused[p]
     /\ UNCHANGED <<spawned, producerVars, file, mon, reused, tail>>
----------------------------------------------------------------------------
(* The backup screen's keys. *)

PressKey == screen.open /\ screen.keys < MaxKeys

\* [p] forwards a signal to a child that still runs, and flips the screen's
\* own idea of paused whatever became of it.  Asking polls the child.
PressPause(p) ==
  /\ PressKey
  /\ pc[p] # "unspawned"
  /\ screen' = [screen EXCEPT !.paused = ~@, !.keys = @ + 1]
  /\ \/ ~Gone(p) /\ PauseSignal(p, ~screen.paused)
     \/ /\ Gone(p)
        /\ tail' = [tail EXCEPT ![p].polled = TRUE]
        /\ UNCHANGED <<spawned, producerVars, file, mon, reused>>

\* [escape] sends SIGTERM unless the panel shows the run as over.
PressCancel(p) ==
  /\ PressKey
  /\ ~Gone(p)
  /\ tail[p].verdict = "none"
  /\ screen' = [screen EXCEPT !.keys = @ + 1]
  /\ Killed(p)

\* The TUI exits: its poll threads are daemons, the child goes on alone.
Quit ==
  /\ "quit" \in Faults
  /\ screen.open
  /\ screen' = [screen EXCEPT !.open = FALSE]
  /\ UNCHANGED <<spawned, producerVars, file, mon, reused, tail>>
----------------------------------------------------------------------------
(* The tailer. *)

\* Mutant: the whole tail is forwarded on every poll that sees it grow.
NewEventsAll(p, f) ==
  IF TailLen(f.n) > tail[p].index
  THEN [i \in 1..TailLen(f.n) |-> FirstKept(f.n) + i - 1]
  ELSE <<>>

\* What a drain forwards: the events of the tail after as many as the tailer
\* has counted.  The count is an index into the tail, not an event number.
NewEvents(p, f) ==
  IF TailLen(f.n) > tail[p].index
  THEN [i \in 1..(TailLen(f.n) - tail[p].index) |-> FirstKept(f.n) + tail[p].index + i - 1]
  ELSE <<>>

Drained(p, where) ==
  LET f == file[FileOf[p]] IN
  tail' = [tail EXCEPT ![p].got = @ \o NewEvents(p, f),
                       ![p].index = Max({@, TailLen(f.n)}),
                       ![p].at = where]

Poll(p) ==
  /\ screen.open
  /\ tail[p].at = "drain"
  /\ Drained(p, "check")
  /\ UNCHANGED <<spawned, producerVars, file, mon, reused, screen>>

\* Mutant: the loop finalizes without a last drain.
AfterExitAtOnce == "finalize"

\* Mutant: the loop ends without finalizing.
AfterExitForgotten == "off"

\* proc.poll(): while the child runs the loop sleeps and drains again.
AfterExit == "lastdrain"

CheckExit(p) ==
  /\ screen.open
  /\ tail[p].at = "check"
  /\ tail' = [tail EXCEPT ![p].at = IF pc[p] = "gone" THEN AfterExit ELSE "drain",
                          ![p].polled = pc[p] = "gone"]
  /\ UNCHANGED <<spawned, producerVars, file, mon, reused, screen>>

LastDrain(p) ==
  /\ screen.open
  /\ tail[p].at = "lastdrain"
  /\ Drained(p, "finalize")
  /\ UNCHANGED <<spawned, producerVars, file, mon, reused, screen>>

\* The verdict is the status the file shows now; the pipes are read at last.
Verdict(f) ==
  IF f.status = "completed" THEN "finished"
  ELSE IF f.status = "cancelled" THEN "cancelled" ELSE "failed"

Finalize(p) ==
  /\ screen.open
  /\ tail[p].at = "finalize"
  /\ tail' = [tail EXCEPT ![p].at = "done", ![p].verdict = Verdict(file[FileOf[p]])]
  /\ pipe' = [pipe EXCEPT ![p] = 0]
  /\ UNCHANGED <<spawned, pc, rec, unflushed, pending, paused, live, ended, file, mon, reused, screen>>
----------------------------------------------------------------------------
(* The activity monitor: any TUI's, on its own timer. *)

\* enumerate_runs: records are read before any of their pids is looked at.
MonitorRead(r) ==
  /\ mon.at = "idle"
  /\ file[r].status = "running"
  /\ mon' = [at |-> "check", id |-> r, seen |-> file[r]]
  /\ UNCHANGED <<spawned, producerVars, file, reused, tail, screen>>

\* Mutant: any running record that is not this process's own is stale.
DesertedAlways(seen) == TRUE

\* Mutant: a pid that does not answer is taken for one it may not signal.
DesertedNever(seen) == FALSE

\* mark_stale, first half: a record whose pid answers is left alone.
Deserted(seen) == ~PidAlive(seen.by)

MonitorCheck ==
  /\ mon.at = "check"
  /\ mon' = [mon EXCEPT !.at = IF Deserted(mon.seen) THEN "mark" ELSE "idle",
                        !.seen = IF Deserted(mon.seen) THEN @ ELSE NoSeen]
  /\ UNCHANGED <<spawned, producerVars, file, reused, tail, screen>>

\* mark_stale, second half: what was read is written back as stale.
MonitorMark ==
  /\ mon.at = "mark"
  /\ file' = [file EXCEPT ![mon.id] = Stale(mon.seen)]
  /\ mon' = [mon EXCEPT !.at = "idle", !.seen = NoSeen]
  /\ UNCHANGED <<spawned, producerVars, reused, tail, screen>>

\* A write or an unlink that fails is given up until the next round.
MonitorFails ==
  /\ "disk" \in Faults
  /\ mon.at \in {"mark", "unlink"}
  /\ mon' = [mon EXCEPT !.at = "idle", !.seen = NoSeen]
  /\ UNCHANGED <<spawned, producerVars, file, reused, tail, screen>>

\* gc_finished_runs: old enough is the environment's choice.
CollectRead(r) ==
  /\ mon.at = "idle"
  /\ file[r].status \in Terminal
  /\ mon' = [at |-> "unlink", id |-> r, seen |-> file[r]]
  /\ UNCHANGED <<spawned, producerVars, file, reused, tail, screen>>

CollectUnlink ==
  /\ mon.at = "unlink"
  /\ file' = [file EXCEPT ![mon.id] = NoFile]
  /\ mon' = [mon EXCEPT !.at = "idle", !.seen = NoSeen]
  /\ UNCHANGED <<spawned, producerVars, reused, tail, screen>>

\* The monitor's [c]: a row's pid is signalled as it was read.
MonitorCancel(r) ==
  /\ "kill" \in Faults
  /\ file[r].status = "running"
  /\ ~Gone(file[r].by)
  /\ Killed(file[r].by)
  /\ UNCHANGED screen

\* The system gives a dead producer's pid to another process.
Reuse(p) ==
  /\ "reuse" \in Faults
  /\ pc[p] = "gone"
  /\ ~Zombie(p)
  /\ p \notin reused
  /\ reused' = reused \cup {p}
  /\ UNCHANGED <<spawned, producerVars, file, mon, tail, screen>>
----------------------------------------------------------------------------
ProducerStep(p) ==
  \/ Boot(p) \/ Enter(p) \/ OpenPlan(p) \/ Walk(p) \/ Replace(p) \/ PrintLine(p)
  \/ EndWalk(p) \/ Leave(p) \/ Report(p)

TailerStep(p) == Poll(p) \/ CheckExit(p) \/ LastDrain(p) \/ Finalize(p)

Next ==
  \/ \E p \in Producers :
       Spawn(p) \/ ProducerStep(p) \/ Kill(p) \/ Interrupt(p) \/ Reuse(p)
  \/ \E p \in spawned : TailerStep(p) \/ PressPause(p) \/ PressCancel(p)
  \/ Quit
  \/ MonitorCheck \/ MonitorMark \/ MonitorFails \/ CollectUnlink
  \/ \E r \in RunIds : MonitorRead(r) \/ CollectRead(r) \/ MonitorCancel(r)

Spec == Init /\ [][Next]_vars

\* Processes and threads are scheduled, the monitor's timer fires on every
\* file it lists, and the disk does not refuse its every write.  Nobody is
\* obliged to start, press or break anything.
Fairness ==
  /\ \A p \in Producers : WF_vars(ProducerStep(p))
  /\ WF_vars(\E p \in spawned : TailerStep(p))
  /\ WF_vars((\E r \in RunIds : MonitorRead(r)) \/ MonitorCheck \/ CollectUnlink)
  /\ SF_vars(MonitorMark)

FairSpec == Spec /\ Fairness
----------------------------------------------------------------------------
(* Properties. *)

Places == {"unspawned", "boot", "entering", "opening", "walking", "flushing",
           "printing", "leaving", "failing", "reporting", "summary", "gone"}

FileRecord == [status : Statuses \cup {"none"}, n : Nat, by : Producers \cup {"none"}]

\* Every variable has its type.
TypeOK ==
  /\ spawned \subseteq Producers
  /\ pc \in [Producers -> Places]
  /\ rec \in [Producers -> [status : Statuses, n : Nat]]
  /\ unflushed \in [Producers -> Nat]
  /\ pending \in [Producers -> FileRecord]
  /\ paused \in [Producers -> BOOLEAN]
  /\ live \in [Producers -> BOOLEAN]
  /\ ended \in [Producers -> {"not", "returned", "raised", "interrupted"}]
  /\ pipe \in [Producers -> 0..PipeCap]
  /\ file \in [RunIds -> FileRecord]
  /\ mon \in [at : {"idle", "check", "mark", "unlink"}, id : RunIds, seen : FileRecord]
  /\ reused \subseteq Producers
  /\ tail \in [Producers -> [at : {"off", "drain", "check", "lastdrain", "finalize", "done"},
                             index : Nat, got : Seq(Nat), polled : BOOLEAN,
                             verdict : {"none", "finished", "cancelled", "failed"}]]
  /\ screen \in [open : BOOLEAN, paused : BOOLEAN, keys : Nat]

\* The screen never shows an event twice or out of order, however polls fall
\* between flushes, a ring that drops its oldest and a monitor that puts an
\* older record back (subprocess_workers.py, _drain_state_file_once).
ForwardedInOrder ==
  \A p \in Producers : \A i, j \in DOMAIN tail[p].got :
    i < j => tail[p].got[i] < tail[p].got[j]

\* A run the screen reports as finished returned from its work, and as long
\* as the ring has not dropped an event the screen has been shown every one:
\* what the last flush added is not lost to the exit (_poll_loop, _finalize).
FinishedMeansAll ==
  \A p \in Producers :
    tail[p].verdict = "finished" =>
      /\ ended[p] = "returned"
      /\ rec[p].n <= TailMax => tail[p].got = [i \in 1..rec[p].n |-> i]

\* A stale record names a producer that has died: a live run is never given
\* up.  A run that ended well and then died may be: see OnlyRunningIsStaled
\* (runs.py, mark_stale).
StaleNamesTheDead ==
  \A r \in RunIds : file[r].status = "stale" => pc[file[r].by] = "gone"

\* A record left "running" by a producer that died does not stay so: a later
\* run takes the file over or the monitor marks it, unless the pid has been
\* given to a process that answers for it.
DesertedIsMarked ==
  \A r \in RunIds : \A p \in Producers :
    (file[r].status = "running" /\ file[r].by = p /\ pc[p] = "gone")
      ~> (file[r].status # "running" \/ file[r].by # p \/ p \in reused)

\* A producer that can do nothing before the tailer reads its pipe.
Stuck(p) == Blocked(p) /\ pc[p] \in {"printing", "reporting"}

\* The screen learns how its run ended, unless the operator paused or left
\* it, or the run waits on a pipe that nobody reads until it has ended.
ScreenLearnsTheEnd ==
  \A p \in Producers :
    (p \in spawned /\ pc[p] # "unspawned") ~>
      (tail[p].verdict # "none" \/ paused[p] \/ Stuck(p) \/ ~screen.open)

\* "If a record's on-disk status is running but its PID is gone, rewrite it as
\* stale" (mark_stale): the monitor makes no record stale but a running one.
\* It does not hold: the record is read before the pid is looked at, and what
\* was read is written back over what the producer left at its end.
OnlyRunningIsStaled ==
  [][\A r \in RunIds :
       file'[r].status = "stale" => file[r].status \in {"running", "stale"}]_vars

\* "Forward any newly-arrived events" (_drain_state_file_once): a finished run
\* has been shown to its last event.  It does not hold: once the ring is full
\* it gets no longer, and its length is all the tailer looks at.
LastEventShown ==
  \A p \in Producers :
    tail[p].verdict = "finished" /\ rec[p].n > 0 =>
      \E i \in DOMAIN tail[p].got : tail[p].got[i] = rec[p].n
=============================================================================
