# Verification of arq-backup-tui

arq-backup-tui writes, audits, prunes and restores backups in the Arq 7
format. This directory holds TLA+ models of its stateful core, the TLC
configurations that check them on small instances, and TLAPS proofs of what
matters most for instances of any size.

## 1. Inventory

### Components

| Component | Code | State it keeps | Operations | Module |
|---|---|---|---|---|
| Destination | files below `<computer_uuid>/`; `arq_validator/layout.py`, `arq_writer/types.py` | `encryptedkeyset.dat`, `standardobjects/`, three families of packs, `backupfolders/<folder>/backuprecords/`, four kinds of JSON | atomic write of a file, unlink, list | `Destination`, `Compliance` |
| Backup run | `arq_writer/backup.py`, `pack_builder.py`, `crypto_write.py` | session keys, `_written_blobs`, three `PackBuilder`s, `_prior_tree`, cancel and pause flags | `__init__`, `init_plan`, `add_folder`, `_walk*`, `_write_blob`, `flush_packs`, `cancel`, `pause`, `resume` | `Writer` |
| Deduplication, prior tree | `arq_writer/dedup.py`, `prior_tree.py` | none of its own; an LRU of trees | seed the cache from the listing and the newest records; look up a path | `Writer` |
| Retention | `arq_writer/retention.py` | policy, victims, collected references | `select_retained`, `prune_records`, `gc_orphan_blobs`, `apply_retention` | `Retention` |
| Restore | `arq_reader/restore.py`; for Arq 5 `arq5_restore.py`; the browser, worker and command that start it | trees read, where each inode was put, packs scanned | `restore`, its plan pass, its walk, its conflict policies | `Restore` |
| Storage backends | `arq_validator/backend.py`, `sftp.py` | SSH control master, socket, rate-limit streak, read cache | read, write (partial name, rename), unlink, mkdir, exists, retry with back-off, reconnect | `Sftp` |
| Audit drip | `arq_validator/audit_drip.py` | `AuditDripState` file: cursor, failures, sweep boundary, pause | `run_audit_drip` (one fire), `pause`, `resume` | `AuditDrip` |
| Validation tiers | `arq_validator/tiers.py`, `runner.py`, `record_validator.py`, `incremental_audit.py`, `cli.py` | report, futures in flight, ledger | L0, L1a, L1b, L2 (sequential or on a thread pool), L3, the walk of one record | `Validation` |
| Compliance, fingerprint | `arq_validator/compatibility.py`, `strict.py`, `fingerprint.py`; what `json_configs.py` and `backuprecord.py` emit | a report | ten checks in order, round trips, fingerprint and its diff | `Compliance` |
| Run state | `arq_tui/runs.py`, `subprocess_workers.py`, `screens/runs_monitor.py`; `arq_writer/cli.py` | one JSON file per run with a ring of 50 events | producer `event`, `__enter__`, `__exit__`; tailer; monitor's mark, collect, cancel; signals | `RunState` |
| Workers | `arq_tui/workers.py`, `multi_destination.py`, `screens/backup_run.py` | thread, `_cancelled`, `_backup`, watchdog, backends | start, cancel, pause, run one plan to several destinations, post the result | `Workers` |
| Scheduling | `arq_tui/scheduling.py` | the host's crontab or launchd agents | read, strip, append, write back | `Plans` |
| TUI state | `arq_tui/state.py`; `screens/home.py`, `plan_wizard.py` | one JSON file per plan | list, save, delete, `mark_run` | `Plans` |
| Screens | `arq_tui/screens/` | what is shown, the backend of the backup screen | the handlers that start, watch and end work | `Tui`, `Workers`, `Plans`, `RunState`, `Restore` |
| The rest | chunker, xattrs, ACLs, exclusions, parsers, analysis scripts | none shared | pure computation, parsing, presentation | none |

`PROJECT.json` lists them with their files and what is modelled of each.

### How they interact

Every component that touches a destination does so through its files alone. A
backup, a retention run, an audit and a restore may be four processes on three
machines; the code takes no lock on the destination and none of them knows of
another. Inside a process the TUI talks to a worker thread through two flags of
`Backup` (cancelled, paused); between processes through a JSON status file and
signals.

### What is hard

* a sweep that takes the records of one moment for all references, while a
  backup is about to add one;
* the order in which a run makes blobs, packs and its record visible, when it
  may be cancelled or die between any two of them;
* caches of what the destination holds (seeded blob locations, a prior tree, a
  ledger of verified files) that are used much later without another look;
* one key for everything, chosen before it is known whether another run chooses
  its own;
* a batch whose answer is lost after it took effect, sent again over a new
  connection that another thread may be reopening too;
* plan files, run records, the drip's state and the crontab: read, changed and
  written back by several processes, none of which takes a lock;
* a monitor that reads a record, asks for its pid and writes it back as stale,
  while the pid's owner writes, ends, or has its pid given to another;
* futures that complete in any order, under a budget that is checked in between;
* partial failure: an unlink, a read, a listing or a link that fails once and is
  passed over, and what the report then says;
* limits: pack size, seconds in file names, bucket boundaries, a ring of 50
  events, a pipe nobody reads.

`PROJECT.json` lists each under `hazards` at its line with the property that
would catch it, with a note where none does or where the code goes wrong there.

## 2. Modules

    Destination         files of one computer subtree, what a record needs
      Writer            backup runs, one process each
      Retention         one retention run
        BackupSystem    both, their properties, the inductive invariant
          MCBackupSystem          small instances for TLC
          BackupSafety_proofs     types; every record stays restorable;
                                  what retention may do; SnapshotStore
    SnapshotStore       what a destination promises (abstract)

    AuditDrip           the resumable audit of a destination
      MCAuditDrip, AuditDrip_proofs

    RunState            a backup command, its state file, who reads it
      MCRunState, RunState_proofs

    Plans               plan files and the crontab, several processes
    Workers             the backup screen and its worker thread
      Tui               both: one screen in detail among several TUIs
        MCTui, Tui_proofs

    Sftp                one connection shared by threads
      Sftp_proofs
    Validation          the tiers, one after another, and their ledger
      MCValidation, Validation_proofs
    Restore             records into a directory
      MCRestore, Restore_proofs
    Compliance          the compliance report and the shape fingerprint
      MCCompliance, Compliance_proofs

The three modules below `Destination` share its files. The others stand by
themselves: each sees of the destination what its code looks at, because the
components meet at files only and take no lock.

### Destination

`keyset`, `objects`, `packs` and `records` are the four kinds of file. A blob
identifier is the pair of key and content, as `compute_blob_id` salts the hash
with the keyset's salt. The content of a tree blob is the tree itself, a
function from files to locations, so the Merkle structure (a record names a
root location, its tree names the others) is kept. Chunks, compression, byte
offsets and the xattrs/ACL of single files are left out: a file has one blob
and every blob has unit length.

`Restorable(r)` is what `arq_reader/restore.py` needs: the keyset decrypts the
record and every blob, and each blob is at its location (an object, or the right
slot of the right pack).

`Allowed` says which of five things may happen that the code does not prevent:
`rekey`, `overlap`, `readError`, `listError`, `rootAcl`. With `Allowed = {}` the
operator tends the keys, keeps retention away from backups, and reads work.

### Writer

One process per element of `Writers`. `pc` goes idle, keyset, seed, ready, then
for each source folder walk, acl, flush and back to ready.

| Action | Code |
|---|---|
| `StartRun` | `Backup.__init__`: a run that deduplicates takes the keys of the keyset it finds and can open, every other one draws fresh ones |
| `WriteKeyset`, `Seed` | `init_plan`: the keyset is written whenever it was not taken over; `seed_existing_destination` |
| `BeginFolder` | `add_folder` up to the walk: the prior tree |
| `SkipFile`, `ReuseFile`, `StoreFile` | `_walk_file` |
| `StoreBlob`, `AppendToPack` | `_write_blob`, `PackBuilder.add` |
| `StoreTree`, `StoreRootAcl`, `NoRootAcl` | end of `_walk_dir` for the root |
| `FlushPack` | `flush_packs`, one family at a time |
| `WriteRecord` | the record, named by its second |
| `ObserveCancel`, `FinishRun`, `Crash` | `BackupCancelled`, normal return, death |
| `Cancel`, `Pause`, `Resume` | the methods of that name, from another thread |

Each write to the destination is a step of its own, so a crash, a cancel or
another process fits between any two of them. Nothing in `Writer` keeps a run from
replacing a keyset: see `KeysTended` below.

### Retention

`gpc` goes idle, prune, list objects, objects, list packs, packs. References are
collected twice, as the code does (`_collect_referenced_blobs` before the
objects, `_collect_live_pack_paths` between objects and packs); listing is a step
after collecting, and a shard or a family that cannot be listed shows nothing
(`Listable`); each unlink is a step and may fail. `leftObjects` and `leftPacks`
are history: what a listing hid and what would not go. `SelectRetained` states the
policy declaratively (a record is kept when fewer than `last` are newer, or when
it heads one of the newest `limits[kind]` buckets); the code's loop keeps a
counter and a set per kind and arrives at the same set.

### BackupSystem

Any number of backup runs, and one retention run at a time. Three conditions are
the operator's care and stand in no line of the code: `NoRetention` and `NoBackup`
keep runs and retention apart, which `"overlap"` removes; `KeysTended` has the
first run create its keyset alone and every later one deduplicate and open it,
which `"rekey"` removes.

### SnapshotStore

The promise: a set of snapshots, each a whole view of one folder at one second;
a run drafts a view and publishes it in one step or abandons it; pruning removes
one whole snapshot. `ImplementsStore` is the refinement: the snapshots are the
*restorable* records, a draft is a run's half-built tree.

### AuditDrip

A file is `<<computer, family, name>>`; the destination is the set `present`,
to which backups add and from which retention removes at any time. One process
per element of `Fires` and `Operators`; each loads the state file, works on its
copy (`mem`) and writes the whole of it back, which is all the coordination the
code has.

| Action | Code |
|---|---|
| `LoadPaused`, `LoadState` | `run_audit_drip` up to the listing, with its early return |
| `DiscoverNothing`, `Discover` | listing and keysets, the empty walk, the sweep boundary, `_index_after_cursor` |
| `AuditNext` | one turn of the loop with `_audit_one_file`; the last turn also takes the loop's `else` |
| `Stop` | the deadline, or an exception |
| `Finish`, `Die` | `_finish`; death, also in the middle of `save_state` |
| `SetPause`, `SavePause` | `pause` and `resume`, load and save |
| `AddFile`, `RemoveFile` | other programs at the destination |

The two orders are kept apart: `WalkedBefore` is the order of `OBJECT_FAMILIES`,
`SortsBefore` Python's comparison of the tuples the cursor is compared with. They
differ: a computer's large blob packs and standalone objects are walked after its
tree packs and sort before them. `Orderly` are the files for which that does not
matter: all packs of blobs and of trees, and the others of a computer without tree
packs. `seen`, `unkeyed` and `due` in a state record are history: what this sweep
went over, what of it without a keyset, and what has been on the destination, and
in every listing, since it began. `processed` stands for
`last_fire_files_processed > 0`; the other counters decide nothing. Shards are
part of a file's name. `Faults` names what the environment may do: fail a call,
a listing or a keyset read, be slow, kill a process. A listing that fails shows
nothing of its directory, a keyset that cannot be read is a computer without one.

### RunState

A producer is one run of `arq-backup create --state-file`, spawned by the backup
screen or started by cron; `FileOf` says which state file it keeps. The screen's
runs have a file each (`new_run_id` draws a uuid), cron's runs of one plan share
one. `file` is what is on disk, `rec` the producer's own record, `pending` what
`_atomic_write` is about to put in place, `tail` what the screen has been shown,
`mon` what a monitor has read and not yet acted on. The ring of events is kept by
its bounds: of `n` events the last `TailMax` are in the file.

| Action | Code |
|---|---|
| `Spawn`, `Boot` | `SubprocessBackupWorker.start` or cron, `cli.main` up to its signal handlers |
| `Enter`, `Leave`, `Report` | `RunWriter.__enter__`, `__exit__`, the end of `main` |
| `OpenPlan`, `Walk`, `EndWalk` | `_run_backup_call`; `RunWriter.event` for each thing that happens |
| `Replace` | `os.replace` in `_atomic_write`, or its failure |
| `PrintLine` | a line to the pipe that nobody reads until the end |
| `Kill`, `Interrupt`, `PauseSignal`, `Toggle` | SIGKILL or SIGTERM, Ctrl-C, SIGUSR1 before and after its handler |
| `PressPause`, `PressCancel`, `Quit` | keys of the screen |
| `Poll`, `CheckExit`, `LastDrain`, `Finalize` | `_poll_loop`, `_drain_state_file_once`, `_finalize` |
| `MonitorRead`, `MonitorCheck`, `MonitorMark`, `MonitorFails` | `enumerate_runs`, `is_pid_alive`, `mark_stale` |
| `CollectRead`, `CollectUnlink`, `MonitorCancel` | `gc_finished_runs`; cancel in the activity panel |
| `Reuse` | the system gives a dead producer's pid to another process |

### Plans, Workers, Tui

`Plans`: one JSON file per plan, whole, torn or gone; the temporary file
`mark_run` shares; the crontab as a sequence of markers, entries and the
operator's own lines. Each TUI process is a small program: home, in the wizard,
saving, stamping, writing the table. `hurt` is history: the plans whose save was
cut short or crossed by another writer, on which stamps of two versions crossed,
or a stamp was cut short across another. The wizard's edit also drops two fields
it does not show (`plan_wizard.py:776`): a version stands for the whole plan here.

| Action | Code |
|---|---|
| `OpenWizard`, `SaveOpen`, `SaveWrite`, `CloseWizard` | the wizard and `PlanRegistry.save`: open truncates, then write |
| `DeletePlan`, `RunPlan` | the `plans` command, the home screen |
| `MarkRead`, `MarkOpen`, `MarkFill`, `MarkReplace` | `mark_run`: read, open the temporary file, fill it, replace |
| `SaveFails`, `MarkFails` | a write or a replace that raises: the wizard stays open over half a file, the stamp is given up |
| `BeginInstall`, `BeginRemove`, `WriteTab` | `install_schedule`, `remove_schedule`, `_write_crontab` |
| `OperatorEdits`, `TuiDies` | `crontab -e`; death |

`Workers`: the screen's thread and the worker's thread. `bk` is the `Backup` the
worker has published, `flag` the worker's `_cancelled`, `dog` the watchdog of a
multi-destination run, `panel` what the screen shows. `Multi`, the choice between
the two workers, is whether the plan lists additional destinations
(`backup_run.py:148`), not how many it has.

| Action | Code |
|---|---|
| `StartWorker`, `NewBackup`, `Publish`, `InitPlan` | `BackupWorker._run`: the Backup exists before `_backup` is set |
| `Checkpoint`, `WriteRecord` | `_check_cancel`, a folder done |
| `NextDest`, `OpenDest`, `Watch`, `CloseDest`, `NoteOutcome` | `run_plan_multi`, one destination |
| `OnWorkerDone`, `PressCancel`, `PressPause`, `CloseScreen`, `WorkerDies` | the screen's handlers; death |

`Tui` puts them together: the watched process starts its screen from its plan
list and stamps the plan in the handler of the worker's last message.

### Sftp

One `SftpBackend`. Each call is a few batches; a batch is sent, carried out (or
not, or half), and answered (or not); the error decides between a back-off, one
reconnect and an exception. `master`, `sock` and `procs` are the ssh master, the
socket a command was built for and the processes that live; `streak` is the
tracker of rate limits; `part` the partial file beside each path.

| Action | Code |
|---|---|
| `Begin`, `First`, `AfterBatch` | the public calls, which batch comes when |
| `Send`, `Invoke` | `_run_ssh`, `_run_sftp_batch`; what the server does of it (`Done`, `Cut`) |
| `TimeOut` | a command that outlives its timeout: the exception passes by the tracker, the loop and the removal of the partial file |
| `Answer` | `_run_with_backoff`: patterns, tracker, attempts |
| `Teardown`, `Enter`, `Spawn`, `Ready` | `_reopen_master`, `__enter__`, `_cleanup`, under its lock |

### Validation

`run` is the driver (tier, place, what is listed and still to do), `report` what
it has noted, `inflight` the futures, `ledger` and `saved` the ledger in memory
and on disk. The ledger's keys of the audit (names) and of the record walk (blob
identifiers) share a file and are kept apart. `before`, `passed` and `proved`
are history: the ledger a run began with, what it verified, what was ever read
and found good. `run.next` is where the loop over a family is: `Ahead` are the
files still before it, `Turn` the first of them, `File` the one it names.

| Action | Code |
|---|---|
| `StartRun`, `StartRecord`, `SaveLedger`, `Leave` | the commands of `arq_validator/cli.py` |
| `LayoutCheck`, `MagicCheck`, `RecordCheck` | L0, L1a, L1b |
| `AuditSet`, `NextFile`, `Alone`, `SetDone` | L2, sequential |
| `Submit`, `Compute`, `Wait`, `Recheck`, `Drain` | L2, parallel: window of twice the width, futures ending in any order, the budget |
| `GraphCheck`, `OpenRecord`, `VisitNode`, `WalkDone` | L3 and the record command: one node at a time |
| `Harm` | a stored file rots, loses its head or goes |

### Restore

The directory restored into is `names` (path to inode) and `nodes`, so that hard
links, symbolic links and writing through them are what they are on a disk. An
entry of a record is a path, a kind, an inode and the blobs it needs; `instance`
is what a `Restore` or `Arq5Restore` object remembers.

| Action | Code |
|---|---|
| `Begin` (`FromBrowser`, `FromCommandLine`, `FromArq5`) | the callers with the policy and filter each passes |
| `Plan`, `PlanRaises` | `_count_tree`, which fills the tree cache, counts a tree it cannot read at that moment as nothing, and lets other errors out |
| `PassOver`, `EnterDirectory` | the walk: filter, mkdir, trees that cannot be read |
| `Link`, `LinkFails`, `WriteFile`, `WriteFails`, `MakeSymlink`, `SymlinkFails`, `Fail` | `_restore_file_node`; a symbolic link that cannot be made after what was there is unlinked |
| `Finish`, `Leave`, `Lose` | the result and its screen; another process; a blob goes |

### Compliance

A JSON object is a function from its keys to the types of their values. The
writer's side (`BackupConfig`, `BackupPlan`, `NodeDict`, ...) is translated from
`json_configs.py` and `backuprecord.py`, the checks' tables from
`compatibility.py`: two statements of one format, held against each other.
`Turn(i)` is what `init_plan` and each `add_folder` write, in order; `Write` puts
the files down one by one (`NextWrites` are those all before which are there),
`Stop` ends the run between two of them or inside one, which leaves a `.tmp` among
the objects or the packs, `Harm` does one thing to the
destination, then `Begin` and one action per check, in the order of `check_arq7_compatibility`; `RtBackuprecords`
and `RtStandardobjects` are the strict round trips, `Fingerprint` takes and
compares a fingerprint. `Failing` loses calls of the backend on the way.

## 3. Runs

| Run | Instance | Checks |
|---|---|---|
| `sequential` | 1 run at a time, 3 files, 3 contents (interchangeable), loose or in packs of two blobs that overflow, retention in between, listings that fail | types, `RecordsRestorable`, `RunsBacked`, `NothingLeftBehind`, `NewestKept` |
| `concurrent` | 2 runs interleaved, 1 file, 2 contents (one large, so that all three pack families are in use) | `Consistent` (the inductive invariant), `ImplementsStore` |
| `policies` | 3 records of a folder in 4 seconds, 3 policies, retention overlapping, weak fairness | `PolicyHonoured`, `CancelEndsRun`, `EverythingEnds` |
| `drip` | 2 files, fires that stop and die and see part of listings and keysets, an operator writing the same file | types, `SweepCovers`, `FailuresReported`, `Accounted` (the inductive invariant) |
| `drip_live` | 3 files of 2 computers, one of them without a keyset, weak fairness | `SweepsComplete` |
| `runs` | a run the screen tails, or two cron runs on one file; a monitor; every fault | types, `ForwardedInOrder`, `FinishedMeansAll`, `StaleNamesTheDead`, `DesertedIsMarked`, `ScreenLearnsTheEnd` |
| `tui` | 3 TUI processes, 2 plans, writes that fail, a screen with 2 destinations of which some fail | `QuietMeansWhole`, `CrontabKept`, `RunToldTrue`, `CancelLeavesNothing`, `CancelEndsWorker` |
| `sftp` | 2 threads, 1 path, a limit on calls and faults | types, `TornNever`, `SaidIsDone`, `CallsReturn` |
| `validate` | 2 computers, 3 records, all commands, 2 audit workers, a budget, one harm | types, `LedgerHonest`, `CleanMeansChecked`, `RunsFinish` |
| `restore` | 2 restores of 2 records, 2 formats, 3 policies, 2 faults, 4 starting directories | types, `SaidIsRestored`, `OriginalsStay` |
| `compliance` | 4 sets of options, 2 folders, one harm, one failing call | `NoFalseAlarm`, `PassedMeansSound`, `MatchTells` |
| `acl_swept` | a root ACL, then retention | refutes `SweepSparesReferenced` (section 5) |

What each shows is in `PROJECT.json` under `runs`.

### Bounds

*Backups and retention.* `MaxRuns`, `MaxRetentions` and `MaxTime` bound runs,
sweeps and the clock. Two runs are enough for one to build on another's objects
and for two to race; a third record is what a policy needs to keep, bucket and
drop at once (the policies are: the newest one, the newest of two buckets,
everything). `sequential` has three
files of three contents for packs of two blobs, so that a blob's place in its pack
differs from one, the overflow comes in the middle of a folder and packs are shared
between records; its contents are of one size class and interchangeable
(`SYMMETRY`, sound because it checks safety only and no definition tells contents
of one class apart). In the other runs one file is enough for a tree with a file
skipped, reused and stored.

*Audit drip.* No bound: no counter decides anything, the state is finite and
sweeps follow each other for ever. Two files let a fire stop before, between and
after files that come and go; `Cap` below their number makes the list of failures
overflow. An operator with a stale copy overwrites what a fire saved, as an
overlapping fire would. Both files are `Orderly`: a
third one that is not makes this run too long with an operator, and the proofs
have no such bound (nor has the run, without its operator, over `PackedBackup`). The three files
of `drip_live` are `Orderly` too; section 5 says what happens to others.

*Run state.* `TailMax` 2 stands for 50 and `FlushCount` 2 for the code's flush
batch; one event of work and two key events are one more than the ring holds, so
a screen sees it drop. `PipeCap` 1 lets a producer wait on its pipe. Two producers
on one file are what a stale mark and a live run need to cross.

*TUI.* The behaviours are of three kinds, each with a budget (`EachAlone`): a
screen with its worker (and one edit or death beside it), writers of plan files,
schedulers of the crontab. They are not multiplied with each other: the crontab
and the plan files are separate files, and the screen meets the plan files when it
stamps a run, which the first budget has. Three processes are one more than a race
on a temporary file or a table needs.

*SFTP.* `MaxAttempts` 2 is a try and a retry, `Threshold` 2 a tracker that can
count and trip; three faults lose an answer, the retry's connection and the
reconnect. Two threads share one path only where neither changes it.

*Validation.* Five files and one in the two families of the first computer, one
large file in the second; the two workers' window of four is filled and emptied.
`MaxBytes` 3
makes the budget run out inside a set. Trees share a child and records a tree. A
read, a keyset and a folder listing may fail.

*Restore.* The records hold a nested directory, three names of one inode, a symbolic
link and blobs they share; filters take all, one nested path or two. The starting
directory is empty, has files where entries go, a directory where a file goes, or
a file where a directory goes. Two runs let what an instance remembers matter.

*Compliance.* `SampleCap` and `StrictCap` 3 stand for 32 and 64, one less than
there are objects. `Touched` are the keys a harm may drop or retype: one of each
kind of check. One harm and one failing call together are enough for one to hide
the other.

### Fairness

A live process, thread or child takes its own steps (`WF` on the step operators
of runs, retention, fires, producers, tailer, monitor, SFTP threads, worker
thread, watchdog, validator and its pool); the operating system schedules them,
and every SFTP command has a timeout. The monitor's `MonitorMark` has strong
fairness: its timer comes again, and the disk does not refuse its every write.
Nothing obliges anybody to start, press, cancel, pause, resume, fail or kill.
`CancelEndsRun` needs no more: `cancel` clears `paused`, and `_check_cancel` looks
at the cancel first when a pause follows. In `drip_live` the schedule keeps
starting fires and each audits at least one file, so a budget shorter than the
listing is excluded. `ScreenLearnsTheEnd` excepts a run that waits on the pipe its
parent reads after its end only: nothing in the code ends that wait.

## 4. Proofs

Proved by TLAPS for every value of the constants that satisfies the modules'
assumptions (each is evaluated by TLC in a run):

| Theorem | States | Beyond the constants' assumptions |
|---|---|---|
| `TypeCorrect` | `Spec => []TypeOK` of `BackupSystem` | nothing, whatever `Allowed` is |
| `AlwaysConsistent`, `RecordsStayRestorable`, `RunsStayBacked` | the safety of records | `Allowed` has at most `listError` |
| `DripTypeCorrect` | types of `AuditDrip` | nothing |
| `AlwaysAccounted`, `DripCovers`, `DripReports` | a completed sweep covers and reports the files no cursor leaves behind, as far as they were listed and keyed | nothing |
| `RunsTyped`, `ShownInOrder`, `FinishedIsTrue`, `OnlyTheDeadAreStale` | the safety of `RunState` | nothing |
| `SftpTyped`, `NothingTorn`, `CallersAreToldTrue` | the safety of `Sftp` | nothing |
| `PolicyIsHonoured` | `PolicyHonoured` of `BackupSystem` | records are legible: `Allowed` has neither `rekey` nor `readError` |
| `NewestIsKept` | `NewestKept` of `BackupSystem` | the same, and every policy but `KeepAll` keeps something |
| `NothingIsLeftBehind` | `NothingLeftBehind` of `BackupSystem` | no `overlap` |
| `ReferencedIsSpared`, `StoreIsImplemented` | `SweepSparesReferenced`, `ImplementsStore` | `Allowed` has at most `listError` |
| `LedgerStaysHonest`, `AuditIsBounded` | `LedgerHonest`, `TypeOK` of `Validation` | nothing |
| `VerdictIsEarned` | `CleanMeansChecked` of `Validation` | no `reread` |
| `ResultIsTrue`, `NothingStaysOpen` | `RunToldTrue`, `CancelLeavesNothing` of `Workers`, in `Tui` | nothing |
| `HalfPlansAreAccounted`, `NoPlanRunsTwice` | `QuietMeansWhole`; the crontab in order | nothing |
| `OperatorLinesStay` | `CrontabKept` | `Troubles = {}` |
| `TypeCorrect`, `ReportsAreSound`, `FinishedPasses`, `FingerprintsTell` | types, `PassedMeansSound`, `NoFalseAlarm`, `MatchTells` of `Compliance` | nothing |
| `FoundFilesStay` | `OriginalsStay` of `Restore` | nothing |
| `RestoreTyped` | `TypeOK` of `Restore` | no record has a file of a name with our suffix (`SiblingsApart`) |
| `RestoreKeepsItsWord` | `Plain => SaidIsRestored` of `Restore` | `SiblingsApart`; `Plain`: where files are overwritten, the directory had no links when the restore began |

**Backups and retention.** Types alone are not inductive: a pack is only as well
named as the buffer it comes from and a record as the walk it ends, so `Typed`
adds `BuffersNamed` and `FoldersNamed`. Nor is `RecordsRestorable`: a record is
restorable when it is written only because (`RunsBacked`) whatever a run holds on
to is on disk or in one of its buffers, and those are empty by then; a run's
cache is backed only because records it was seeded from were restorable and
because retention, the one thing that deletes, is not at work beside it
(`RetentionAlone`); a sweep spares what records need because what it collected
covers them (`SweepInformed`), which holds because it could decrypt every record,
because one key serves all of them (`KeysAgree`), because `KeysTended` leaves the run that
creates the keyset alone until it has, and has the others open it; and because nothing it does not walk is
referred to (`NoAcls`). `Consistent` is their conjunction, TLC checks it in
`concurrent`, and the proof takes each conjunct through each action. That
`Allowed` has none of `rekey`, `overlap`, `readError` and `rootAcl` is needed:
section 5 says what each costs. A failed listing costs nothing here.

**What retention may do.** Each promise has an invariant of its own, with only
the switches off that break it. `Prudent` is about pruning: a victim is named by
what the listing held when the policy was asked (`RecordsListed`), and whatever
the policy keeps of what is there now it would still keep (`VictimsJustified`),
because a record added since is newer than all that were listed, and one taken
away was not selected. Keys enter because a record that cannot be decrypted is
dated 1970. `Tidy` is about sweeping: what is on disk and not on the sweep's list
any more is referred to, was hidden by a failed listing or would not go (`Swept`),
which a failed read cannot break (it only makes more look unreferenced) but a run
at work beside it does.
`ReferencedIsSpared` follows from `Consistent`.

**The refinement.** `Mapping` adds to `Consistent` that a run between two folders
has an empty draft (`BetweenFolders`). A backup's step extends a draft, publishes
it (`WriteRecord`), abandons it (a cancel, a crash, the next folder) or changes
neither drafts nor snapshots; a blob or pack added makes nothing restorable that
was not, because the records there were all restorable before; an unlinked record
is one snapshot less; an unlinked object or pack none, by `ReferencedIsSpared`.

**Audit drip.** `Accounted` says of every copy of the state, in the file or in
memory, that what its sweep still owes lies after its cursor and that it names the
failures among what it went over; and of a fire in its loop that what is owed is
in the rest of its walk. It is about one copy at a time, which is why overlapping
fires, whose last writer wins, cannot break it. Owed are the `Orderly` files alone:
for them the cursor's order and the walk's say the same of what lies ahead, so that
no assumption on the destination is needed. Of the others nothing can be said
(section 5). A listing that leaves a file out takes it from what is due
in the copy of that fire (`Narrowed`), and a fire without a computer's keyset notes
its files as passed (`unkeyed`), so that failing listings and keysets are no
assumption either: the theorems say which files they cost.

**Run state.** `RunsInv` adds to the types: the producers
launched from a screen are a set the instance allows; what a producer's place says
of its record and of the record it is
writing (`Local`); what a tailer's place says of what it has forwarded
(`TailTrue`: in order, and everything up to its index while the ring has room; a
drain before the verdict saw the producer gone); that a file's record is one its
producer wrote (`FileTrue`); and that what the monitor holds names a started
producer, dead once its pid was asked (`SeenTrue`). `FinishedMeansAll` follows
because the record a tailer calls "completed" is its own producer's, written
after its last event; `StaleNamesTheDead` because the monitor marks the record it
read, in the name of the producer whose pid it asked for, whatever is in the file
by then.

**SFTP.** `SftpInv` is that files are whole, that the connection's numbers are
typed (`LinkTyped`) and, for each call, that its place says what the server holds
of its path (`CallsSound`): before its first effect what was there, after it what
is wanted, and in between one of the two; calls that run side by side are `Apart`,
on other paths or changing nothing, so that a step of one leaves the other's facts.

**Validation.** `HonestInv` says that the futures in flight are a sequence
(`FuturesInOrder`), that one which came back good is of a file that was read and
found good (`FuturesHonest`), and that so is every entry of the ledger in memory
and on disk (`EntriesHonest`).

`TallyInv` gives the types and the bounds. The tallies count files and so need
that no file is met twice: the loop is past what it has noted (`Cursor`), families
and computers share no file (an assumption), and what is in flight is noted
nowhere yet (`Once`). The bound on reads beyond the budget needs the window
(`Window`) and that every read still to be merged is a future in flight
(`Budget`).

`CheckedInv` adds what a verdict is owed, place by place: what was listed and lies
behind the loop is verified, known, in flight or among the failures
(`AuditedSoFar`), the same for newest records and for records walked
(`DatedSoFar`, `WalkedSoFar`), and of the record being walked that each node it
entered is settled, on the stack or a failure (`Entered`, `Followed`, `SeenMet`).
A failure noted is never taken back and neither is what was verified, so at the
end nothing is left but the failures. `Followed` is where `"reread"` is excluded:
a tree that was read and found good is read again for its children, and when that
read fails the code goes on without them (section 5).

**Workers, plans, crontab.** `WorkerInv` says of each place of the thread which
destinations it is past (`Behind`), at and before (`Ahead`, `InTurn`), what it has
written there (`Written`), that the panel shows no more than that (`Told`), and
that what it opened it has closed once it is past it (`Released`). `FilesInv` says
that a plan, unless `hurt`, is whole or in the hands of one who is writing it
(`Held`), that who saves it is alone on it and stamps that cross are of one version
(`Apart`), and so that what somebody is about to write over is half a file or has
that version (`Ready`); and that what a stamp is about to put in place is whole
(`CopyWhole`). `TabsInv` says that a table read and
not yet written back has the operator's lines that are in the crontab
(`OwnKept`); that the tables are in order is part of the types (`Ordered`). What
the strip leaves is a recursive function of the table; a table in order has at most
one marker of a plan, so it is the table itself or the table without two lines,
which the lemmas show by the last line where the two would differ, as induction
is not available.

**Restore.** That what was found stays (`OriginalsStay`) is inductive with the
types alone, since a node number, once given, is not given again: where the policy
is not to overwrite, every write goes to a free path and so makes a new node,
and what a link entry unlinks is in `Relinked`. What a restore says needs more.
`PutsStay`: whatever was put somewhere is there, under its own name or beside it,
so nothing later goes where it is; this is where two entries of one name
(`RecordsAssumption`) and a file with our suffix (`SiblingsApart`) are excluded.
`Verdicts`: each entry the walk is past was put somewhere or is among the skipped
or failed, and not both. `Promised`: what was counted lies under no directory that
failed, because each tree above it was read when counting and is kept. `Linked`:
the first place of an inode is where an entry of that inode was put, and the
others lead to the same node unless a link failed. `Held`: what each entry leads
to is the record's (`Content`) and nothing else leads there (`Alone`), so that a
later write in place cannot change it. `Held` assumes `Plain`, which is about what
the restore found and not about what it does; without it the property is false
(section 5).

Assumed of records (`RecordsAssumption`, for those the writer makes of one
device): a directory has one entry of a name, and names of one inode have one
content.

**Compliance.** Three facts, each inductive only with the ones before it.
`HarmOK`: every harm befell an artefact that was written or a key of an object of
a finished destination, and none befell the same thing twice, so that what is
read of an artefact or a key is what it was brought to (`ConditionOfHarmed`,
`HarmedKey`). `Sound`: a report that has not failed so far vouches for what it
has looked at and what it has written again; each check has a lemma of its own
(`KeysetVerdict` to `RoundTripVerdict`) that its results can only all pass when
that holds of what it adds, and nothing is harmed while checks run. For the plan
this needs that a shape told by a tag (`ShapeIsWhole`) pins the keys of its
object, and that a finished run has a folder's part of the plan
(`FinishedIsPlanned`), without which the nested folder plans are not asked for.
`Untroubled`: where nothing was harmed and no call failed, all has passed so far,
nothing has raised and the keyset was read. It rests on the tables (`ConfigTable` to
`MailTable`): what each builder of `json_configs.py` and `backuprecord.py` emits,
for all its options, has what the check of it asks for, key by key, and on
`InitPlanned`: the plan's files precede every folder. That no call failed is read
off `faults`: what is lost is finite, and leaves `faults` as it was only if it is
empty (`FailingIs`). `MatchTells` is established by the one step that takes a
fingerprint: equal schemas leave a harmed key only a type of the same name
(`SameSchemaHides`), and a record that has the files of its folder was read and
led to its tree (`RecordsMatch`).

Only model-checked: everything temporal and its fairness (`CancelEndsRun`,
`EverythingEnds`, `SweepsComplete`, `DesertedIsMarked`, `ScreenLearnsTheEnd`,
`CancelEndsWorker`, `CallsReturn`, `RunsFinish`), which TLAPS does not reach;
`SaidIsRestored` where a second restore overwrites what a first one linked. What
recursive definitions compute is evaluated on the instances. Every invariant and
every action property a run shows to hold is stated by a theorem.

## 5. Where code and text disagree

One run demonstrates a disagreement: `acl_swept`. The reference walks of
`retention.py` (343) collect a root node's data, xattrs and tree but not its ACL
blob, against their docstring (476).

More statements of the repository are written down as properties that the code
does not keep, some nowhere and some only outside what the runs of section 3 look
at. TLC refutes each within seconds on the instance the middle column names:

| Property | Instance | What the code does |
|---|---|---|
| `KeysetKept` | `acl_swept.cfg` with `Allowed = {"rekey"}` | `init_plan` writes a keyset whenever the run did not load one: a run that does not deduplicate (the default) or cannot open the one that is there, and the second of two first runs, replace it (`backup.py:698`, against the comment at 688) |
| `SweepSparesRecords` | the same with `{"readError"}` | a record that cannot be read once loses its blobs to the sweep (`retention.py:339`, against 337); an unread record also counts as dated 1970, so that `NewestKept` fails (259) |
| `RecordsRestorable` | the same with `{"overlap"}` | the references are collected once and deletions follow; a backup in between writes a record over blobs that go (`retention.py:502`, against its docstring at 18) |
| `CompleteCoversAll` | `drip_live.cfg` with `TreeAndLarge`, under `Spec` | a cursor left at a tree pack ends the sweep before the large blob packs and standalone objects that follow it in the walk (`audit_drip.py:181`, against 167) |
| `SweepsComplete` | `drip_live.cfg` with `PackedBackup` | from a cursor at a large blob pack a fire resumes at the tree pack walked before it: fires that each audit both, and no more, never reach the next computer (181) |
| `PauseHolds` | `drip.cfg` with `Faults = {}` | a fire under way writes back the pause it loaded (`audit_drip.py:531`, against 545) |
| `OnlyRunningIsStaled` | `runs.cfg` with `Faults = {}`, under `Spec` | `mark_stale` writes back the record it read, over what the producer left at its end (`runs.py:544`, against 534) |
| `LastEventShown` | `runs.cfg` with `TailMax` and `FlushCount` 1, `MoreEvents` | the tailer counts events and indexes a ring of 50: once it is full nothing is forwarded (`subprocess_workers.py:312`, against 310) |
| `CrashCorruptsNothing` | `tui.cfg` with `OneSave` or `TwoStamps` | a save writes the plan in place (`state.py:266`), and stamps share one temporary file (305): a process killed there leaves half a plan (against 302) |
| `CrontabKept` | `tui.cfg` with `OneInstall`, `{"unread"}` | a `crontab -l` that fails reads as an empty table, and an install writes that back (`scheduling.py:563`, against 150) |
| `CrontabKept` | `tui.cfg` with `{"overlap"}` | an install writes back the table it read: an edit by the operator in between is lost (`scheduling.py:563`) |
| `SuccessShownIsSuccess` | `tui.cfg` with `JustAScreen` | a `MultiBackupResult` is no dict, so the screen shows any multi-destination result as complete (`backup_run.py:340`, against `workers.py:278`) |
| `CancelReachesBackup` | `tui.cfg` with `JustAScreen` | a cancel before `_backup` is set sets a flag that nobody reads (`workers.py:182`, against `backup_run.py:17`) |

With the trouble `"reread"` `CleanMeansChecked` fails: the second reading of a tree
fails and its subtree drops out of a clean report (`record_validator.py:317`).
`NothingLeftBehind`, `SweepCovers` and `FailuresReported` hold, but name in
themselves what a failed listing or keyset read costs: the code passes over a
directory it cannot list (`retention.py:519`, 562; `layout.py:83`) and notes no
failure.

Met on the way, and modelled as the code has it (or left to prose where the models
have no state for it):

* *Run state.* The tailer's index stops at 50 once the ring is full
  (`subprocess_workers.py:312`). SIGTERM and SIGUSR1 before their handlers kill the
  child (`subprocess_workers.py:17`, `runs.py:577`). A record read as running just
  before its producer completes it is written back as stale (`runs.py:539`), and
  collection may unlink the file of a live run of the same plan (554). A pid used
  again receives another run's cancel (585). The pipe at
  `subprocess_workers.py:152` is not read before the end.
* *Workers.* A cancel before `_backup` is set is lost (`workers.py:182`), a pause
  before it is dropped. A cancelled destination is not marked so in the outcome.
  A scheduled run covers the primary destination only. A multi-destination run
  passes neither plan nor computer uuid. `maintenance.py:382` passes a keyword its
  callee does not have.
* *Plans.* A save truncates the plan before it writes (`state.py:302`), two stamps
  share one temporary file (306), the wizard drops the fields it does not show
  (`plan_wizard.py:777`) and saves back an old `last_run_iso`.
* *SFTP.* The retry after a reconnect runs the command built for the old socket. A
  reconnect leaks its askpass file and socket directory. A failed reopen closes the
  backend (`sftp.py:453` says the next attempt will retry). `_read_cache` outlives
  `write_all` and `unlink`. A lost connection makes `exists` and `is_dir` answer no.
* *Validation.* `validate` returns after an L1b keyset failure, so L2's per-set skip
  is not reached for mixed destinations; in L2 any keyset error counts as
  "unencrypted" and leaves the report clean; an unlisted folder of L3 is named but
  is no failure. `validate_record` skips the xattrs and ACLs of a second node whose
  tree was seen; `truncated_after` stays 0 when the limit falls inside the last
  node; a backend's RuntimeError escapes. `_summarize` reads attributes a report
  does not have.
* *Restore.* An instance used twice links to what the first restore wrote
  (`restore.py:635`; the program makes one per restore). "overwrite" writes in place,
  through hard and symbolic links. Link and symlink entries unlink what is there
  whatever the policy, and a link that then fails has lost it. Inode numbers are
  compared without their device. After a link that failed the names that follow are
  linked to the copy made instead, so that one file comes back as two
  (`restore.py:726`). Where two names of the directory are one file and both are
  overwritten by files of the record that are not, the last one's content is under
  both, and the restore reports success: `SaidIsRestored` with a start that gives
  one node two names. Exceptions outside the listed ones end the restore.
  An empty selection and `/` mean everything. The browser always overwrites; the
  command restores the latest record; `--verify-after` compares counts only. The
  restore screen can be left while its worker runs, which nothing cancels. A first
  scan of Arq 5 packs that fails is not repeated. `snapshot_diff` does not see a
  file become a symlink with the same bytes.
* *Compliance.* Listings that fail below the folders are passed over in silence
  (the docstring at `compatibility.py:23` says every problem lands in the report);
  a sidecar whose top level is a list, or a list for a schedule's type, raises.
  Unencrypted destinations never pass. Binary-plist records always fail RT1, whose
  serialiser does not know the format's name (`strict.py:177`). A run killed after a
  folder's mkdir or leaving a `.tmp` in a shard fails the report for good. Records,
  objects and packs that are gone are not missed: a pass does not mean restorable.
  Mail settings that lost all six keys a server needs have the shape of fresh ones
  and pass (`compatibility.py:622`); `Lies` excepts them. A record that cannot be
  read has the fingerprint of one without files: `MatchTells` excepts empty folders.
  The fingerprint's diff compares neither `folder_schema`, object counts,
  `node_schema`, version nor tree counts, and equal `_error`s match.

## 6. Plan

Done, in this order: `Destination` to `SnapshotStore`, `AuditDrip`, `RunState`,
`Plans` and `Workers` in `Tui`, `Sftp`, `Validation`, `Restore`, `Compliance`, and
the theorems above. Left, in the order of their worth:

1. `IncrementalSource`: content and stat of the source against the prior tree, for
   the file that changes between its read and its stat (`backup.py:1227`).
2. Keyset rotation (`crypto_write.py:246`): archive, overwrite, death in between.
3. Maintenance and scan workers of the TUI; launchd.

## 7. Not modelled

Byte formats, ciphers, compression and chunk boundaries; the parsers of keysets,
trees, records and Arq 5 packs; exclusion patterns and the encoding of xattrs and
ACLs; argument parsing, JSON rendering, widgets and layout; the analysis scripts.
They compute from their input and share nothing; tests reach them better than a
model checker.

Of `Writer`: nested directories (the walk of a directory is the walk of its entries
in order, and a nested tree is one more blob stored before its parent), hard links,
symlinks, and the xattrs and ACLs of single files. The model's clock does not go
back. Keyset rotation, maintenance and scan workers, launchd and `snapshot_diff`
are left out; section 6 says which are worth a module.
