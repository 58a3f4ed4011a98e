# Verification of pkgundo

TLA+ specifications of pkgundo, the configurations under which TLC checks
them, and theorems that TLAPS proves. pkgundo records what a command (usually a
package installation) or a tracked application does to the file system, and
rolls it back later. It works with live files, so the questions are: what can
be lost, what can be left behind, and what can be recorded wrongly, when other
processes, kills and errors come between any two of its steps.

Source paths are relative to `src/` in the repository (`src/rollback/mod.rs` there is
`src/src/rollback/mod.rs` in PROJECT.json).

## 1. The system

| part | state it keeps | operations | talks to |
|---|---|---|---|
| install monitoring (`commands/run.rs`, `fs_monitor`, `ebpf`) | the child process, a bounded channel, the transaction's status | snapshot, run the command, journal each change, drain, set the status | journal, blob store, trackers |
| journal and database (`journal`, `db`) | the `mutations` table, unique in (txid, operation, path) | append, read in timestamp order | everybody |
| blob store, fingerprints | content and hash of the configs before an install | pre-scan, compare, restore | rollback engine |
| classifier | nothing | path to category and action | rollback engine |
| review (`rollback/review.rs`) | the groups to be removed | path to group; ask about each group | `untrack --rollback`, rollback engine |
| rollback engine (`rollback/mod.rs`) | the report in memory, one mutation in hand | package manager removal, a handler per mutation, reversal of services and users, status | all of the above and the archive |
| archive (`archive`) | a copy, a sidecar and a row per (txid, path) | archive, recover | the file system |
| registry (`tracked_apps`, `transaction`) | one row per app, one transaction per tracking period | track, untrack | daemon, `untrack --rollback` |
| daemon (`daemon/*`) | marks per executable, launches per pid, a counter per file system, a journal channel | track, untrack with flush, claim a launch, arm and disarm the capture | registry, journal, `/proc`, fanotify |
| trackers (`service_tracker`, `user_tracker`, `process_tracker`) | events, snapshots, the process tree | detect, reverse | run, rollback |
| hooks (`commands/hook.rs`, `apt_hook.rs`, `dnf_hook.rs`) | hook files, apt's snapshot | install and remove the files; track what is newly installed, remind of what is removed | package managers, daemon, registry |
| leftover scan (`scan_leftovers`) | the candidates in memory | find names like an app's, ask, archive and remove | archive |
| setup, inspection, command line | nothing of their own | write the daemon's unit file; print; parse and dispatch | the above |

What is hard in it:

* the engine performs several file and database operations per mutation, any
  of which may fail or be the last before a kill, and is then run again over
  what the first attempt left;
* files are looked at, archived and removed in separate operations, while their owner may
  write them;
* a path appears in the journal under several operations and is handled once
  for each; the archive has a single slot per path;
* what the daemon captures depends on a race between kernel queues, `/proc`
  polling, the end of a process, and a counter that stands for a set of launches;
* an `untrack --rollback` is a sequence of two processes' steps (daemon:
  close, flush, checkpoint; client: read, review, execute), during which the app may go on writing;
* what is undone beside files is not what pkgundo saw happen but what it concludes from two
  snapshots and from `/proc`, and accounts and units are changed by others as well;
* the hooks run inside package managers' transactions, any of which may be interrupted, and ask a
  daemon that may die under the request.

What makes each part correct: the engine loses nothing it promised to archive and removes nothing it is not licensed
to; the capture attributes every change it reports to the right launch, loses none it reads in time and marks what is in use,
no more; the registry, its buckets, the marks and what clients read agree; an install's journal has no gaps but what was refused
one by one; the reversal
undoes what the install did and leaves what was there; the review decides, and nobody else; hooks track what the
user installed, once; the leftover scan archives first and has a floor. Section 3 lists the properties.

PROJECT.json lists every component with its status, and every hazard at its line.

## 2. Modules

| module | models | status |
|---|---|---|
| `Rollback` | the engine over one transaction: journal, baseline, disk, archive, recover | done |
| `MCRollback` | its small instances for TLC | done |
| `RollbackProofs` | all its safety properties, `ReportedOrGone` for tracked apps, proved | done |
| `MutationCapture` | the shared fanotify group, its marks and reference counts, with failing calls | done |
| `Coverage` | what `MutationCapture` promises: marked is what some launch uses | done |
| `Capture` | the daemon: claims, launches, process trees, event loop, journal channel, untrack; extends `MutationCapture` | done |
| `MCCapture` | its small instances for TLC | done |
| `CaptureProofs` | that `MutationCapture` keeps its promise and the daemon inherits it, and all of the daemon's safety properties, proved | done |
| `Registry` | tracked apps and the status of their transactions: daemon, exec-watch marks, competing clients, kills | done |
| `MCRegistry` | its small instances for TLC | done |
| `RegistryProofs` | all its safety properties, proved | done |
| `Run` | an install from its transaction to its final status: either monitor, the way of an event to the journal, the drain with its timeout | done |
| `MCRun` | its small instances for TLC | done |
| `RunProofs` | all its safety properties, proved | done |
| `Reversal` | step F of the engine: service and user events against the real states they undo, from the snapshot to the reversal | done |
| `MCReversal` | its small instances for TLC | done |
| `ReversalProofs` | all its safety properties, proved | done |
| `Review` | `untrack --rollback`: groups, the dialogue, the filter, next to an app that still writes | done |
| `MCReview` | its small instance for TLC | done |
| `ReviewProofs` | all its properties, proved | done |
| `Hooks` | the package managers' hooks, apt's snapshot, tracking and reminding | done |
| `MCHooks` | its small instance for TLC | done |
| `HooksProofs` | its types and all its safety properties, proved | done |
| `Leftovers` | the leftover scan: matching, asking, walk and removal, next to the owner of the home | done |
| `MCLeftovers` | its small instance for TLC | done |
| `LeftoversProofs` | both its properties, proved | done |

`Capture` extends `MutationCapture`, whose actions are conjuncts of its own: the launch
task performs `Call(l)` once and `Return(l)` once. `Rollback` starts from
the journal that `Capture` or `Run` fills; `Registry` decides which bucket that is, and hands
it to a rollback. `Review` computes the filter that is given in `Rollback`; `Reversal` is the part of the same
command that `Rollback` leaves out, and of the same `run` that `Run` leaves out; the requests of `Hooks` are those of a
client of `Registry`. `Leftovers` shares only the archive.

Abstract specifications: `Coverage`, which `MutationCapture` and, through it, `Capture` are shown to implement. The captured
journal as the set of changes made by a launch is stated as an invariant (`NothingLost`) and not as a specification.

Order: `Rollback` first, because a mistake there destroys user data; then
`Capture`, where most of the concurrency is; then `Registry`, whose state is
shared by all commands (several apps on one executable, track and restart of the
daemon, the client of `untrack --rollback`); then `Run`, which decides what a rollback of an
install can know; then `Reversal`, what an install does beside files; then the review, the hooks and the
leftover scan. All of these are written.

Every safety and action property that a passing run checks is also a theorem; liveness is left to TLC. Left of
the plan: the captured journal as an abstract specification.

### Rollback: state and actions

`disk` maps each path to a content: a regular file, a symlink, a directory,
`Absent`, or `Torn`, a file whose writer died half way. `orig` is the disk when the
command started, which is what fingerprints and blobs describe (`Prior`,
`Blob`: only for a `run`, only for scanned files, a blob only for small regular
ones; a symlink's fingerprint has no hash). `journal` is the table of mutations. `archive`
gives each path its copied content, its sidecar and its row, because they are written in
three operations. The remaining variables are the engine's own: the operation it will
perform next (`pc`), the command line (`inv`), the mutation in hand (`next`), the
decision for it (`plan`), the report.

The three handlers of `rollback/mod.rs` first look at the path and then perform at most
an archiving and one more operation. `CreatedPlan`, `ModifiedPlan` and `DeletedPlan` are
their decision tables; `Analyse` takes a decision, and each operation after it is an
action: `ArchiveCopy`, `ArchiveMeta`, `ArchiveRow`, then one of `Unlink`,
`RemoveDir`, `RestoreBlob`, `ActNothing`. `OpFails` is the failure of any of these:
what it leaves torn, and whether the handler reports or swallows it
(`ResultOfFailure`). `Crash` kills the process anywhere. `RecoverEntry` restores one row of the
archive, or passes over it with a warning: for a directory that stands in its place, or because
`symlink()` or `fs::copy` failed, which leaves the path as it was, without the link that had stood there, or torn (`CutShort`).
`UserEdit` is the user, at any time after the command has exited, also on the file
the engine is handling.

Three ghost variables serve the properties: `taken[p]` is what the engine last took
off path p, with the circumstances that decide whether it had promised to archive it;
`quiet` and `steady` say that nobody else wrote since the engine started,
respectively to the path in hand since the engine looked at it.

The command's changes and their journal entries are one step here: losses on the
way to the journal belong to `Run`, those of a tracked app to `Capture`. Names, sizes, owners, modes and
times are not modelled; a comparison by mtime may give either answer.

### MutationCapture and Capture: state and actions

`MutationCapture` has the two fields of `Inner` (`refcounts`, with 0 for a missing entry,
and `group`), the `marks` of the group's descriptor, and for each launch the
`stage` it is at. `start` and `stop` hold one lock, so each is one step; which step says how it
ended: `Start`, `Refuse` (an early `?`, nothing counted), `MarkFails` (counted, not marked),
`Stop`, `DisarmFails`, `StopFails` (an early return, nothing released).

In `Capture` a launch is named by the pid it was claimed for, so that `Launch` is also the
set of processes; `Ancestors` fixes the process tree, `Runs` the tracked apps that a
process's exec matches, in order.

| code | actions |
|---|---|
| the processes and the kernel | `Run`, `Write` (queued if the file system is marked), `Exit` |
| `ExecWatch::run` | `Claim`, `IgnoreExec` |
| `spawn_launch`, `watch_process_tree` | `StartLaunch`, `Poll`, `AllDead`, `Prune`, `StopLaunch` |
| its collector task | `Collect` |
| `run_shared` | `ReadEvent`, `Retry`, `Expire`, `Send` |
| the journal task | `JournalTask` |
| `handle_request`, Untrack | `Untrack`, `SendFlush`, `Reply` |

`owner` is `active_launches`, `pids` a launch's `launch_pids`, `known` the set of its poll, `found` the channel
from the poll to the collector. A batch of events is read one by one, which
includes every order in which the code's tasks can see the map between two events. Untrack
requests are served one at a time because the connection's lock is held
across the flush. `StopLaunch`, when the group goes, discards the queue, the batch at hand and
the buffered events, as the abort and the closed descriptor do.

Three ghosts serve the properties. `owed` are the changes that a process made in its launch's home while a launch whose
`start` had succeeded owned it, and those that were waiting, in the queue or in the buffer of unattributed events, when it came
to be owned (`Owe`, a conjunct of `StartLaunch` and `Collect`). `due` are those of an app's finished launches when it is
untracked. `late` is what the code gives up by the clock: `Prune` comes 250 ms after the last process, whatever the loop has
reached, and what is then in the queue, in hand or in the buffer of that launch is late, as is what `Expire` drops from the
buffer after 500 ms. Nothing in the model hurries the loop, so both may happen at any time; with the channel full
they do in the code too. `NothingLost` and `UntrackSeesFinished` speak of what is owed and not late.

`owed` leaves out what a process does that descends from launches of several users. When a tracked
app starts another as a different user (`sudo`, setuid), the collector of the outer launch may take over a pid that the inner
launch has claimed (`Collect` overwrites the entry, as the code does), and the inner one's events are then compared with the outer
one's home and dropped. `ProcessAssumption` admits such a tree, `Captured` promises nothing of it, and the instance of `capture`
has none. All other properties hold of it as well.

The kernel reports the files that one exec opens in the order in which it opens them, the script before its interpreter, and
reports only those that are marked at that moment (`InOrder(Marked(p))`); `FirstMatchClaims` rests on the former.

### Registry: state and actions

`tx` and `last` are the transactions table, `row` the table of tracked apps. `view` is
the latter as of the last checkpoint, which is all that a client sees that opens the
database with `immutable=1`. `serving` is the request that holds the connection's lock:
`handle_connection` takes it for a whole request, so requests exclude each other, but
each SQL statement is a step of its own, since the daemon may be killed between two of them
(`track_app` and `untrack_app` use no transaction) and other processes write to the
same database. `watch` and `marks` are `ExecWatch`'s map and the marks in the kernel. `client`
says where each command is.

| code | actions |
|---|---|
| `send_request`, `handle_connection` | `Ask`, `Accept`; `Answer` is part of each last step |
| `handle_request`, Track; `track_app` | `TrackRefused`, or `TrackCreate`, `TrackOpen`, `TrackRow`, `TrackCheckpoint`, `TrackWatch` |
| `handle_request`, Untrack; `untrack_app` | `UntrackRefused`, or `UntrackClose`, `UntrackRetire`, `UntrackUnwatch`, `UntrackReply` |
| the checkpoints of `run_daemon` and of SQLite | `Checkpoint` |
| `untrack --rollback` once it is answered | `Load`, `Execute`, `Finish` |
| `rollback <txid>` | `Rollback`, `Execute`, `Finish` |
| `load_from_db` at start | `StartDaemon` |
| kills | `KillClient`, `KillDaemon` |

What a name resolves to is a choice in `Resolutions`, made anew by each `track`. Tracking
a tracked app is permitted, as in the code: its old bucket is left in state tracking. Of two
apps that share an executable the later has the entry, and after a restart either. A
failing `fanotify_mark` leaves any subset of an app's executables without a mark, or with one
that should have gone (`MayFail`).

The checkpoint within a request is PASSIVE. It waits for no reader and no other
checkpoint, and so may come to nothing while a rollback is under way, whose connection
is the only other one the model has (`Passive`). `Checkpoint` may catch up at any time.

Three ghosts serve the properties: `told` is an app's row when a request about it was
last answered Ok, `heldUp` the apps whose checkpoint came to nothing and has not been caught
up with, `closings` how often a bucket's closing was confirmed to a client.

### Run: state and actions

Changes are numbered in the order they are made; `change` keeps them, as history. An event has the number of the first change
it reports, so a queue is simply the set of events at one `stage`, and its head the one with the least number: `queue` is the
kernel's, `hand` is what `read_events` returned, `channel` the mutation channel, `done` the journal; `skipped` is an event
whose path was not found, `failed` one whose insert failed, `dropped` the loss of the rest. `pc` is the next thing
`handle_run` does, and `monitor` and `recorder` are the tasks beside it.

| code | actions |
|---|---|
| the command and its children | `ChildExits`; each change is `Unseen`, `Queued` or `Merged` |
| `FanotifyMonitor::run`, inotify's thread | `Mark` and `OpenRoot` (fanotify), `Read`, `Send`, `Skip` |
| the journal task | `StartRecorder`, `Record`, `RecorderEnds` |
| `handle_run` | `Create`, `StartFanotify` or `StartInotify`, `Launch`, `StartRecorder`, `Wait`, `Drained`, `Finalize`, `Exit`; `GiveUp` is any early return |
| kills | `Kill` |

`start_enhanced_monitor` spawns the task that sets the marks, and returns: `Mark` interleaves with `Launch` and with the
command, in any order of the paths, since several of them may be on one file system. `start_watching` sets inotify's watches
before it returns (`StartInotify`), those that succeed. An event is merged into another on the same path, still queued, or
not, as the kernel decides; this is fanotify's doing, whose `MaskToOperation` then keeps one operation of several, while
inotify's events come one by one. A change is `Unseen` if nothing watches its file system or the kernel's queue is full.
`Send` waits for room in the channel, and its result is ignored. fanotify reports a handle of the directory, which the
monitor opens with a descriptor of `/`: on another file system it does not resolve (`CanResolve`), and on that of `/` it does
as long as the directory is there (`MustResolve`; `Stays` are the paths whose directory is). What does not is skipped
(`Skip`). `Record` may fail, which is logged, and the next event is the next. The journal task may fail to open the database
and so drop the receiver. `Drained` may happen at any time: the monitor keeps its sender, so that as a rule only the timeout
of two seconds ends the drain. An early return leaves the transaction running and the command going.

### Reversal: state and actions

Four actors. The command changes accounts and calls `systemctl`; pkgundo is first `run` and then, when that has ended or was
killed, any number of rollbacks (`pc` says what it does next, `idle` is between commands); the package manager's
removal is one step; other administrators act at any time. `line` is `/etc/passwd` and `/etc/group`, each name with
the rest of its line; `unit` what is enabled and active; `call` what the cmdline of a process says. `pre` is the snapshot before
the command, or none; `userEvents` is a set because `First` gives the order in which it was written and is read.

| code | actions |
|---|---|
| the command | `ChangeAccount`, `Systemctl`, `CommandEnds` |
| other administrators | `OtherAccount`, `OtherUnit` |
| `handle_run` around the command | `Snapshot`, `Compare` (`diff_snapshots`), `RecordEvent`, `RecordFails`, `Recorded`, `Finalize` |
| `detect_service_changes_from_pids`, `record_service_event` | `Detect` |
| `rollback_transaction`, its start and steps C to E | `Begin`, `Remove` |
| `rollback_service_events` | `Reverse`, `ServicesUnread`, `ServicesDone` |
| `rollback_user_events` | `ReverseUser` |
| the last update of the status | `Finish` |
| kills, and errors passed on | `Kill` |

`Detect` has three outcomes: the process is gone (its call is not recorded), it is there, or its pid
was used again and any call may be recorded. `Deletions` is what `userdel` and `groupdel` do and refuse: a group which is the
primary one of a user that exists stays, and a user's own group goes with the user. `Remove` may
delete one account and switch units off, as removal scripts do. `before` and
`after` are ghosts, as is `excused`: the names whose events were lost, whose reversal failed or which others
changed; `Remove` clears it of units, as step F then sets them anew.

### Review: state and actions

A path is the sequence of its names. `KeyOf`, `TagOf` and `GroupsOf` are `group_key_for_path`,
`tag_for_home_relative` and `group_mutations` over such sequences, for any function that
lowers a name's case and any that strips its dots. `journal` is what the daemon has recorded, `view` the same as of
the last checkpoint. The client lists the groups of `view`, for it opens the database with `immutable=1`; the
engine loads `journal`. `asked` is a ghost: the groups that the user named for removal, with r or with a.

| code | actions |
|---|---|
| launches that go on after untrack | `Record`, `AppEnds` |
| the daemon | `Untrack` (with its PASSIVE checkpoint), `Checkpoint` |
| `handle_untrack`, `group_mutations` | `List` |
| `review_groups` | `Accept`, `Remove`, `Keep`, `RemoveAllRemaining`, `KeepAllRemaining`, `InputEnds` |
| the engine | `Load`, `Process` (`mutation_passes_group_filter`), `Finish` |
| kills and errors | `Stop` |

### Hooks: state and actions

One transaction at a time, of any package manager found: the package manager holds its lock from the first hook to the last.
`status` knows unpacked packages (`half`), which dpkg-query lists differently from installed ones. `snapshot` is
apt's file, `NoFile` or a set of packages; `due` the hooks to be run, with what each is given, `toTrack` what the running one has
yet to check, `request` what the daemon was asked. The rest are ghosts. Of a transaction: `asked` are the packages that the daemon
was sent a request for, `skipped` those that were passed over on purpose (tracked already by what the hook had opened, or no
daemon there), `lookedUp` those looked up for a reminder, `failed` that a step of a hook failed. Of apt's snapshot: packages
have changed without it (`stale`), it is what a failed write has left (`spoilt`), this transaction was compared with that
(`misled`). `settled` are the packages that a Post-Invoke has been through with and no package manager has touched since.

| code | actions |
|---|---|
| `handle_install_hook` | `InstallHook`, `RemoveHook`: each up to any file at which it fails |
| dpkg, and package managers | `Configure`, `Break`, `Take`, `Begin`, `Commit`, `End`, `Stop` |
| `run_apt_hook_pre` | `PreList`, `PreWrite` |
| `run_apt_hook_post` | `PostDiff`, `PostGivesUp`, `PostPrime` |
| `find_tracked_removed` and its callers | `Remind` |
| `auto_track_new_installs` and its callers | `StartTrack`, `Check` |
| the daemon, and users of `track` and `untrack` | `Answer`, `Crash`, `Restart`, `Checkpoint`, `UserTrack`, `UserUntrack` |

### Leftovers: state and actions

`home` gives each path of a home a file's content, a directory, a symlink or nothing. `app` is what was asked for and what a package
manager tells about it (`derive_signals` over that); `Confidence` and `Candidates` are `classify` and
`scan_with_home`. `owed` and `passed` are the walk's: the candidate's files it will come to and those it has passed. A
directory walk gives no promise about a file that appears or is rewritten behind it, nor does the model:
such files are `late`, a ghost. A link is a leaf, which the walk passes and the removal removes; a candidate that is itself a
link is archived if it leads to a file, and taken for a directory if it leads to one (`Walked`).

| code | actions |
|---|---|
| the owner of the home and their programs | `Put` |
| `scan_leftovers` | `Scan` |
| `handle_scan_leftovers` | `Agree`, `Decline`, `Quit` |
| `archive_and_remove` | `Archive`, `PassOver` (an unreadable directory), `StartRemoving`, `RemoveEntry`, `Removed`, `GiveUp` |

## 3. What the runs check

`rollback`: an install with a baseline and a package, in three modes and as a dry run, over a config (small, too large for a
blob, or a symlink), a program and the home; and a tracked app's bucket, whose paths are all in the home and have no baseline: a
full cleanup, one filtered by review and a plain rollback. All of it in any order with `recover`.

| property | says |
|---|---|
| `TypeOK` | types |
| `TakenIsRecoverable` | what the engine undertook to archive and took off a path is in the archive, complete (copy, sidecar and row agree), for as long as nobody writes there |
| `RecoverReturnsTaken` | an entry that `recover` visits and does not fail on leaves exactly that at the path, file or symlink; one it fails on is still owed, and so still whole in the archive |
| `ReportedOrGone` | when the transaction becomes RolledBack, never to be run again, each file it created is gone, was reported as failed, or was written by somebody meanwhile |
| `ArchivedReportIsBacked` | "Archived" in an undisturbed report means a row exists |
| `RemovalsAreLicensed` | the engine removes a path only for a journalled creation, write or rename to it whose category and group permit it |
| `DryRunChangesNothing` | a dry run has no effect, killed or not |

`RemovalsAreLicensed` is about removals because of what the engine writes less can be said: a restored blob goes through whatever
symlink stands at its path, into the user's files if it leads there, which is the violation that `never_touch` shows.

`recover` says that it has succeeded although entries failed. What such an entry leaves, a path without its link or a torn file,
is no copy of anything; `RecoverReturnsTaken` holds `recover` to leaving the archive alone then, so that the next one can do better.

The exception in `TakenIsRecoverable` is real: in an install's rollback a restore that was cut
short leaves a torn config, which a second rollback archives over the good copy. In a
`$HOME` cleanup nothing is restored and there is no exception.

`capture`: a tracked app that starts another, both writing in their user's home and in another, both apps untracked at any moment,
with one failing call of `MutationCapture`.

| property | says |
|---|---|
| `CaptureStateOK` | types |
| `AttributionSound` | a recorded change was made by the launched process or a descendant, in its user's home, and under the txid of that launch |
| `FirstMatchClaims` | script and interpreter both tracked: the claim is the first match's |
| `NoStaleOwner` | an owned pid belongs to a launch that goes on and will forget it |
| `NothingLost` | a captured change that is not late is in the queue, in hand, in the buffer, in the channel or in the journal, whatever other launches do |
| `UntrackSeesFinished` | the reply to untrack comes after everything its finished launches changed, and that was not late, has been written |
| `CoverageHolds` | `MutationCapture` implements `Coverage` |
| `IdlePaysNothing` | no launch in progress, no group and no mark |
| `RequestsAnswered` | untrack is answered though the channel is bounded and the loop may be aborted |
| `CaptureEnds` | all processes gone, the group goes |

`FirstMatchClaims` speaks of the claim only: the collector of an outer launch may later take over the pid that a tracked
app it started has claimed. A failing `start` can leave other launches uncovered (its
`stop` releases a reference it never took; a failed mark is not retried), which is why
`Coverage` ends its promise with the first fault and `NothingLost` excludes faults. `UntrackSeesFinished` is about launches that
have ended: the barrier enters the channel behind what was sent, and the last change of
a process that has just exited may still be in the kernel's queue.

`registry`: two clients and two apps that share an executable and may own one more.

| property | says |
|---|---|
| `RegistryOrder` | no tracked row without its bucket and no open bucket behind an untracked row, wherever the daemon is killed and whoever else writes the status |
| `WatchedIsTracked` | between requests, what is watched belongs to a tracked app and has its mark: what is untracked is not captured |
| `TrackedIsWatched` | between requests and until a mark fails, an executable only one app resolves to is marked for that app's present bucket |
| `ReplyIsVisible` | an answer Ok comes after its rows can be read, unless a checkpoint was held up |
| `ClosedOnce` | of the clients that race to untrack an app, one is told it did, for each period of tracking |

`run`: a command that rewrites a config or renames a new one over it, creates a log on a file system of its own, and creates
and may delete a program, whose directory may go with it, under either monitor.

| property | says |
|---|---|
| `NoGaps` | what the journal lacks of the changes reported is their end and never their middle, however the drain or the process is cut short, but for changes that were skipped or whose insert failed, each by itself |
| `CreationsKept` | in what is journalled no creation is hidden by what its event was merged with |
| `RunEnds` | when the command has ended, the run ends, whatever its monitor and its journal do |

`NoGaps` is about what the kernel reported, which is not everything. Three losses are in the model (`Unseen`) and violate no
sentence of their own: a kernel queue that overflows, marks that fail, and whatever the command does before the task that
sets the marks, merely spawned when the command is launched, has run. Two more are exceptions of the property: a handle that
does not resolve, as none does on a file system other than that of `/`, and an insert that fails. `CreationsKept` is about
creat(2) and mkdir(2): a file that is renamed into place and written again before the monitor reads the event is recorded as
modified, since `mask_to_operation` asks for `FAN_CLOSE_WRITE` first.

`reversal`: a user and its group, a service, two processes of the command; the accounts may be there
before.

| property | says |
|---|---|
| `StableKept` | an account that had the same line before and after the command is never deleted by step F, except a group that goes with its user |
| `AddedAreGone` | a clean rollback that completes leaves no account the command added, in spite of kills of `run` and of earlier rollbacks, unless it is excused |
| `ServicesRestored` | if the first event of a unit has an inverse and assumes the state the unit was in, a completed rollback leaves it in that state, whatever was recorded after and whatever the package's removal did |

The premise of `ServicesRestored` is needed: the state before an action is assumed and not looked up, so that a service which was
enabled already and is enabled once more by the install is disabled. Nor has `restart` an inverse.

`review`: a cache, the data of two apps below `~/.local/share`, the state of a program run by root, and a file under no
home; the app may write any of them before, during and after the review.

| property | says |
|---|---|
| `ReviewedOnly` | if anything was shown, the engine processes below a home only what is in a group that was shown and selected |
| `DefaultsSpareData` | who accepts the suggestions, or has no input to give, loses no data |
| `SelectionDone` | when the transaction is RolledBack, all that was shown in selected groups has been processed |

The condition "if anything was shown" is needed: with no group to show, the engine is given no filter at all, and a mutation
recorded between the listing and the loading is processed though nobody was asked.

`hooks`: a package the user asked for and its dependency, on a machine with all three package managers.

| property | says |
|---|---|
| `TypeOK` | types |
| `InstallIsTracked` | when the last hook is through and none has failed, the daemon has been asked to track whatever the transaction has installed and the user asked for, except what was tracked already and what came when no daemon was there; also when Pre-Invoke came to nothing or a snapshot was torn |
| `NotAskedAgain` | what one Post-Invoke has been through with is not asked for by another until a package manager has done something about it: what a user untracks stays untracked |
| `RemovalIsReminded` | when the last hook is through and none has failed, whatever the transaction has removed has been looked up for a reminder |
| `HooksEnd` | no hook keeps its package manager waiting for ever, though the daemon dies under a request |

`NotAskedAgain` has an exception that is real: the transaction that is compared with a torn snapshot (`misled`) asks for everything
that the snapshot has lost, so that what a user had untracked is tracked again, once. `RemovalIsReminded` excepts it too, for what
the snapshot has lost cannot be seen to go. To dnf5 an upgrade is something done, and its hook asks again for what it upgrades.

`leftovers`: a home with one candidate within another, a note beside it and `.ssh`; an app with a short program name which is
part of `.config`, one that is called like `.ssh`.

| property | says |
|---|---|
| `SeenIsArchivedFirst` | a file that the walk could see is in the archive as it is when it is removed, whatever the owner writes meanwhile |
| `FloorHolds` | nothing in a directory of `NEVER_TOUCH` is removed from a home, whatever the app is called and however its name matches |

Four runs end in a violation, each of a sentence of the repository (quoted under "findings"):

* `original_restored`: a config replaced by a rename (the way dpkg writes
  conffiles) is removed, not restored;
* `never_touch`: a blob restored at a path where the install has left a symlink overwrites the user's file it leads to;
* `accounts_kept`: a user whose line the install changes is recorded as added, and a clean rollback deletes that user;
* `leftovers_archived`: scan-leftovers removes links, files in directories it cannot read and files written behind its walk
  without a copy.

Bounds. For `Rollback`, `MaxEvents = 2` lets one path be recorded twice and two paths once (the engine's handlers interact
only through a path, its archive slot and a symlink from one path to another, for which see `ReportedOrGone` below);
`MaxEdits`, `MaxCrashes` and `MaxFaults` of 1 put one edit, one kill and one error at every point; the number of invocations
is not bounded, so a kill is followed by a rerun and by `recover` in every order. The proofs have none of these bounds. Two
file contents tell an edited file from its original. A symlink's target is never itself a symlink (`Placeable`).

For `Capture`: a parent and its child, each with a launch of its own, two buckets and two homes are the least at which they can be
mistaken for each other; `PendingMax` and `ChannelSize` are 1, so that both fill; one write (of either process, in either home) is
at every point of every launch's life, since the properties speak of single changes, and `MaxFaults` is 1. The homes are on one file
system: with a second one and a third process there are too many states for a run that includes liveness and faults, and
what several file systems may do to the counters is what `CountersImplementCoverage` and `DaemonCovers` are proved for.

For `Registry`: two clients, interchangeable (hence the symmetry, under which only
invariants are checked), are the least that race; one app may resolve to its own executable and
the shared one, the other to the shared one; `MaxTx = 2` lets an app be tracked twice or both once;
`MaxKills` and `MaxFaults` of 1 put one kill and one failing mark at every point. Requests and
rollbacks are not bounded. All five properties are proved without these bounds.

For `Run`: `MaxChanges = 3` allows a merged event before or behind another; `QueueMax = 2` is the
least at which an event can be merged or overtaken in the kernel's queue, which three changes overflow;
`ChannelSize = 1` fills. The file system of `/` and another one are marked before, while or after the command works, or never.
The two safety properties are proved without bounds and for any number of file systems.

For `Reversal`: one budget of 3 counts the acts of the command and of others, kills, failing tools and database errors, which
is the least at which an account that was added and recorded can meet a kill and a stranger, or a unit be called twice
by two processes and then fail; rollbacks are not counted. `accounts_kept` needs one act, and has 2. For `Review`: three changes put
one into a group before the listing, one after, and leave one for a group of its own or for a checkpoint that is held up;
the five paths have every tag that counts, both depths of a key and a path without one. For `Hooks`: two transactions are
the least at which a snapshot is reused; two changes, an install in each; three commands install the hooks and let a user track
and untrack; one fault or kill is put at every point. For `Leftovers`: three writes or failures; two
candidates within each other are the least that archive a path twice. The safety properties of
all of these, and of `Capture`, are proved without these bounds.

Fairness. In `Capture` each task of the runtime is scheduled again and again (exec loop, reading loop, journal task, the
request in progress, and each launch); processes, users and the expiry of buffered events are not. In `Run` only the thread
that executes `handle_run` is assumed to go on (`WF_vars(HandleRun)`): `RunEnds` must not depend on the monitor, the journal
task or the command's children. In `Hooks`, hooks are processes that the package manager waits for and the operating system
schedules (`WF_vars(HookStep)`), and a daemon that lives answers the request it has accepted (`WF_vars(Answer)`; the
connection is served by a task of its own); nothing is assumed of restarts, users or the package managers. `Rollback`,
`Registry`, `Reversal`, `Review` and `Leftovers` have no liveness property: the engine's loop ends because its list does.
Deadlock checking is off since a system whose bounds are used up stops.

## 4. What is proved

`RollbackProofs` proves for all values of the constants that satisfy the two assumptions of
`Rollback`:

* `TypeCorrect`: `Spec => []TypeOK`;
* `ArchiveBeforeRemove`: `Spec => []TakenIsRecoverable`;
* `ReportsAreBacked`: `Spec => []ArchivedReportIsBacked`;
* `RecoveryReturns`, `OnlyLicensedRemovals`, `DryRunsAreDry`: `Spec => P` for `RecoverReturnsTaken`, `RemovalsAreLicensed`,
  `DryRunChangesNothing`, which are action properties;
* `CleanupReports`: `Spec => ReportedOrGone` if every transaction is a tracked app's (`Origins \subseteq {"tracking"}`).

`TakenIsRecoverable` is not inductive: nothing in it says why the archive is complete when `Unlink` happens.
`IInv` adds, by name: `QuietWhileLive` (no engine while the command runs),
`HomeJournal` and `HomeCleanup` (a cleanup belongs to a tracked bucket, which has no
baseline), `Vacated` (a path from which something was taken holds nothing, the blob,
or debris), `PlanFits` (the plan in hand is the decision for what is on disk, while the path is steady) and
`ArchiveProgress` (at each step of archive_file, what has been written agrees with what is on
disk). Each action has a lemma; those that archive share `ArchivingFrame`, those that end a
mutation share `TakeIInv`, those that leave the engine alone share `FrameIInv`.
TLC checked `IInv` as an invariant of the instance of `rollback` before it was proved.

`RecoveryReturns` follows from `IInv`: by `Vacated` no symlink stands where something was taken, so what recover writes lands at
the path itself, and an entry that fails takes nothing off the list of what is owed, of which `ArchiveBeforeRemove` then says that
the archive still has it. The other three need what a handler carries from the step that decides to the step that
acts, `HandlerInv`: `Licensed` says that a handler which archives or removes anything belongs to a real run and to
a mutation that is permitted; `PlanSays` that one which will report Archived does archive; `Held` that rows to be visited
are recover's, that a report is a rollback's, and that in a quiet run the path is still what the decision saw.
Journal, categories and filter stay as they are under way, so that it is enough to look at
the decision (`DecisionLicensed`, `DecisionSays`) and at who goes on with it (`HandlingSteps`).

`CleanupReports` needs `CleanupInv`: what the engine has passed in the journal is gone or reported as failed. It rests on a
tracked bucket having no blobs, so that nothing is written back. For an install the property does not hold: let the
command create `p`, delete a config and put a symlink to `p` in the config's place. The rollback removes `p`; the config's
`delete` is then restored through the symlink, which writes the blob to `p` again, and nothing says so
(blob_store/mod.rs:85; TLC finds it with three journal entries and the symlink's target among the created paths, which is
more than `rollback` has: its links lead to the home, which no install has created a file in that it may remove). So the theorem is
about tracked apps; of installs the run checks `ReportedOrGone` at its small bounds, where no link leads to a created path.

`CaptureProofs` proves, for any processes and process trees, apps, homes, file systems, sizes of the channel and the
buffer, writes and faults, from `CaptureAssumption` and `ProcessAssumption`:

* `CountersImplementCoverage`: `CaptureSpec => CoverageHolds`, a refinement;
* `IdleIsFree`: `CaptureSpec => []IdlePaysNothing`;
* `DaemonCovers`, `DaemonIdles`: the same of the daemon's `Spec`, because each of its steps is a step of
  `MutationCapture` or leaves it alone;
* `OwnersAreLive`, `CaptureStates`, `FirstMatches`, `AttributionHolds`, `NothingIsLost`, `UntrackSees`: `Spec => []P` for
  `NoStaleOwner`, `CaptureStateOK`, `FirstMatchClaims`, `AttributionSound`, `NothingLost`, `UntrackSeesFinished`.

The refinement needs `CountExact`: until a call fails, `refcounts[f]` is the cardinality of the set of launches
held on f, and the marks are the file systems with a positive count; the cardinality lemmas `OnAdds`, `OnRemoves` and
`OnKeeps` say what one launch's step does to it. `IdleIsFree` holds under faults,
where only an upper bound is left (`CountBounded`), together with `GroupUsed`. `NoStaleOwner` needs that a
collector with work to do belongs to a launch that is watching (`CollectorLives`: the abort
comes before the removal), that what it registered is known to the poll and so dead when the launch ends
(`RegisteredKnown`), and hence that a process which has claimed a launch has an owner until it exits
(`ClaimedOwned`): exec_watch.rs tests the pid map alone before it inserts.

The other five rest on one another. `StateInv` joins the above with what relates the tasks to the
processes: `Claims` (a launch has the bucket of an app that its exec matches, and what its phase says of its
reference on the group), `Descent` (what a launch owns descends from it) and `ExecsMatch`. `FirstMatchClaims` is not inductive,
for it says nothing of what is still to be claimed: `AnnouncedInOrder` adds that every tracked match of a running
process that has no owner yet has its event ahead of those of later matches, so that none of them can claim first.
`AttributionSound` is `RecordsSound`, the same of every record from the batch to the journal (`Sound`).

`NothingLost` needs `DeliverInv`. The danger is in the middle: that a change is read when its process has no owner any more,
or is discarded with the group. `StillOwned` says that as long as a change that is owed and not late (`Kept`) waits in the
queue, in hand or in the buffer, its process has an owner whose launch holds a reference, so that it is attributed when its
turn comes; `PrunedIsLate` that whatever a launch which has been removed from the map has left to come is late, which is what
`Prune` makes of it; `WrittenOnce` that a change is made before it is read; `AtHome` that whichever launch of its ancestors takes the
process over, the change is in its home. `StopLaunch` then discards nothing that is owed: by `CountExact` the group goes only
when no launch holds it.

`UntrackSeesFinished` follows from `NothingLost` by `FlushInv`: there is one barrier in the channel, and only while a request
is being flushed (`OneBarrier`); what is due is in the channel or the journal when the request is made, before the barrier
when that has been sent, and in the journal once it has come through (`DueIsAhead`). TLC checked the five invariants on the
instance of `capture` first.

`RegistryProofs` proves, for any number of apps, executables, clients, transactions, kills and
failing marks, from `RegistryAssumption` alone:

* `RegistryTypes`, `RegistryOrdered`, `UntrackedIsUnwatched`, `RepliesVisible`,
  `ClosedAtMostOnce`: `Spec => []P` for `TypeOK`, `RegistryOrder`, `WatchedIsTracked`, `ReplyIsVisible`,
  `ClosedOnce`;
* `TrackedAreWatched`: `Spec => []TrackedIsWatched`.

The first five share an invariant, `RegistryInv`. `TxidsExist` and `BucketsDiffer` say that txids
only grow and no two apps have the same bucket, without which closing one app's bucket could
close another's. `AppsNamed` ties the request being served to the client that waits for it. `Progress` says
what each step of a request has established, which is where the order of the statements enters.
`WatchSound` extends `WatchedIsTracked` to the middle of an untrack; `ViewBetween` says that the
view is no newer than the database, nor older than an answer; `ClosedRetired` that a
bucket whose closing was confirmed is never again a tracked row's. `TrackedAreWatched` needs more
about the middle of a request: `ArmedInv`, that rows hold only resolutions of their app (`Resolved`), and
that an app is armed unless the request in progress is about to arm or retire it (`TrackedArmed`).

`RunProofs` proves, for any paths, file systems, sizes of the queues and number of changes, from `RunAssumption`:

* `RunTypes`, `NoGapsAlways`, `CreationsKeptAlways`: `Spec => []P` for `TypeOK`, `NoGaps`, `CreationsKept`.

Their invariant is `RunInv`. `Numbering` ties each change to its event, which has the same path and includes the
operation; `Ordered` says that no event overtakes an earlier one, which is why what is recorded is, but for what was left out, a
prefix; `Lost` that events are dropped only where nothing comes through any more (the journal task has gone, or the
monitor has and left nothing behind), without which a drop in the middle would be followed by a record, while what was skipped or
refused may lie anywhere; `NotYet` that this cannot have happened before the tasks are started; `Recorded` that the journal is what
the events that are done say. `NoGaps` and `CreationsKept` follow by `RecordedBefore`. TLC checked `RunInv` on the
instance of `run` first.

`ReversalProofs` proves, for any users, groups, services, processes, acts, kills and faults, from `ReversalAssumption`:

* `TypeCorrect`: `Spec => []TypeOK`;
* `StableIsKept`, `AddedGone`, `ServicesAreRestored`: `Spec => P` for `StableKept`, `AddedAreGone`, `ServicesRestored`,
  which are action properties.

`StableKept` needs `EventsSound`: what was recorded was found by the comparison, and only a willing rollback has anything
to reverse. `AddedAreGone` needs `AddedInv`: what the command added is in the table or excused
(`AddedKnown`), and in step F it is still to be reversed, or gone, or a group held up by its user (`AddedReversed`); that
the order users before groups suffices enters there, through `Deletions` and the fact that every user's
primary group exists (`Snapshots`). `ServicesRestored` needs `ServicesBack`: a unit whose earliest event is behind the
cursor is in the state that event assumed, since events are reversed from the last to the first.

`ReviewProofs` proves, for any paths and names and any number of changes, `TypeCorrect`, and `OnlyReviewed`, `DefaultsSpare` and
`SelectionIsDone` for the three properties of `review`. Its invariant is `ReviewInv`: `BeforeEngine` and
`FilterIsSelection` say that the engine's filter is what was selected, if anything was shown;
`SelectedIsMeant` that a selected group was suggested or named; `SelectionAhead` that what is to be processed
has been or is loaded, which rests on what is shown being part of what is loaded later.

`LeftoversProofs` proves, for any home, any app and metadata and any number of writes, `TypeCorrect`, `SeenAreArchivedFirst`
and `FloorIsKept`. The invariant is `LeftoversInv`: `Covered` says that a file of the candidate is ahead of the
walk, archived as it is, or late, and that none is ahead once the removal starts; `CandidatesSpared` that no
candidate is in a directory of the floor, because such a directory is directly below the home, where a candidate is
its own first name, or the first name is `.config`, `.local` or `.cache`.

`HooksProofs` proves, for any packages, any set of package managers, any budgets and faults, from `HooksAssumption`,
`TypesHold`, and `InstallsAreTracked`, `NeverAskedAgain` and `RemovalsAreReminded` for `InstallIsTracked`, `NotAskedAgain`
and `RemovalIsReminded`. Its invariant is `HooksInv`. `SnapshotFits` says what apt's file holds in every phase of a
transaction as long as nobody has interfered: what was installed before it until a Post-Invoke has written it anew, and what
is installed otherwise; that the latter serves as the former when Pre-Invoke comes to nothing is the point of the last
Post-Invoke's writing. After a failed write it holds a part of that, which is why a torn snapshot can make a hook ask again
and not forget to ask. `ListsAreTrue` is that dpkg waits while its hooks run. `NothingForgotten`, `NothingRepeated` and
`NothingUnnoticed` are the three properties with what is still to be tracked (`ToBeTracked`) or looked up beside what has
been. TLC checked `HooksInv` on the instance of `hooks` first.

Left to TLC are the liveness properties `RequestsAnswered`, `CaptureEnds`, `RunEnds` and `HooksEnd`, because liveness
under fairness is not within the prover's reach; `ReportedOrGone` for installs, of which it does not hold in general; and the
four violations. `ENABLED`, induction over data and RECURSIVE operators are not within its reach either; the
modules that are proved about use none of the last two.

## 5. Not modelled

* Two pkgundo processes rolling back the same transaction at once (nothing in the code excludes it).
* A plain rollback while the command is still running: `Begin` requires that it has ended.
* Step G of the engine, which looks for broken links and changes nothing, and the tidying of empty parent directories.
* Database errors, other than as the failure of an archiving.
* Owners, modes and timestamps.
* In `Capture`: threads (an event's pid is its process), the operations of events, a home that cannot be opened, a second
  exec of a process, pids reused while a launch goes on, a journal task that could not open the database, track requests and a
  restart of the daemon (these two are in `Registry`).
* In `Registry`: a daemon without fanotify (`exec_watch` is None), which captures nothing; the contents of the
  buckets and their review; the statuses Completed and Failed, which only `run` writes (`Run`); the
  hooks, which are further clients that read before they ask (`Hooks`); database errors.
* In `Run`: who makes a change (any process's changes on the file systems watched are recorded as the
  command's); excluded paths; the times of events; a rollback of the transaction while it is running; the
  filling of the tree of processes.
* In `Capture`: an overflow of the kernel's queue, which has the default limit there too.
* In `Reversal`: flags of systemctl (`enable --now` starts the unit as well and is recorded as `enable`), several units in one
  call, `reload` and `daemon-reload`; the home that `userdel --remove` deletes; the copies of the snapshots in the
  database, which nothing reads.
* In `Review`: an answer that is not understood, and `l`, which ask again; the engine's work on what passes the filter (`Rollback`).
* In `Hooks`: a machine without a database; an `install-hook` while a transaction is under way, and a hook file that is cut
  short; the texts; the parsing of what the package managers print.
* In `Leftovers`: a copy that is cut short (archive_file's three writes and their failures are `Rollback`'s); what `fs::copy`
  reads of a file that is being written; the parsing of metadata; links put into the home meanwhile; that the walk of a
  candidate which is a link to a directory also copies the files found there. A directory that cannot be read can as a rule not be
  removed by its owner either, but it can by root.
* A crash of the machine (as opposed to a kill of a process) between a write and its reaching the disk.
* The components listed as `not_modelled` in PROJECT.json, for the reasons given there.
