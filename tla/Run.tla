---------------------------------- MODULE Run ---------------------------------
(***************************************************************************)
(* `pkgundo run`: an install from its transaction to its final status      *)
(* (commands/run.rs), its monitor (fanotify, ebpf/mod.rs; or inotify,      *)
(* fs_monitor/mod.rs), and the way of an event from the kernel's queue     *)
(* through the monitor's hand and the channel into the journal.            *)
(*                                                                         *)
(* Changes are numbered in the order they are made, and an event has the   *)
(* number of the first change it reports.  A queue is the set of events at *)
(* one stage; its head is the one with the least number.                   *)
(***************************************************************************)
EXTENDS Naturals, FiniteSets

CONSTANTS
    Path,           \* paths it may change, none of them excluded
    Stays,          \* those whose directory is not removed meanwhile
    Work,           \* what it may do: pairs of a path and an operation
    Fs,             \* file systems, or watched roots
    FsOf,           \* [Path -> Fs]
    Root,           \* the file system of "/"
    QueueMax,       \* what the kernel queues before it drops events
    ChannelSize,    \* capacity of the mutation channel
    MaxChanges      \* bound: changes

Op == {"create", "modify", "delete", "rename_to", "rename_from"}
Stage == {"none", "queue", "hand", "channel", "done", "failed", "skipped", "dropped"}

ASSUME RunAssumption ==
    /\ Work \subseteq Path \X Op
    /\ FsOf \in [Path -> Fs] /\ Root \in Fs /\ Stays \subseteq Path
    /\ {QueueMax, ChannelSize, MaxChanges} \subseteq Nat /\ ChannelSize > 0

VARIABLES
    pc,         \* the next thing handle_run does
    status,     \* status of the transaction
    child,      \* the command
    kind,       \* the monitor: "fanotify" or "inotify"
    monitor,    \* what its task or thread is doing
    tried,      \* file systems watch_paths has called fanotify_mark for
    marked,     \* those where it, or inotify's watch, succeeded
    recorder,   \* the journal task
    event,      \* [Id -> what the kernel has reported]
    journal,    \* rows of the mutations table
    n, change   \* history: the changes made, and the event that reports each

main == <<pc, status, child>>
monitoring == <<kind, monitor, tried, marked>>
vars == <<main, monitoring, recorder, event, journal, n, change>>

Id == 1 .. MaxChanges
NoEvent == [path |-> "none", ops |-> {}, stage |-> "none"]
NoChange == [path |-> "none", op |-> "none", event |-> 0]

At(stage) == {e \in Id : event[e].stage = stage}
Pending == {"queue", "hand", "channel"}
InOrder(e, stage) == e \in At(stage) /\ \A f \in At(stage) : e <= f

Moved(S, stage) ==
    [e \in Id |-> IF e \in S THEN [event[e] EXCEPT !.stage = stage] ELSE event[e]]
Drop(stages) == Moved({e \in Id : event[e].stage \in stages}, "dropped")

-----------------------------------------------------------------------------
(* The command, of which children may go on after it has ended, and the    *)
(* kernel: it queues an event if the file system is marked and there is    *)
(* room, or adds to an event on that path that is still in the queue,      *)
(* which fanotify may do and inotify does not.                             *)

Watching(p) == monitor \in {"marking", "reading"} /\ FsOf[p] \in marked
Reported(p) == Watching(p) /\ Cardinality(At("queue")) < QueueMax

Make(p, o, e) ==
    /\ child # "none" /\ n < MaxChanges
    /\ n' = n + 1
    /\ change' = [change EXCEPT ![n + 1] = [path |-> p, op |-> o, event |-> e]]
    /\ UNCHANGED <<main, monitoring, recorder, journal>>

Unseen(p, o) ==
    /\ ~Reported(p)
    /\ Make(p, o, 0) /\ UNCHANGED event

Queued(p, o) ==
    /\ Reported(p)
    /\ Make(p, o, n + 1)
    /\ event' = [event EXCEPT ![n + 1] = [path |-> p, ops |-> {o}, stage |-> "queue"]]

Merged(p, o, e) ==
    /\ Reported(p) /\ kind = "fanotify" /\ e \in At("queue") /\ event[e].path = p
    /\ Make(p, o, e)
    /\ event' = [event EXCEPT ![e].ops = @ \cup {o}]

ChildExits ==
    /\ child = "running" /\ child' \in {"success", "failure"}
    /\ UNCHANGED <<pc, status, monitoring, recorder, event, journal, n, change>>

-----------------------------------------------------------------------------
(* fanotify's task: mark every watched path, a failure is logged; open the *)
(* root, or give up; read a part of the queue; send what it has in hand,   *)
(* or skip an event whose directory it finds no path for: handles are      *)
(* opened with a descriptor of "/", which is of no use on other file       *)
(* systems.  inotify's thread does the reading and the sending.            *)

Mark(f) ==
    /\ monitor = "marking" /\ f \notin tried
    /\ tried' = tried \cup {f}
    /\ marked' \in {marked, marked \cup {f}}
    /\ UNCHANGED <<main, kind, monitor, recorder, event, journal, n, change>>

OpenRoot ==
    /\ monitor = "marking" /\ tried = Fs
    /\ \/ monitor' = "reading" /\ UNCHANGED event
       \/ monitor' = "gone" /\ event' = Drop({"queue"})
    /\ UNCHANGED <<main, kind, tried, marked, recorder, journal, n, change>>

Read(upTo) ==
    /\ monitor = "reading" /\ At("hand") = {} /\ upTo \in At("queue")
    /\ kind = "inotify" => InOrder(upTo, "queue")
    /\ event' = Moved({e \in At("queue") : e <= upTo}, "hand")
    /\ UNCHANGED <<main, monitoring, recorder, journal, n, change>>

(* A send waits for room in the channel, and fails if nobody receives.     *)
Mutant_TrySend(e) ==
    event' = Moved({e}, IF recorder # "gone" /\ Cardinality(At("channel")) < ChannelSize
                        THEN "channel" ELSE "dropped")
SendWaits(e) ==
    \/ recorder = "gone" /\ event' = Moved({e}, "dropped")
    \/ /\ recorder # "gone" /\ Cardinality(At("channel")) < ChannelSize
       /\ event' = Moved({e}, "channel")

CanResolve(p) == kind = "fanotify" => FsOf[p] = Root
MustResolve(p) == kind = "fanotify" => FsOf[p] = Root /\ p \in Stays

Send(e) ==
    /\ monitor = "reading" /\ InOrder(e, "hand")
    /\ CanResolve(event[e].path) /\ SendWaits(e)
    /\ UNCHANGED <<main, monitoring, recorder, journal, n, change>>

Skip(e) ==
    /\ monitor = "reading" /\ InOrder(e, "hand")
    /\ ~MustResolve(event[e].path) /\ event' = Moved({e}, "skipped")
    /\ UNCHANGED <<main, monitoring, recorder, journal, n, change>>

(* Of the operations in a merged event, the first of these is recorded;    *)
(* inotify's renames are modifications to notify.                          *)
Mutant_DeleteFirst(ops) ==
    IF "delete" \in ops THEN "delete" ELSE IF "create" \in ops THEN "create" ELSE "modify"
MaskToOperation(ops) ==
    IF "create" \in ops THEN "create"
    ELSE IF "modify" \in ops THEN "modify"
    ELSE IF "delete" \in ops THEN "delete"
    ELSE IF "rename_to" \in ops THEN "rename_to" ELSE "rename_from"
OperationOf(ops) ==
    IF kind = "inotify" /\ ops \subseteq {"modify", "rename_to", "rename_from"} THEN "modify"
    ELSE MaskToOperation(ops)

(* An insert that fails is logged, and the next event is the next.         *)
Record(e) ==
    /\ recorder = "running" /\ InOrder(e, "channel")
    /\ \/ /\ event' = Moved({e}, "done")
          /\ journal' = journal \cup {<<event[e].path, OperationOf(event[e].ops)>>}
       \/ event' = Moved({e}, "failed") /\ UNCHANGED journal
    /\ UNCHANGED <<main, monitoring, recorder, n, change>>

(* The channel closes when the monitor and handle_run have dropped it.     *)
RecorderEnds ==
    /\ recorder = "running" /\ At("channel") = {}
    /\ monitor = "gone" /\ pc \in {"draining", "drained", "final"}
    /\ recorder' = "gone"
    /\ UNCHANGED <<main, monitoring, event, journal, n, change>>

-----------------------------------------------------------------------------
(* handle_run.  An early return (no watcher, no such program, a database   *)
(* that cannot be opened) leaves the transaction running, and the command; *)
(* whichever way the process ends, its tasks and what they hold end too.   *)

End(last) ==
    /\ pc' = last /\ monitor' = "gone" /\ recorder' = "gone" /\ event' = Drop(Pending)
    /\ UNCHANGED <<status, child, kind, tried, marked, journal, n, change>>

Create ==
    /\ pc = "begin" /\ pc' = "created" /\ status' = "running"
    /\ UNCHANGED <<child, monitoring, recorder, event, journal, n, change>>

(* The task that will set the marks is spawned, no more.                   *)
StartFanotify ==
    /\ pc = "created" /\ pc' = "monitored"
    /\ kind' = "fanotify" /\ monitor' = "marking"
    /\ UNCHANGED <<status, child, tried, marked, recorder, event, journal, n, change>>

StartInotify ==
    /\ pc = "created" /\ pc' = "monitored"
    /\ kind' = "inotify" /\ monitor' = "reading" /\ marked' \in SUBSET Fs
    /\ UNCHANGED <<status, child, tried, recorder, event, journal, n, change>>

Launch ==
    /\ pc = "monitored" /\ pc' = "launched" /\ child' = "running"
    /\ UNCHANGED <<status, monitoring, recorder, event, journal, n, change>>

GiveUp == pc \in {"created", "monitored", "launched", "drained"} /\ End("exited")

(* The journal task opens the database, or returns and drops the receiver. *)
StartRecorder ==
    /\ pc = "launched" /\ pc' = "waiting"
    /\ \/ recorder' = "running" /\ UNCHANGED event
       \/ recorder' = "gone" /\ event' = Drop({"channel"})
    /\ UNCHANGED <<status, child, monitoring, journal, n, change>>

Wait ==
    /\ pc = "waiting" /\ child \in {"success", "failure"} /\ pc' = "draining"
    /\ UNCHANGED <<status, child, monitoring, recorder, event, journal, n, change>>

(* The drain is over when the recorder is, or after two seconds, whatever  *)
(* it has done by then.                                                    *)
Mutant_NoTimeout == recorder = "gone"
DrainOver == TRUE

Drained ==
    /\ pc = "draining" /\ DrainOver /\ pc' = "drained"
    /\ UNCHANGED <<status, child, monitoring, recorder, event, journal, n, change>>

FinalStatus == IF child = "success" THEN "completed" ELSE "failed"

Finalize ==
    /\ pc = "drained" /\ pc' = "final" /\ status' = FinalStatus
    /\ UNCHANGED <<child, monitoring, recorder, event, journal, n, change>>

Exit == pc = "final" /\ End("exited")

Kill == pc \notin {"begin", "exited", "killed"} /\ End("killed")

-----------------------------------------------------------------------------
Init ==
    /\ pc = "begin" /\ status = "none" /\ child = "none"
    /\ kind = "fanotify" /\ monitor = "none" /\ tried = {} /\ marked = {}
    /\ recorder = "none" /\ journal = {}
    /\ event = [e \in Id |-> NoEvent]
    /\ n = 0 /\ change = [i \in Id |-> NoChange]

HandleRun ==
    \/ Create \/ StartFanotify \/ StartInotify \/ GiveUp \/ Launch
    \/ StartRecorder \/ Wait \/ Drained \/ Finalize \/ Exit

Monitor ==
    \/ \E f \in Fs : Mark(f)
    \/ OpenRoot
    \/ \E e \in Id : Read(e) \/ Send(e) \/ Skip(e)

Command ==
    \/ \E w \in Work : \/ Unseen(w[1], w[2]) \/ Queued(w[1], w[2])
                       \/ \E e \in Id : Merged(w[1], w[2], e)
    \/ ChildExits

Next ==
    \/ HandleRun \/ Monitor \/ Command \/ Kill
    \/ \E e \in Id : Record(e)
    \/ RecorderEnds

Spec == Init /\ [][Next]_vars

(* The main thread runs; nothing is assumed of the tasks beside it, of the *)
(* command, or of kills.                                                   *)
FairSpec == Spec /\ WF_vars(HandleRun)

-----------------------------------------------------------------------------
TypeOK ==
    /\ pc \in {"begin", "created", "monitored", "launched", "waiting", "draining",
               "drained", "final", "exited", "killed"}
    /\ status \in {"none", "running", "completed", "failed"}
    /\ child \in {"none", "running", "success", "failure"}
    /\ kind \in {"fanotify", "inotify"}
    /\ monitor \in {"none", "marking", "reading", "gone"}
    /\ tried \subseteq Fs /\ marked \subseteq Fs
    /\ recorder \in {"none", "running", "gone"}
    /\ event \in [Id -> [path : Path \cup {"none"}, ops : SUBSET Op,
                         stage : Stage]]
    /\ journal \subseteq Path \X Op
    /\ n \in 0 .. MaxChanges
    /\ change \in [Id -> [path : Path \cup {"none"}, op : Op \cup {"none"},
                          event : 0 .. MaxChanges]]

Journalled(p) == \E o \in Op : <<p, o>> \in journal
Seen(i) == i \in 1 .. n /\ change[i].event # 0
FirstReport(j) == Seen(j) /\ \A i \in 1 .. j - 1 : Seen(i) => change[i].path # change[j].path

(* What the monitor had to skip, and what the database refused.            *)
LeftOut(i) == event[change[i].event].stage \in {"skipped", "failed"}

(* What the journal lacks of the changes the kernel reported is the end of *)
(* them, and in the middle no more than what was left out one by one       *)
(* because its handle did not resolve or its insert failed: however the    *)
(* drain or the process is cut short, and however full the channel, a path *)
(* reported earlier than one that is journalled for the first time is      *)
(* journalled too.                                                         *)
NoGaps ==
    \A j \in Id : FirstReport(j) /\ Journalled(change[j].path) =>
        \A i \in Id : i < j /\ Seen(i) => Journalled(change[i].path) \/ LeftOut(i)

(* In what is journalled no creat(2) or mkdir(2) is hidden by what         *)
(* happened to the path before the monitor got to it: it is recorded as    *)
(* created.  (A rename to a path that is written before the monitor gets   *)
(* to it is recorded as a modification.)                                   *)
CreationsKept ==
    \A j \in Id : FirstReport(j) /\ Journalled(change[j].path) =>
        \A i \in Id : i < j /\ Seen(i) /\ change[i].op = "create" =>
            <<change[i].path, "create">> \in journal \/ LeftOut(i)

(* When the command has ended, the run does: whether the monitor gave up,  *)
(* holds on to the channel or is stuck on a full one, and whether or not   *)
(* the journal could be opened.                                            *)
RunEnds ==
    child \in {"success", "failure"} ~> pc \in {"exited", "killed"}
=============================================================================
