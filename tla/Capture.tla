------------------------------- MODULE Capture -------------------------------
(***************************************************************************)
(* The daemon's live capture of tracked apps: the exec-watch loop and its  *)
(* launch tasks (daemon/exec_watch.rs), the polling of a launch's process  *)
(* tree (process_tracker), the loop that reads and attributes fanotify     *)
(* events (ebpf run_shared), the journal task and the untrack request      *)
(* (daemon/mod.rs).  All run concurrently over three shared things: the    *)
(* active_launches map, the MutationCapture of the extended module, and    *)
(* the journal channel.                                                    *)
(*                                                                         *)
(* A launch is named by the pid it was claimed for, so Launch is also the  *)
(* set of processes.                                                       *)
(***************************************************************************)
EXTENDS MutationCapture, Sequences

CONSTANTS
    Bucket,         \* accumulation transactions of the tracked apps
    Runs,           \* [Launch -> the tracked apps its exec matches, in order]
    Ancestors,      \* [Launch -> the processes it descends from]
    Home, HomeOf,   \* homes, and the home of the user a process runs as
    FsAt,           \* [Home -> Fs]
    File, InHome,   \* files, and the home each is in
    Nobody,         \* no launch owns the process
    Flush,          \* the barrier in the journal channel
    ChannelSize,    \* capacity of the journal channel
    PendingMax,     \* capacity of the buffer of unattributed events
    MaxWrites       \* bound: changes made by all processes

Event == [pid : Launch, file : File]
Record == [txid : Bucket, pid : Launch, file : File]

ASSUME ProcessAssumption ==
    /\ Runs \in [Launch -> Seq(Bucket)]
    /\ Ancestors \in [Launch -> SUBSET Launch]
    /\ HomeOf \in [Launch -> Home] /\ FsAt \in [Home -> Fs]
    /\ InHome \in [File -> Home]
    /\ FsOf = [l \in Launch |-> FsAt[HomeOf[l]]]
    /\ Nobody \notin Launch \cup Bucket /\ Flush \notin Record
    /\ {ChannelSize, PendingMax, MaxWrites} \subseteq Nat /\ ChannelSize > 0

VARIABLES
    proc,       \* [Launch -> "none", "running" or "exited"]
    execs,      \* exec events not yet handled: <<pid, app>>
    watched,    \* the apps whose executables are marked
    phase,      \* [Launch -> how far its task is]
    txid,       \* [Launch -> Bucket, or Nobody]
    known,      \* [Launch -> the pids watch_process_tree knows]
    found,      \* [Launch -> the pids on their way to the collector]
    pids,       \* [Launch -> launch_pids]
    owner,      \* active_launches: [Launch -> the launch a pid counts for]
    queue,      \* the kernel's queue of the group
    hand,       \* records attributed and not yet sent
    pending,    \* unattributed events kept for a retry
    channel,    \* the journal channel
    journal,    \* the mutations table
    request,    \* the untrack request being served: <<step, bucket>>
    seen,       \* [Bucket -> what its rollback will review]
    written,    \* ghost: all changes made
    owed,       \* ghost: changes of processes captured then or while they wait
    late,       \* ghost: changes that the reading loop was too slow for
    due         \* ghost: [Bucket -> what its finished launches changed]

tasks == <<phase, txid, known, found, pids>>
loop == <<queue, hand, pending>>
store == <<channel, journal>>
untrack == <<request, watched, seen, due>>
ghosts == <<written, owed, late>>
vars == <<captureVars, proc, execs, tasks, owner, loop, store, untrack, ghosts>>

SeqRange(s) == {s[i] : i \in DOMAIN s}

-----------------------------------------------------------------------------
(* Processes: they start, perhaps as a tracked app, change files, and exit *)
(* (a process that has exited is gone from /proc at once).                 *)

Parent(p) == {q \in Ancestors[p] : Ancestors[p] = Ancestors[q] \cup {q}}

(* The kernel reports the opening of marked files, in their order: which   *)
(* of the matches of an exec that is.                                      *)
Marked(p) == {i \in DOMAIN Runs[p] : Runs[p][i] \in watched}
InOrder(S) == {o \in [1 .. Cardinality(S) -> S] :
                   /\ SeqRange(o) = S
                   /\ \A m, n \in DOMAIN o : m < n => o[m] < o[n]}

Run(p) ==
    /\ proc[p] = "none"
    /\ \A q \in Parent(p) : proc[q] = "running"
    /\ proc' = [proc EXCEPT ![p] = "running"]
    /\ \E o \in InOrder(Marked(p)) :
         execs' = execs \o [n \in DOMAIN o |-> <<p, Runs[p][o[n]]>>]
    /\ UNCHANGED <<captureVars, tasks, owner, loop, store, untrack, ghosts>>

(* (A process that descends from launches of several users may be taken    *)
(* over by any of them, and read against the wrong home.)                  *)
Captured(p, f) == /\ owner[p] # Nobody
                  /\ stage[owner[p]] = "held"
                  /\ \A q \in Ancestors[p] \cup {p} :
                         Runs[q] # <<>> => InHome[f] = HomeOf[q]

Write(p, f) ==
    LET e == [pid |-> p, file |-> f] IN
    /\ proc[p] = "running" /\ e \notin written /\ Cardinality(written) < MaxWrites
    /\ written' = written \cup {e}
    /\ queue' = IF FsAt[InHome[f]] \in marks THEN Append(queue, e) ELSE queue
    /\ owed' = IF Captured(p, f) THEN owed \cup {e} ELSE owed
    /\ UNCHANGED <<captureVars, proc, execs, tasks, owner, hand, pending, store,
                   untrack, late>>

Exit(p) ==
    /\ proc[p] = "running"
    /\ proc' = [proc EXCEPT ![p] = "exited"]
    /\ UNCHANGED <<captureVars, execs, tasks, owner, loop, store, untrack, ghosts>>

(* A process registered while changes of its wait to be read, or to be read *)
(* again, is captured for them too.                                        *)
Owe == owed' = owed \cup {e \in SeqRange(queue) \cup pending : Captured(e.pid, e.file)'}

-----------------------------------------------------------------------------
(* The exec-watch loop claims the pid of a matching exec event, unless     *)
(* another launch owns it, the app has been untracked since, or the        *)
(* process is gone and its uid cannot be read any more.                    *)

Mutant_AlwaysClaimable(p) == TRUE
Claimable(p) == owner[p] = Nobody

Claim ==
    /\ execs # <<>>
    /\ LET p == Head(execs)[1]
           b == Head(execs)[2]
       IN  /\ b \in watched /\ proc[p] = "running" /\ Claimable(p)
           /\ phase' = [phase EXCEPT ![p] = "claimed"]
           /\ txid' = [txid EXCEPT ![p] = b]
           /\ known' = [known EXCEPT ![p] = {p}]
           /\ pids' = [pids EXCEPT ![p] = {p}]
           /\ owner' = [owner EXCEPT ![p] = p]
    /\ execs' = Tail(execs)
    /\ UNCHANGED <<captureVars, proc, found, loop, store, untrack, ghosts>>

IgnoreExec ==
    /\ execs # <<>>
    /\ LET p == Head(execs)[1] IN
       Head(execs)[2] \notin watched \/ ~Claimable(p) \/ proc[p] = "exited"
    /\ execs' = Tail(execs)
    /\ UNCHANGED <<captureVars, proc, tasks, owner, loop, store, untrack, ghosts>>

-----------------------------------------------------------------------------
(* spawn_launch.  A failing start is logged and the launch goes on.        *)

StartLaunch(l) ==
    /\ phase[l] = "claimed"
    /\ Call(l)
    /\ phase' = [phase EXCEPT ![l] = "watching"]
    /\ UNCHANGED <<proc, execs, txid, known, found, pids, owner, loop, store,
                   untrack, written, late>>
    /\ Owe

(* scan_descendants: a live process counts as long as every process between*)
(* it and the root is alive, because an orphan changes its parent.         *)
Descends(c, l) ==
    /\ proc[c] = "running" /\ l \in Ancestors[c] /\ proc[l] = "running"
    /\ \A m \in Ancestors[c] : l \in Ancestors[m] => proc[m] = "running"

Poll(l) ==
    LET new == {c \in Launch : Descends(c, l)} \ known[l] IN
    /\ phase[l] = "watching" /\ new # {}
    /\ known' = [known EXCEPT ![l] = @ \cup new]
    /\ found' = [found EXCEPT ![l] = @ \cup new]
    /\ UNCHANGED <<captureVars, proc, execs, phase, txid, pids, owner, loop, store,
                   untrack, ghosts>>

(* The collector registers what the poll has found, whoever owned it.      *)
Collect(l, c) ==
    /\ c \in found[l]
    /\ found' = [found EXCEPT ![l] = @ \ {c}]
    /\ pids' = [pids EXCEPT ![l] = @ \cup {c}]
    /\ owner' = [owner EXCEPT ![c] = l]
    /\ UNCHANGED <<captureVars, proc, execs, phase, txid, known, loop, store,
                   untrack, written, late>>
    /\ Owe

(* Every known process is dead: the collector is aborted.                   *)
AllDead(l) ==
    /\ phase[l] = "watching"
    /\ \A c \in known[l] : proc[c] = "exited"
    /\ phase' = [phase EXCEPT ![l] = "grace"]
    /\ found' = [found EXCEPT ![l] = {}]
    /\ UNCHANGED <<captureVars, proc, execs, txid, known, pids, owner, loop, store,
                   untrack, ghosts>>

(* 250 ms later its entries go, whatever the reading loop has reached: what *)
(* it has not sent on by then is late.                                     *)
InHand == {[pid |-> r.pid, file |-> r.file] : r \in SeqRange(hand)}
Waiting == SeqRange(queue) \cup InHand \cup pending

Mutant_EntriesOfRoot(l) == {l}
Entries(l) == pids[l]

Prune(l) ==
    /\ phase[l] = "grace"
    /\ phase' = [phase EXCEPT ![l] = "pruned"]
    /\ owner' = [p \in Launch |-> IF p \in Entries(l) THEN Nobody ELSE owner[p]]
    /\ late' = late \cup {e \in Waiting : e.pid \in pids[l]}
    /\ UNCHANGED <<captureVars, proc, execs, txid, known, found, pids, loop, store,
                   untrack, written, owed>>

(* stop; the reading loop is aborted with the group, and what it had in    *)
(* hand or the kernel had for it is lost.                                  *)
StopLaunch(l) ==
    /\ phase[l] = "pruned"
    /\ Return(l)
    /\ phase' = [phase EXCEPT ![l] = "done"]
    /\ IF group' THEN UNCHANGED loop
       ELSE queue' = <<>> /\ hand' = <<>> /\ pending' = {}
    /\ UNCHANGED <<proc, execs, txid, known, found, pids, owner, store, untrack,
                   ghosts>>

-----------------------------------------------------------------------------
(* The reading loop.  An event belongs to the launch that its process      *)
(* counts for at the moment, if its path is in that launch's home; the     *)
(* event of a process not registered (yet) is kept for a while.            *)

Mutant_InAnyHome(e) == TRUE
InLaunchHome(e) == InHome[e.file] = HomeOf[owner[e.pid]]

Mutant_AttributeByPid(e) ==
    hand' = IF InLaunchHome(e)
            THEN Append(hand, [txid |-> txid[e.pid], pid |-> e.pid, file |-> e.file])
            ELSE hand

Attribute(e) ==
    hand' = IF InLaunchHome(e)
            THEN Append(hand, [txid |-> txid[owner[e.pid]], pid |-> e.pid, file |-> e.file])
            ELSE hand

ReadUnchanged == UNCHANGED <<captureVars, proc, execs, tasks, owner, store,
                             untrack, ghosts>>

ReadEvent ==
    /\ group /\ queue # <<>>
    /\ queue' = Tail(queue)
    /\ LET e == Head(queue) IN
       IF owner[e.pid] # Nobody
       THEN Attribute(e) /\ UNCHANGED pending
       ELSE /\ pending' = IF /\ \E p \in Launch : owner[p] # Nobody
                             /\ Cardinality(pending) < PendingMax
                          THEN pending \cup {e} ELSE pending
            /\ UNCHANGED hand
    /\ ReadUnchanged

Mutant_RetryIfAlive(e) ==
    /\ group /\ e \in pending /\ owner[e.pid] # Nobody
    /\ pending' = pending \ {e}
    /\ IF proc[e.pid] = "running" THEN Attribute(e) ELSE UNCHANGED hand
    /\ UNCHANGED queue /\ ReadUnchanged

Retry(e) ==
    /\ group /\ e \in pending /\ owner[e.pid] # Nobody
    /\ pending' = pending \ {e}
    /\ Attribute(e)
    /\ UNCHANGED queue /\ ReadUnchanged

(* PENDING_RETRY_WINDOW has passed.                                         *)
Expire(e) ==
    /\ group /\ e \in pending
    /\ pending' = pending \ {e}
    /\ late' = late \cup {e}
    /\ UNCHANGED <<captureVars, proc, execs, tasks, owner, queue, hand, store, untrack,
                   written, owed>>

Send ==
    /\ group /\ hand # <<>> /\ Len(channel) < ChannelSize
    /\ channel' = Append(channel, Head(hand))
    /\ hand' = Tail(hand)
    /\ UNCHANGED <<captureVars, proc, execs, tasks, owner, queue, pending, journal,
                   untrack, ghosts>>

-----------------------------------------------------------------------------
(* The journal task, and an untrack request, served under the connection's *)
(* lock one at a time: close the bucket, unmark the app, send the barrier, *)
(* wait for its acknowledgement, checkpoint, reply.  What the client then  *)
(* reviews is what the checkpoint has made visible.                        *)

NoRequest == <<"none", Nobody>>

Mutant_FlushIsTried ==
    channel' = IF Len(channel) < ChannelSize THEN Append(channel, Flush) ELSE channel
FlushIsSent == Len(channel) < ChannelSize /\ channel' = Append(channel, Flush)

JournalTask ==
    /\ channel # <<>>
    /\ channel' = Tail(channel)
    /\ IF Head(channel) = Flush
       THEN request' = <<"acked", request[2]>> /\ UNCHANGED journal
       ELSE journal' = journal \cup {Head(channel)} /\ UNCHANGED request
    /\ UNCHANGED <<captureVars, proc, execs, tasks, owner, loop, watched, seen, due,
                   ghosts>>

Finished(b) == {l \in Launch : phase[l] = "done" /\ txid[l] = b}

Untrack(b) ==
    /\ request = NoRequest /\ b \in watched
    /\ request' = <<"closed", b>>
    /\ watched' = watched \ {b}
    /\ due' = [due EXCEPT ![b] = {e \in owed \ late : \E l \in Finished(b) : e.pid \in pids[l]}]
    /\ UNCHANGED <<captureVars, proc, execs, tasks, owner, loop, store, seen, ghosts>>

SendFlush ==
    /\ request[1] = "closed"
    /\ FlushIsSent
    /\ request' = <<"flushing", request[2]>>
    /\ UNCHANGED <<captureVars, proc, execs, tasks, owner, loop, journal, watched,
                   seen, due, ghosts>>

(* flush with a timeout.                                                    *)
Mutant_ReplyInTime ==
    /\ request[1] # "none"
    /\ seen' = [seen EXCEPT ![request[2]] = journal]
    /\ request' = NoRequest
    /\ UNCHANGED <<captureVars, proc, execs, tasks, owner, loop, store, watched, due,
                   ghosts>>

Reply ==
    /\ request[1] = "acked"
    /\ seen' = [seen EXCEPT ![request[2]] = journal]
    /\ request' = NoRequest
    /\ UNCHANGED <<captureVars, proc, execs, tasks, owner, loop, store, watched, due,
                   ghosts>>

-----------------------------------------------------------------------------
Init ==
    /\ CaptureInit
    /\ proc = [p \in Launch |-> "none"] /\ execs = <<>>
    /\ watched = Bucket
    /\ phase = [l \in Launch |-> "none"] /\ txid = [l \in Launch |-> Nobody]
    /\ known = [l \in Launch |-> {}] /\ found = known /\ pids = known
    /\ owner = [p \in Launch |-> Nobody]
    /\ queue = <<>> /\ hand = <<>> /\ pending = {}
    /\ channel = <<>> /\ journal = {}
    /\ request = NoRequest
    /\ seen = [b \in Bucket |-> {}] /\ due = seen
    /\ written = {} /\ owed = {} /\ late = {}

Task(l) == \/ StartLaunch(l) \/ Poll(l) \/ (\E c \in Launch : Collect(l, c))
           \/ AllDead(l) \/ Prune(l) \/ StopLaunch(l)

Reader == ReadEvent \/ (\E e \in pending : Retry(e)) \/ Send

Next ==
    \/ \E p \in Launch : Run(p) \/ Exit(p) \/ \E f \in File : Write(p, f)
    \/ Claim \/ IgnoreExec
    \/ \E l \in Launch : Task(l)
    \/ Reader
    \/ \E e \in pending : Expire(e)
    \/ JournalTask
    \/ \E b \in Bucket : Untrack(b)
    \/ SendFlush \/ Reply

Spec == Init /\ [][Next]_vars

(* The runtime schedules every task again and again.                        *)
FairSpec == /\ Spec
            /\ WF_vars(Claim \/ IgnoreExec) /\ WF_vars(Reader) /\ WF_vars(JournalTask)
            /\ WF_vars(SendFlush) /\ WF_vars(Reply)
            /\ \A l \in Launch : WF_vars(Task(l))

-----------------------------------------------------------------------------
(* Properties.                                                             *)

(* Every variable has its type.                                             *)
CaptureStateOK ==
    /\ CaptureTypeOK
    /\ proc \in [Launch -> {"none", "running", "exited"}]
    /\ SeqRange(execs) \subseteq Launch \X Bucket
    /\ watched \subseteq Bucket
    /\ phase \in [Launch -> {"none", "claimed", "watching", "grace", "pruned", "done"}]
    /\ txid \in [Launch -> Bucket \cup {Nobody}]
    /\ {known, found, pids} \subseteq [Launch -> SUBSET Launch]
    /\ owner \in [Launch -> Launch \cup {Nobody}]
    /\ SeqRange(queue) \subseteq Event /\ pending \subseteq Event
    /\ SeqRange(hand) \subseteq Record
    /\ SeqRange(channel) \subseteq Record \cup {Flush} /\ journal \subseteq Record
    /\ request \in {"none", "closed", "flushing", "acked"} \X (Bucket \cup {Nobody})
    /\ seen \in [Bucket -> SUBSET Record]
    /\ {written, owed, late} \subseteq SUBSET Event
    /\ due \in [Bucket -> SUBSET Event]

(* A change is recorded for an app only if it was made in the home of the  *)
(* user who launched it, by the launched process or by a descendant.       *)
AttributionSound ==
    \A r \in journal :
        \E l \in Ancestors[r.pid] \cup {r.pid} :
            /\ r.txid = txid[l] /\ Runs[l] # <<>>
            /\ InHome[r.file] = HomeOf[l]

(* A launch belongs to the app whose executable matched first (the script, *)
(* not the interpreter it names), unless that app has been untracked.      *)
FirstMatchClaims ==
    \A l \in Launch : \A i \in DOMAIN Runs[l] :
        txid[l] \notin {Nobody, Runs[l][i]} /\ Runs[l][i] \in watched =>
            \E j \in 1 .. i - 1 : Runs[l][j] = txid[l]

(* No entry of active_launches outlives the launch that made it: a reused  *)
(* pid must not be recorded for a dead app.                                *)
NoStaleOwner ==
    \A p \in Launch : owner[p] # Nobody =>
        /\ phase[owner[p]] \in {"claimed", "watching", "grace"}
        /\ p \in pids[owner[p]]

Events(records) == {[pid |-> r.pid, file |-> r.file] : r \in records}

(* As long as no call of MutationCapture has failed, what a captured       *)
(* process changes in its user's home reaches the journal: other launches  *)
(* that come and go on the same file system, and the end of its own, lose  *)
(* nothing, nor does the buffer what was read before its process was       *)
(* registered.  Lost is only what was late: not sent on 250 ms after a     *)
(* launch, or 500 ms in the buffer.  (Of processes that descend from       *)
(* launches of one user only.)                                             *)
NothingLost ==
    faults = 0 =>
        owed \ late \subseteq Waiting \cup Events((SeqRange(channel) \cup journal) \ {Flush})

(* When an untrack has been answered, its rollback will review all that    *)
(* the launches finished by the time of the request had changed, but for   *)
(* what was late.                                                          *)
UntrackSeesFinished ==
    \A b \in Bucket :
        b \notin watched /\ request[2] # b /\ faults = 0 => due[b] \subseteq Events(seen[b])

(* Every untrack request is answered: the barrier gets through the channel *)
(* whatever the launches and the reading loop are doing.                   *)
RequestsAnswered == request # NoRequest ~> request = NoRequest

(* Once every process has exited the shared group is given up, unless a    *)
(* stop could not find what to release.                                    *)
CaptureEnds ==
    (\A l \in Launch : proc[l] = "exited") ~>
        (~group \/ \E l \in Launch : stage[l] = "leaked")
=============================================================================
