------------------------------- MODULE Registry ------------------------------
(***************************************************************************)
(* The registry of tracked apps: the rows of tracked_apps and the status   *)
(* of their transactions (tracked_apps, transaction), the requests the     *)
(* daemon serves one at a time under the connection's lock (daemon/mod.rs),*)
(* its exec-watch marks (exec_watch.rs), and the clients: track, untrack,  *)
(* `untrack --rollback` and `rollback <txid>` (commands).                  *)
(*                                                                         *)
(* Every SQL statement is a step, and a client or the daemon may be killed *)
(* between any two.  Clients read the database as immutable, which is to   *)
(* say as of the last checkpoint.                                          *)
(***************************************************************************)
EXTENDS Naturals, FiniteSets

CONSTANTS
    App,            \* names given to track
    Exe,            \* executables, by canonical path
    Resolutions,    \* [App -> the sets of executables it may resolve to]
    Client,         \* processes of the command line
    Unwatched,      \* no entry in the watched map
    NoClient,       \* the client being served is gone
    MaxTx,          \* bound: transactions
    MaxKills,       \* bound: kills, of clients and of the daemon
    MaxFaults       \* bound: failing fanotify_mark calls

ASSUME RegistryAssumption ==
    /\ Resolutions \in [App -> SUBSET SUBSET Exe]
    /\ {MaxTx, MaxKills, MaxFaults} \subseteq Nat
    /\ Unwatched \notin App \X (1 .. MaxTx) /\ NoClient \notin Client

VARIABLES
    tx,         \* [txid -> status of the transaction]
    last,       \* the last txid given out
    row,        \* tracked_apps: [App -> Row]
    view,       \* tracked_apps as of the last checkpoint
    up,         \* the daemon is running
    serving,    \* the request that holds the connection's lock
    watch,      \* ExecWatch::watched: [Exe -> <<app, txid>> or Unwatched]
    marks,      \* executables with a FAN_OPEN_EXEC mark
    client,     \* [Client -> where its command is]
    told,       \* ghost: [App -> its row at the last request answered Ok]
    heldUp,     \* ghost: apps whose row a held-up checkpoint has left behind
    closings,   \* ghost: [txid -> how many clients were told it is closed]
    kills, faults

database == <<tx, last, row>>
daemon == <<up, serving, watch, marks>>
ghosts == <<told, heldUp, closings>>
vars == <<database, view, daemon, client, ghosts, kills, faults>>

Tx == 1 .. MaxTx
Row == [status : {"absent", "tracking", "untracked"}, bucket : 0 .. MaxTx,
        paths : SUBSET Exe]
Absent == [status |-> "absent", bucket |-> 0, paths |-> {}]

Idle == [step |-> "idle", kind |-> "none", app |-> "none", bucket |-> 0]
NoRequest == [step |-> "none", app |-> "none", client |-> NoClient, bucket |-> 0,
              paths |-> {}]

-----------------------------------------------------------------------------
(* Requests.  A client waits until the daemon answers or dies.             *)

Ask(c, kind, a) ==
    /\ client[c] = Idle /\ up
    /\ client' = [client EXCEPT ![c] = [step |-> "waiting", kind |-> kind, app |-> a,
                                        bucket |-> 0]]
    /\ UNCHANGED <<database, view, daemon, ghosts, kills, faults>>

Accept(c) ==
    /\ up /\ serving.step = "none" /\ client[c].step = "waiting"
    /\ serving' = [step |-> IF client[c].kind = "track" THEN "resolve" ELSE "check",
                   app |-> client[c].app, client |-> c, bucket |-> 0, paths |-> {}]
    /\ UNCHANGED <<database, view, up, watch, marks, client, ghosts, kills, faults>>

(* What a client does with its answer: untrack --rollback goes on if it is *)
(* Ok, everybody else has finished.                                        *)
Answer(ok) ==
    LET c == serving.client IN
    /\ serving' = NoRequest
    /\ client' = [d \in Client |->
                     IF d # c THEN client[d]
                     ELSE IF ok /\ client[d].kind = "rollback"
                     THEN [client[d] EXCEPT !.step = "closed"] ELSE Idle]

Step(from, to) == serving.step = from /\ serving' = [serving EXCEPT !.step = to]

-----------------------------------------------------------------------------
(* A passive checkpoint waits for nobody: while a rollback is under way,   *)
(* whose connection may be reading or checkpointing itself, it may come to *)
(* nothing.                                                                *)
Passive(a) ==
    \/ view' = row /\ heldUp' = {}
    \/ /\ \E c \in Client : client[c].step = "executing"
       /\ view' = view /\ heldUp' = heldUp \cup {a}

-----------------------------------------------------------------------------
(* Track: a new transaction, opened by a second statement, becomes the     *)
(* app's bucket; checkpoint; marks.  The app may be tracked already.       *)

TrackCreate(R) ==
    /\ serving.step = "resolve" /\ R \in Resolutions[serving.app] /\ last < MaxTx
    /\ last' = last + 1
    /\ tx' = [tx EXCEPT ![last + 1] = "running"]
    /\ serving' = [serving EXCEPT !.step = "created", !.bucket = last + 1, !.paths = R]
    /\ UNCHANGED <<row, view, up, watch, marks, client, ghosts, kills, faults>>

(* Neither a package nor a binary of that name.                            *)
TrackRefused ==
    /\ serving.step = "resolve"
    /\ Answer(FALSE)
    /\ UNCHANGED <<database, view, up, watch, marks, ghosts, kills, faults>>

TrackOpen ==
    /\ Step("created", "opened")
    /\ tx' = [tx EXCEPT ![serving.bucket] = "tracking"]
    /\ UNCHANGED <<last, row, view, up, watch, marks, client, ghosts, kills, faults>>

TrackRow ==
    /\ Step("opened", "recorded")
    /\ row' = [row EXCEPT ![serving.app] = [status |-> "tracking",
                   bucket |-> serving.bucket, paths |-> serving.paths]]
    /\ UNCHANGED <<tx, last, view, up, watch, marks, client, ghosts, kills, faults>>

TrackCheckpoint ==
    /\ Step("recorded", "visible")
    /\ Passive(serving.app)
    /\ UNCHANGED <<database, up, watch, marks, client, told, closings, kills, faults>>

(* A call of fanotify_mark that fails ends watch_app, which is logged.     *)
MayFail(S) == /\ S # {} => faults < MaxFaults
              /\ faults' = faults + IF S = {} THEN 0 ELSE 1

TrackWatch(skipped) ==
    LET armed == serving.paths \ skipped IN
    /\ serving.step = "visible" /\ skipped \subseteq serving.paths /\ MayFail(skipped)
    /\ watch' = [e \in Exe |-> IF e \in armed THEN <<serving.app, serving.bucket>>
                               ELSE watch[e]]
    /\ marks' = marks \cup armed
    /\ told' = [told EXCEPT ![serving.app] = row[serving.app]]
    /\ Answer(TRUE)
    /\ UNCHANGED <<database, view, up, heldUp, closings, kills>>

-----------------------------------------------------------------------------
(* Untrack: close the bucket, retire the row, unwatch, checkpoint.  The    *)
(* flush before the checkpoint is a matter of Capture.                     *)

Mutant_TrackedOnce(a) == row[a].status # "absent"
IsTracked(a) == row[a].status = "tracking"

UntrackRefused ==
    /\ serving.step = "check" /\ ~IsTracked(serving.app)
    /\ Answer(FALSE)
    /\ UNCHANGED <<database, view, up, watch, marks, ghosts, kills, faults>>

Mutant_LeaveOpen(t) == UNCHANGED tx
Close(t) == tx' = [tx EXCEPT ![t] = "untracked"]

UntrackClose ==
    /\ serving.step = "check" /\ IsTracked(serving.app)
    /\ serving' = [serving EXCEPT !.step = "closed", !.bucket = row[serving.app].bucket]
    /\ Close(row[serving.app].bucket)
    /\ UNCHANGED <<last, row, view, up, watch, marks, client, ghosts, kills, faults>>

Retire(a) == row' = [row EXCEPT ![a].status = "untracked"]

UntrackRetire ==
    /\ Step("closed", "retired")
    /\ Retire(serving.app)
    /\ UNCHANGED <<tx, last, view, up, watch, marks, client, ghosts, kills, faults>>

Mutant_EveryEntry(a) == {e \in Exe : watch[e] # Unwatched}
EntriesOf(a) == {e \in Exe : watch[e] # Unwatched /\ watch[e][1] = a}

(* Entries go even if fanotify_mark fails to remove their mark.            *)
UntrackUnwatch(kept) ==
    /\ Step("retired", "unwatched")
    /\ kept \subseteq EntriesOf(serving.app) /\ MayFail(kept)
    /\ marks' = marks \ (EntriesOf(serving.app) \ kept)
    /\ watch' = [e \in Exe |-> IF e \in EntriesOf(serving.app) THEN Unwatched
                               ELSE watch[e]]
    /\ UNCHANGED <<database, view, up, client, ghosts, kills>>

Mutant_NoCheckpoint(a) == UNCHANGED <<view, heldUp>>
PostUntrackCheckpoint(a) == Passive(a)

UntrackReply ==
    /\ serving.step = "unwatched"
    /\ PostUntrackCheckpoint(serving.app)
    /\ told' = [told EXCEPT ![serving.app] = row[serving.app]]
    /\ closings' = [closings EXCEPT ![serving.bucket] = @ + 1]
    /\ Answer(TRUE)
    /\ UNCHANGED <<database, up, watch, marks, kills, faults>>

-----------------------------------------------------------------------------
(* SQLite and the daemon checkpoint now and then.                          *)
Checkpoint ==
    /\ view # row /\ view' = row /\ heldUp' = {}
    /\ UNCHANGED <<database, daemon, client, told, closings, kills, faults>>

(* The clients' part of a rollback: untrack --rollback looks up the app's  *)
(* bucket, the engine refuses one that has been rolled back, and marks it  *)
(* as the last thing it does.                                              *)
Engine(t) == [step |-> "loaded", kind |-> "engine", app |-> "none", bucket |-> t]

Load(c) ==
    /\ client[c].step = "closed"
    /\ client' = [client EXCEPT ![c] = IF view[client[c].app].status = "absent" THEN Idle
                                      ELSE Engine(view[client[c].app].bucket)]
    /\ UNCHANGED <<database, view, daemon, ghosts, kills, faults>>

Execute(c) ==
    /\ client[c].step = "loaded"
    /\ client' = [client EXCEPT ![c] = IF tx[client[c].bucket] = "rolled_back" THEN Idle
                      ELSE [client[c] EXCEPT !.step = "executing"]]
    /\ UNCHANGED <<database, view, daemon, ghosts, kills, faults>>

Rollback(c, t) ==
    /\ client[c] = Idle /\ t \in 1 .. last
    /\ client' = [client EXCEPT ![c] = Engine(t)]
    /\ UNCHANGED <<database, view, daemon, ghosts, kills, faults>>

Finish(c) ==
    /\ client[c].step = "executing"
    /\ tx' = [tx EXCEPT ![client[c].bucket] = "rolled_back"]
    /\ client' = [client EXCEPT ![c] = Idle]
    /\ UNCHANGED <<last, row, view, daemon, ghosts, kills, faults>>

-----------------------------------------------------------------------------
(* Kills, and the start of the daemon, which marks anew what is tracked.   *)
(* Of two apps that share an executable one wins.                          *)

KillClient(c) ==
    /\ client[c] # Idle /\ kills < MaxKills
    /\ kills' = kills + 1
    /\ client' = [client EXCEPT ![c] = Idle]
    /\ serving' = IF serving.client = c THEN [serving EXCEPT !.client = NoClient]
                  ELSE serving
    /\ UNCHANGED <<database, view, up, watch, marks, ghosts, faults>>

KillDaemon ==
    /\ up /\ kills < MaxKills
    /\ kills' = kills + 1
    /\ up' = FALSE /\ serving' = NoRequest
    /\ watch' = [e \in Exe |-> Unwatched] /\ marks' = {}
    /\ client' = [c \in Client |-> IF client[c].step = "waiting" THEN Idle ELSE client[c]]
    /\ UNCHANGED <<database, view, ghosts, faults>>

Mutant_ListAll == {a \in App : row[a].status # "absent"}
ListTracked == {a \in App : row[a].status = "tracking"}

StartDaemon(skipped) ==
    LET Armed(e) == {<<a, row[a].bucket>> :
                        a \in {b \in ListTracked : e \in row[b].paths /\ <<b, e>> \notin skipped}}
    IN
    /\ ~up /\ up' = TRUE
    /\ MayFail(skipped)
    /\ watch' \in {w \in [Exe -> UNION {Armed(e) : e \in Exe} \cup {Unwatched}] :
                      \A e \in Exe : IF Armed(e) = {} THEN w[e] = Unwatched
                                     ELSE w[e] \in Armed(e)}
    /\ marks' = {e \in Exe : Armed(e) # {}}
    /\ UNCHANGED <<database, view, serving, client, ghosts, kills>>

-----------------------------------------------------------------------------
(* The database has been initialised and the daemon is starting.           *)
Init ==
    /\ tx = [t \in Tx |-> "none"] /\ last = 0
    /\ row = [a \in App |-> Absent] /\ view = row
    /\ up = FALSE /\ serving = NoRequest
    /\ watch = [e \in Exe |-> Unwatched] /\ marks = {}
    /\ client = [c \in Client |-> Idle]
    /\ told = row /\ heldUp = {} /\ closings = [t \in Tx |-> 0]
    /\ kills = 0 /\ faults = 0

Serve ==
    \/ \E R \in SUBSET Exe : TrackCreate(R)
    \/ TrackRefused \/ TrackOpen \/ TrackRow \/ TrackCheckpoint
    \/ \E skipped \in SUBSET Exe : TrackWatch(skipped)
    \/ UntrackRefused \/ UntrackClose \/ UntrackRetire \/ UntrackReply
    \/ \E kept \in SUBSET Exe : UntrackUnwatch(kept)

Command(c) ==
    \/ \E kind \in {"track", "untrack", "rollback"}, a \in App : Ask(c, kind, a)
    \/ Load(c) \/ Execute(c) \/ Finish(c)
    \/ \E t \in Tx : Rollback(c, t)

Next ==
    \/ Serve
    \/ Checkpoint
    \/ \E c \in Client : Accept(c) \/ Command(c) \/ KillClient(c)
    \/ KillDaemon
    \/ \E skipped \in SUBSET (App \X Exe) : StartDaemon(skipped)

Spec == Init /\ [][Next]_vars

-----------------------------------------------------------------------------
Kind == {"none", "track", "untrack", "rollback", "engine"}
ClientStep == {"idle", "waiting", "closed", "loaded", "executing"}
ServingStep == {"none", "resolve", "created", "opened", "recorded", "visible",
                "check", "closed", "retired", "unwatched"}
TxStatus == {"none", "running", "tracking", "untracked", "rolled_back"}

CommandState == [step : ClientStep, kind : Kind, app : App \cup {"none"},
                 bucket : 0 .. MaxTx]
RequestState == [step : ServingStep, app : App \cup {"none"},
                 client : Client \cup {NoClient}, bucket : 0 .. MaxTx,
                 paths : SUBSET Exe]

TypeOK ==
    /\ tx \in [Tx -> TxStatus] /\ last \in 0 .. MaxTx
    /\ row \in [App -> Row] /\ view \in [App -> Row] /\ told \in [App -> Row]
    /\ up \in BOOLEAN
    /\ serving \in RequestState /\ client \in [Client -> CommandState]
    /\ watch \in [Exe -> (App \X Tx) \cup {Unwatched}] /\ marks \subseteq Exe
    /\ closings \in [Tx -> Nat] /\ heldUp \subseteq App /\ kills \in Nat /\ faults \in Nat

(* The statements of track_app and untrack_app are in an order that leaves *)
(* no row without its bucket and no open bucket behind an untracked row,   *)
(* wherever the daemon is killed and whoever else writes the status.       *)
RegistryOrder ==
    \A a \in App :
        /\ row[a].status = "tracking" =>
               tx[row[a].bucket] \in {"tracking", "untracked", "rolled_back"}
        /\ row[a].status = "untracked" =>
               tx[row[a].bucket] \in {"untracked", "rolled_back"}

(* Between requests, what the running daemon watches belongs to a tracked  *)
(* app, and each entry has its mark, also after a restart, after tracking  *)
(* again with other executables, and when marks have failed: an untracked  *)
(* app is never captured.                                                  *)
WatchedIsTracked ==
    up /\ serving.step = "none" =>
        \A e \in Exe : watch[e] # Unwatched =>
            row[watch[e][1]].status = "tracking" /\ e \in marks

(* Between requests, an executable that only one app has ever resolved to  *)
(* is marked for that app's bucket of now, unless fanotify_mark failed: a  *)
(* tracked app is captured, through restarts and other apps' requests.     *)
OnlyOf(a, e) == \A b \in App \ {a} : \A R \in Resolutions[b] : e \notin R

TrackedIsWatched ==
    up /\ serving.step = "none" /\ faults = 0 =>
        \A a \in App : \A e \in row[a].paths :
            row[a].status = "tracking" /\ OnlyOf(a, e) =>
                watch[e] = <<a, row[a].bucket>> /\ e \in marks

(* Once a request has been answered Ok, a client that opens the database   *)
(* as immutable finds its effect or that of a later request ("visible the  *)
(* moment this IPC call returns"), as long as no checkpoint of a request   *)
(* has been held up since the last complete one.                           *)
NotOlder(r, s) == \/ r.bucket > s.bucket
                  \/ r.bucket = s.bucket /\ (s.status = "untracked" => r.status = "untracked")

ReplyIsVisible == \A a \in App \ heldUp : NotOlder(view[a], told[a])

(* A bucket is handed to at most one untrack: the clients that race for    *)
(* `untrack --rollback` are answered Ok once for each period of tracking,  *)
(* also when the daemon was killed while it closed the bucket.             *)
ClosedOnce == \A t \in Tx : closings[t] <= 1
=============================================================================
