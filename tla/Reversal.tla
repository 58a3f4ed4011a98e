------------------------------ MODULE Reversal -------------------------------
(***************************************************************************)
(* What an install does beside files, and step F of its rollback: users    *)
(* and groups, found by comparing /etc/passwd and /etc/group before and    *)
(* after (user_tracker, commands/run.rs), and services, found by looking   *)
(* for systemctl among the processes of the command (service_tracker).     *)
(*                                                                         *)
(* A behaviour has four actors: the command; pkgundo, first `run` and then *)
(* `rollback <txid>`, either of which may be killed and the latter be      *)
(* started again; the package manager's removal; and other administrators, *)
(* who change accounts and units whenever they like.                       *)
(***************************************************************************)
EXTENDS Naturals, Sequences

CONSTANTS
    User, Group,    \* names in /etc/passwd and in /etc/group
    PrimaryOf,      \* [User -> its primary group]
    Line,           \* what a line says beside the name
    Absent,         \* no line of that name
    Unit,           \* services
    Pid,            \* processes of the command, as recorded in process_tree
    NoCall,         \* a process that is no systemctl
    Mode,           \* of Conservative, Clean and Nuclear
    InitialAccounts,\* the accounts a behaviour may start from
    Budget          \* bound: acts of the command and of other administrators,
                    \* kills of pkgundo, failing tools and database errors

Account == User \cup Group
Verb == {"enable", "disable", "start", "stop", "restart"}
Call == [unit : Unit, verb : Verb]
Aspect == {"enabled", "active"}
Units == [Unit -> [Aspect -> BOOLEAN]]
Kind == {"added", "removed"}

ASSUME ReversalAssumption ==
    /\ User \cap Group = {} /\ Unit \cap (User \cup Group) = {}
    /\ PrimaryOf \in [User -> Group]
    /\ "Conservative" \in Mode
    /\ Absent \notin Line /\ NoCall \notin Call
    /\ InitialAccounts \subseteq [User \cup Group -> Line \cup {Absent}]
    /\ Budget \in Nat

VARIABLES
    line,       \* /etc/passwd and /etc/group: [Account -> Line or Absent]
    unit,       \* [Unit -> [Aspect -> BOOLEAN]]
    call,       \* [Pid -> the systemctl call the process was started with]
    pc,         \* the next thing pkgundo does
    status,     \* of the transaction
    pre,        \* the snapshot taken before the command, if it could be read
    toRecord,   \* the events of the comparison that are not in the table yet
    toDetect,   \* rows of process_tree that are not looked up yet
    userEvents, \* the tables user_events ...
    unitEvents, \* ... and service_events, by timestamp
    inv,        \* the rollback's command line
    cursor,     \* the service event to be reversed
    toReverse,  \* the user events to be reversed
    before,     \* ghost: accounts and units when the command was started
    after,      \* ghost: accounts when the comparison was made
    excused,    \* ghost: what somebody else has changed since, or a fault hit
    spent       \* of Budget

world == <<line, unit, call>>
run == <<pre, toRecord, toDetect, userEvents, unitEvents>>
rollback == <<inv, cursor, toReverse>>
ghosts == <<before, after, excused>>
vars == <<world, pc, status, run, rollback, ghosts, spent>>

NoSnapshot == <<>>
NoRollback == [mode |-> "Conservative", dry |-> TRUE]

-----------------------------------------------------------------------------
(* systemctl, userdel and groupdel.                                        *)

AspectOf(v) == IF v \in {"enable", "disable"} THEN "enabled" ELSE "active"
Effect(c) == [unit EXCEPT ![c.unit][AspectOf(c.verb)] = c.verb \in {"enable", "start", "restart"}]

(* The state an action is assumed to have found.                           *)
PreState(v) == v \in {"disable", "stop"}

Inverse(v) == CASE v = "enable" -> "disable" [] v = "disable" -> "enable"
                [] v = "start" -> "stop" [] OTHER -> "none"

Members(g) == {u \in User : PrimaryOf[u] = g /\ line[u] # Absent}

(* userdel may take the user's own group with it; groupdel refuses a group *)
(* that is some user's primary one.                                        *)
Deletions(a) ==
    LET without(S) == [b \in Account |-> IF b \in S THEN Absent ELSE line[b]]
    IN  IF line[a] = Absent THEN {}
        ELSE IF a \in Group THEN IF Members(a) = {} THEN {without({a})} ELSE {}
        ELSE {without({a})} \cup
             IF Members(PrimaryOf[a]) = {a} THEN {without({a, PrimaryOf[a]})} ELSE {}

(* A line is added, or replaced by another of the same name.               *)
Editions(a) ==
    {[line EXCEPT ![a] = l] : l \in
        {l \in Line \ {line[a]} : a \in User => line[PrimaryOf[a]] # Absent}}

-----------------------------------------------------------------------------
(* The command, and everybody else.                                        *)

Spend == spent < Budget /\ spent' = spent + 1
Free == spent' = spent

Act == pc = "running" /\ Spend
ByCommand == UNCHANGED <<pc, status, run, rollback, ghosts>>

ChangeAccount(a) ==
    /\ Act
    /\ line' \in Editions(a) \cup Deletions(a)
    /\ UNCHANGED <<unit, call>> /\ ByCommand

Systemctl(p, c) ==
    /\ Act /\ call[p] = NoCall
    /\ call' = [call EXCEPT ![p] = c]
    /\ unit' = Effect(c)
    /\ UNCHANGED line /\ ByCommand

CommandEnds ==
    /\ pc = "running" /\ pc' = "compare"
    /\ UNCHANGED <<world, status, run, rollback, ghosts, spent>>

ByOthers == UNCHANGED <<call, pc, status, run, rollback, before, after>>

OtherAccount(a) ==
    /\ Spend
    /\ line' \in Editions(a) \cup Deletions(a)
    /\ excused' = excused \cup {b \in Account : line'[b] # line[b]}
    /\ UNCHANGED unit /\ ByOthers

OtherUnit(c) ==
    /\ Spend
    /\ unit' = Effect(c) /\ excused' = excused \cup {c.unit}
    /\ UNCHANGED line /\ ByOthers

-----------------------------------------------------------------------------
(* pkgundo run: snapshot, command, comparison, detection.  A snapshot that *)
(* cannot be read, and a table that cannot be written, are passed over.    *)

Snapshot ==
    /\ pc = "begin" /\ pc' = "running" /\ status' = "Running"
    /\ before' = [line |-> line, unit |-> unit]
    /\ \/ pre' = line /\ Free /\ UNCHANGED excused
       \/ pre' = NoSnapshot /\ Spend /\ excused' = excused \cup Account
    /\ UNCHANGED <<world, toRecord, toDetect, userEvents, unitEvents, rollback, after>>

(* diff_snapshots: a line that is in one file and not in the other.  A     *)
(* line that changed is both.                                              *)
Mutant_DiffAgainstNothing(old, new) ==
    {e \in Kind \X Account : e[1] = "added" /\ new[e[2]] # Absent}
Diff(old, new) ==
    {e \in Kind \X Account :
        IF e[1] = "added" THEN new[e[2]] \notin {Absent, old[e[2]]}
                          ELSE old[e[2]] \notin {Absent, new[e[2]]}}

Compare ==
    /\ pc = "compare" /\ pc' = "record"
    /\ after' = line
    /\ \/ pre # NoSnapshot /\ toRecord' = Diff(pre, line) /\ Free /\ UNCHANGED excused
       \/ pre = NoSnapshot /\ toRecord' = {} /\ Free /\ UNCHANGED excused
       \/ pre # NoSnapshot /\ toRecord' = {} /\ Spend /\ excused' = excused \cup Account
    /\ UNCHANGED <<world, status, pre, toDetect, userEvents, unitEvents, rollback, before>>

(* The order of the events: users before groups, and what was added before *)
(* what was removed.                                                       *)
Rank(e) == (IF e[2] \in User THEN 0 ELSE 2) + (IF e[1] = "added" THEN 0 ELSE 1)
First(S) == {e \in S : \A f \in S : Rank(e) <= Rank(f)}

RecordEvent(e) ==
    /\ pc = "record" /\ e \in First(toRecord)
    /\ userEvents' = userEvents \cup {e}
    /\ toRecord' = toRecord \ {e}
    /\ UNCHANGED <<world, pc, status, pre, toDetect, unitEvents, rollback, ghosts, spent>>

(* An insertion that fails ends the loop; its error is dropped.            *)
RecordFails ==
    /\ pc = "record" /\ toRecord # {} /\ Spend
    /\ toRecord' = {} /\ excused' = excused \cup {e[2] : e \in toRecord}
    /\ UNCHANGED <<world, pc, status, pre, toDetect, userEvents, unitEvents, rollback,
                   before, after>>

Recorded ==
    /\ pc = "record" /\ toRecord = {} /\ pc' = "detect"
    /\ toDetect' = Pid
    /\ UNCHANGED <<world, status, pre, toRecord, userEvents, unitEvents, rollback, ghosts,
                   spent>>

(* UNIQUE(txid, service_name, action), INSERT OR IGNORE.                   *)
Insert(s, c) == IF \E i \in DOMAIN s : s[i] = c THEN s ELSE Append(s, c)

(* What /proc says of the pid now: the process is still there, or it is    *)
(* gone (or the poll had never seen it), or the pid is another process's.  *)
Detect(p) ==
    /\ pc = "detect" /\ p \in toDetect
    /\ toDetect' = toDetect \ {p} /\ call' = [call EXCEPT ![p] = NoCall]
    /\ \/ UNCHANGED unitEvents /\ Free
       \/ call[p] # NoCall /\ unitEvents' = Insert(unitEvents, call[p]) /\ Free
       \/ Spend /\ \E c \in Call : unitEvents' = Insert(unitEvents, c)
    /\ UNCHANGED <<line, unit, pc, status, pre, toRecord, userEvents, rollback, ghosts>>

Finalize ==
    /\ pc = "detect" /\ toDetect = {} /\ pc' = "idle"
    /\ status' = "Completed"
    /\ UNCHANGED <<world, run, rollback, ghosts, spent>>

-----------------------------------------------------------------------------
(* pkgundo rollback <txid>.                                                *)

Ends == pc' = "idle" /\ inv' = NoRollback /\ cursor' = 0 /\ toReverse' = {}

Begin(m, dry) ==
    /\ pc = "idle" /\ status # "RolledBack"
    /\ pc' = "remove" /\ inv' = [mode |-> m, dry |-> dry]
    /\ UNCHANGED <<world, status, run, cursor, toReverse, ghosts, spent>>

(* Steps C to E: the package's removal scripts may delete accounts and     *)
(* stop or disable units; the files are Rollback's.  Then the services'    *)
(* events are read.                                                        *)
Off == {w \in Units : \A u \in Unit, k \in Aspect : w[u][k] => unit[u][k]}

Remove ==
    /\ pc = "remove" /\ pc' = "services"
    /\ IF inv.dry THEN UNCHANGED <<line, unit>>
       ELSE /\ unit' \in Off
            /\ \/ UNCHANGED line
               \/ \E a \in Account : line' \in Deletions(a)
    /\ excused' = {x \in excused : x \notin Unit}
    /\ cursor' = Len(unitEvents)
    /\ UNCHANGED <<call, status, run, inv, toReverse, before, after, spent>>

Mutant_FirstEventFirst(k) == Len(unitEvents) + 1 - k
EventAt(k) == k

(* rollback_service_events: the last event first, one systemctl for each   *)
(* that has an inverse; its failure is logged.                             *)
Reverse ==
    LET c == unitEvents[EventAt(cursor)]
        undo == [unit |-> c.unit, verb |-> Inverse(c.verb)]
    IN  /\ pc = "services" /\ cursor > 0
        /\ cursor' = cursor - 1
        /\ IF undo.verb = "none" \/ inv.dry THEN UNCHANGED <<unit, excused>> /\ Free
           ELSE \/ unit' = Effect(undo) /\ UNCHANGED excused /\ Free
                \/ UNCHANGED unit /\ Spend /\ excused' = excused \cup {c.unit}
        /\ UNCHANGED <<line, call, pc, status, run, inv, toReverse, before, after>>

(* An error in reading either table is logged and its events are left.     *)
ServicesUnread ==
    /\ pc = "services" /\ cursor = Len(unitEvents) /\ cursor > 0 /\ Spend
    /\ cursor' = 0 /\ excused' = excused \cup Unit
    /\ UNCHANGED <<world, pc, status, run, inv, toReverse, before, after>>

Willing == inv.mode \in {"Clean", "Nuclear"}

ServicesDone ==
    /\ pc = "services" /\ cursor = 0 /\ pc' = "users"
    /\ \/ toReverse' = (IF Willing THEN userEvents ELSE {}) /\ Free /\ UNCHANGED excused
       \/ Willing /\ userEvents # {} /\ toReverse' = {} /\ Spend
          /\ excused' = excused \cup Account
    /\ UNCHANGED <<world, status, run, inv, cursor, before, after>>

(* rollback_user_events: what was added is deleted, what was removed is    *)
(* not restored.  A tool that refuses is logged; so is one that fails.     *)
Mutant_GroupsFirst(S) == {e \in S : e[2] \in Group \/ \A f \in S : f[2] \in User}
NextUp(S) == First(S)

ReverseUser(e) ==
    /\ pc = "users" /\ e \in NextUp(toReverse)
    /\ toReverse' = toReverse \ {e}
    /\ IF e[1] # "added" \/ inv.dry \/ Deletions(e[2]) = {}
       THEN UNCHANGED <<line, excused>> /\ Free
       ELSE \/ line' \in Deletions(e[2]) /\ UNCHANGED excused /\ Free
            \/ UNCHANGED line /\ Spend /\ excused' = excused \cup {e[2]}
    /\ UNCHANGED <<unit, call, pc, status, run, inv, cursor, before, after>>

(* Step G looks for broken links and changes nothing.                      *)
Finish ==
    /\ pc = "users" /\ toReverse = {}
    /\ status' = IF inv.dry THEN status ELSE "RolledBack"
    /\ Ends
    /\ UNCHANGED <<world, run, ghosts, spent>>

(* A kill ends `run` where it is, with the command's work done and some of *)
(* it unrecorded; or a rollback, which may be started again.  So does an   *)
(* error that is passed on: a removal that cannot be run, a last update.   *)
Kill ==
    /\ pc \notin {"begin", "idle"} /\ Spend
    /\ Ends
    /\ toRecord' = {} /\ toDetect' = {} /\ call' = [p \in Pid |-> NoCall]
    /\ excused' = excused \cup (IF pc \in {"running", "compare"} THEN Account
                                ELSE {e[2] : e \in toRecord})
    /\ UNCHANGED <<line, unit, status, pre, userEvents, unitEvents, before, after>>

-----------------------------------------------------------------------------
Init ==
    /\ line \in InitialAccounts
    /\ \A u \in User : line[u] # Absent => line[PrimaryOf[u]] # Absent
    /\ unit \in Units
    /\ call = [p \in Pid |-> NoCall]
    /\ pc = "begin" /\ status = "none"
    /\ pre = NoSnapshot /\ toRecord = {} /\ toDetect = {}
    /\ userEvents = {} /\ unitEvents = <<>>
    /\ inv = NoRollback /\ cursor = 0 /\ toReverse = {}
    /\ before = [line |-> line, unit |-> unit] /\ after = line /\ excused = {}
    /\ spent = 0

Command == \/ \E a \in Account : ChangeAccount(a)
           \/ \E p \in Pid, c \in Call : Systemctl(p, c)
           \/ CommandEnds

Others == \/ \E a \in Account : OtherAccount(a)
          \/ \E c \in Call : OtherUnit(c)

RunStep == \/ Snapshot \/ Compare \/ RecordFails \/ Recorded \/ Finalize
           \/ \E e \in toRecord : RecordEvent(e)
           \/ \E p \in Pid : Detect(p)

RollbackStep == \/ Remove \/ Reverse \/ ServicesUnread \/ ServicesDone \/ Finish
                \/ \E e \in toReverse : ReverseUser(e)

Next == \/ Command \/ Others \/ RunStep \/ RollbackStep \/ Kill
        \/ \E m \in Mode, dry \in BOOLEAN : Begin(m, dry)

Spec == Init /\ [][Next]_vars

-----------------------------------------------------------------------------
TypeOK ==
    /\ line \in [Account -> Line \cup {Absent}]
    /\ unit \in Units
    /\ call \in [Pid -> Call \cup {NoCall}]
    /\ pc \in {"begin", "running", "compare", "record", "detect", "idle", "remove",
               "services", "users"}
    /\ status \in {"none", "Running", "Completed", "RolledBack"}
    /\ pre \in [Account -> Line \cup {Absent}] \cup {NoSnapshot}
    /\ toRecord \subseteq Kind \X Account /\ userEvents \subseteq Kind \X Account
    /\ toReverse \subseteq userEvents
    /\ toDetect \subseteq Pid
    /\ unitEvents \in Seq(Call)
    /\ \A i, j \in DOMAIN unitEvents : unitEvents[i] = unitEvents[j] => i = j
    /\ inv \in [mode : Mode, dry : BOOLEAN]
    /\ cursor \in 0 .. Len(unitEvents)
    /\ before \in [line : [Account -> Line \cup {Absent}], unit : Units]
    /\ after \in [Account -> Line \cup {Absent}]
    /\ excused \subseteq Account \cup Unit
    /\ spent \in Nat

Changed(a) == pre # NoSnapshot /\ after[a] \notin {Absent, pre[a]}

(* An account that had the same line before the command and after it is    *)
(* never deleted by a rollback, whoever else changed it since, how often   *)
(* the rollback is killed and started again, and in whatever mode; except  *)
(* a group that userdel takes along with a user it belonged to.            *)
StableKept ==
    [][pc = "users" /\ spent' = spent =>
          \A a \in Account : line'[a] # line[a] =>
              /\ Willing /\ ~inv.dry
              /\ Changed(a) \/ \E u \in User : PrimaryOf[u] = a /\ Changed(u)]_vars

Finishing == status # "RolledBack" /\ status' = "RolledBack"

(* Every account the command added is gone when a clean rollback marks the *)
(* transaction RolledBack (after which there is no other), in spite of     *)
(* kills of run and of earlier rollbacks: unless it could not be recorded, *)
(* its deletion failed, or somebody else changed it; a group, also for     *)
(* what held up a user it is the primary group of.                         *)
AddedAreGone ==
    [][Finishing /\ Willing =>
          \A a \in Account : before.line[a] = Absent /\ after[a] # Absent =>
              \/ line[a] = Absent \/ a \in excused
              \/ \E u \in excused \cap User : PrimaryOf[u] = a]_vars

EventsOf(u, k) == {i \in DOMAIN unitEvents : unitEvents[i].unit = u
                                             /\ AspectOf(unitEvents[i].verb) = k}

(* If the first event recorded of a unit has an inverse and the state it   *)
(* is assumed to have found is the one the unit was in before the command, *)
(* that state is restored, whatever further actions were recorded, whatever*)
(* the package's removal did, and however often the rollback was killed.   *)
ServicesRestored ==
    [][Finishing =>
          \A u \in Unit \ excused, k \in Aspect : \A i \in EventsOf(u, k) :
              (/\ \A j \in EventsOf(u, k) : i <= j
               /\ Inverse(unitEvents[i].verb) # "none"
               /\ before.unit[u][k] = PreState(unitEvents[i].verb))
              => unit[u][k] = before.unit[u][k]]_vars

(* CONTEXT.md:674 "never touch unrelated user data", user_tracker/mod.rs:222*)
(* "remove added users/groups": a rollback nobody interferes with deletes  *)
(* no user who was there before the command.                               *)
ExistingKept ==
    [][pc = "users" /\ excused' = {} =>
          \A u \in User : before.line[u] # Absent /\ line[u] # Absent => line'[u] # Absent]_vars
=============================================================================
