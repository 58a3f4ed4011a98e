-------------------------------- MODULE Hooks --------------------------------
(***************************************************************************)
(* The hooks pkgundo leaves with the package managers (commands/hook.rs,   *)
(* apt_hook.rs, dnf_hook.rs): what is newly and explicitly installed is    *)
(* tracked from then on, and whoever removes a tracked package is reminded *)
(* of `untrack --rollback`.  pacman and dnf5 say what they have installed  *)
(* and removed; with apt it is the difference between the packages before  *)
(* (Pre-Invoke, kept in a file) and after (Post-Invoke).                   *)
(*                                                                         *)
(* Actors: the package manager, which holds its lock from the first hook   *)
(* to the last; the hooks it runs; the daemon, which may die at any time;  *)
(* and users, who track and untrack by hand.  The database exists.         *)
(***************************************************************************)
EXTENDS Naturals, Sequences, FiniteSets, SequencesExt

CONSTANTS
    Package,
    Explicit,       \* what apt-mark, pacman -Qi or repoquery call asked for
    Detected,       \* the package managers that were found, in order
    Plugin,         \* dnf5 has its actions plugin
    NoFile,         \* there is no snapshot
    NoPackage,      \* no request is under way
    Transactions,   \* bound: transactions of a package manager
    Changes,        \* bound: packages configured, broken or removed
    Commands,       \* bound: track, untrack and install-hook by hand
    Faults          \* bound: steps of the hooks that fail, kills, crashes

PackageManager == {"pacman", "apt", "dnf5"}

ASSUME HooksAssumption ==
    /\ Explicit \subseteq Package /\ NoPackage \notin Package
    /\ \A S \in SUBSET Package : S # NoFile
    /\ Detected \in Seq(PackageManager) /\ Plugin \in BOOLEAN
    /\ \A n \in {Transactions, Changes, Commands, Faults} : n \in Nat

VARIABLES
    status,     \* [package -> absent, half (unpacked, or failed) or installed]
    files,      \* hook files that are there
    snapshot,   \* apt-snapshot
    tracked,    \* packages with a row in tracked_apps that is being tracked
    view,       \* ... as of the last checkpoint
    daemon,     \* the daemon is running
    pc,         \* where the transaction is
    pm,         \* whose transaction it is
    was,        \* what was installed when it began
    listing,    \* what apt's hook has read from dpkg-query
    due,        \* hooks to be run, with the packages they are given
    toTrack,    \* packages the running hook has yet to check
    opened,     \* what the running hook has read when it opened the database
    request,    \* the package the daemon is being asked to track
    settled,    \* ghost: seen by a Post-Invoke and left alone since
    stale,      \* ghost: packages have changed behind the snapshot's back
    spoilt,     \* ghost: the snapshot is what a failed write has left
    misled,     \* ghost: ... and this transaction was compared with that
    asked,      \* ghost: packages the daemon was asked to track in it
    skipped,    \* ghost: ... checked, and not asked for
    lookedUp,   \* ghost: ... looked up for a reminder
    failed,     \* ghost: a hook of this transaction has failed
    left        \* what is left of the bounds

packages == <<status, settled>>
registry == <<tracked, view, daemon>>
transaction == <<pm, was>>
tracking == <<toTrack, opened, request, asked, skipped, lookedUp>>
apt == <<snapshot, stale, spoilt, misled, listing>>
vars == <<packages, files, registry, pc, transaction, due, tracking, apt, failed, left>>

Installed == {p \in Package : status[p] = "installed"}

(* dpkg-query also names what has been removed and left its configuration. *)
Mutant_EveryStatus == {p \in Package : status[p] # "absent"}
PackageList == Installed

Spend(what) == left[what] > 0 /\ left' = [left EXCEPT ![what] = @ - 1]
NoFault == UNCHANGED <<left, failed>>
Missed == Spend("faults") /\ UNCHANGED failed
Fault == Spend("faults") /\ failed' = TRUE

-----------------------------------------------------------------------------
(* install-hook writes its files in order and stops at the first that      *)
(* fails, having looked for the plugin before the first; --remove looks at *)
(* every file it may have written.                                         *)

HookFiles(m) == CASE m = "pacman" -> <<"pacman install", "pacman remove">>
                  [] m = "apt" -> <<"apt">>
                  [] m = "dnf5" -> <<"dnf5">>

FilesBefore(i) == UNION {ToSet(HookFiles(Detected[j])) : j \in 1 .. i - 1}
FirstFiles(i, k) == {HookFiles(Detected[i])[n] : n \in 1 .. k}

InstallHook ==
    /\ pc = "idle" /\ Detected # <<>> /\ Spend("commands")
    /\ "dnf5" \in ToSet(Detected) => Plugin
    /\ \E i \in DOMAIN Detected : \E k \in 0 .. Len(HookFiles(Detected[i])) :
         files' = files \cup FilesBefore(i) \cup FirstFiles(i, k)
    /\ UNCHANGED <<packages, registry, pc, transaction, due, tracking, apt, failed>>

RemoveHook ==
    /\ pc = "idle" /\ Spend("commands")
    /\ LET all == <<"pacman install", "pacman remove", "apt", "dnf5">> IN
       \E n \in 0 .. Len(all) : files' = files \ ToSet(SubSeq(all, 1, n))
    /\ UNCHANGED <<packages, registry, pc, transaction, due, tracking, apt, failed>>

-----------------------------------------------------------------------------
(* The package manager.  Statuses change within a transaction, or by a     *)
(* dpkg, or a package manager without hooks, that somebody runs by hand.   *)

SetStatus(p, s) ==
    /\ pc \in {"idle", "change"} /\ Spend("changes")
    /\ status[p] # s /\ status' = [status EXCEPT ![p] = s]
    /\ settled' = settled \ {p}
    /\ stale' = (stale \/ pc = "idle" \/ pm # "apt")
    /\ UNCHANGED <<files, registry, pc, transaction, due, tracking, snapshot, spoilt, misled,
                   listing, failed>>

Configure(p) == SetStatus(p, "installed")
Break(p) == SetStatus(p, "half")
Take(p) == SetStatus(p, "absent")

Begin(m) ==
    /\ pc = "idle" /\ ToSet(HookFiles(m)) \cap files # {} /\ Spend("transactions")
    /\ pm' = m /\ was' = Installed
    /\ pc' = IF m = "apt" THEN "list" ELSE "change"
    /\ UNCHANGED <<packages, files, registry, due, tracking, apt, failed>>

(* What it gives each hook it has a file for.  dnf5 runs one for every     *)
(* package that comes in and one for every package that goes out: an       *)
(* upgrade or a reinstallation is both.                                    *)
Targets(m, again) ==
    LET new == (Installed \ was) \cup again
        gone == (was \ Installed) \cup again
        Each(k, S) == {[kind |-> k, names |-> {p}] : p \in S} IN
    {h \in IF m = "dnf5" THEN Each("track", new) \cup Each("remind", gone)
           ELSE {[kind |-> "track", names |-> new], [kind |-> "remind", names |-> gone]} :
        /\ h.names # {}
        /\ m = "pacman" => (IF h.kind = "track" THEN "pacman install" ELSE "pacman remove") \in files}

Commit ==
    /\ pc = "change"
    /\ \/ pm = "apt" /\ pc' = "diff" /\ UNCHANGED <<due, settled>>
       \/ /\ pm # "apt" /\ pc' = "hooks"
          /\ \E again \in IF pm = "dnf5" THEN SUBSET (was \cap Installed) ELSE {{}} :
               due' = Targets(pm, again) /\ settled' = settled \ again
    /\ UNCHANGED <<status, files, registry, transaction, tracking, apt, failed, left>>

Idle == pc = "hooks" /\ toTrack = {} /\ request = NoPackage

Over ==
    /\ pc' = "idle" /\ pm' = "apt" /\ was' = {} /\ listing' = {} /\ due' = {}
    /\ toTrack' = {} /\ opened' = {} /\ request' = NoPackage
    /\ asked' = {} /\ skipped' = {} /\ lookedUp' = {} /\ misled' = FALSE /\ failed' = FALSE
    /\ UNCHANGED <<status, files, registry, snapshot, spoilt>>

End ==
    /\ Idle /\ due = {} /\ Over
    /\ settled' = IF pm = "apt" THEN Installed ELSE settled
    /\ UNCHANGED <<stale, left>>

(* The user or the machine stops it.                                       *)
Stop ==
    /\ pc # "idle" /\ Spend("faults") /\ Over
    /\ stale' = (stale \/ (pm = "apt" /\ pc \in {"change", "diff", "prime"}))
    /\ UNCHANGED settled

-----------------------------------------------------------------------------
(* apt.  fs::write that fails leaves the file as it was, or with part of   *)
(* the list, for it empties the file before it fills it.  Post-Invoke goes *)
(* on all the same.                                                        *)

Mutant_KeepOld(S) == /\ snapshot' = IF snapshot = NoFile THEN S ELSE snapshot
                     /\ stale' = FALSE /\ spoilt' = FALSE /\ NoFault
WriteSnapshot(S) ==
    \/ snapshot' = S /\ stale' = FALSE /\ spoilt' = FALSE /\ NoFault
    \/ /\ \E part \in SUBSET S \ {S} : snapshot' = part
       /\ Missed
       /\ stale' = FALSE /\ spoilt' = TRUE
    \/ /\ UNCHANGED snapshot /\ Missed
       /\ stale' = (stale \/ pc = "prime") /\ spoilt' = (spoilt \/ pc = "prime")

PreList ==
    /\ pc = "list"
    /\ \/ listing' = PackageList /\ pc' = "write" /\ NoFault
       \/ pc' = "change" /\ UNCHANGED listing /\ Missed
    /\ UNCHANGED <<packages, files, registry, transaction, due, tracking, snapshot, stale, spoilt,
                   misled>>

PreWrite ==
    /\ pc = "write" /\ pc' = "change" /\ WriteSnapshot(listing)
    /\ UNCHANGED <<packages, files, registry, transaction, due, tracking, listing, misled>>

(* diff_package_snapshots, and what is done with the two halves of it.     *)
Mutant_DiffSwapped(after, before) ==
    {h \in {[kind |-> "track", names |-> before \ after],
            [kind |-> "remind", names |-> after \ before]} : h.names # {}}
Diff(after, before) ==
    {h \in {[kind |-> "track", names |-> after \ before],
            [kind |-> "remind", names |-> before \ after]} : h.names # {}}

PostDiff ==
    /\ pc = "diff" /\ snapshot # NoFile
    /\ listing' = PackageList /\ due' = Diff(PackageList, snapshot)
    /\ pc' = "prime" /\ failed' = stale /\ misled' = spoilt
    /\ UNCHANGED <<packages, files, registry, transaction, tracking, snapshot, stale, spoilt, left>>

PostGivesUp ==
    /\ pc = "diff" /\ Over
    /\ \/ snapshot = NoFile /\ UNCHANGED left
       \/ Spend("faults")
    /\ stale' = TRUE /\ UNCHANGED settled

PostPrime ==
    /\ pc = "prime" /\ pc' = "hooks" /\ WriteSnapshot(listing)
    /\ UNCHANGED <<packages, files, registry, transaction, due, tracking, listing, misled>>

-----------------------------------------------------------------------------
(* Reminders.  apt's one hook reminds first, and ends when the database    *)
(* cannot be read.                                                         *)

Remind(h) ==
    /\ Idle /\ h \in due /\ h.kind = "remind"
    /\ \/ due' = due \ {h} /\ lookedUp' = lookedUp \cup h.names /\ NoFault
       \/ /\ due' = (IF pm = "apt" THEN {} ELSE due \ {h})
          /\ UNCHANGED lookedUp /\ Fault
    /\ UNCHANGED <<packages, files, registry, pc, transaction, toTrack, opened, request, asked,
                   skipped, apt>>

-----------------------------------------------------------------------------
(* auto_track_new_installs.  Without a database it does without the check, *)
(* and a query that fails ends it.  A connection that is immutable does    *)
(* not see what is checkpointed later.  pacman's hook does nothing when    *)
(* the daemon has left no socket; behind the socket of a daemon that was   *)
(* killed each request fails by itself.                                    *)

Mutant_TrackEvery(h) == h.names
Wanted(h) == h.names \cap Explicit

StartTrack(h) ==
    /\ Idle /\ h \in due /\ h.kind = "track"
    /\ pm = "apt" => due = {h}
    /\ due' = due \ {h}
    /\ \/ toTrack' = Wanted(h) /\ opened' = view /\ UNCHANGED skipped /\ NoFault
       \/ /\ pm = "pacman" /\ ~daemon
          /\ toTrack' = {} /\ opened' = {} /\ skipped' = skipped \cup Wanted(h) /\ NoFault
       \/ toTrack' = Wanted(h) /\ opened' = {} /\ UNCHANGED skipped /\ Fault
       \/ toTrack' = {} /\ opened' = view /\ UNCHANGED skipped /\ Fault
    /\ UNCHANGED <<packages, files, registry, pc, transaction, request, asked, lookedUp, apt>>

AlreadyTracked(p) == p \in opened

Check(p) ==
    /\ pc = "hooks" /\ request = NoPackage /\ p \in toTrack
    /\ \/ /\ ~AlreadyTracked(p) /\ daemon /\ NoFault
          /\ request' = p /\ asked' = asked \cup {p}
          /\ toTrack' = toTrack \ {p} /\ UNCHANGED skipped
       \/ /\ AlreadyTracked(p) \/ ~daemon
          /\ skipped' = skipped \cup {p} /\ NoFault
          /\ toTrack' = toTrack \ {p} /\ UNCHANGED <<asked, request>>
       \/ toTrack' = {} /\ UNCHANGED <<asked, request, skipped>> /\ Fault
    /\ UNCHANGED <<packages, files, registry, pc, transaction, due, opened, lookedUp, apt>>

-----------------------------------------------------------------------------
(* The daemon.  A package that is tracked already gets another bucket.     *)

Outside == <<packages, files, pc, transaction, due, toTrack, opened, asked, skipped, lookedUp,
             apt, failed>>

Answer ==
    /\ daemon /\ request # NoPackage /\ request' = NoPackage
    /\ \/ tracked' = tracked \cup {request} /\ view' \in {view, tracked'}
       \/ UNCHANGED <<tracked, view>>
    /\ UNCHANGED <<Outside, daemon, left>>

(* The connection is closed, and that is an answer too.                    *)
Mutant_WaitOn == request
EndOfStream == NoPackage

Crash ==
    /\ daemon /\ daemon' = FALSE /\ Spend("faults")
    /\ request' = EndOfStream
    /\ UNCHANGED <<Outside, tracked, view>>

Restart ==
    /\ ~daemon /\ daemon' = TRUE
    /\ UNCHANGED <<Outside, tracked, view, request, left>>

Checkpoint ==
    /\ daemon /\ view # tracked /\ view' = tracked
    /\ UNCHANGED <<Outside, tracked, daemon, request, left>>

UserTrack(p) ==
    /\ Spend("commands") /\ daemon /\ p \notin tracked /\ status[p] # "absent"
    /\ tracked' = tracked \cup {p}
    /\ UNCHANGED <<Outside, view, daemon, request>>

UserUntrack(p) ==
    /\ Spend("commands") /\ daemon /\ p \in tracked
    /\ tracked' = tracked \ {p}
    /\ UNCHANGED <<Outside, view, daemon, request>>

-----------------------------------------------------------------------------
Init ==
    /\ status \in [Package -> {"absent", "installed"}]
    /\ files = {} /\ snapshot = NoFile
    /\ tracked = {} /\ view = {} /\ daemon = TRUE
    /\ pc = "idle" /\ pm = "apt" /\ was = {} /\ listing = {}
    /\ due = {} /\ toTrack = {} /\ opened = {} /\ request = NoPackage
    /\ settled = {} /\ stale = TRUE /\ spoilt = FALSE /\ misled = FALSE
    /\ asked = {} /\ skipped = {} /\ lookedUp = {} /\ failed = FALSE
    /\ left = [transactions |-> Transactions, changes |-> Changes,
                commands |-> Commands, faults |-> Faults]

Run(h) == Remind(h) \/ StartTrack(h)

HookStep == \/ PreList \/ PreWrite \/ PostDiff \/ PostGivesUp \/ PostPrime
            \/ \E h \in due : Run(h)
            \/ \E p \in Package : Check(p)
            \/ End

Next == \/ InstallHook \/ RemoveHook
        \/ \E p \in Package : Configure(p) \/ Break(p) \/ Take(p)
        \/ \E m \in ToSet(Detected) : Begin(m)
        \/ Commit \/ Stop \/ HookStep
        \/ Answer \/ Crash \/ Restart \/ Checkpoint
        \/ \E p \in Package : UserTrack(p) \/ UserUntrack(p)

(* The hooks are run to their end and the daemon answers what it is asked. *)
Fairness == WF_vars(HookStep) /\ WF_vars(Answer)

Spec == Init /\ [][Next]_vars /\ Fairness

-----------------------------------------------------------------------------
TypeOK ==
    /\ status \in [Package -> {"absent", "half", "installed"}]
    /\ snapshot = NoFile \/ snapshot \subseteq Package
    /\ files \subseteq {"pacman install", "pacman remove", "apt", "dnf5"}
    /\ tracked \subseteq Package /\ view \subseteq Package /\ daemon \in BOOLEAN
    /\ pc \in {"idle", "list", "write", "change", "diff", "prime", "hooks"}
    /\ pm \in PackageManager /\ was \subseteq Package /\ listing \subseteq Package
    /\ due \subseteq [kind : {"track", "remind"}, names : SUBSET Package]
    /\ toTrack \subseteq Explicit /\ opened \subseteq Package
    /\ request \in Explicit \cup {NoPackage}
    /\ settled \subseteq Installed /\ lookedUp \subseteq Package
    /\ asked \subseteq Explicit /\ skipped \subseteq Explicit
    /\ \A b \in {stale, spoilt, misled, failed} : b \in BOOLEAN
    /\ left \in [{"transactions", "changes", "commands", "faults"} -> Nat]

(* When the last hook is through, the daemon has been asked to track       *)
(* whatever the transaction has installed and the user asked for, unless   *)
(* its turn came when it was tracked already by what the hook had opened,  *)
(* or when no daemon was running, which the hooks skip on purpose.  That   *)
(* holds also when Pre-Invoke came to nothing, and after a write of the    *)
(* snapshot that failed; not when a step of the hooks has failed, and not  *)
(* when besides the missed Pre-Invoke packages changed without hooks.      *)
InstallIsTracked ==
    Idle /\ due = {} /\ ~failed /\ (pm = "pacman" => "pacman install" \in files) =>
        (Installed \ was) \cap Explicit \subseteq asked \cup skipped

(* What one Post-Invoke has been through with is not asked for again until *)
(* a package manager has done something about it, so that what a user has  *)
(* untracked stays untracked, whichever Pre-Invoke is missed.  The one     *)
(* exception is a transaction that is compared with what a failed write    *)
(* has left: that one asks for everything the snapshot has lost.  (To dnf5 *)
(* an upgrade is something done: it asks again for what it upgrades.)      *)
NotAskedAgain == ~misled => asked \cap settled = {}

(* When the last hook is through, every package the transaction has taken  *)
(* away, or left without all but its configuration, has been looked up for *)
(* a reminder, under the same conditions.                                  *)
RemovalIsReminded ==
    Idle /\ due = {} /\ ~failed /\ ~misled /\ (pm = "pacman" => "pacman remove" \in files) =>
        was \ Installed \subseteq lookedUp

(* No hook keeps the package manager waiting for ever, whatever becomes of *)
(* the daemon.                                                             *)
HooksEnd == pc \notin {"idle", "change"} ~> pc \in {"idle", "change"}
=============================================================================
