------------------------------ MODULE Rollback ------------------------------
(***************************************************************************)
(* The rollback engine (rollback/mod.rs) over one recorded transaction,    *)
(* with what it reads (mutation journal, pre-scan fingerprints and blobs)  *)
(* and what it writes (the disk, the archive, the transaction's status).   *)
(*                                                                         *)
(* A behaviour has three actors:                                           *)
(*   - the monitored command (or tracked app), which changes files while   *)
(*     every change is journalled, until it exits;                         *)
(*   - pkgundo: `rollback <txid>` / `untrack --rollback`, one file system  *)
(*     or database operation at a time, and `recover <txid>`; any of them  *)
(*     may be killed between two operations, meet an I/O error, and be     *)
(*     started again;                                                      *)
(*   - the user, who edits files after the command has exited.             *)
(***************************************************************************)
EXTENDS Naturals, Sequences, FiniteSets

CONSTANTS
    Path,           \* the paths of the file system
    File,           \* contents of a regular file
    Link,           \* symbolic links ...
    Target,         \* ... and the path each of them points to
    Dir,            \* directories, as contents of a path
    Large,          \* the contents above MAX_BLOB_SIZE
    Absent,         \* nothing at the path
    Torn,           \* a regular file whose writer died half way
    Nothing,        \* no fingerprint, no blob, no archived copy, nothing owed
    NoHash,         \* a fingerprint without a sha256 (a symlink's)
    PlainMeta,      \* a metadata sidecar without symlink_target
    Category,       \* [Path -> {"NeverTouch", "Skip", "Managed"}]
    Scanned,        \* the paths pre_scan_configs visits
    Package,        \* the paths the package manager's removal may delete
    GroupKey,       \* [Path -> a review group, or Nothing]
    Origins,        \* subset of {"run", "tracking"}: whose transaction it is
    InitialDisks,   \* the file systems a behaviour may start from
    Invocations,    \* the rollback command lines tried
    MaxEvents,      \* bound: journalled mutations
    MaxEdits,       \* bound: user edits
    MaxCrashes,     \* bound: kills of the engine
    MaxFaults       \* bound: I/O errors met by the engine

Regular == File \cup {Torn}
Content == Regular \cup Link \cup Dir
Mode == {"Conservative", "Clean", "Nuclear"}
Op == {"create", "modify", "delete", "rename_to", "rename_from"}
Result == {"Removed", "Archived", "Restored", "Skipped", "Failed"}

Invocation == [mode : Mode, dry : BOOLEAN, home : BOOLEAN,
               filtered : BOOLEAN, groups : SUBSET {GroupKey[p] : p \in Path}]

(***************************************************************************)
(* What one mutation's handler decides: archive_file first or not, then    *)
(* one operation on the path, and the FileRollbackResult it reports.  The  *)
(* sidecar is the symlink_target that archive_file will have to write.     *)
(***************************************************************************)
Final == {"none", "unlink", "remove", "tryRemove", "rmdir", "restore"}

Plan == [archive : BOOLEAN, then : Final, result : Result,
         sidecar : Link \cup {PlainMeta}]

Removal(arch, how, res) == [archive |-> arch, then |-> how, result |-> res,
                            sidecar |-> PlainMeta]

(* A path's place in the archive: the copied content, the sidecar, the row.*)
Slot == [copy : Regular \cup {Nothing}, meta : Link \cup {PlainMeta, Nothing},
         row : BOOLEAN]

SkipIt == Removal(FALSE, "none", "Skipped")

ASSUME ContentAssumption ==
    /\ Large \subseteq File
    /\ Torn \notin File
    /\ Link \cap Regular = {}
    /\ Dir \cap Regular = {}
    /\ Dir \cap Link = {}
    /\ Absent \notin Content
    /\ Nothing \notin Content \cup {Absent}
    /\ NoHash \notin Content \cup {Nothing}
    /\ PlainMeta \notin Content \cup {Nothing}
    /\ Target \in [Link -> Path]

ASSUME SystemAssumption ==
    /\ Category \in [Path -> {"NeverTouch", "Skip", "Managed"}]
    /\ Scanned \subseteq Path
    /\ Package \subseteq Path
    /\ Origins \subseteq {"run", "tracking"}
    /\ InitialDisks \subseteq [Path -> (Content \ {Torn}) \cup {Absent}]
    /\ Invocations \subseteq Invocation
    /\ {MaxEvents, MaxEdits, MaxCrashes, MaxFaults} \subseteq Nat

VARIABLES
    disk,       \* [Path -> Content or Absent]
    orig,       \* the disk at pre-scan: what fingerprints and blobs describe
    origin,     \* "run": of `pkgundo run`; "tracking", later "untracked": the
                \* accumulation bucket of a tracked app
    live,       \* the monitored command is still running
    journal,    \* the mutations table in timestamp order
    status,     \* "Open" (every status but one) or "RolledBack"
    archive,    \* [Path -> copy in the archive tree, metadata sidecar, row]
    pc,         \* the engine's next operation
    inv,        \* the command line being executed
    next,       \* index of the mutation being processed
    plan,       \* the decision for it
    report,     \* the RollbackReport: what was said of which mutation
    pending,    \* archive rows `recover` has still to visit
    taken,      \* ghost: what the engine last took off each path
    quiet,      \* ghost: nobody else wrote since the engine started
    steady,     \* ghost: ... to the path in hand, since the engine looked
    edits, crashes, faults

engine == <<pc, inv, next, plan, report, pending>>
ghosts == <<taken, quiet, steady>>
budget == <<edits, crashes, faults>>
vars == <<disk, orig, origin, live, journal, status, archive, engine,
          ghosts, budget>>

-----------------------------------------------------------------------------
(* The baseline: pre_scan_configs stores, before the command starts, a     *)
(* fingerprint of every scanned file and a blob of the small regular ones. *)
(* A tracked app's transaction has no such step.                           *)

HasPrint(p) ==
    /\ origin = "run" /\ p \in Scanned
    /\ \/ orig[p] \in File
       \/ orig[p] \in Link /\ orig[Target[orig[p]]] \in File

Prior(p) == IF ~HasPrint(p) THEN Nothing
            ELSE IF orig[p] \in Link THEN NoHash ELSE orig[p]

Blob(p) == IF HasPrint(p) /\ orig[p] \in File \ Large THEN orig[p] ELSE Nothing

(* compare_with_current: the possible answers.  Links and directories are  *)
(* compared by mtime alone, so either answer is possible for them.         *)
Diffs(p) ==
    IF disk[p] = Absent THEN {"Missing"}
    ELSE IF Prior(p) \in {Nothing, NoHash} THEN {"New"}
    ELSE IF disk[p] \in Link \cup Dir THEN {"Unchanged", "Modified"}
    ELSE IF disk[p] = Prior(p) THEN {"Unchanged"} ELSE {"Modified"}

(* What archive_file writes into the sidecar of a path with content v.      *)
Mutant_SidecarOfAnything(v) == v
SidecarOf(v) == IF v \in Link THEN v ELSE PlainMeta

(* What `recover` would put back at p, Nothing if it has no entry for it.  *)
(* The sidecar's symlink_target is looked at before the copied content.    *)
Archived(p) == IF ~archive[p].row THEN Nothing
               ELSE IF archive[p].meta \in Link THEN archive[p].meta
               ELSE archive[p].copy

(* Opening a path for writing follows a symlink.                           *)
WriteTo(p) == IF disk[p] \in Link THEN Target[disk[p]] ELSE p

(* A bound on the model: a link's target is not itself a link.             *)
Placeable(p, v) == v \in Link => \A l \in Link : Target[l] # p

-----------------------------------------------------------------------------
(* The monitored command.  Each change and its journal entry are one step; *)
(* append_mutation drops a second entry for the same operation and path.   *)

Entry(op, p) == [op |-> op, path |-> p]

Log(j, m) == IF \E i \in DOMAIN j : j[i] = m THEN j ELSE Append(j, m)

Record(j) == Len(j) <= MaxEvents /\ journal' = j

(* A tracked launch is recorded only under the user's home directory.      *)
Monitored(p) == origin # "run" => Category[p] = "NeverTouch"

CommandUnchanged == UNCHANGED <<orig, origin, live, status, archive, engine,
                                ghosts, budget>>

CreateFile(p, v) ==
    /\ live /\ Monitored(p) /\ disk[p] = Absent /\ Placeable(p, v)
    /\ disk' = [disk EXCEPT ![p] = v]
    /\ Record(Log(journal, Entry("create", p)))
    /\ CommandUnchanged

ModifyFile(p, v) ==
    /\ live /\ Monitored(p) /\ disk[p] \in File \ {v}
    /\ disk' = [disk EXCEPT ![p] = v]
    /\ Record(Log(journal, Entry("modify", p)))
    /\ CommandUnchanged

DeleteFile(p) ==
    /\ live /\ Monitored(p) /\ disk[p] # Absent
    /\ disk' = [disk EXCEPT ![p] = Absent]
    /\ Record(Log(journal, Entry("delete", p)))
    /\ CommandUnchanged

RenameFile(p, q) ==
    /\ live /\ Monitored(p) /\ Monitored(q) /\ p # q
    /\ disk[p] \in File \cup Link /\ disk[q] \notin Dir /\ Placeable(q, disk[p])
    /\ disk' = [disk EXCEPT ![p] = Absent, ![q] = disk[p]]
    /\ Record(Log(Log(journal, Entry("rename_from", p)), Entry("rename_to", q)))
    /\ CommandUnchanged

Exit ==
    /\ live
    /\ live' = FALSE
    /\ UNCHANGED <<disk, orig, origin, journal, status, archive, engine,
                   ghosts, budget>>

Command ==
    \/ \E p \in Path, v \in Content \ {Torn} : CreateFile(p, v)
    \/ \E p \in Path, v \in File : ModifyFile(p, v)
    \/ \E p \in Path : DeleteFile(p)
    \/ \E p, q \in Path : RenameFile(p, q)
    \/ Exit

-----------------------------------------------------------------------------
(* Decisions: a mutation's handler as a table from what is on disk now.    *)

PassesFilter(p) == inv.filtered /\ GroupKey[p] # Nothing => GroupKey[p] \in inv.groups

Permitted(p) == \/ Category[p] = "Managed"
                \/ Category[p] = "NeverTouch" /\ inv.home

Mutant_CreatedNeverArchivedAtHome(p, diff) ==
    IF disk[p] = Absent THEN SkipIt
    ELSE IF diff = "Modified"
         THEN Removal(inv.mode = "Conservative", "tryRemove",
                      IF inv.mode = "Conservative" THEN "Archived" ELSE "Removed")
         ELSE Removal(FALSE, "remove", "Removed")

CreatedPlan(p, diff) ==
    LET keep == IF diff = "Modified" THEN inv.mode = "Conservative"
                ELSE inv.home /\ disk[p] \notin Dir
    IN  IF disk[p] = Absent \/ diff = "Missing" THEN SkipIt
        ELSE Removal(keep, IF diff = "Modified" THEN "tryRemove" ELSE "remove",
                     IF keep THEN "Archived" ELSE "Removed")

ModifiedPlan(p, diff) ==
    IF Prior(p) = Nothing
    THEN IF ~inv.home \/ disk[p] = Absent THEN SkipIt
         ELSE IF disk[p] \in Dir THEN Removal(FALSE, "rmdir", "Archived")
         ELSE Removal(TRUE, "unlink", "Archived")
    ELSE CASE diff = "Unchanged" -> Removal(FALSE, "restore", "Restored")
           [] diff = "Modified" /\ inv.mode = "Nuclear" ->
                                    Removal(FALSE, "restore", "Restored")
           [] diff = "Modified" /\ inv.mode # "Nuclear" ->
                                    Removal(TRUE, "restore", "Archived")
           [] OTHER -> SkipIt

DeletedPlan(p) ==
    Removal(FALSE, "restore", IF HasPrint(p) THEN "Restored" ELSE "Skipped")

Mutant_DecideIgnoresRenames(op, p, diff) ==
    IF ~PassesFilter(p) \/ ~Permitted(p) THEN SkipIt
    ELSE CASE op = "create" -> CreatedPlan(p, diff)
           [] op = "modify" -> ModifiedPlan(p, diff)
           [] op = "delete" -> DeletedPlan(p)
           [] OTHER -> SkipIt

Mutant_DecideWithoutCategory(op, p, diff) ==
    IF ~PassesFilter(p) THEN SkipIt
    ELSE CASE op \in {"create", "rename_to"} -> CreatedPlan(p, diff)
           [] op = "modify" -> ModifiedPlan(p, diff)
           [] op = "delete" -> DeletedPlan(p)
           [] OTHER -> SkipIt

Decide(op, p, diff) ==
    IF ~PassesFilter(p) \/ ~Permitted(p) THEN SkipIt
    ELSE CASE op \in {"create", "rename_to"} -> CreatedPlan(p, diff)
           [] op = "modify" -> ModifiedPlan(p, diff)
           [] op = "delete" -> DeletedPlan(p)
           [] OTHER -> SkipIt

(* --dry-run reports the same result and performs none of the operations.  *)
Mutant_RehearseForReal(d) == d
Rehearse(d) == [d EXCEPT !.archive = FALSE, !.then = "none"]

-----------------------------------------------------------------------------
(* The engine, one file system or database operation at a time.            *)

Cur == journal[next].path

(* Between looking at its path and being done with it.                     *)
Handling == pc \in {"copy", "meta", "row", "act"}

Say(res) == report' = report \cup {[entry |-> journal[next], result |-> res,
                                    then |-> plan.then]}

Advance(res) == /\ Say(res)
                /\ next' = next + 1
                /\ pc' = "loop"

(* The process ends, and what it held in memory with it.                   *)
NoInvocation == [mode |-> "Conservative", dry |-> TRUE, home |-> FALSE,
                 filtered |-> FALSE, groups |-> {}]

ProcessEnds ==
    /\ pc' = "idle" /\ inv' = NoInvocation /\ next' = 1 /\ plan' = SkipIt
    /\ report' = {} /\ pending' = {} /\ quiet' = TRUE /\ steady' = TRUE

(* The command line, then execute's steps A and B, which refuse only a     *)
(* transaction already rolled back.  Only `untrack --rollback` sets        *)
(* home_cleanup; it has the daemon close the bucket first and refuses an   *)
(* app that is not origin, so it runs for real at most once.              *)
Begin(i) ==
    /\ pc = "idle" /\ ~live /\ status # "RolledBack"
    /\ i.filtered => i.home
    /\ i.home => origin = "tracking" \/ (i.dry /\ origin = "untracked")
    /\ origin' = IF i.home /\ ~i.dry THEN "untracked" ELSE origin
    /\ pc' = "pm" /\ inv' = i
    /\ UNCHANGED <<disk, orig, live, journal, status, archive, next, plan, report,
                   pending, ghosts, budget>>

(* Step C.  A tracked app's bucket and a script have no package manager.   *)
(* A removal that exits non-zero has removed what it has removed; one that *)
(* cannot be started ends the whole rollback.                              *)
Delegates == origin = "run" /\ Package # {} /\ ~inv.dry

PmRemove ==
    /\ pc = "pm"
    /\ \E gone \in SUBSET (IF Delegates THEN Package ELSE {}) :
         disk' = [p \in Path |-> IF p \in gone THEN Absent ELSE disk[p]]
    /\ pc' = "loop"
    /\ UNCHANGED <<orig, origin, live, journal, status, archive, inv, next,
                   plan, report, pending, ghosts, budget>>

PmMissing ==
    /\ pc = "pm" /\ Delegates
    /\ ProcessEnds
    /\ UNCHANGED <<disk, orig, origin, live, journal, status, archive, taken, budget>>

(* The loop head and the handler's decision.                               *)
Analyse ==
    /\ pc = "loop" /\ next <= Len(journal)
    /\ \E diff \in Diffs(Cur) :
         LET d == Decide(journal[next].op, Cur, diff)
         IN  plan' = IF inv.dry THEN Rehearse(d) ELSE d
    /\ pc' = IF plan'.archive THEN "copy" ELSE "act"
    /\ steady' = TRUE
    /\ UNCHANGED <<disk, orig, origin, live, journal, status, archive, inv,
                   next, report, pending, taken, quiet, budget>>

(* archive_file: the content is copied (a symlink has none to copy, its    *)
(* target is read; a directory cannot be copied), then the sidecar         *)
(* written, then the row replaced.  Of a path that is gone nothing is kept.*)
ArchiveCopy ==
    /\ pc = "copy" /\ disk[Cur] \notin Dir
    /\ archive' = IF disk[Cur] \in Regular
                  THEN [archive EXCEPT ![Cur].copy = disk[Cur]] ELSE archive
    /\ plan' = [plan EXCEPT !.sidecar = SidecarOf(disk[Cur])]
    /\ pc' = IF disk[Cur] = Absent THEN "act" ELSE "meta"
    /\ UNCHANGED <<disk, orig, origin, live, journal, status, inv, next,
                   report, pending, ghosts, budget>>

ArchiveMeta ==
    /\ pc = "meta"
    /\ archive' = [archive EXCEPT ![Cur].meta = plan.sidecar]
    /\ pc' = "row"
    /\ UNCHANGED <<disk, orig, origin, live, journal, status, inv, next, plan,
                   report, pending, ghosts, budget>>

ArchiveRow ==
    /\ pc = "row"
    /\ archive' = [archive EXCEPT ![Cur].row = TRUE]
    /\ pc' = "act"
    /\ UNCHANGED <<disk, orig, origin, live, journal, status, inv, next, plan,
                   report, pending, ghosts, budget>>

(* What the step takes from the path: content that is neither the blob nor *)
(* debris of an interrupted write, and that nobody put there after the     *)
(* engine had looked.                                                      *)
TakenNow == [what |-> disk[Cur], op |-> journal[next].op, mode |-> inv.mode,
             home |-> inv.home]

Take == taken' = [taken EXCEPT ![Cur] =
                     IF ~steady THEN Nothing
                     ELSE IF disk[Cur] \in (File \cup Link) \ {Blob(Cur)}
                     THEN TakenNow ELSE @]

(* A later write to a path (another's, recover's, or one that came through *)
(* a symlink) supersedes what was taken from there.                        *)
Supersede(p) == taken' = [taken EXCEPT ![p] = Nothing]

ActUnchanged == UNCHANGED <<orig, origin, live, journal, status, archive, inv,
                            plan, pending, quiet, steady, budget>>

(* remove_file, and remove_dir, which removes only an empty directory (what*)
(* is in it is not modelled, so either may happen).  All but "unlink" look *)
(* again at what kind of file the path has by now.                         *)
Unlink ==
    /\ pc = "act" /\ plan.then \in {"unlink", "remove", "tryRemove"}
    /\ disk[Cur] \in Regular \cup Link
    /\ disk' = [disk EXCEPT ![Cur] = Absent]
    /\ Take
    /\ Advance(plan.result)
    /\ ActUnchanged

RemoveDir ==
    /\ pc = "act" /\ plan.then \in {"remove", "rmdir"} /\ disk[Cur] \in Dir
    /\ disk' \in {disk, [disk EXCEPT ![Cur] = Absent]}
    /\ Advance(plan.result)
    /\ UNCHANGED taken /\ ActUnchanged

ActNothing ==
    /\ pc = "act"
    /\ \/ plan.then = "none"
       \/ plan.then = "remove" /\ disk[Cur] = Absent
       \/ plan.then = "tryRemove" /\ disk[Cur] \in Dir \cup {Absent}
       \/ plan.then = "rmdir" /\ disk[Cur] \notin Dir
    /\ Advance(plan.result)
    /\ UNCHANGED <<disk, taken>> /\ ActUnchanged

(* restore_from_blob: fs::write truncates and rewrites the file the path   *)
(* resolves to; without a blob, or with a directory there, it does nothing.*)
Restorable(p) == Blob(p) # Nothing /\ disk[WriteTo(p)] \notin Dir

RestoreBlob ==
    /\ pc = "act" /\ plan.then = "restore"
    /\ IF Restorable(Cur)
       THEN /\ disk' = [disk EXCEPT ![WriteTo(Cur)] = Blob(Cur)]
            /\ IF WriteTo(Cur) = Cur THEN Take ELSE Supersede(WriteTo(Cur))
       ELSE UNCHANGED <<disk, taken>>
    /\ Advance(plan.result)
    /\ ActUnchanged

(* Steps F and G, which touch no journalled path, then the status update.  *)
Finish ==
    /\ pc = "loop" /\ next > Len(journal)
    /\ status' = IF inv.dry THEN status ELSE "RolledBack"
    /\ ProcessEnds
    /\ UNCHANGED <<disk, orig, origin, live, journal, archive, taken, budget>>

(* A write cut short, by a kill or by a full disk, leaves torn what it was *)
(* writing: the copy in the archive, or the file being restored.           *)
TornCopy == IF pc = "copy" /\ disk[Cur] \in Regular
            THEN {archive, [archive EXCEPT ![Cur].copy = Torn]} ELSE {archive}

TornRestore ==
    \/ /\ pc = "act" /\ plan.then = "restore" /\ Restorable(Cur)
       /\ disk' = [disk EXCEPT ![WriteTo(Cur)] = Torn]
       /\ IF WriteTo(Cur) = Cur THEN Take ELSE Supersede(WriteTo(Cur))
    \/ UNCHANGED <<disk, taken>>

(* An operation fails, because it cannot succeed (copying a directory,     *)
(* unlinking a directory or nothing) or with an I/O error.  In archive_file*)
(* and in remove_file with `?` that fails the mutation; where the code     *)
(* discards the result, the report is as planned.                          *)
Impossible == \/ pc = "copy" /\ disk[Cur] \in Dir
              \/ pc = "act" /\ plan.then = "unlink" /\ disk[Cur] \in Dir \cup {Absent}

Mutant_FailureUnreported == plan.result

ResultOfFailure == IF pc = "act" /\ plan.then \in {"restore", "tryRemove"}
                   THEN plan.result ELSE "Failed"

OpFails ==
    /\ \/ pc \in {"copy", "meta", "row"}
       \/ pc = "act" /\ plan.then \in {"unlink", "restore"}
       \/ pc = "act" /\ plan.then \in {"remove", "tryRemove"} /\ disk[Cur] \in Regular \cup Link
    /\ IF Impossible THEN UNCHANGED faults
       ELSE faults < MaxFaults /\ faults' = faults + 1
    /\ archive' \in TornCopy
    /\ TornRestore
    /\ Advance(ResultOfFailure)
    /\ UNCHANGED <<orig, origin, live, journal, status, inv, plan, pending, quiet,
                   steady, edits, crashes>>

(* What putting p back leaves if it fails or is cut short: the path as it  *)
(* was, nothing in place of a link that has been unlinked already, or what *)
(* has been truncated.                                                     *)
CutShort(p) ==
    {disk}
    \cup (IF Archived(p) \in Link /\ disk[p] \notin Dir
          THEN {[disk EXCEPT ![p] = Absent]} ELSE {})
    \cup (IF Archived(p) \in Regular /\ disk[WriteTo(p)] \notin Dir
          THEN {[disk EXCEPT ![WriteTo(p)] = Torn]} ELSE {})

(* A kill between any two operations or in the middle of one.              *)
Crash ==
    /\ pc # "idle" /\ crashes < MaxCrashes
    /\ crashes' = crashes + 1
    /\ ProcessEnds
    /\ archive' \in TornCopy
    /\ \/ TornRestore
       \/ /\ pc = "recover" /\ \E p \in pending : disk' \in CutShort(p)
          /\ UNCHANGED taken
    /\ UNCHANGED <<orig, origin, live, journal, status, edits, faults>>

-----------------------------------------------------------------------------
(* recover <txid>: every archive row is copied back, in any order; an      *)
(* entry that cannot be put back, for a directory in its place or for an   *)
(* I/O error, is passed over with a warning.  Rows and status stay.        *)

RecoverBegin ==
    /\ pc = "idle" /\ ~live
    /\ pending' = {p \in Path : archive[p].row}
    /\ pending' # {}
    /\ pc' = "recover"
    /\ UNCHANGED <<disk, orig, origin, live, journal, status, archive, inv, next,
                   plan, report, ghosts, budget>>

(* A link is recreated in place of what is there; content is copied to     *)
(* where the path leads.                                                   *)
Mutant_PutBackContentOnly(p) ==
    IF archive[p].copy = Nothing THEN disk
    ELSE [disk EXCEPT ![WriteTo(p)] = archive[p].copy]

PutBack(p) ==
    IF Archived(p) \in Link
    THEN IF disk[p] \in Dir THEN disk ELSE [disk EXCEPT ![p] = Archived(p)]
    ELSE IF Archived(p) = Nothing \/ disk[WriteTo(p)] \in Dir THEN disk
         ELSE [disk EXCEPT ![WriteTo(p)] = Archived(p)]

RecoverEntry(p) ==
    /\ pc = "recover" /\ p \in pending
    /\ pending' = pending \ {p}
    /\ \/ /\ disk' = PutBack(p) /\ UNCHANGED faults
          /\ IF disk' # disk THEN Supersede(IF Archived(p) \in Link THEN p ELSE WriteTo(p))
             ELSE UNCHANGED taken
       \/ /\ faults < MaxFaults /\ faults' = faults + 1
          /\ disk' \in CutShort(p) /\ UNCHANGED taken
    /\ IF pending' = {} THEN ProcessEnds
       ELSE UNCHANGED <<pc, inv, next, plan, report, quiet, steady>>
    /\ UNCHANGED <<orig, origin, live, journal, status, archive, edits, crashes>>

-----------------------------------------------------------------------------
(* The user writes, replaces or deletes a file at any time after the       *)
(* command's exit, the one that the engine is handling included.           *)
UserEdit(p, v) ==
    /\ ~live /\ edits < MaxEdits
    /\ v # disk[p] /\ Placeable(p, v)
    /\ disk' = [disk EXCEPT ![p] = v]
    /\ Supersede(p)
    /\ quiet' = IF pc = "idle" THEN quiet ELSE FALSE
    /\ steady' = IF Handling /\ p = Cur THEN FALSE ELSE steady
    /\ edits' = edits + 1
    /\ UNCHANGED <<orig, origin, live, journal, status, archive, engine, crashes,
                   faults>>

-----------------------------------------------------------------------------
Init ==
    /\ disk \in InitialDisks /\ orig = disk
    /\ \A p \in Path : Placeable(p, disk[p])
    /\ origin \in Origins
    /\ live = TRUE
    /\ journal = <<>>
    /\ status = "Open"
    /\ archive = [p \in Path |-> [copy |-> Nothing, meta |-> Nothing, row |-> FALSE]]
    /\ pc = "idle" /\ inv = NoInvocation /\ next = 1 /\ plan = SkipIt
    /\ report = {} /\ pending = {} /\ quiet = TRUE /\ steady = TRUE
    /\ taken = [p \in Path |-> Nothing]
    /\ edits = 0 /\ crashes = 0 /\ faults = 0

(* What the pkgundo process does once it has been started.                 *)
EngineStep ==
    \/ PmRemove \/ PmMissing \/ Analyse
    \/ ArchiveCopy \/ ArchiveMeta \/ ArchiveRow
    \/ ActNothing \/ Unlink \/ RemoveDir \/ RestoreBlob \/ OpFails
    \/ Finish
    \/ \E p \in Path : RecoverEntry(p)

Next ==
    \/ Command
    \/ \E i \in Invocations : Begin(i)
    \/ RecoverBegin
    \/ EngineStep
    \/ Crash
    \/ \E p \in Path, v \in (Content \ {Torn}) \cup {Absent} : UserEdit(p, v)

Spec == Init /\ [][Next]_vars

-----------------------------------------------------------------------------
(* Properties.                                                             *)

Owed == [what : File \cup Link, op : Op, mode : Mode, home : BOOLEAN]

(* Every variable has its type.                                            *)
TypeOK ==
    /\ disk \in [Path -> Content \cup {Absent}]
    /\ orig \in [Path -> (Content \ {Torn}) \cup {Absent}]
    /\ origin \in {"run", "tracking", "untracked"}
    /\ live \in BOOLEAN
    /\ journal \in Seq([op : Op, path : Path])
    /\ status \in {"Open", "RolledBack"}
    /\ archive \in [Path -> Slot]
    /\ pc \in {"idle", "pm", "loop", "copy", "meta", "row", "act", "recover"}
    /\ inv \in Invocation
    /\ next \in Nat \ {0}
    /\ Handling => next \in DOMAIN journal
    /\ plan \in Plan
    /\ report \subseteq [entry : [op : Op, path : Path], result : Result,
                         then : Final]
    /\ pending \subseteq Path
    /\ taken \in [Path -> Owed \cup {Nothing}]
    /\ quiet \in BOOLEAN /\ steady \in BOOLEAN
    /\ edits \in Nat /\ crashes \in Nat /\ faults \in Nat

(* When the engine undertakes to archive what it takes off a path: always  *)
(* in a tracked app's $HOME cleanup; in a rollback of an install, for a    *)
(* regular file that differs from its hashed pre-install state, when it is *)
(* handled as modified (unless nuclear) or as created (conservative only). *)
Undertaken(p, t) ==
    \/ t.home
    \/ /\ t.what \in File /\ Prior(p) \notin {Nothing, NoHash, t.what}
       /\ \/ t.op = "modify" /\ t.mode # "Nuclear"
          \/ t.op \in {"create", "rename_to"} /\ t.mode = "Conservative"

(* Archive before remove, across kills, errors, restarts and other         *)
(* people's edits: what the engine undertook to archive and took off a     *)
(* path is what `recover` would put back there, as long as nobody has      *)
(* written there since.  The one exception is a rollback of an install     *)
(* whose interrupted write was itself archived, over the good copy.        *)
TakenIsRecoverable ==
    \A p \in Path :
        taken[p] # Nothing /\ Undertaken(p, taken[p]) =>
            \/ Archived(p) = taken[p].what
            \/ ~taken[p].home /\ Archived(p) = Torn

(* recover hands back what was taken: an entry that recover_archive visits *)
(* and does not fail on leaves at its path the very content (file or       *)
(* symlink) the rollback undertook to archive, unless a directory stands   *)
(* there now.  One it fails on may be left torn or missing, but stays owed *)
(* (nothing but a write supersedes `taken`): by TakenIsRecoverable its     *)
(* archived copy is whole, and the next `recover` has to bring it back.    *)
RecoverReturnsTaken ==
    [][\A p \in pending \ pending' :
          crashes' = crashes /\ taken[p] # Nothing /\ Undertaken(p, taken[p]) =>
              \/ disk'[p] = taken[p].what
              \/ ~taken[p].home /\ disk'[p] = Torn
              \/ disk[p] \in Dir
              \/ faults' # faults /\ taken'[p] = taken[p]]_vars

(* The files the engine works on itself, as opposed to its package manager *)
(* or another actor.                                                       *)
EngineChanges(p) == pc = "act" /\ edits' = edits /\ disk'[p] # disk[p]

(* What the engine removes is a path that was itself journalled, as        *)
(* created, written or renamed to, and that its category and review group  *)
(* permit it to; it is never a path a file was renamed away from, and      *)
(* never in a dry run, whatever has changed on disk since it looked.       *)
RemovalsAreLicensed ==
    [][\A p \in Path : EngineChanges(p) /\ disk'[p] = Absent =>
          /\ ~inv.dry /\ Permitted(p) /\ PassesFilter(p)
          /\ \E i \in DOMAIN journal :
                journal[i].path = p /\ journal[i].op \notin {"rename_from", "delete"}]_vars

(* What a rollback that is no $HOME cleanup does to the user's data:       *)
(* "Never touch - absolute safety rule" (classifier/mod.rs:152).  The code *)
(* looks at the category of the journalled path only: a blob restored at a *)
(* path that is a symlink by now is written to wherever that leads.        *)
NeverTouchKept ==
    [][\A p \in Path : EngineChanges(p) /\ ~inv.home => Category[p] # "NeverTouch"]_vars

(* A dry run, killed or not, leaves disk, archive and status as they are.  *)
DryRunChangesNothing ==
    [][inv.dry /\ pc \notin {"idle", "recover"} /\ edits' = edits =>
          UNCHANGED <<disk, archive, status>>]_vars

Finishing == pc = "loop" /\ pc' = "idle" /\ status' = "RolledBack"

FailedFor(p) == \E r \in report : r.entry.path = p /\ r.result = "Failed"

(* Reported or gone: when a rollback marks the transaction RolledBack -    *)
(* after which it can never be run again - every path the command created  *)
(* (in a $HOME cleanup also every path it wrote) that had no pre-install   *)
(* fingerprint and that the rollback was permitted to clean is off the     *)
(* disk, was reported as failed, or was written by somebody meanwhile.  Of *)
(* a transaction with blobs it does not hold: one of them may be written   *)
(* through a symlink to a path that had been removed.                      *)
ReportedOrGone ==
    [][Finishing =>
          \A i \in DOMAIN journal :
             LET p == journal[i].path IN
             /\ Permitted(p) /\ PassesFilter(p) /\ Prior(p) = Nothing /\ quiet
             /\ \/ journal[i].op \in {"create", "rename_to"}
                \/ journal[i].op = "modify" /\ inv.home
             => disk[p] \in Dir \cup {Absent} \/ FailedFor(p)]_vars

(* No phantom: whatever an undisturbed real rollback reports as archived   *)
(* has a row that recover will visit, a directory removed in passing       *)
(* excepted.                                                               *)
ArchivedReportIsBacked ==
    \A r \in report :
        quiet /\ r.result = "Archived" /\ ~inv.dry /\ r.then # "rmdir" =>
            archive[r.entry.path].row

(* CONTEXT.md:551-556: a modified or deleted file is restored to the       *)
(* original by a rollback nothing interferes with.                         *)
OriginalRestored ==
    [][Finishing /\ edits + crashes + faults = 0 =>
          \A p \in Path : Blob(p) # Nothing /\ Permitted(p) => disk[p] = Blob(p)]_vars
=============================================================================
