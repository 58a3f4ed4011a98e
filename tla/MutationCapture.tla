--------------------------- MODULE MutationCapture ---------------------------
(***************************************************************************)
(* MutationCapture (daemon/mutation_capture.rs): one fanotify group shared *)
(* by all launches of tracked apps, with one mark per file system that is  *)
(* counted up by start and down by stop.  spawn_launch (exec_watch.rs)     *)
(* calls start once and stop once for each launch, stop also when start    *)
(* has failed.  Both work under one lock, so each call is one step.        *)
(***************************************************************************)
EXTENDS Naturals, FiniteSets

CONSTANTS
    Launch,     \* launches of tracked apps
    Fs,         \* file systems that hold users' homes
    FsOf,       \* [Launch -> Fs]
    MaxFaults   \* bound: failing calls

ASSUME CaptureAssumption ==
    /\ IsFiniteSet(Launch)
    /\ FsOf \in [Launch -> Fs]
    /\ MaxFaults \in Nat

VARIABLES
    stage,      \* [Launch -> how far it has got with its reference]
    refcounts,  \* [Fs -> Nat], 0 where the map has no entry
    group,      \* the shared group exists
    marks,      \* the file systems its fanotify descriptor is marked with
    faults

captureVars == <<stage, refcounts, group, marks, faults>>

(* held: start returned Ok; unmarked: it failed after counting the launch; *)
(* refused: it failed before; leaked: stop gave up before releasing.       *)
Stage == {"new", "held", "unmarked", "refused", "leaked", "ended"}

Mutant_BumpAlwaysOne(f) == [refcounts EXCEPT ![f] = 1]
Bump(f) == [refcounts EXCEPT ![f] = @ + 1]

Mutant_ReleaseKeepsEntry(f) == [refcounts EXCEPT ![f] = IF @ > 1 THEN @ - 1 ELSE @]
Release(f) == [refcounts EXCEPT ![f] = IF @ = 0 THEN 0 ELSE @ - 1]

Faulty == faults < MaxFaults /\ faults' = faults + 1

Start(l) ==
    /\ stage[l] = "new"
    /\ stage' = [stage EXCEPT ![l] = "held"]
    /\ refcounts' = Bump(FsOf[l])
    /\ group' = TRUE
    /\ marks' = IF refcounts[FsOf[l]] = 0 THEN marks \cup {FsOf[l]} ELSE marks
    /\ UNCHANGED faults

(* resolve, metadata or FanotifyMonitor::try_new fails.                     *)
Refuse(l) ==
    /\ stage[l] = "new" /\ Faulty
    /\ stage' = [stage EXCEPT ![l] = "refused"]
    /\ UNCHANGED <<refcounts, group, marks>>

(* mark_filesystem fails, which only the first launch there calls.          *)
MarkFails(l) ==
    /\ stage[l] = "new" /\ refcounts[FsOf[l]] = 0 /\ Faulty
    /\ stage' = [stage EXCEPT ![l] = "unmarked"]
    /\ refcounts' = Bump(FsOf[l])
    /\ group' = TRUE
    /\ UNCHANGED marks

(* release, and what follows when the count or the map has become empty;   *)
(* the marks go with the group's descriptor.                               *)
Mutant_DropKeepsGroup(l, disarmed) ==
    LET f == FsOf[l] IN
    /\ refcounts' = Release(f)
    /\ group' = group
    /\ marks' = IF refcounts[f] = 1 /\ disarmed THEN marks \ {f} ELSE marks

Drop(l, disarmed) ==
    LET f == FsOf[l] IN
    /\ refcounts' = Release(f)
    /\ group' = (group /\ \E g \in Fs : refcounts'[g] > 0)
    /\ marks' = IF ~group' THEN {}
                ELSE IF refcounts[f] = 1 /\ disarmed THEN marks \ {f} ELSE marks

Stop(l) ==
    /\ stage[l] \in {"held", "unmarked", "refused"}
    /\ stage' = [stage EXCEPT ![l] = "ended"]
    /\ Drop(l, TRUE)
    /\ UNCHANGED faults

(* mark_filesystem(.., false) fails: logged.                                *)
DisarmFails(l) ==
    /\ stage[l] \in {"held", "unmarked", "refused"} /\ refcounts[FsOf[l]] = 1 /\ Faulty
    /\ stage' = [stage EXCEPT ![l] = "ended"]
    /\ Drop(l, FALSE)

(* stop cannot resolve or stat the home any more: it returns.               *)
StopFails(l) ==
    /\ stage[l] \in {"held", "unmarked", "refused"} /\ Faulty
    /\ stage' = [stage EXCEPT ![l] = IF @ = "refused" THEN "ended" ELSE "leaked"]
    /\ UNCHANGED <<refcounts, group, marks>>

CaptureInit ==
    /\ stage = [l \in Launch |-> "new"]
    /\ refcounts = [f \in Fs |-> 0]
    /\ group = FALSE /\ marks = {}
    /\ faults = 0

Call(l) == Start(l) \/ Refuse(l) \/ MarkFails(l)
Return(l) == Stop(l) \/ DisarmFails(l) \/ StopFails(l)

CaptureNext == \E l \in Launch : Call(l) \/ Return(l)

CaptureSpec == CaptureInit /\ [][CaptureNext]_captureVars

-----------------------------------------------------------------------------
(* Properties.                                                             *)

(* The variables have their types.                                          *)
CaptureTypeOK ==
    /\ stage \in [Launch -> Stage]
    /\ refcounts \in [Fs -> Nat]
    /\ group \in BOOLEAN
    /\ marks \subseteq Fs
    /\ faults \in Nat

Held == {l \in Launch : stage[l] = "held"}

(* The counters implement the set of launches that they stand for: until a *)
(* call fails, exactly the file systems with a launch in progress are      *)
(* marked, whatever the order in which launches begin and end.             *)
Promise == INSTANCE Coverage WITH users <- Held, sound <- (faults = 0)
CoverageHolds == Promise!Spec

(* "idle machines pay nothing" (comment on stop): once every launch has    *)
(* returned from stop there is no group and no mark, whichever calls       *)
(* failed, unless it was a stop that could not find what to release.       *)
IdlePaysNothing ==
    (\A l \in Launch : stage[l] \in {"new", "refused", "ended"}) =>
        ~group /\ marks = {}
=============================================================================
