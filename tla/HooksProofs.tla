----------------------------- MODULE HooksProofs -----------------------------
(* The hooks, for any packages, package managers, faults and requests:     *)
(* types, what a transaction has installed is asked for, what has been     *)
(* asked for once is left alone, and what has gone is looked up.           *)
EXTENDS Hooks, TLAPS

-----------------------------------------------------------------------------
(* The inductive invariant.                                                *)

(* What a hook has in hand, it has only while the hooks are run.           *)
Rested ==
    /\ pc # "hooks" => /\ toTrack = {} /\ opened = {} /\ request = NoPackage
                       /\ asked = {} /\ skipped = {} /\ lookedUp = {}
    /\ pc \notin {"prime", "hooks"} => due = {} /\ ~failed /\ ~misled

(* What was read from dpkg is true until it is used, for dpkg waits.       *)
ListsAreTrue ==
    /\ pc \in {"list", "write"} => was = Installed
    /\ pc \in {"write", "prime"} => listing = Installed
    /\ pc # "idle" => settled \subseteq was
    /\ pc \in {"list", "write", "diff", "prime"} => pm = "apt"

(* A snapshot nobody has interfered with holds nothing but what was        *)
(* installed before the transaction, while an apt transaction is on, and   *)
(* is up to date between; and it has lost nothing, unless a write failed.  *)
Past == IF pm = "apt" /\ pc \in {"change", "diff", "prime"} THEN was ELSE Installed

SnapshotFits ==
    /\ ~stale => snapshot # NoFile /\ snapshot \subseteq Past /\ (~spoilt => snapshot = Past)
    /\ ~spoilt /\ settled # {} => snapshot # NoFile /\ settled \subseteq snapshot
    /\ pc = "hooks" /\ pm = "apt" /\ ~spoilt => ~stale

(* What is still to be tracked, by the running hook or the next ones, and  *)
(* what is still to be looked up.                                          *)
Names(kind, hooks) == {p \in Package : \E h \in hooks : h.kind = kind /\ p \in h.names}
ToBeTracked == toTrack \cup Names("track", due)

NothingForgotten ==
    pc \in {"prime", "hooks"} /\ ~failed /\ (pm = "pacman" => "pacman install" \in files) =>
        (Installed \ was) \cap Explicit \subseteq asked \cup skipped \cup ToBeTracked

NothingRepeated == ~misled => (asked \cup ToBeTracked) \cap settled = {}

NothingUnnoticed ==
    pc \in {"prime", "hooks"} /\ ~failed /\ ~misled
       /\ (pm = "pacman" => "pacman remove" \in files) =>
        was \ Installed \subseteq lookedUp \cup Names("remind", due)

HooksInv == /\ TypeOK /\ Rested /\ ListsAreTrue /\ SnapshotFits
            /\ NothingForgotten /\ NothingRepeated /\ NothingUnnoticed

-----------------------------------------------------------------------------
(* Types.                                                                  *)

HookFile == {"pacman install", "pacman remove", "apt", "dnf5"}
Budget == {"transactions", "changes", "commands", "faults"}

LEMMA HookFilesType ==
    ASSUME NEW m \in PackageManager
    PROVE  /\ HookFiles(m) \in Seq(HookFile)
           /\ ToSet(HookFiles(m)) \subseteq HookFile
<1>1. HookFiles(m) \in Seq(HookFile)
      <2>1. CASE m = "pacman"
            <3>1. HookFiles(m) = <<"pacman install", "pacman remove">>
                  BY <2>1 DEF HookFiles
            <3>2. \A x, y \in HookFile : <<x, y>> \in Seq(HookFile)
                  OBVIOUS
            <3> QED BY <3>1, <3>2 DEF HookFile
      <2>2. CASE m = "apt"
            <3>1. HookFiles(m) = <<"apt">>
                  BY <2>2 DEF HookFiles
            <3> QED BY <3>1 DEF HookFile
      <2>3. CASE m = "dnf5"
            <3>1. HookFiles(m) = <<"dnf5">>
                  BY <2>3 DEF HookFiles
            <3> QED BY <3>1 DEF HookFile
      <2> QED BY <2>1, <2>2, <2>3 DEF PackageManager
<1>2. \A s : s \in Seq(HookFile) => ToSet(s) \subseteq HookFile
      BY DEF ToSet
<1> QED BY <1>1, <1>2

LEMMA SpendType ==
    ASSUME left \in [Budget -> Nat], NEW what \in Budget, Spend(what)
    PROVE  left' \in [Budget -> Nat]
BY DEF Spend

LEMMA InitType == Init => TypeOK
<1> SUFFICES ASSUME Init PROVE TypeOK
    OBVIOUS
<1>1. left \in [Budget -> Nat]
      BY HooksAssumption DEF Init, Budget
<1>2. status \in [Package -> {"absent", "half", "installed"}]
      BY DEF Init
<1> QED BY <1>1, <1>2, HooksAssumption DEF Init, TypeOK, PackageManager, Budget

Hook == [kind : {"track", "remind"}, names : SUBSET Package]

LEMMA TargetsType ==
    ASSUME TypeOK, NEW m \in PackageManager, NEW again \in SUBSET Package
    PROVE  Targets(m, again) \subseteq Hook
<1> DEFINE new == (Installed \ was) \cup again
           gone == (was \ Installed) \cup again
           both == {[kind |-> "track", names |-> new], [kind |-> "remind", names |-> gone]}
           each == {[kind |-> "track", names |-> {p}] : p \in new}
                   \cup {[kind |-> "remind", names |-> {p}] : p \in gone}
<1>1. new \subseteq Package /\ gone \subseteq Package
      BY DEF TypeOK, Installed
<1>2. both \subseteq Hook /\ each \subseteq Hook
      BY <1>1 DEF Hook
<1>3. Targets(m, again) \subseteq both \cup each
      BY DEF Targets
<1> QED BY <1>2, <1>3

LEMMA DiffType ==
    ASSUME NEW after \in SUBSET Package, NEW before \in SUBSET Package
    PROVE  Diff(after, before) \subseteq Hook
BY DEF Diff, Hook

LEMMA FilesType ==
    ASSUME TypeOK, InstallHook \/ RemoveHook
    PROVE  TypeOK'
<1>1. files' \subseteq HookFile
      <2>1. CASE RemoveHook
            BY <2>1 DEF RemoveHook, TypeOK, HookFile
      <2>2. CASE InstallHook
            <3>0. PICK i \in DOMAIN Detected : \E k \in 0 .. Len(HookFiles(Detected[i])) :
                     files' = files \cup FilesBefore(i) \cup FirstFiles(i, k)
                  BY <2>2 DEF InstallHook
            <3>1. PICK k \in 0 .. Len(HookFiles(Detected[i])) :
                     files' = files \cup FilesBefore(i) \cup FirstFiles(i, k)
                  BY <3>0
            <3>2. \A j \in 1 .. i : Detected[j] \in PackageManager
                  BY HooksAssumption
            <3>3. \A j \in 1 .. i : ToSet(HookFiles(Detected[j])) \subseteq HookFile
                  BY <3>2, HookFilesType
            <3>4. i \in 1 .. i /\ 1 .. i - 1 \subseteq 1 .. i
                  BY HooksAssumption
            <3>5. HookFiles(Detected[i]) \in Seq(HookFile)
                  BY <3>2, <3>4, HookFilesType
            <3>6. \A n \in 1 .. k : HookFiles(Detected[i])[n] \in HookFile
                  BY <3>5
            <3>7. files \subseteq HookFile
                  BY DEF TypeOK, HookFile
            <3>8. FilesBefore(i) \subseteq HookFile
                  BY <3>3, <3>4 DEF FilesBefore
            <3>9. FirstFiles(i, k) \subseteq HookFile
                  BY <3>6 DEF FirstFiles
            <3> QED BY <3>1, <3>7, <3>8, <3>9
      <2> QED BY <2>1, <2>2
<1>2. left' \in [Budget -> Nat]
      BY SpendType DEF InstallHook, RemoveHook, TypeOK, Budget
<1>3. UNCHANGED <<packages, registry, pc, transaction, tracking, apt, due, failed>>
      BY DEF InstallHook, RemoveHook
<1>4. Installed' = Installed
      BY <1>3 DEF packages, Installed
<1> QED BY <1>1, <1>2, <1>3, <1>4 DEF TypeOK, HookFile, Budget, packages, registry, transaction,
        tracking, apt

LEMMA StatusType ==
    ASSUME TypeOK, NEW p \in Package, NEW s \in {"absent", "half", "installed"}, SetStatus(p, s)
    PROVE  TypeOK'
<1>1. left' \in [Budget -> Nat]
      BY SpendType DEF SetStatus, TypeOK, Budget
<1>2. status' \in [Package -> {"absent", "half", "installed"}]
      BY DEF SetStatus, TypeOK
<1>3. settled' \subseteq Installed'
      <2>1. \A q \in Package \ {p} : status'[q] = status[q]
            BY DEF SetStatus, TypeOK
      <2> QED BY <2>1 DEF SetStatus, TypeOK, Installed
<1>4. stale' \in BOOLEAN
      BY DEF SetStatus
<1> QED BY <1>1, <1>2, <1>3, <1>4 DEF SetStatus, TypeOK, Budget, registry, transaction, tracking

LEMMA TransactionType ==
    ASSUME TypeOK, (\E m \in PackageManager : Begin(m)) \/ Commit \/ End \/ Stop
    PROVE  TypeOK'
<1>0. Installed \subseteq Package
      BY DEF Installed
<1>1. CASE \E m \in PackageManager : Begin(m)
      <2>1. PICK m \in PackageManager : Begin(m)
            BY <1>1
      <2>2. left' \in [Budget -> Nat]
            BY <2>1, SpendType DEF Begin, TypeOK, Budget
      <2>3. Installed' = Installed
            BY <2>1 DEF Begin, packages, Installed
      <2>4. pc' \in {"list", "change"} /\ was' \subseteq Package /\ pm' \in PackageManager
            BY <1>0, <2>1 DEF Begin
      <2> QED BY <2>1, <2>2, <2>3, <2>4 DEF Begin, TypeOK, Budget, packages, registry, tracking, apt
<1>2. CASE Commit
      <2>0. \A again \in SUBSET Package : Targets(pm, again) \subseteq Hook
            BY TargetsType DEF TypeOK
      <2>1. \/ due' = due /\ settled' = settled
            \/ \E again \in SUBSET Package : due' = Targets(pm, again) /\ settled' = settled \ again
            BY <1>0, <1>2 DEF Commit
      <2>2. due' \subseteq Hook /\ settled' \subseteq settled
            BY <2>0, <2>1 DEF TypeOK, Hook
      <2>3. Installed' = Installed
            BY <1>2 DEF Commit, Installed
      <2>4. pc' \in {"diff", "hooks"}
            BY <1>2 DEF Commit
      <2> QED BY <1>2, <2>2, <2>3, <2>4
              DEF Commit, TypeOK, Hook, registry, transaction, tracking, apt
<1>3. CASE End
      <2>1. Installed' = Installed
            BY <1>3 DEF End, Over, Installed
      <2>2. settled' \subseteq Installed'
            BY <1>3, <2>1 DEF End, TypeOK
      <2> QED BY <1>3, <2>1, <2>2 DEF End, Over, TypeOK, PackageManager, registry
<1>4. CASE Stop
      <2>1. left' \in [Budget -> Nat]
            BY <1>4, SpendType DEF Stop, TypeOK, Budget
      <2>2. Installed' = Installed
            BY <1>4 DEF Stop, Over, Installed
      <2>3. stale' \in BOOLEAN
            BY <1>4 DEF Stop
      <2> QED BY <1>4, <2>1, <2>2, <2>3 DEF Stop, Over, TypeOK, PackageManager, Budget, registry
<1> QED BY <1>1, <1>2, <1>3, <1>4

LEMMA SnapshotType ==
    ASSUME TypeOK, NEW S \in SUBSET Package, WriteSnapshot(S)
    PROVE  /\ snapshot' = NoFile \/ snapshot' \subseteq Package
           /\ stale' \in BOOLEAN /\ spoilt' \in BOOLEAN
           /\ left' \in [Budget -> Nat] /\ failed' = failed
BY SpendType DEF WriteSnapshot, NoFault, Missed, TypeOK, Budget

LEMMA AptType ==
    ASSUME TypeOK, PreList \/ PreWrite \/ PostDiff \/ PostGivesUp \/ PostPrime
    PROVE  TypeOK'
<1>0. Installed \subseteq Package /\ (Installed' = Installed \/ UNCHANGED status)
      BY DEF Installed, PreList, PreWrite, PostDiff, PostGivesUp, PostPrime, packages, Over
<1>1. Installed' = Installed
      BY <1>0 DEF Installed
<1>2. CASE PreList
      <2>1. left' \in [Budget -> Nat] /\ failed' = failed
            BY <1>2, SpendType DEF PreList, NoFault, Missed, TypeOK, Budget
      <2>2. listing' \subseteq Package
            BY <1>2, <1>0 DEF PreList, PackageList, TypeOK
      <2>3. pc' \in {"write", "change"}
            BY <1>2 DEF PreList
      <2> QED BY <1>1, <1>2, <2>1, <2>2, <2>3
              DEF PreList, TypeOK, Budget, packages, registry, transaction, tracking
<1>3. CASE PreWrite \/ PostPrime
      <2>1. WriteSnapshot(listing) /\ listing \in SUBSET Package
            BY <1>3 DEF PreWrite, PostPrime, TypeOK
      <2>2. /\ snapshot' = NoFile \/ snapshot' \subseteq Package
            /\ stale' \in BOOLEAN /\ spoilt' \in BOOLEAN
            /\ left' \in [Budget -> Nat] /\ failed' = failed
            BY <2>1, SnapshotType
      <2> QED BY <1>1, <1>3, <2>2
              DEF PreWrite, PostPrime, TypeOK, Budget, packages, registry, transaction, tracking
<1>4. CASE PostDiff
      <2>1. snapshot \subseteq Package
            BY <1>4 DEF PostDiff, TypeOK
      <2>2. due' \subseteq Hook
            BY <1>0, <1>4, <2>1, DiffType DEF PostDiff, PackageList
      <2>3. failed' \in BOOLEAN /\ misled' \in BOOLEAN
            BY <1>4 DEF PostDiff, TypeOK
      <2> QED BY <1>0, <1>1, <1>4, <2>2, <2>3
              DEF PostDiff, PackageList, TypeOK, Hook, packages, registry, transaction, tracking
<1>5. CASE PostGivesUp
      <2>1. left' \in [Budget -> Nat]
            BY <1>5, SpendType DEF PostGivesUp, TypeOK, Budget
      <2> QED BY <1>1, <1>5, <2>1 DEF PostGivesUp, Over, TypeOK, PackageManager, Budget, registry
<1> QED BY <1>2, <1>3, <1>4, <1>5

LEMMA FaultType ==
    ASSUME TypeOK, NoFault \/ Fault
    PROVE  left' \in [Budget -> Nat] /\ failed' \in BOOLEAN
BY SpendType DEF NoFault, Fault, TypeOK, Budget

LEMMA HookType ==
    ASSUME TypeOK,
           (\E h \in due : Remind(h) \/ StartTrack(h)) \/ (\E p \in Package : Check(p))
    PROVE  TypeOK'
<1>1. CASE \E h \in due : Remind(h)
      <2>1. PICK h \in due : Remind(h)
            BY <1>1
      <2>2. left' \in [Budget -> Nat] /\ failed' \in BOOLEAN
            BY <2>1, FaultType DEF Remind
      <2>3. due' \subseteq due
            BY <2>1 DEF Remind
      <2>4. Installed' = Installed
            BY <2>1 DEF Remind, packages, Installed
      <2>5. lookedUp' \subseteq Package
            BY <2>1 DEF Remind, TypeOK
      <2> QED BY <2>1, <2>2, <2>3, <2>4, <2>5
              DEF Remind, TypeOK, Budget, packages, registry, transaction, apt
<1>2. CASE \E h \in due : StartTrack(h)
      <2>1. PICK h \in due : StartTrack(h)
            BY <1>2
      <2>2. left' \in [Budget -> Nat] /\ failed' \in BOOLEAN
            BY <2>1, FaultType DEF StartTrack
      <2>3. due' \subseteq due
            BY <2>1 DEF StartTrack
      <2>4. Installed' = Installed
            BY <2>1 DEF StartTrack, packages, Installed
      <2>5. /\ toTrack' \subseteq Explicit /\ opened' \subseteq Package /\ skipped' \subseteq Explicit
            /\ UNCHANGED <<request, asked, lookedUp>>
            BY <2>1 DEF StartTrack, Wanted, TypeOK, registry
      <2> QED BY <2>1, <2>2, <2>3, <2>4, <2>5
              DEF StartTrack, TypeOK, Budget, packages, registry, transaction, apt
<1>3. CASE \E p \in Package : Check(p)
      <2>1. PICK p \in Package : Check(p)
            BY <1>3
      <2>2. left' \in [Budget -> Nat] /\ failed' \in BOOLEAN
            BY <2>1, FaultType DEF Check
      <2>4. Installed' = Installed
            BY <2>1 DEF Check, packages, Installed
      <2>5. /\ toTrack' \subseteq Explicit /\ request' \in Explicit \cup {NoPackage}
            /\ asked' \subseteq Explicit /\ skipped' \subseteq Explicit
            BY <2>1 DEF Check, TypeOK
      <2> QED BY <2>1, <2>2, <2>4, <2>5
              DEF Check, TypeOK, Budget, packages, registry, transaction, apt
<1> QED BY <1>1, <1>2, <1>3

Around == Answer \/ Crash \/ Restart \/ Checkpoint
          \/ \E p \in Package : UserTrack(p) \/ UserUntrack(p)

LEMMA AroundType == ASSUME TypeOK, Around PROVE TypeOK'
<1>1. UNCHANGED <<Outside, left>> \/ (UNCHANGED Outside /\ Spend("faults"))
      \/ (UNCHANGED Outside /\ Spend("commands"))
      BY DEF Around, Answer, Crash, Restart, Checkpoint, UserTrack, UserUntrack
<1>2. left' \in [Budget -> Nat] /\ UNCHANGED Outside
      BY <1>1, SpendType DEF TypeOK, Budget
<1>3. Installed' = Installed
      BY <1>2 DEF Outside, packages, Installed
<1>4. /\ tracked' \subseteq Package /\ view' \subseteq Package /\ daemon' \in BOOLEAN
      /\ request' \in Explicit \cup {NoPackage}
      <2>1. CASE Answer
            <3>1. request \in Package
                  BY <2>1, HooksAssumption DEF Answer, TypeOK
            <3> QED BY <2>1, <3>1 DEF Answer, TypeOK
      <2>2. CASE Crash \/ Restart \/ Checkpoint
            BY <2>2 DEF Crash, Restart, Checkpoint, EndOfStream, TypeOK
      <2>3. CASE \E p \in Package : UserTrack(p) \/ UserUntrack(p)
            BY <2>3 DEF UserTrack, UserUntrack, TypeOK
      <2> QED BY <2>1, <2>2, <2>3 DEF Around
<1> QED BY <1>2, <1>3, <1>4 DEF TypeOK, Outside, packages, transaction, apt, Budget

LEMMA TypeStep == ASSUME TypeOK, [Next]_vars PROVE TypeOK'
<1>1. \A m \in ToSet(Detected) : m \in PackageManager
      BY HooksAssumption DEF ToSet
<1>2. CASE InstallHook \/ RemoveHook
      BY <1>2, FilesType
<1>3. CASE \E p \in Package : Configure(p) \/ Break(p) \/ Take(p)
      BY <1>3, StatusType DEF Configure, Break, Take
<1>4. CASE (\E m \in ToSet(Detected) : Begin(m)) \/ Commit \/ End \/ Stop
      BY <1>1, <1>4, TransactionType
<1>5. CASE PreList \/ PreWrite \/ PostDiff \/ PostGivesUp \/ PostPrime
      BY <1>5, AptType
<1>6. CASE (\E h \in due : Run(h)) \/ (\E p \in Package : Check(p))
      BY <1>6, HookType DEF Run
<1>7. CASE Around
      BY <1>7, AroundType
<1>8. CASE UNCHANGED vars
      <2>1. Installed' = Installed
            BY <1>8 DEF vars, packages, Installed
      <2> QED BY <1>8, <2>1 DEF TypeOK, vars, packages, registry, transaction, tracking, apt
<1> QED BY <1>2, <1>3, <1>4, <1>5, <1>6, <1>7, <1>8 DEF Next, HookStep, Around

(* Every state has the types the code gives its files and its database,    *)
(* whatever fails or dies.                                                 *)
THEOREM TypesHold == Spec => []TypeOK
BY InitType, TypeStep, PTL DEF Spec

-----------------------------------------------------------------------------
(* What the hooks are given.                                               *)

LEMMA NamesType == ASSUME NEW kind, NEW hooks PROVE Names(kind, hooks) \subseteq Package
BY DEF Names

LEMMA DiffNames ==
    ASSUME NEW after \in SUBSET Package, NEW before \in SUBSET Package
    PROVE  /\ Names("track", Diff(after, before)) = after \ before
           /\ Names("remind", Diff(after, before)) = before \ after
<1> DEFINE new == [kind |-> "track", names |-> after \ before]
           gone == [kind |-> "remind", names |-> before \ after]
<1>1. /\ new.kind = "track" /\ new.names = after \ before
      /\ gone.kind = "remind" /\ gone.names = before \ after
      OBVIOUS
<1>2. Diff(after, before) = {h \in {new, gone} : h.names # {}}
      BY DEF Diff
<1> HIDE DEF new, gone
<1> QED BY <1>1, <1>2 DEF Names

(* A package manager gives what is new, what has gone, and with dnf5 what  *)
(* has been put back besides.                                              *)
LEMMA TargetNames ==
    ASSUME TypeOK, NEW m \in PackageManager, NEW again \in SUBSET Package
    PROVE  /\ Names("track", Targets(m, again)) \subseteq (Installed \ was) \cup again
           /\ (m = "pacman" => "pacman install" \in files)
                => Installed \ was \subseteq Names("track", Targets(m, again))
           /\ (m = "pacman" => "pacman remove" \in files)
                => was \ Installed \subseteq Names("remind", Targets(m, again))
<1> DEFINE new == (Installed \ was) \cup again
           gone == (was \ Installed) \cup again
           both == {[kind |-> "track", names |-> new], [kind |-> "remind", names |-> gone]}
           each == {[kind |-> "track", names |-> {p}] : p \in new}
                   \cup {[kind |-> "remind", names |-> {p}] : p \in gone}
<1>1. new \subseteq Package /\ gone \subseteq Package
      BY DEF Installed, TypeOK
<1>2. Targets(m, again) \subseteq IF m = "dnf5" THEN each ELSE both
      BY DEF Targets
<1>3. ASSUME NEW p \in Names("track", Targets(m, again)) PROVE p \in new
      <2>1. PICK h \in Targets(m, again) : h.kind = "track" /\ p \in h.names
            BY DEF Names
      <2>2. h.names \subseteq new
            BY <1>2, <2>1
      <2> QED BY <2>1, <2>2
<1>4. ASSUME m = "pacman" => "pacman install" \in files, NEW p \in new
      PROVE  p \in Names("track", Targets(m, again))
      <2>1. CASE m = "dnf5"
            <3> DEFINE h == [kind |-> "track", names |-> {p}]
            <3>1. h \in Targets(m, again)
                  BY <2>1 DEF Targets
            <3> QED BY <1>1, <3>1 DEF Names
      <2>2. CASE m # "dnf5"
            <3> DEFINE h == [kind |-> "track", names |-> new]
            <3>1. h \in Targets(m, again)
                  BY <1>4, <2>2 DEF Targets
            <3> QED BY <1>1, <3>1 DEF Names
      <2> QED BY <2>1, <2>2
<1>5. ASSUME m = "pacman" => "pacman remove" \in files, NEW p \in gone
      PROVE  p \in Names("remind", Targets(m, again))
      <2>1. CASE m = "dnf5"
            <3> DEFINE h == [kind |-> "remind", names |-> {p}]
            <3>1. h \in Targets(m, again)
                  BY <2>1 DEF Targets
            <3> QED BY <1>1, <3>1 DEF Names
      <2>2. CASE m # "dnf5"
            <3> DEFINE h == [kind |-> "remind", names |-> gone]
            <3>1. h \in Targets(m, again)
                  BY <1>5, <2>2 DEF Targets
            <3> QED BY <1>1, <3>1 DEF Names
      <2> QED BY <2>1, <2>2
<1> QED BY <1>3, <1>4, <1>5

-----------------------------------------------------------------------------
(* The invariant, one action at a time.                                    *)

Kept == /\ Rested /\ ListsAreTrue /\ SnapshotFits
        /\ NothingForgotten /\ NothingRepeated /\ NothingUnnoticed

LEMMA NoneInNone == Names("track", {}) = {} /\ Names("remind", {}) = {}
BY DEF Names

LEMMA InitKept == Init => HooksInv
<1> SUFFICES ASSUME Init PROVE HooksInv
    OBVIOUS
<1>1. /\ pc = "idle" /\ due = {} /\ toTrack = {} /\ opened = {} /\ request = NoPackage
      /\ settled = {} /\ stale = TRUE /\ spoilt = FALSE /\ misled = FALSE
      /\ asked = {} /\ skipped = {} /\ lookedUp = {} /\ failed = FALSE
      BY DEF Init
<1>2. Rested /\ ListsAreTrue /\ SnapshotFits
      BY <1>1 DEF Rested, ListsAreTrue, SnapshotFits
<1>3. NothingForgotten /\ NothingRepeated /\ NothingUnnoticed
      BY <1>1 DEF NothingForgotten, NothingRepeated, NothingUnnoticed
<1> QED BY <1>2, <1>3, InitType DEF HooksInv

LEMMA FilesKept ==
    ASSUME HooksInv, InstallHook \/ RemoveHook
    PROVE  Kept'
<1>1. /\ pc = "idle"
      /\ UNCHANGED <<packages, registry, pc, transaction, due, tracking, apt, failed>>
      BY DEF InstallHook, RemoveHook
<1>2. Installed' = Installed /\ ToBeTracked' = ToBeTracked
      BY <1>1 DEF packages, tracking, Installed, ToBeTracked, Names
<1>3. Rested' /\ ListsAreTrue' /\ SnapshotFits'
      BY <1>1, <1>2 DEF HooksInv, Rested, ListsAreTrue, SnapshotFits, Past,
        packages, transaction, tracking, apt
<1>4. NothingForgotten' /\ NothingRepeated' /\ NothingUnnoticed'
      BY <1>1, <1>2 DEF HooksInv, NothingForgotten, NothingRepeated, NothingUnnoticed,
        packages, tracking, apt
<1> QED BY <1>3, <1>4 DEF Kept

LEMMA StatusKept ==
    ASSUME HooksInv, NEW p \in Package, NEW s \in {"absent", "half", "installed"}, SetStatus(p, s)
    PROVE  Kept'
<1>1. /\ pc \in {"idle", "change"} /\ settled' \subseteq settled
      /\ stale' = (stale \/ pc = "idle" \/ pm # "apt")
      /\ UNCHANGED <<files, registry, pc, transaction, due, tracking, snapshot, spoilt, misled,
                     listing, failed>>
      BY DEF SetStatus
<1>2. ToBeTracked' = ToBeTracked
      BY <1>1 DEF tracking, ToBeTracked, Names
<1>3. Rested' /\ ListsAreTrue' /\ SnapshotFits'
      BY <1>1 DEF HooksInv, Rested, ListsAreTrue, SnapshotFits, Past, transaction, tracking
<1>4. NothingForgotten' /\ NothingRepeated' /\ NothingUnnoticed'
      BY <1>1, <1>2 DEF HooksInv, NothingForgotten, NothingRepeated, NothingUnnoticed, tracking
<1> QED BY <1>3, <1>4 DEF Kept

LEMMA InstalledType == Installed \subseteq Package /\ Installed # NoFile
BY HooksAssumption DEF Installed

LEMMA BeginKept ==
    ASSUME HooksInv, NEW m \in PackageManager, Begin(m)
    PROVE  Kept'
<1>1. /\ pc = "idle" /\ pm' = m /\ was' = Installed
      /\ pc' = IF m = "apt" THEN "list" ELSE "change"
      /\ UNCHANGED <<packages, files, registry, due, tracking, apt, failed>>
      BY DEF Begin
<1>2. ToBeTracked' = ToBeTracked /\ Installed' = Installed
      BY <1>1 DEF packages, tracking, ToBeTracked, Names, Installed
<1>3. settled \subseteq Installed
      BY DEF HooksInv, TypeOK
<1>4. Rested' /\ ListsAreTrue' /\ SnapshotFits'
      BY <1>1, <1>2, <1>3 DEF HooksInv, Rested, ListsAreTrue, SnapshotFits, Past,
        packages, tracking, apt
<1>5. NothingForgotten' /\ NothingRepeated' /\ NothingUnnoticed'
      BY <1>1, <1>2 DEF HooksInv, NothingForgotten, NothingRepeated, NothingUnnoticed,
        packages, tracking, apt
<1> QED BY <1>4, <1>5 DEF Kept

LEMMA CommitKept == ASSUME HooksInv, Commit PROVE Kept'
<1>1. /\ pc = "change"
      /\ UNCHANGED <<status, files, registry, transaction, tracking, apt, failed, left>>
      BY DEF Commit
<1>2. Installed' = Installed
      BY <1>1 DEF Installed
<1>3. /\ toTrack = {} /\ asked = {} /\ skipped = {} /\ lookedUp = {} /\ opened = {}
      /\ request = NoPackage /\ ~failed /\ ~misled /\ due = {}
      BY <1>1 DEF HooksInv, Rested
<1>4. CASE pm = "apt"
      <2>1. pc' = "diff" /\ due' = due /\ settled' = settled
            BY <1>4 DEF Commit
      <2>2. ToBeTracked' = ToBeTracked
            BY <1>1, <2>1 DEF tracking, ToBeTracked, Names
      <2>3. Rested' /\ ListsAreTrue' /\ SnapshotFits'
            BY <1>1, <1>2, <1>4, <2>1
               DEF HooksInv, Rested, ListsAreTrue, SnapshotFits, Past, transaction, tracking, apt
      <2>4. NothingForgotten' /\ NothingRepeated' /\ NothingUnnoticed'
            BY <1>1, <1>2, <2>1, <2>2
               DEF HooksInv, NothingForgotten, NothingRepeated, NothingUnnoticed, tracking, apt
      <2> QED BY <2>3, <2>4 DEF Kept
<1>5. CASE pm # "apt"
      <2>0. Installed \subseteq Package
            BY DEF Installed
      <2>1. PICK again \in SUBSET Package :
               pc' = "hooks" /\ due' = Targets(pm, again) /\ settled' = settled \ again
            BY <1>5, <2>0 DEF Commit
      <2>2. pm \in PackageManager /\ settled \subseteq was
            BY <1>1 DEF HooksInv, TypeOK, ListsAreTrue
      <2>3. /\ Names("track", due') \subseteq (Installed \ was) \cup again
            /\ (pm = "pacman" => "pacman install" \in files)
                  => Installed \ was \subseteq Names("track", due')
            /\ (pm = "pacman" => "pacman remove" \in files)
                  => was \ Installed \subseteq Names("remind", due')
            BY <2>1, <2>2, TargetNames DEF HooksInv
      <2>4. ToBeTracked' = Names("track", due')
            BY <1>1, <1>3 DEF tracking, ToBeTracked, Names
      <2>5. UNCHANGED <<was, pm, files, asked, skipped, lookedUp, misled>>
            BY <1>1 DEF transaction, tracking, apt
      <2>6. NothingForgotten' /\ NothingUnnoticed'
            <3>1. Names("remind", due)' = Names("remind", due')
                  BY DEF Names
            <3> QED BY <1>2, <1>3, <2>3, <2>4, <2>5, <3>1 DEF NothingForgotten, NothingUnnoticed
      <2>7. NothingRepeated'
            BY <1>3, <2>1, <2>2, <2>3, <2>4, <2>5 DEF NothingRepeated
      <2>8. SnapshotFits' /\ ListsAreTrue'
            BY <1>1, <1>2, <1>5, <2>1, <2>2
               DEF HooksInv, SnapshotFits, Past, ListsAreTrue, transaction, apt
      <2>9. Rested'
            BY <2>1 DEF Rested
      <2> QED BY <2>6, <2>7, <2>8, <2>9 DEF Kept
<1> QED BY <1>4, <1>5

LEMMA OverKept ==
    ASSUME HooksInv, Over, SnapshotFits'
    PROVE  Kept'
<1>1. /\ due' = {} /\ toTrack' = {} /\ asked' = {} /\ pc' = "idle"
      BY DEF Over
<1>2. ToBeTracked' = {}
      BY <1>1 DEF ToBeTracked, Names
<1> QED BY <1>1, <1>2 DEF Over, Kept, Rested, ListsAreTrue, NothingForgotten, NothingRepeated,
                          NothingUnnoticed

LEMMA EndsKept == ASSUME HooksInv, End \/ Stop \/ PostGivesUp PROVE Kept'
<1>1. Over
      BY DEF End, Stop, PostGivesUp
<1>2. Installed' = Installed /\ UNCHANGED <<snapshot, spoilt>> /\ pc' = "idle"
      BY <1>1 DEF Over, Installed
<1>3. Past' = Installed
      BY <1>2 DEF Past
<1>4. ~stale' => ~stale /\ Past = Installed
      BY DEF End, Stop, PostGivesUp, Idle, Past
<1>5. settled' = settled \/ (settled' = Installed /\ pc = "hooks" /\ pm = "apt")
      BY DEF End, Stop, PostGivesUp, Idle
<1>6. ~spoilt /\ settled' # {} => snapshot # NoFile /\ settled' \subseteq snapshot
      <2>1. CASE settled' = settled
            BY <2>1 DEF HooksInv, SnapshotFits
      <2>2. CASE settled' = Installed /\ pc = "hooks" /\ pm = "apt"
            BY <2>2 DEF HooksInv, SnapshotFits, Past
      <2> QED BY <1>5, <2>1, <2>2
<1>7. SnapshotFits'
      BY <1>2, <1>3, <1>4, <1>6 DEF HooksInv, SnapshotFits
<1> QED BY <1>1, <1>7, OverKept

(* A write of what is installed: what is there afterwards fits, and        *)
(* nothing that is settled is missing unless the write has failed.         *)
LEMMA WriteKept ==
    ASSUME HooksInv, WriteSnapshot(listing), listing = Installed, pc \in {"write", "prime"}
    PROVE  /\ ~stale' => /\ snapshot' # NoFile /\ snapshot' \subseteq Installed
                         /\ (~spoilt' => snapshot' = Installed)
           /\ ~spoilt' /\ settled # {} => snapshot' # NoFile /\ settled \subseteq snapshot'
           /\ pc = "prime" /\ ~spoilt' => ~stale'
           /\ failed' = failed
<1>1. settled \subseteq Installed
      BY DEF HooksInv, TypeOK
<1>2. \A S \in SUBSET Package : S # NoFile
      BY HooksAssumption
<1>3. CASE snapshot' = Installed /\ ~stale' /\ ~spoilt' /\ NoFault
      BY <1>1, <1>3, InstalledType DEF NoFault
<1>4. CASE snapshot' \subseteq Installed /\ Missed /\ ~stale' /\ spoilt'
      BY <1>2, <1>4, InstalledType DEF Missed
<1>5. CASE /\ snapshot' = snapshot /\ Missed
           /\ stale' = (stale \/ pc = "prime") /\ spoilt' = (spoilt \/ pc = "prime")
      <2>1. failed' = failed
            BY <1>5 DEF Missed
      <2>2. ~stale' \/ ~spoilt' => pc = "write"
            BY <1>5
      <2>3. pc = "write" => Past = Installed
            BY DEF Past
      <2> QED BY <1>5, <2>1, <2>2, <2>3 DEF HooksInv, SnapshotFits
<1> QED BY <1>3, <1>4, <1>5 DEF WriteSnapshot

LEMMA AptKept ==
    ASSUME HooksInv, PreList \/ PreWrite \/ PostDiff \/ PostPrime
    PROVE  Kept'
<1>1. Installed' = Installed /\ UNCHANGED <<settled, files, transaction, tracking>>
      BY DEF PreList, PreWrite, PostDiff, PostPrime, packages, Installed
<1>2. CASE PreList
      <2>1. /\ pc = "list" /\ pc' \in {"write", "change"} /\ (pc' = "write" => listing' = Installed)
            /\ UNCHANGED <<due, snapshot, stale, spoilt, misled, failed>>
            BY <1>2 DEF PreList, PackageList, NoFault, Missed
      <2>2. ToBeTracked' = ToBeTracked
            BY <1>1, <2>1 DEF tracking, ToBeTracked, Names
      <2>3. Rested' /\ ListsAreTrue' /\ SnapshotFits'
            BY <1>1, <2>1
               DEF HooksInv, Rested, ListsAreTrue, SnapshotFits, Past, transaction, tracking
      <2>4. NothingForgotten' /\ NothingRepeated' /\ NothingUnnoticed'
            BY <1>1, <2>1, <2>2
               DEF HooksInv, NothingForgotten, NothingRepeated, NothingUnnoticed, tracking
      <2> QED BY <2>3, <2>4 DEF Kept
<1>3. CASE PreWrite \/ PostPrime
      <2>1. /\ WriteSnapshot(listing) /\ UNCHANGED <<due, listing, misled>>
            /\ (pc = "write" /\ pc' = "change") \/ (pc = "prime" /\ pc' = "hooks")
            BY <1>3 DEF PreWrite, PostPrime
      <2>2. listing = Installed /\ pm = "apt" /\ (pc = "write" => was = Installed)
            BY <2>1 DEF HooksInv, ListsAreTrue
      <2>3. /\ ~stale' => /\ snapshot' # NoFile /\ snapshot' \subseteq Installed
                          /\ (~spoilt' => snapshot' = Installed)
            /\ ~spoilt' /\ settled # {} => snapshot' # NoFile /\ settled \subseteq snapshot'
            /\ pc = "prime" /\ ~spoilt' => ~stale'
            /\ failed' = failed
            BY <2>1, <2>2, WriteKept
      <2>4. /\ ToBeTracked' = ToBeTracked
            /\ Names("remind", due)' = Names("remind", due)
            BY <1>1, <2>1 DEF tracking, ToBeTracked, Names
      <2>5. Rested'
            BY <1>1, <2>1, <2>3 DEF HooksInv, Rested, tracking
      <2>6. NothingForgotten' /\ NothingRepeated' /\ NothingUnnoticed'
            BY <1>1, <2>1, <2>3, <2>4
               DEF HooksInv, NothingForgotten, NothingRepeated, NothingUnnoticed, transaction, tracking
      <2>7. Past' = Installed
            BY <1>1, <2>1, <2>2 DEF Past, transaction
      <2>8. SnapshotFits'
            BY <1>1, <2>1, <2>3, <2>7 DEF SnapshotFits
      <2>9. ListsAreTrue'
            BY <1>1, <2>1, <2>2 DEF HooksInv, ListsAreTrue, transaction
      <2> QED BY <2>5, <2>6, <2>8, <2>9 DEF Kept
<1>4. CASE PostDiff
      <2>1. /\ pc = "diff" /\ snapshot # NoFile /\ listing' = Installed
            /\ due' = Diff(Installed, snapshot) /\ pc' = "prime"
            /\ failed' = stale /\ misled' = spoilt
            /\ UNCHANGED <<snapshot, stale, spoilt>>
            BY <1>4 DEF PostDiff, PackageList
      <2>2. pm = "apt" /\ settled \subseteq was /\ asked = {} /\ toTrack = {}
            BY <2>1 DEF HooksInv, ListsAreTrue, Rested
      <2>3. Names("track", due') = Installed \ snapshot /\ Names("remind", due') = snapshot \ Installed
            BY <2>1, DiffNames, InstalledType DEF HooksInv, TypeOK
      <2>4. ToBeTracked' = Names("track", due') /\ Names("remind", due)' = Names("remind", due')
            BY <1>1, <2>2 DEF tracking, ToBeTracked, Names
      <2>5. (~stale => snapshot \subseteq was) /\ (~stale /\ ~spoilt => snapshot = was)
            BY <2>1, <2>2 DEF HooksInv, SnapshotFits, Past
      <2>6. ~spoilt => settled \subseteq snapshot
            BY DEF HooksInv, SnapshotFits
      <2>7. NothingForgotten' /\ NothingRepeated' /\ NothingUnnoticed'
            BY <1>1, <2>1, <2>2, <2>3, <2>4, <2>5, <2>6
               DEF NothingForgotten, NothingRepeated, NothingUnnoticed, transaction, tracking
      <2>8. Rested'
            BY <1>1, <2>1 DEF HooksInv, Rested, tracking
      <2>9. SnapshotFits' /\ ListsAreTrue'
            BY <1>1, <2>1, <2>2, <2>5 DEF HooksInv, SnapshotFits, Past, ListsAreTrue, transaction
      <2> QED BY <2>7, <2>8, <2>9 DEF Kept
<1> QED BY <1>2, <1>3, <1>4

LEMMA RemindKept == ASSUME HooksInv, NEW h \in due, Remind(h) PROVE Kept'
<1>1. /\ pc = "hooks" /\ due' \subseteq due /\ h.kind = "remind" /\ lookedUp \subseteq lookedUp'
      /\ failed' \/ (due' = due \ {h} /\ lookedUp' = lookedUp \cup h.names /\ failed' = failed)
      /\ UNCHANGED <<packages, files, registry, pc, transaction, toTrack, opened, request, asked,
                     skipped, apt>>
      BY DEF Remind, Idle, NoFault, Fault
<1>2. Installed' = Installed
      BY <1>1 DEF packages, Installed
<1>3. Names("track", due') \subseteq Names("track", due)
      BY <1>1 DEF Names
<1>4. ~failed' => /\ Names("track", due') = Names("track", due)
                  /\ Names("remind", due) \subseteq Names("remind", due') \cup lookedUp'
      BY <1>1 DEF Names
<1>5. ToBeTracked' = toTrack \cup Names("track", due') /\ Names("remind", due)' = Names("remind", due')
      BY <1>1 DEF ToBeTracked, Names
<1>6. ~failed' => ~failed
      BY <1>1
<1>7. NothingForgotten'
      BY <1>1, <1>2, <1>4, <1>5, <1>6 DEF HooksInv, NothingForgotten, ToBeTracked, transaction
<1>8. NothingRepeated'
      BY <1>1, <1>3, <1>5 DEF HooksInv, NothingRepeated, ToBeTracked, packages, apt
<1>9. NothingUnnoticed'
      <2>1. UNCHANGED <<was, pm, misled>>
            BY <1>1 DEF transaction, apt
      <2> QED BY <1>1, <1>2, <1>4, <1>5, <1>6, <2>1 DEF HooksInv, NothingUnnoticed
<1>10. Rested'
      BY <1>1 DEF Rested
<1>11. SnapshotFits' /\ ListsAreTrue'
      BY <1>1, <1>2 DEF HooksInv, SnapshotFits, Past, ListsAreTrue, packages, transaction, apt
<1> QED BY <1>7, <1>8, <1>9, <1>10, <1>11 DEF Kept

LEMMA StartTrackKept == ASSUME HooksInv, NEW h \in due, StartTrack(h) PROVE Kept'
<1>1. /\ pc = "hooks" /\ toTrack = {} /\ due' = due \ {h} /\ h.kind = "track"
      /\ toTrack' \subseteq Wanted(h)
      /\ failed' \/ (Wanted(h) \subseteq toTrack' \cup skipped' /\ failed' = failed)
      /\ skipped \subseteq skipped'
      /\ UNCHANGED <<packages, files, registry, pc, transaction, request, asked, lookedUp, apt>>
      BY DEF StartTrack, Idle, NoFault, Fault
<1>2. Installed' = Installed
      BY <1>1 DEF packages, Installed
<1>3. Wanted(h) \subseteq Names("track", due) /\ Wanted(h) = h.names \cap Explicit
      BY <1>1 DEF HooksInv, TypeOK, Names, Wanted
<1>4. /\ Names("track", due') \subseteq Names("track", due)
      /\ Names("track", due) \cap Explicit \subseteq Wanted(h) \cup Names("track", due')
      /\ Names("remind", due') = Names("remind", due)
      BY <1>1, <1>3 DEF Names
<1>5. ToBeTracked' = toTrack' \cup Names("track", due') /\ Names("remind", due)' = Names("remind", due')
      BY DEF ToBeTracked, Names
<1>6. ToBeTracked = Names("track", due)
      BY <1>1 DEF ToBeTracked
<1>7. ~failed' => ~failed
      BY <1>1
<1>8. NothingForgotten'
      <2>1. ~failed' => ToBeTracked \cap Explicit \subseteq ToBeTracked' \cup skipped'
            BY <1>1, <1>4, <1>5, <1>6
      <2> QED BY <1>1, <1>2, <1>7, <2>1 DEF HooksInv, NothingForgotten, transaction
<1>9. NothingRepeated'
      BY <1>1, <1>3, <1>4, <1>5, <1>6 DEF HooksInv, NothingRepeated, packages, apt
<1>10. NothingUnnoticed'
      BY <1>1, <1>2, <1>4, <1>5, <1>7 DEF HooksInv, NothingUnnoticed, transaction, apt
<1>11. Rested' /\ SnapshotFits' /\ ListsAreTrue'
      BY <1>1, <1>2 DEF HooksInv, Rested, SnapshotFits, Past, ListsAreTrue, packages, transaction, apt
<1> QED BY <1>8, <1>9, <1>10, <1>11 DEF Kept

LEMMA CheckKept == ASSUME HooksInv, NEW p \in Package, Check(p) PROVE Kept'
<1>1. /\ pc = "hooks" /\ p \in toTrack /\ toTrack' \subseteq toTrack
      /\ UNCHANGED <<packages, files, registry, pc, transaction, due, opened, lookedUp, apt>>
      BY DEF Check
<1>2. /\ asked' \subseteq asked \cup {p} /\ asked \subseteq asked' /\ skipped \subseteq skipped'
      /\ failed' \/ (failed' = failed /\ toTrack \subseteq toTrack' \cup {p} /\ p \in asked' \cup skipped')
      BY DEF Check, NoFault, Fault
<1>3. Installed' = Installed
      BY <1>1 DEF packages, Installed
<1>4. /\ ToBeTracked' = toTrack' \cup Names("track", due)
      /\ Names("remind", due)' = Names("remind", due)
      BY <1>1 DEF ToBeTracked, Names
<1>5. ~failed' => ~failed
      BY <1>2
<1>6. NothingForgotten'
      BY <1>1, <1>2, <1>3, <1>4, <1>5 DEF HooksInv, NothingForgotten, ToBeTracked, transaction
<1>7. NothingRepeated'
      BY <1>1, <1>2, <1>4 DEF HooksInv, NothingRepeated, ToBeTracked, packages, apt
<1>8. NothingUnnoticed'
      BY <1>1, <1>3, <1>4, <1>5 DEF HooksInv, NothingUnnoticed, transaction, apt
<1>9. Rested' /\ SnapshotFits' /\ ListsAreTrue'
      BY <1>1, <1>3 DEF HooksInv, Rested, SnapshotFits, Past, ListsAreTrue, packages, transaction, apt
<1> QED BY <1>6, <1>7, <1>8, <1>9 DEF Kept

LEMMA AroundKept == ASSUME HooksInv, Around PROVE Kept'
<1>1. UNCHANGED Outside
      BY DEF Around, Answer, Crash, Restart, Checkpoint, UserTrack, UserUntrack
<1>2. request' = request \/ request' = NoPackage
      BY DEF Around, Answer, Crash, Restart, Checkpoint, UserTrack, UserUntrack, EndOfStream
<1>3. /\ Installed' = Installed /\ ToBeTracked' = ToBeTracked
      /\ Names("remind", due)' = Names("remind", due)
      BY <1>1 DEF Outside, packages, Installed, ToBeTracked, Names
<1>4. Rested'
      BY <1>1, <1>2 DEF HooksInv, Rested, Outside, apt
<1>5. NothingForgotten' /\ NothingRepeated' /\ NothingUnnoticed'
      BY <1>1, <1>3 DEF HooksInv, NothingForgotten, NothingRepeated, NothingUnnoticed,
                        Outside, packages, transaction, apt
<1>6. SnapshotFits' /\ ListsAreTrue'
      BY <1>1, <1>3 DEF HooksInv, SnapshotFits, Past, ListsAreTrue, Outside, packages, transaction, apt
<1> QED BY <1>4, <1>5, <1>6 DEF Kept

LEMMA KeptStep == ASSUME HooksInv, [Next]_vars PROVE HooksInv'
<1>1. \A m \in ToSet(Detected) : m \in PackageManager
      BY HooksAssumption DEF ToSet
<1>2. CASE InstallHook \/ RemoveHook
      BY <1>2, FilesKept, TypeStep DEF HooksInv, Kept
<1>3. CASE \E p \in Package : Configure(p) \/ Break(p) \/ Take(p)
      BY <1>3, StatusKept, TypeStep DEF Configure, Break, Take, HooksInv, Kept
<1>4. CASE \E m \in ToSet(Detected) : Begin(m)
      BY <1>1, <1>4, BeginKept, TypeStep DEF HooksInv, Kept
<1>5. CASE Commit
      BY <1>5, CommitKept, TypeStep DEF HooksInv, Kept
<1>6. CASE End \/ Stop \/ PostGivesUp
      BY <1>6, EndsKept, TypeStep DEF HooksInv, Kept
<1>7. CASE PreList \/ PreWrite \/ PostDiff \/ PostPrime
      BY <1>7, AptKept, TypeStep DEF HooksInv, Kept
<1>8. CASE \E h \in due : Run(h)
      BY <1>8, RemindKept, StartTrackKept, TypeStep DEF Run, HooksInv, Kept
<1>9. CASE \E p \in Package : Check(p)
      BY <1>9, CheckKept, TypeStep DEF HooksInv, Kept
<1>10. CASE Around
      BY <1>10, AroundKept, TypeStep DEF HooksInv, Kept
<1>11. CASE UNCHANGED vars
      <2>1. /\ Installed' = Installed /\ ToBeTracked' = ToBeTracked
            /\ Names("remind", due)' = Names("remind", due)
            BY <1>11 DEF vars, packages, tracking, Installed, ToBeTracked, Names
      <2>2. Rested' /\ SnapshotFits' /\ ListsAreTrue'
            BY <1>11, <2>1 DEF HooksInv, Rested, ListsAreTrue, SnapshotFits, Past,
                  vars, packages, transaction, tracking, apt
      <2>3. NothingForgotten' /\ NothingRepeated' /\ NothingUnnoticed'
            BY <1>11, <2>1 DEF HooksInv, NothingForgotten, NothingRepeated, NothingUnnoticed,
                  vars, packages, transaction, tracking, apt
      <2> QED BY <1>11, <2>2, <2>3, TypeStep DEF HooksInv
<1> QED BY <1>2, <1>3, <1>4, <1>5, <1>6, <1>7, <1>8, <1>9, <1>10, <1>11 DEF Next, HookStep, Around

(* A hook has in hand only what the package manager or dpkg has given it,  *)
(* a snapshot nobody has interfered with holds nothing that was not there  *)
(* before, and what is settled is never among what is to be tracked.       *)
THEOREM HooksInvHolds == Spec => []HooksInv
BY InitKept, KeptStep, PTL DEF Spec

-----------------------------------------------------------------------------
(* The properties.                                                         *)

(* When the last hook of a transaction is through and none has failed,     *)
(* whatever it has installed and the user asked for has been sent to the   *)
(* daemon, or was found tracked, or found no daemon: also after a          *)
(* Pre-Invoke that came to nothing and a snapshot only half written.       *)
THEOREM InstallsAreTracked == Spec => []InstallIsTracked
<1>1. HooksInv => InstallIsTracked
      <2> SUFFICES ASSUME HooksInv, Idle, due = {}, ~failed,
                          pm = "pacman" => "pacman install" \in files
                   PROVE  (Installed \ was) \cap Explicit \subseteq asked \cup skipped
          BY DEF InstallIsTracked
      <2>1. ToBeTracked = {}
            BY NoneInNone DEF Idle, ToBeTracked
      <2> QED BY <2>1 DEF HooksInv, NothingForgotten, Idle
<1> QED BY <1>1, HooksInvHolds, PTL

(* What a Post-Invoke has been through with is not asked for again as long *)
(* as no package manager touches it, whatever is missed, except by a       *)
(* transaction compared with what a failed write of the snapshot has left. *)
THEOREM NeverAskedAgain == Spec => []NotAskedAgain
<1>1. HooksInv => NotAskedAgain
      BY DEF HooksInv, NothingRepeated, NotAskedAgain
<1> QED BY <1>1, HooksInvHolds, PTL

(* When the last hook of a transaction is through and none has failed,     *)
(* whatever it has taken away has been looked up for a reminder.           *)
THEOREM RemovalsAreReminded == Spec => []RemovalIsReminded
<1>1. HooksInv => RemovalIsReminded
      BY NoneInNone DEF HooksInv, NothingUnnoticed, RemovalIsReminded, Idle
<1> QED BY <1>1, HooksInvHolds, PTL

=============================================================================
