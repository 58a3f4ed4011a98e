--------------------------- MODULE RollbackProofs ---------------------------
(* The rollback engine, for every file system, journal, archive and inter- *)
(* leaving: type correctness, archive-before-remove and what recover makes *)
(* of it, the licence to remove, dry runs, reports, and what is left over. *)
EXTENDS Rollback, TLAPS

-----------------------------------------------------------------------------
(* What the operators return.                                              *)

LEMMA BaselineTypes ==
    ASSUME TypeOK, NEW p \in Path
    PROVE  /\ Prior(p) \in File \cup {Nothing, NoHash}
           /\ Blob(p) \in File \cup {Nothing}
BY DEF TypeOK, Prior, Blob, HasPrint

LEMMA WriteToType ==
    ASSUME TypeOK, NEW p \in Path
    PROVE  WriteTo(p) \in Path
BY ContentAssumption DEF TypeOK, WriteTo

LEMMA ArchivedType ==
    ASSUME TypeOK, NEW p \in Path
    PROVE  Archived(p) \in Regular \cup Link \cup {Nothing}
BY DEF TypeOK, Archived, Slot

LEMMA DecideType ==
    ASSUME TypeOK, NEW op \in Op, NEW p \in Path, NEW diff
    PROVE  /\ Decide(op, p, diff) \in Plan
           /\ Rehearse(Decide(op, p, diff)) \in Plan
<1>1. ASSUME NEW x \in BOOLEAN, NEW how \in Final, NEW res \in Result
      PROVE  Removal(x, how, res) \in Plan
      BY <1>1 DEF Removal, Plan
<1>2. SkipIt \in Plan
      BY <1>1 DEF SkipIt, Final, Result
<1>3. CreatedPlan(p, diff) \in Plan
      <2> DEFINE keep == IF diff = "Modified" THEN inv.mode = "Conservative"
                         ELSE inv.home /\ disk[p] \notin Dir
      <2>1. keep \in BOOLEAN
            BY DEF TypeOK, Invocation
      <2>2. /\ (IF diff = "Modified" THEN "tryRemove" ELSE "remove") \in Final
            /\ (IF keep THEN "Archived" ELSE "Removed") \in Result
            BY DEF Final, Result
      <2>3. Removal(keep, IF diff = "Modified" THEN "tryRemove" ELSE "remove",
                    IF keep THEN "Archived" ELSE "Removed") \in Plan
            BY <2>1, <2>2, <1>1
      <2> QED BY <2>3, <1>2 DEF CreatedPlan
<1>4. ModifiedPlan(p, diff) \in Plan
      BY <1>1, <1>2 DEF ModifiedPlan, Final, Result
<1>5. DeletedPlan(p) \in Plan
      BY <1>1 DEF DeletedPlan, Final, Result
<1>6. Decide(op, p, diff) \in Plan
      BY <1>2, <1>3, <1>4, <1>5 DEF Decide
<1>7. ASSUME NEW d \in Plan PROVE Rehearse(d) \in Plan
      BY <1>7 DEF Rehearse, Plan, Final
<1> QED BY <1>6, <1>7

LEMMA EntryType ==
    ASSUME TypeOK, NEW i \in DOMAIN journal
    PROVE  journal[i] \in [op : Op, path : Path]
<1>1. ASSUME NEW S, NEW s \in Seq(S), NEW k \in DOMAIN s PROVE s[k] \in S
      BY <1>1
<1> QED BY <1>1 DEF TypeOK

LEMMA CurType ==
    ASSUME TypeOK, Handling
    PROVE  /\ next \in DOMAIN journal
           /\ journal[next] \in [op : Op, path : Path]
           /\ Cur \in Path
BY EntryType DEF TypeOK, Cur

LEMMA ProcessEndsType ==
    ASSUME ProcessEnds
    PROVE  /\ inv' \in Invocation /\ next' \in Nat \ {0} /\ plan' \in Plan
           /\ pending' \subseteq Path
BY DEF ProcessEnds, Invocation, NoInvocation, Mode, Plan, SkipIt, Removal, Final, Result

LEMMA SlotType ==
    ASSUME NEW A \in [Path -> Slot], NEW p \in Path
    PROVE  /\ \A v \in Regular \cup {Nothing} : [A EXCEPT ![p].copy = v] \in [Path -> Slot]
           /\ \A v \in Link \cup {PlainMeta, Nothing} :
                 [A EXCEPT ![p].meta = v] \in [Path -> Slot]
           /\ \A v \in BOOLEAN : [A EXCEPT ![p].row = v] \in [Path -> Slot]
<1>1. ASSUME NEW r \in Slot
      PROVE  /\ \A v \in Regular \cup {Nothing} : [r EXCEPT !.copy = v] \in Slot
             /\ \A v \in Link \cup {PlainMeta, Nothing} : [r EXCEPT !.meta = v] \in Slot
             /\ \A v \in BOOLEAN : [r EXCEPT !.row = v] \in Slot
      BY <1>1 DEF Slot
<1>2. A[p] \in Slot
      OBVIOUS
<1> QED BY <1>1, <1>2

LEMMA LogType ==
    ASSUME NEW j \in Seq([op : Op, path : Path]), NEW op \in Op, NEW p \in Path
    PROVE  Log(j, Entry(op, p)) \in Seq([op : Op, path : Path])
<1>1. Entry(op, p) \in [op : Op, path : Path]
      BY DEF Entry
<1>2. ASSUME NEW S, NEW s \in Seq(S), NEW m \in S PROVE Append(s, m) \in Seq(S)
      BY <1>2
<1> QED BY <1>1, <1>2 DEF Log

(* The journal only grows.                                                 *)
LEMMA LogGrows ==
    ASSUME NEW j \in Seq([op : Op, path : Path]), NEW op \in Op, NEW p \in Path
    PROVE  /\ DOMAIN j \subseteq DOMAIN Log(j, Entry(op, p))
           /\ \A i \in DOMAIN Log(j, Entry(op, p)) :
                 \/ i \in DOMAIN j /\ Log(j, Entry(op, p))[i] = j[i]
                 \/ Log(j, Entry(op, p))[i] = Entry(op, p)
<1>1. Entry(op, p) \in [op : Op, path : Path]
      BY DEF Entry
<1>2. ASSUME NEW S, NEW s \in Seq(S), NEW m \in S
      PROVE  /\ DOMAIN s \subseteq DOMAIN Append(s, m)
             /\ \A i \in DOMAIN Append(s, m) :
                   (i \in DOMAIN s /\ Append(s, m)[i] = s[i]) \/ Append(s, m)[i] = m
      BY <1>2
<1> QED BY <1>1, <1>2 DEF Log

-----------------------------------------------------------------------------
(* Type correctness.                                                       *)

LEMMA TypeInit == Init => TypeOK
BY SystemAssumption DEF Init, TypeOK, Invocation, NoInvocation, Mode, Plan, SkipIt,
   Removal, Final, Result, Regular, Content, Handling, Slot

LEMMA AdvanceType ==
    ASSUME TypeOK, Handling, NEW res \in Result, Advance(res)
    PROVE  /\ pc' = "loop" /\ next' \in Nat \ {0}
           /\ report' \subseteq [entry : [op : Op, path : Path], result : Result,
                                 then : Final]
<1>1. plan.then \in Final
      BY DEF TypeOK, Plan
<1> QED BY <1>1, CurType DEF Advance, Say, TypeOK

LEMMA TakeType ==
    ASSUME TypeOK, Handling, Take
    PROVE  taken' \in [Path -> Owed \cup {Nothing}]
<1>1. journal[next].op \in Op /\ Cur \in Path
      BY CurType
<1>2. inv.mode \in Mode /\ inv.home \in BOOLEAN
      BY DEF TypeOK, Invocation
<1> QED BY <1>1, <1>2 DEF Take, TakenNow, TypeOK, Owed

LEMMA CommandType == ASSUME TypeOK, Command PROVE TypeOK'
<1> USE DEF TypeOK
<1>1. ASSUME NEW p \in Path, NEW v \in Content \ {Torn}, CreateFile(p, v) PROVE TypeOK'
      BY <1>1, LogType, LogGrows
      DEF CreateFile, CommandUnchanged, Record, engine, ghosts, budget, Op, Handling
<1>2. ASSUME NEW p \in Path, NEW v \in File, ModifyFile(p, v) PROVE TypeOK'
      BY <1>2, LogType, LogGrows
      DEF ModifyFile, CommandUnchanged, Record, engine, ghosts, budget, Op, Handling,
          Content, Regular
<1>3. ASSUME NEW p \in Path, DeleteFile(p) PROVE TypeOK'
      BY <1>3, LogType, LogGrows
      DEF DeleteFile, CommandUnchanged, Record, engine, ghosts, budget, Op, Handling
<1>4. ASSUME NEW p \in Path, NEW q \in Path, RenameFile(p, q) PROVE TypeOK'
      <2>1. "rename_from" \in Op /\ "rename_to" \in Op
            BY DEF Op
      <2> DEFINE j == Log(journal, Entry("rename_from", p))
      <2>2. j \in Seq([op : Op, path : Path]) /\ DOMAIN journal \subseteq DOMAIN j
            BY <2>1, LogType, LogGrows
      <2> HIDE DEF j
      <2>3. /\ Log(j, Entry("rename_to", q)) \in Seq([op : Op, path : Path])
            /\ DOMAIN j \subseteq DOMAIN Log(j, Entry("rename_to", q))
            BY <2>1, <2>2, LogType, LogGrows
      <2>4. journal' = Log(j, Entry("rename_to", q))
            BY <1>4 DEF RenameFile, Record, j
      <2>5. disk' \in [Path -> Content \cup {Absent}]
            BY <1>4 DEF RenameFile
      <2> QED BY <1>4, <2>2, <2>3, <2>4, <2>5
          DEF RenameFile, CommandUnchanged, engine, ghosts, budget, Handling
<1>5. ASSUME Exit PROVE TypeOK'
      BY <1>5 DEF Exit, engine, ghosts, budget, Handling
<1> QED BY <1>1, <1>2, <1>3, <1>4, <1>5 DEF Command

LEMMA TornType ==
    ASSUME TypeOK
    PROVE  /\ \A x \in TornCopy :
                 x \in [Path -> Slot]
           /\ TornRestore => /\ disk' \in [Path -> Content \cup {Absent}]
                             /\ taken' \in [Path -> Owed \cup {Nothing}]
<1>1. ASSUME NEW x \in TornCopy
      PROVE  x \in [Path -> Slot]
      <2>1. archive \in [Path -> Slot]
            BY DEF TypeOK
      <2>2. CASE x = archive
            BY <2>1, <2>2
      <2>3. CASE pc = "copy" /\ x = [archive EXCEPT ![Cur].copy = Torn]
            BY <2>1, <2>3, CurType, SlotType DEF Regular, Handling
      <2> QED BY <1>1, <2>2, <2>3 DEF TornCopy
<1>2. ASSUME TornRestore
      PROVE  /\ disk' \in [Path -> Content \cup {Absent}]
             /\ taken' \in [Path -> Owed \cup {Nothing}]
      <2>1. CASE UNCHANGED <<disk, taken>>
            BY <2>1 DEF TypeOK
      <2>2. CASE /\ pc = "act"
                 /\ disk' = [disk EXCEPT ![WriteTo(Cur)] = Torn]
                 /\ IF WriteTo(Cur) = Cur THEN Take ELSE Supersede(WriteTo(Cur))
            BY <2>2, TakeType DEF TypeOK, Content, Regular, Supersede, Handling
      <2> QED BY <1>2, <2>1, <2>2 DEF TornRestore
<1> QED BY <1>1, <1>2

LEMMA CutShortType ==
    ASSUME TypeOK, NEW p \in Path, disk' \in CutShort(p)
    PROVE  /\ disk' \in [Path -> Content \cup {Absent}]
           /\ \A x \in Path : disk'[x] \in {disk[x], Torn, Absent}
<1>1. WriteTo(p) \in Path /\ disk \in [Path -> Content \cup {Absent}]
      BY WriteToType DEF TypeOK
<1>2. \/ disk' = disk \/ disk' = [disk EXCEPT ![p] = Absent]
      \/ disk' = [disk EXCEPT ![WriteTo(p)] = Torn]
      BY DEF CutShort
<1>3. Torn \in Content
      BY DEF Content, Regular
<1> QED BY <1>1, <1>2, <1>3

LEMMA EngineStepType == ASSUME TypeOK, EngineStep PROVE TypeOK'
<1> USE DEF TypeOK
<1>1. CASE PmRemove
      <2>1. disk' \in [Path -> Content \cup {Absent}]
            BY <1>1 DEF PmRemove
      <2> QED BY <1>1, <2>1 DEF PmRemove, ghosts, budget, Handling
<1>2. CASE PmMissing
      BY <1>2, ProcessEndsType DEF PmMissing, ProcessEnds, budget, Handling
<1>3. CASE Analyse
      <2>1. next \in DOMAIN journal
            BY <1>3 DEF Analyse
      <2>2. journal[next] \in [op : Op, path : Path]
            BY <2>1, EntryType
      <2>3. plan' \in Plan
            BY <1>3, <2>2, DecideType DEF Analyse, Cur
      <2> QED BY <1>3, <2>1, <2>3 DEF Analyse, budget, Handling
<1>4. CASE ArchiveCopy
      <2>1. Handling
            BY <1>4 DEF ArchiveCopy, Handling
      <2>2. plan' \in Plan
            BY <1>4 DEF ArchiveCopy, Plan, SidecarOf
      <2>3. archive' \in [Path -> Slot]
            BY <1>4, <2>1, CurType, SlotType DEF ArchiveCopy
      <2> QED BY <1>4, <2>1, <2>2, <2>3 DEF ArchiveCopy, ghosts, budget, Handling
<1>5. CASE ArchiveMeta
      <2>1. Handling
            BY <1>5 DEF ArchiveMeta, Handling
      <2>2. archive' \in [Path -> Slot]
            BY <1>5, <2>1, CurType, SlotType DEF ArchiveMeta, Plan
      <2> QED BY <1>5, <2>1, <2>2 DEF ArchiveMeta, ghosts, budget, Handling
<1>6. CASE ArchiveRow
      <2>1. Handling
            BY <1>6 DEF ArchiveRow, Handling
      <2>2. archive' \in [Path -> Slot]
            BY <1>6, <2>1, CurType, SlotType DEF ArchiveRow
      <2> QED BY <1>6, <2>1, <2>2 DEF ArchiveRow, ghosts, budget, Handling
<1>7. ASSUME Handling, plan.result \in Result, Advance(plan.result), ActUnchanged,
             disk' \in [Path -> Content \cup {Absent}],
             taken' \in [Path -> Owed \cup {Nothing}]
      PROVE  TypeOK'
      BY <1>7, AdvanceType DEF ActUnchanged, budget, Handling
<1>8. plan.result \in Result
      BY DEF Plan
<1>9. CASE ActNothing
      BY <1>7, <1>8, <1>9 DEF ActNothing, Handling
<1>10. CASE Unlink
      <2>1. Handling
            BY <1>10 DEF Unlink, Handling
      <2>2. disk' \in [Path -> Content \cup {Absent}]
            BY <1>10 DEF Unlink
      <2> QED BY <1>7, <1>8, <1>10, <2>1, <2>2, TakeType DEF Unlink
<1>11. CASE RemoveDir
      BY <1>7, <1>8, <1>11 DEF RemoveDir, Handling
<1>12. CASE RestoreBlob
      <2>1. Handling
            BY <1>12 DEF RestoreBlob, Handling
      <2>2. Cur \in Path /\ WriteTo(Cur) \in Path
            BY <2>1, CurType, WriteToType
      <2>3. disk' \in [Path -> Content \cup {Absent}]
            BY <1>12, <2>2, BaselineTypes DEF RestoreBlob, Restorable, Content, Regular
      <2>4. taken' \in [Path -> Owed \cup {Nothing}]
            BY <1>12, <2>1, TakeType DEF RestoreBlob, Supersede
      <2> QED BY <1>7, <1>8, <1>12, <2>1, <2>3, <2>4 DEF RestoreBlob
<1>13. CASE OpFails
      <2>1. Handling
            BY <1>13 DEF OpFails, Handling
      <2>2. ResultOfFailure \in Result
            BY <1>8 DEF ResultOfFailure, Result
      <2>3. Advance(ResultOfFailure)
            BY <1>13 DEF OpFails
      <2>4. faults' \in Nat
            BY <1>13 DEF OpFails
      <2> QED BY <1>13, <2>1, <2>2, <2>3, <2>4, AdvanceType, TornType
          DEF OpFails, Handling
<1>14. CASE Finish
      BY <1>14, ProcessEndsType DEF Finish, ProcessEnds, budget, Handling
<1>15. ASSUME NEW p \in Path, RecoverEntry(p) PROVE TypeOK'
      <2>1. disk' = PutBack(p) => disk' \in [Path -> Content \cup {Absent}]
            BY <1>15, ArchivedType DEF PutBack, Content
      <2>2. disk' \in [Path -> Content \cup {Absent}]
            BY <1>15, <2>1, CutShortType DEF RecoverEntry
      <2>3. taken' \in [Path -> Owed \cup {Nothing}]
            BY <1>15 DEF RecoverEntry, Supersede
      <2>4. faults' \in Nat
            BY <1>15 DEF RecoverEntry
      <2> QED BY <1>15, <2>2, <2>3, <2>4, ProcessEndsType
          DEF RecoverEntry, ProcessEnds, Handling
<1> QED BY <1>1, <1>2, <1>3, <1>4, <1>5, <1>6, <1>9, <1>10, <1>11, <1>12, <1>13,
           <1>14, <1>15 DEF EngineStep

LEMMA TypeStep == ASSUME TypeOK, [Next]_vars PROVE TypeOK'
<1> USE DEF TypeOK
<1>1. ASSUME NEW i \in Invocations, Begin(i) PROVE TypeOK'
      BY <1>1, SystemAssumption DEF Begin, ghosts, budget, Handling
<1>2. CASE RecoverBegin
      BY <1>2 DEF RecoverBegin, ghosts, budget, Handling
<1>3. CASE Crash
      <2>1. disk' \in [Path -> Content \cup {Absent}] /\ taken' \in [Path -> Owed \cup {Nothing}]
            BY <1>3, TornType, CutShortType DEF Crash
      <2>2. crashes' \in Nat
            BY <1>3 DEF Crash
      <2> QED BY <1>3, <2>1, <2>2, ProcessEndsType, TornType DEF Crash, ProcessEnds, Handling
<1>4. ASSUME NEW p \in Path, NEW v \in (Content \ {Torn}) \cup {Absent}, UserEdit(p, v)
      PROVE  TypeOK'
      <2>1. /\ edits' = edits + 1
            /\ quiet' = IF pc = "idle" THEN quiet ELSE FALSE
            /\ steady' = IF Handling /\ p = Cur THEN FALSE ELSE steady
            BY <1>4 DEF UserEdit
      <2>2. disk' \in [Path -> Content \cup {Absent}]
            <3>1. disk' = [disk EXCEPT ![p] = v]
                  BY <1>4 DEF UserEdit
            <3>2. v \in Content \cup {Absent} /\ disk \in [Path -> Content \cup {Absent}]
                  BY <1>4
            <3> QED BY <3>1, <3>2
      <2>3. taken' \in [Path -> Owed \cup {Nothing}]
            BY <1>4 DEF UserEdit, Supersede
      <2>4. UNCHANGED <<orig, origin, live, journal, status, archive, engine, crashes, faults>>
            BY <1>4 DEF UserEdit
      <2>5. edits' \in Nat
            BY <2>1
      <2>6. quiet' \in BOOLEAN
            BY <2>1
      <2>7. steady' \in BOOLEAN
            BY <2>1
      <2> QED BY <2>2, <2>3, <2>4, <2>5, <2>6, <2>7 DEF engine, Handling
<1>5. CASE UNCHANGED vars
      BY <1>5 DEF vars, engine, ghosts, budget, Handling
<1> QED BY <1>1, <1>2, <1>3, <1>4, <1>5, CommandType, EngineStepType DEF Next

(* Every variable has its type in every reachable state.                   *)
THEOREM TypeCorrect == Spec => []TypeOK
BY TypeInit, TypeStep, PTL DEF Spec

-----------------------------------------------------------------------------
(* The inductive invariant behind TakenIsRecoverable.                      *)

(* pkgundo acts on a transaction only once its command is gone.            *)
QuietWhileLive == live => pc = "idle" /\ \A p \in Path : taken[p] = Nothing

(* A tracked app's journal names files of the home directory only.         *)
HomeJournal ==
    origin # "run" => \A i \in DOMAIN journal : Category[journal[i].path] = "NeverTouch"

(* A $HOME cleanup is of a tracked app, whose bucket is closed by then.    *)
HomeCleanup == /\ inv.home => origin # "run"
               /\ inv.home /\ ~inv.dry => origin = "untracked"

(* Where something was taken there is now nothing, the blob, or debris;    *)
(* and nothing at all while a $HOME cleanup is under way.                  *)
Vacated ==
    \A p \in Path : taken[p] # Nothing =>
        /\ origin # "tracking"
        /\ taken[p].home = (origin # "run")
        /\ disk[p] \in {Absent, Blob(p), Torn}
        /\ inv.home /\ ~inv.dry => disk[p] = Absent

(* The decision still fits the path, or somebody has written there.        *)
PlanFits ==
    Handling =>
        IF steady
        THEN \E diff \in Diffs(Cur) :
                LET e == Decide(journal[next].op, Cur, diff)
                    f == IF inv.dry THEN Rehearse(e) ELSE e
                IN  plan.archive = f.archive /\ plan.then = f.then
        ELSE taken[Cur] = Nothing

(* How far archive_file has come with the content now on disk.             *)
Copied == IF disk[Cur] \in Link THEN TRUE ELSE archive[Cur].copy = disk[Cur]

ArchiveProgress ==
    /\ pc \in {"copy", "meta", "row"} => plan.archive
    /\ steady /\ plan.archive =>
        /\ pc = "meta" => Copied /\ plan.sidecar = SidecarOf(disk[Cur])
        /\ pc = "row" => Copied /\ archive[Cur].meta = SidecarOf(disk[Cur])
        /\ pc = "act" => Archived(Cur) = disk[Cur]

IInv == /\ TypeOK /\ TakenIsRecoverable
        /\ QuietWhileLive /\ HomeJournal /\ HomeCleanup
        /\ Vacated /\ PlanFits /\ ArchiveProgress
-----------------------------------------------------------------------------
(* Facts about one state.                                                  *)

LEMMA HomeHasNoBaseline ==
    ASSUME origin # "run", NEW p \in Path
    PROVE  Prior(p) = Nothing /\ Blob(p) = Nothing
BY DEF Prior, Blob, HasPrint

(* A decision that does anything is of a real run and a permitted path.    *)
LEMMA ActingPlan ==
    ASSUME IInv, Handling, steady, plan.archive \/ plan.then # "none"
    PROVE  /\ ~inv.dry /\ Permitted(Cur)
           /\ \E diff \in Diffs(Cur) :
                 /\ plan.archive = Decide(journal[next].op, Cur, diff).archive
                 /\ plan.then = Decide(journal[next].op, Cur, diff).then
<1>1. PICK diff \in Diffs(Cur) :
         LET e == Decide(journal[next].op, Cur, diff)
             f == IF inv.dry THEN Rehearse(e) ELSE e
         IN  plan.archive = f.archive /\ plan.then = f.then
      BY DEF IInv, PlanFits
<1> DEFINE e == Decide(journal[next].op, Cur, diff)
<1>2. e \in Plan
      BY DecideType, CurType DEF IInv
<1>3. Rehearse(e).archive = FALSE /\ Rehearse(e).then = "none"
      BY <1>2 DEF Rehearse, Plan
<1>4. ~inv.dry
      BY <1>1, <1>3
<1>5. plan.archive = e.archive /\ plan.then = e.then
      BY <1>1, <1>4
<1>6. Permitted(Cur)
      <2>1. SUFFICES ASSUME ~Permitted(Cur) PROVE FALSE
            OBVIOUS
      <2>2. e = SkipIt
            BY <2>1 DEF Decide
      <2> QED BY <1>5, <2>2 DEF SkipIt, Removal
<1> QED BY <1>1, <1>4, <1>5, <1>6

(* Whose transaction it is decides which of the two clauses permitted it.  *)
LEMMA PermittedOrigin ==
    ASSUME IInv, Handling, ~inv.dry, Permitted(Cur)
    PROVE  /\ inv.home = (origin # "run")
           /\ origin # "tracking"
<1>1. Category[Cur] = "Managed" => origin = "run"
      BY CurType DEF IInv, HomeJournal, Cur
<1>2. inv.home => origin = "untracked"
      BY DEF IInv, HomeCleanup
<1>3. inv.home \in BOOLEAN /\ origin \in {"run", "tracking", "untracked"}
      BY DEF IInv, TypeOK, Invocation
<1> QED BY <1>1, <1>2, <1>3 DEF Permitted

(* What is archived is neither nothing nor the blob itself.                *)
LEMMA ArchivedContent ==
    ASSUME IInv, Handling, steady, plan.archive
    PROVE  disk[Cur] # Absent /\ disk[Cur] # Blob(Cur)
<1>1. PICK diff \in Diffs(Cur) : Decide(journal[next].op, Cur, diff).archive
      BY ActingPlan
<1>2. Cur \in Path /\ TypeOK
      BY CurType DEF IInv
<1>3. Permitted(Cur) /\ ~inv.dry
      BY ActingPlan
<1>4. ASSUME disk[Cur] = Absent PROVE FALSE
      <2>1. diff = "Missing"
            BY <1>1, <1>4 DEF Diffs
      <2>2. CreatedPlan(Cur, diff) = SkipIt
            BY <1>4 DEF CreatedPlan
      <2>3. ModifiedPlan(Cur, diff) = SkipIt
            BY <1>4, <2>1 DEF ModifiedPlan
      <2>4. ~SkipIt.archive /\ ~DeletedPlan(Cur).archive
            BY DEF SkipIt, DeletedPlan, Removal
      <2> QED BY <1>1, <2>2, <2>3, <2>4 DEF Decide
<1>5. ASSUME disk[Cur] = Blob(Cur) PROVE FALSE
      <2>1. Blob(Cur) # Nothing
            BY <1>2, <1>5, ContentAssumption DEF TypeOK
      <2>2. HasPrint(Cur) /\ Blob(Cur) = orig[Cur] /\ orig[Cur] \in File
            BY <2>1 DEF Blob
      <2>3. Prior(Cur) = disk[Cur] /\ disk[Cur] \in File
            BY <1>5, <2>2, ContentAssumption DEF Prior, Regular
      <2>4. diff = "Unchanged"
            BY <1>1, <2>3, ContentAssumption DEF Diffs, Regular, Content
      <2>5. ~inv.home
            BY <1>3, <2>2, PermittedOrigin DEF HasPrint
      <2>6. ~CreatedPlan(Cur, diff).archive
            BY <2>4, <2>5 DEF CreatedPlan, SkipIt, Removal
      <2>7. ~ModifiedPlan(Cur, diff).archive
            BY <2>3, <2>4, ContentAssumption DEF ModifiedPlan, SkipIt, Removal, Regular, Content
      <2>8. ~SkipIt.archive /\ ~DeletedPlan(Cur).archive
            BY DEF SkipIt, DeletedPlan, Removal
      <2> QED BY <1>1, <2>6, <2>7, <2>8 DEF Decide
<1> QED BY <1>4, <1>5

(* If the path in hand is archived although something taken from it is     *)
(* still owed, then it is the debris of an install rollback's restore.     *)
LEMMA ArchivingOwed ==
    ASSUME IInv, pc \in {"copy", "meta", "row"}, taken[Cur] # Nothing
    PROVE  steady /\ disk[Cur] = Torn /\ ~taken[Cur].home
<1>1. Handling /\ plan.archive
      BY DEF IInv, Handling, ArchiveProgress
<1>2. steady
      BY <1>1 DEF IInv, PlanFits
<1>3. disk[Cur] # Absent /\ disk[Cur] # Blob(Cur)
      BY <1>1, <1>2, ArchivedContent
<1>4. ~inv.dry /\ Permitted(Cur) /\ Cur \in Path
      BY <1>1, <1>2, ActingPlan, CurType DEF IInv
<1>5. disk[Cur] = Torn /\ ~inv.home /\ taken[Cur].home = (origin # "run")
      BY <1>3, <1>4 DEF IInv, Vacated
<1> QED BY <1>1, <1>2, <1>4, <1>5, PermittedOrigin

(* What the engine undertook to archive is archived when it is taken.      *)
Taking == /\ pc = "act" /\ steady
          /\ disk[Cur] \in (File \cup Link) \ {Blob(Cur)}
          /\ \/ plan.then \in {"unlink", "remove", "tryRemove"}
             \/ plan.then = "restore" /\ Restorable(Cur)

LEMMA TakingArchived ==
    ASSUME IInv, Taking, Undertaken(Cur, TakenNow)
    PROVE  Archived(Cur) = disk[Cur]
<1>0. /\ pc = "act" /\ steady /\ disk[Cur] \in (File \cup Link) \ {Blob(Cur)}
      /\ \/ plan.then \in {"unlink", "remove", "tryRemove"}
         \/ plan.then = "restore" /\ Restorable(Cur)
      BY DEF Taking
<1>1. Handling
      BY <1>0 DEF Handling
<1>2. ~inv.dry /\ Permitted(Cur) /\ Cur \in Path /\ TypeOK
      BY <1>0, <1>1, ActingPlan, CurType DEF IInv
<1>3. PICK diff \in Diffs(Cur) :
         /\ plan.archive = Decide(journal[next].op, Cur, diff).archive
         /\ plan.then = Decide(journal[next].op, Cur, diff).then
      BY <1>0, <1>1, ActingPlan
<1>4. inv.home = (origin # "run")
      BY <1>1, <1>2, PermittedOrigin
<1>5. disk[Cur] # Absent /\ disk[Cur] \notin Dir
      BY <1>0, ContentAssumption DEF Content, Regular
<1>6. plan.archive
      <2> DEFINE op == journal[next].op
      <2>1. PassesFilter(Cur)
            <3>1. SUFFICES ASSUME ~PassesFilter(Cur) PROVE FALSE
                  OBVIOUS
            <3>2. Decide(op, Cur, diff) = SkipIt
                  BY <3>1 DEF Decide
            <3> QED BY <1>0, <1>3, <3>2 DEF SkipIt, Removal
      <2>2. CASE inv.home
            <3>1. Prior(Cur) = Nothing /\ Blob(Cur) = Nothing
                  BY <1>2, <1>4, <2>2, HomeHasNoBaseline
            <3>2. diff = "New" /\ plan.then # "restore"
                  BY <1>0, <1>3, <1>5, <3>1 DEF Diffs, Restorable
            <3>3. CreatedPlan(Cur, diff).archive
                  BY <1>5, <2>2, <3>2 DEF CreatedPlan, Removal
            <3>4. ModifiedPlan(Cur, diff).archive
                  BY <1>5, <2>2, <3>1 DEF ModifiedPlan, Removal
            <3>5. DeletedPlan(Cur).then = "restore" /\ SkipIt.then = "none"
                  BY DEF DeletedPlan, SkipIt, Removal
            <3> QED BY <1>0, <1>2, <1>3, <2>1, <3>2, <3>3, <3>4, <3>5 DEF Decide
      <2>3. CASE ~inv.home
            <3>1. /\ disk[Cur] \in File
                  /\ Prior(Cur) \notin {Nothing, NoHash, disk[Cur]}
                  /\ \/ op = "modify" /\ inv.mode # "Nuclear"
                     \/ op \in {"create", "rename_to"} /\ inv.mode = "Conservative"
                  BY <1>0, <2>3 DEF Undertaken, TakenNow
            <3>2. diff = "Modified"
                  BY <1>3, <1>5, <3>1, ContentAssumption DEF Diffs, Regular, Content
            <3>3. inv.mode = "Conservative" => CreatedPlan(Cur, diff).archive
                  BY <1>5, <3>2 DEF CreatedPlan, Removal
            <3>4. inv.mode # "Nuclear" => ModifiedPlan(Cur, diff).archive
                  BY <3>1, <3>2 DEF ModifiedPlan, Removal
            <3> QED BY <1>2, <1>3, <2>1, <3>1, <3>3, <3>4 DEF Decide
      <2>4. inv.home \in BOOLEAN
            BY <1>2 DEF TypeOK, Invocation
      <2> QED BY <2>2, <2>3, <2>4
<1> QED BY <1>0, <1>6 DEF IInv, ArchiveProgress

-----------------------------------------------------------------------------
(* Steps.  The baseline is fixed; so is what was undertaken.               *)

LEMMA BaselineStable ==
    ASSUME TypeOK, orig' = orig, (origin' = "run") = (origin = "run")
    PROVE  \A p \in Path : /\ Prior(p)' = Prior(p) /\ Blob(p)' = Blob(p)
                           /\ taken'[p] = taken[p] =>
                                 Undertaken(p, taken[p])' = Undertaken(p, taken[p])
<1>1. \A p \in Path : HasPrint(p)' = HasPrint(p)
      BY DEF HasPrint
<1>2. \A p \in Path : Prior(p)' = Prior(p) /\ Blob(p)' = Blob(p)
      BY <1>1 DEF Prior, Blob
<1> QED BY <1>2 DEF Undertaken

(* The same path in the same condition gets the same decision.             *)
LEMMA DecisionStable ==
    ASSUME TypeOK, UNCHANGED <<orig, origin, journal, inv, next>>,
           next \in DOMAIN journal, disk'[Cur] = disk[Cur]
    PROVE  /\ Cur \in Path /\ Cur' = Cur /\ Diffs(Cur)' = Diffs(Cur)
           /\ \A diff : Decide(journal[next].op, Cur, diff)'
                           = Decide(journal[next].op, Cur, diff)
<1>1. Cur \in Path /\ Cur' = Cur
      BY EntryType DEF Cur
<1>2. Prior(Cur)' = Prior(Cur)
      BY <1>1, BaselineStable
<1>3. Diffs(Cur)' = Diffs(Cur)
      BY <1>1, <1>2 DEF Diffs
<1>4. ASSUME NEW diff
      PROVE  Decide(journal[next].op, Cur, diff)' = Decide(journal[next].op, Cur, diff)
      <2>1. CreatedPlan(Cur, diff)' = CreatedPlan(Cur, diff)
            BY <1>1 DEF CreatedPlan
      <2>2. ModifiedPlan(Cur, diff)' = ModifiedPlan(Cur, diff)
            BY <1>1, <1>2 DEF ModifiedPlan
      <2>3. DeletedPlan(Cur)' = DeletedPlan(Cur)
            BY <1>1 DEF DeletedPlan, HasPrint
      <2>4. PassesFilter(Cur)' = PassesFilter(Cur) /\ Permitted(Cur)' = Permitted(Cur)
            BY <1>1 DEF PassesFilter, Permitted
      <2> QED BY <2>1, <2>2, <2>3, <2>4 DEF Decide
<1> QED BY <1>1, <1>3, <1>4

(* Steps that take nothing and archive nothing keep what is owed.          *)
LEMMA OwedStable ==
    ASSUME TypeOK, TakenIsRecoverable,
           orig' = orig, (origin' = "run") = (origin = "run"), archive' = archive,
           \A p \in Path : taken'[p] \in {taken[p], Nothing}
    PROVE  TakenIsRecoverable'
<1>1. SUFFICES ASSUME NEW p \in Path, taken'[p] # Nothing, Undertaken(p, taken[p])'
               PROVE  Archived(p)' = taken'[p].what \/ (~taken'[p].home /\ Archived(p)' = Torn)
      BY DEF TakenIsRecoverable
<1>2. taken'[p] = taken[p] /\ Undertaken(p, taken[p])
      BY <1>1, BaselineStable
<1>3. Archived(p)' = Archived(p)
      BY DEF Archived
<1> QED BY <1>1, <1>2, <1>3 DEF TakenIsRecoverable

LEMMA InitIInv == Init => IInv
<1> SUFFICES ASSUME Init PROVE IInv
    OBVIOUS
<1>1. TypeOK
      BY TypeInit
<1>2. \A p \in Path : taken[p] = Nothing
      BY DEF Init
<1>3. TakenIsRecoverable /\ QuietWhileLive /\ Vacated
      BY <1>2 DEF TakenIsRecoverable, QuietWhileLive, Vacated, Init
<1>4. HomeJournal /\ HomeCleanup
      BY DEF HomeJournal, HomeCleanup, Init, NoInvocation
<1>5. PlanFits /\ ArchiveProgress
      BY DEF PlanFits, ArchiveProgress, Init, Handling, SkipIt, Removal
<1> QED BY <1>1, <1>3, <1>4, <1>5 DEF IInv

(* The command runs while pkgundo rests and owes nothing.                  *)
LEMMA CommandIInv == ASSUME IInv, Command PROVE IInv'
<1>1. TypeOK /\ TypeOK'
      BY CommandType DEF IInv
<1>2. /\ live /\ UNCHANGED <<orig, origin, status, archive, engine, ghosts, budget>>
      /\ live' \in BOOLEAN
      BY <1>1 DEF Command, CreateFile, ModifyFile, DeleteFile, RenameFile, Exit,
         CommandUnchanged, TypeOK
<1>3. pc = "idle" /\ \A p \in Path : taken[p] = Nothing
      BY <1>2 DEF IInv, QuietWhileLive
<1>4. pc' = "idle" /\ inv' = inv /\ plan' = plan /\ \A p \in Path : taken'[p] = Nothing
      BY <1>2, <1>3 DEF engine, ghosts
<1>5. TakenIsRecoverable' /\ QuietWhileLive' /\ Vacated'
      BY <1>4 DEF TakenIsRecoverable, QuietWhileLive, Vacated
<1>6. HomeCleanup' /\ PlanFits' /\ ArchiveProgress'
      BY <1>2, <1>3, <1>4 DEF IInv, HomeCleanup, PlanFits, ArchiveProgress, Handling
<1>7. HomeJournal'
      <2>1. SUFFICES ASSUME origin # "run", NEW i \in DOMAIN journal'
                     PROVE  Category[journal'[i].path] = "NeverTouch"
            BY <1>2 DEF HomeJournal
      <2>2. ASSUME NEW op \in Op, NEW p \in Path, Category[p] = "NeverTouch",
                   journal' = Log(journal, Entry(op, p))
            PROVE  Category[journal'[i].path] = "NeverTouch"
            <3>1. \/ i \in DOMAIN journal /\ journal'[i] = journal[i]
                  \/ journal'[i] = Entry(op, p)
                  <4>1. journal \in Seq([op : Op, path : Path])
                        BY <1>1 DEF TypeOK
                  <4>2. i \in DOMAIN Log(journal, Entry(op, p))
                        BY <2>1, <2>2
                  <4> QED BY <2>2, <4>1, <4>2, LogGrows
            <3> QED BY <2>1, <2>2, <3>1 DEF IInv, HomeJournal, Entry
      <2>3. ASSUME NEW p \in Path, NEW v \in Content \ {Torn}, CreateFile(p, v)
            PROVE  Category[journal'[i].path] = "NeverTouch"
            BY <2>1, <2>2, <2>3 DEF CreateFile, Record, Monitored, Op
      <2>4. ASSUME NEW p \in Path, NEW v \in File, ModifyFile(p, v)
            PROVE  Category[journal'[i].path] = "NeverTouch"
            BY <2>1, <2>2, <2>4 DEF ModifyFile, Record, Monitored, Op
      <2>5. ASSUME NEW p \in Path, DeleteFile(p)
            PROVE  Category[journal'[i].path] = "NeverTouch"
            BY <2>1, <2>2, <2>5 DEF DeleteFile, Record, Monitored, Op
      <2>6. ASSUME NEW p \in Path, NEW q \in Path, RenameFile(p, q)
            PROVE  Category[journal'[i].path] = "NeverTouch"
            <3> DEFINE j == Log(journal, Entry("rename_from", p))
            <3>1. /\ Category[p] = "NeverTouch" /\ Category[q] = "NeverTouch"
                  /\ journal' = Log(j, Entry("rename_to", q))
                  BY <2>1, <2>6 DEF RenameFile, Record, Monitored
            <3>2. "rename_from" \in Op /\ "rename_to" \in Op
                  BY DEF Op
            <3>3. /\ j \in Seq([op : Op, path : Path])
                  /\ \A k \in DOMAIN j : \/ k \in DOMAIN journal /\ j[k] = journal[k]
                                         \/ j[k] = Entry("rename_from", p)
                  <4>1. journal \in Seq([op : Op, path : Path])
                        BY <1>1 DEF TypeOK
                  <4> QED BY <4>1, <3>2, LogType, LogGrows
            <3>4. \A k \in DOMAIN j : Category[j[k].path] = "NeverTouch"
                  BY <2>1, <3>1, <3>3 DEF IInv, HomeJournal, Entry
            <3> HIDE DEF j
            <3>5. i \in DOMAIN Log(j, Entry("rename_to", q))
                  BY <2>1, <3>1
            <3>6. \/ i \in DOMAIN j /\ journal'[i] = j[i]
                  \/ journal'[i] = Entry("rename_to", q)
                  BY <3>1, <3>2, <3>3, <3>5, LogGrows
            <3> QED BY <3>1, <3>4, <3>6 DEF Entry
      <2>7. ASSUME Exit PROVE Category[journal'[i].path] = "NeverTouch"
            BY <2>1, <2>7 DEF Exit, IInv, HomeJournal
      <2> QED BY <2>3, <2>4, <2>5, <2>6, <2>7 DEF Command
<1> QED BY <1>1, <1>5, <1>6, <1>7 DEF IInv

(* What a step of pkgundo or of the user leaves alone.                     *)
Frame == /\ UNCHANGED <<orig, origin, live, journal>>
         /\ ~live /\ ~Handling'
         /\ inv' \in {inv, NoInvocation}

LEMMA FrameIInv ==
    ASSUME IInv, Frame
    PROVE  QuietWhileLive' /\ HomeJournal' /\ HomeCleanup' /\ PlanFits' /\ ArchiveProgress'
<1>1. QuietWhileLive'
      BY DEF Frame, QuietWhileLive
<1>2. HomeJournal'
      BY DEF Frame, IInv, HomeJournal
<1>3. HomeCleanup'
      BY DEF Frame, IInv, HomeCleanup, NoInvocation
<1>4. PlanFits' /\ ArchiveProgress'
      BY DEF Frame, PlanFits, ArchiveProgress, Handling
<1> QED BY <1>1, <1>2, <1>3, <1>4

(* A step that takes nothing: every path is as before, emptied or torn, or *)
(* what was taken from it has been superseded.                             *)
LEMMA IdleIInv ==
    ASSUME IInv, TypeOK', Frame, archive' = archive,
           \A p \in Path : \/ taken'[p] = Nothing
                           \/ /\ taken'[p] = taken[p]
                              /\ \/ disk'[p] \in {disk[p], Absent}
                                 \/ disk'[p] = Torn /\ ~(inv'.home /\ ~inv'.dry)
    PROVE  IInv'
<1>1. UNCHANGED <<orig, origin>> /\ TypeOK /\ TakenIsRecoverable
      BY DEF Frame, IInv
<1>2. \A p \in Path : taken'[p] \in {taken[p], Nothing}
      OBVIOUS
<1>3. TakenIsRecoverable'
      BY <1>1, <1>2, OwedStable
<1>4. Vacated'
      <2>1. SUFFICES ASSUME NEW p \in Path, taken'[p] # Nothing
                     PROVE  /\ origin # "tracking"
                            /\ taken'[p].home = (origin # "run")
                            /\ disk'[p] \in {Absent, Blob(p)', Torn}
                            /\ inv'.home /\ ~inv'.dry => disk'[p] = Absent
            BY <1>1 DEF Vacated
      <2>2. taken'[p] = taken[p] /\ Blob(p)' = Blob(p)
            BY <1>1, <2>1, BaselineStable
      <2>3. /\ origin # "tracking" /\ taken[p].home = (origin # "run")
            /\ disk[p] \in {Absent, Blob(p), Torn}
            /\ inv.home /\ ~inv.dry => disk[p] = Absent
            BY <2>1, <2>2 DEF IInv, Vacated
      <2>4. inv'.home /\ ~inv'.dry => inv' = inv
            BY DEF Frame, NoInvocation
      <2> QED BY <2>1, <2>2, <2>3, <2>4
<1> QED BY <1>3, <1>4, FrameIInv DEF IInv

(* A step that takes the path in hand.                                     *)
LEMMA TakeIInv ==
    ASSUME IInv, TypeOK', Frame, archive' = archive, pc = "act", Take,
           NEW v, disk' = [disk EXCEPT ![Cur] = v],
           \/ v = Absent /\ plan.then \in {"unlink", "remove", "tryRemove"}
           \/ /\ v \in {Blob(Cur), Torn} /\ plan.then = "restore" /\ Restorable(Cur)
    PROVE  IInv'
<1>1. /\ UNCHANGED <<orig, origin>> /\ TypeOK /\ TakenIsRecoverable
      /\ Handling /\ Cur \in Path
      BY CurType DEF Frame, IInv, Handling
<1>2. \A p \in Path : p # Cur => taken'[p] = taken[p] /\ disk'[p] = disk[p]
      BY <1>1 DEF Take, TypeOK
<1>3. disk'[Cur] = v
      BY <1>1 DEF TypeOK
<1> DEFINE worth == steady /\ disk[Cur] \in (File \cup Link) \ {Blob(Cur)}
<1>4. /\ worth => taken'[Cur] = TakenNow
      /\ ~worth => taken'[Cur] \in {taken[Cur], Nothing}
      BY <1>1 DEF Take, TypeOK
<1>5. \A p \in Path : Archived(p)' = Archived(p)
      BY DEF Archived
<1>6. ASSUME NEW p \in Path
      PROVE  Blob(p)' = Blob(p) /\ Prior(p)' = Prior(p)
      BY <1>1, BaselineStable
<1>7. taken'[Cur] # Nothing => steady
      <2>1. steady \/ taken[Cur] = Nothing
            BY <1>1 DEF IInv, PlanFits
      <2> QED BY <1>4, <2>1
<1>8. steady => /\ ~inv.dry /\ origin # "tracking" /\ inv.home = (origin # "run")
      BY <1>1, ActingPlan, PermittedOrigin
<1>9. TakenIsRecoverable'
      <2>1. SUFFICES ASSUME NEW p \in Path, taken'[p] # Nothing, Undertaken(p, taken[p])'
                     PROVE  Archived(p) = taken'[p].what
                            \/ (~taken'[p].home /\ Archived(p) = Torn)
            BY <1>5 DEF TakenIsRecoverable
      <2>2. CASE taken'[p] = taken[p]
            <3>1. Undertaken(p, taken[p])
                  BY <1>1, <2>1, <2>2, BaselineStable
            <3> QED BY <1>1, <2>1, <2>2, <3>1 DEF TakenIsRecoverable
      <2>3. CASE p = Cur /\ worth
            <3>1. taken'[p] = TakenNow
                  BY <1>4, <2>3
            <3>2. Undertaken(Cur, TakenNow)
                  BY <1>6, <2>1, <2>3, <3>1 DEF Undertaken
            <3>3. Archived(Cur) = disk[Cur]
                  BY <2>3, <3>2, TakingArchived DEF Taking
            <3> QED BY <2>3, <3>1, <3>3 DEF TakenNow
      <2> QED BY <1>2, <1>4, <2>1, <2>2, <2>3
<1>10. Vacated'
      <2>1. SUFFICES ASSUME NEW p \in Path, taken'[p] # Nothing
                     PROVE  /\ origin # "tracking"
                            /\ taken'[p].home = (origin # "run")
                            /\ disk'[p] \in {Absent, Blob(p), Torn}
                            /\ inv'.home /\ ~inv'.dry => disk'[p] = Absent
            BY <1>1, <1>6 DEF Vacated
      <2>2. inv'.home /\ ~inv'.dry => inv' = inv
            BY DEF Frame, NoInvocation
      <2>3. CASE p # Cur
            BY <1>2, <2>1, <2>2, <2>3 DEF IInv, Vacated
      <2>4. CASE p = Cur
            <3>1. steady /\ origin # "tracking" /\ inv.home = (origin # "run")
                  BY <1>7, <1>8, <2>1, <2>4
            <3>2. taken'[p].home = (origin # "run")
                  <4>1. CASE worth
                        BY <1>4, <2>4, <3>1, <4>1 DEF TakenNow
                  <4>2. CASE ~worth
                        <5>1. taken'[p] = taken[p]
                              BY <1>4, <2>1, <2>4, <4>2
                        <5> QED BY <2>1, <5>1 DEF IInv, Vacated
                  <4> QED BY <4>1, <4>2
            <3>3. v # Absent => origin = "run"
                  BY <1>1, HomeHasNoBaseline DEF Restorable
            <3>4. v # Absent => ~inv.home
                  BY <3>1, <3>3
            <3> QED BY <1>3, <2>2, <2>4, <3>1, <3>2, <3>4
      <2> QED BY <2>3, <2>4
<1> QED BY <1>9, <1>10, FrameIInv DEF IInv

(* A write into the archive of the path in hand.                           *)
LEMMA ArchiveWrite ==
    ASSUME IInv, pc \in {"copy", "meta", "row"},
           UNCHANGED <<orig, origin, taken>>,
           NEW s \in Slot, archive' = [archive EXCEPT ![Cur] = s],
           steady /\ disk[Cur] = Torn /\ archive[Cur].row /\ archive[Cur].meta \notin Link =>
               s.row /\ s.meta \notin Link /\ s.copy \in {archive[Cur].copy, Torn}
    PROVE  TakenIsRecoverable'
<1>1. TypeOK /\ TakenIsRecoverable /\ Cur \in Path
      BY CurType DEF IInv, Handling
<1>2. SUFFICES ASSUME NEW p \in Path, taken[p] # Nothing, Undertaken(p, taken[p])
               PROVE  Archived(p)' = taken[p].what \/ (~taken[p].home /\ Archived(p)' = Torn)
      BY <1>1, BaselineStable DEF TakenIsRecoverable
<1>3. CASE p # Cur
      <2>1. Archived(p)' = Archived(p)
            BY <1>1, <1>3 DEF Archived, TypeOK
      <2> QED BY <1>1, <1>2, <2>1 DEF TakenIsRecoverable
<1>4. CASE p = Cur
      <2>1. steady /\ disk[Cur] = Torn /\ ~taken[Cur].home
            BY <1>2, <1>4, ArchivingOwed
      <2>2. taken[Cur].what \in File
            BY <1>2, <1>4, <2>1 DEF Undertaken
      <2>3. Archived(Cur) \in {taken[Cur].what, Torn}
            BY <1>1, <1>2, <1>4 DEF TakenIsRecoverable
      <2>4. Archived(Cur) \notin Link \cup {Nothing}
            BY <2>2, <2>3, ContentAssumption DEF Content, Regular
      <2>5. /\ archive[Cur].row /\ archive[Cur].meta \notin Link
            /\ Archived(Cur) = archive[Cur].copy
            BY <2>4 DEF Archived
      <2>6. archive'[p] = s
            BY <1>1, <1>4 DEF TypeOK
      <2>7. Archived(p)' \in {Archived(p), Torn}
            BY <1>4, <2>1, <2>5, <2>6 DEF Archived
      <2> QED BY <1>4, <2>1, <2>3, <2>7
<1> QED BY <1>3, <1>4

(* A path in hand that is a symlink: what the write went through to.       *)
LEMMA ThroughIInv ==
    ASSUME IInv, TypeOK', Frame, archive' = archive, pc = "act", Restorable(Cur),
           plan.then = "restore", NEW v \in {Blob(Cur), Torn},
           disk' = [disk EXCEPT ![WriteTo(Cur)] = v],
           IF WriteTo(Cur) = Cur THEN Take ELSE Supersede(WriteTo(Cur))
    PROVE  IInv'
<1>1. CASE WriteTo(Cur) = Cur
      BY <1>1, TakeIInv
<1>2. CASE WriteTo(Cur) # Cur
      <2>1. Supersede(WriteTo(Cur)) /\ TypeOK
            BY <1>2 DEF IInv
      <2>2. \A p \in Path : \/ taken'[p] = Nothing
                            \/ taken'[p] = taken[p] /\ disk'[p] = disk[p]
            BY <2>1 DEF Supersede, TypeOK
      <2> QED BY <2>2, IdleIInv
<1> QED BY <1>1, <1>2

LEMMA BeginIInv ==
    ASSUME IInv, TypeOK', NEW i \in Invocations, Begin(i)
    PROVE  IInv'
<1>1. TypeOK /\ TakenIsRecoverable /\ i \in Invocation
      BY SystemAssumption DEF IInv
<1>2. /\ UNCHANGED <<disk, orig, live, journal, archive, taken, plan>>
      /\ ~live /\ pc' = "pm" /\ inv' = i
      BY DEF Begin, ghosts
<1>3. (origin' = "run") = (origin = "run")
      BY <1>1 DEF Begin
<1>4. TakenIsRecoverable'
      BY <1>1, <1>2, <1>3, OwedStable
<1>5. QuietWhileLive' /\ PlanFits' /\ ArchiveProgress'
      BY <1>2 DEF QuietWhileLive, PlanFits, ArchiveProgress, Handling
<1>6. HomeJournal'
      BY <1>2, <1>3 DEF IInv, HomeJournal
<1>7. HomeCleanup'
      BY <1>1, <1>2 DEF Begin, HomeCleanup, Invocation
<1>8. Vacated'
      <2>1. SUFFICES ASSUME NEW p \in Path, taken[p] # Nothing
                     PROVE  /\ origin' # "tracking"
                            /\ taken[p].home = (origin' # "run")
                            /\ disk[p] \in {Absent, Blob(p)', Torn}
                            /\ i.home /\ ~i.dry => disk[p] = Absent
            BY <1>2 DEF Vacated
      <2>2. Blob(p)' = Blob(p)
            BY <1>1, <1>2, <1>3, BaselineStable
      <2>3. /\ origin # "tracking" /\ taken[p].home = (origin # "run")
            /\ disk[p] \in {Absent, Blob(p), Torn}
            BY <2>1 DEF IInv, Vacated
      <2>4. ~(i.home /\ ~i.dry)
            BY <2>3 DEF Begin
      <2>5. origin' = origin
            BY <2>4 DEF Begin
      <2> QED BY <2>2, <2>3, <2>4, <2>5
<1> QED BY <1>1, <1>4, <1>5, <1>6, <1>7, <1>8 DEF IInv

LEMMA UserEditIInv ==
    ASSUME IInv, TypeOK', NEW p \in Path, NEW v \in (Content \ {Torn}) \cup {Absent},
           UserEdit(p, v)
    PROVE  IInv'
<1>1. /\ TypeOK /\ TakenIsRecoverable
      /\ UNCHANGED <<orig, origin, live, journal, archive, pc, inv, next, plan>>
      /\ ~live
      BY DEF IInv, UserEdit, engine
<1>2. /\ disk' = [disk EXCEPT ![p] = v] /\ taken' = [taken EXCEPT ![p] = Nothing]
      /\ steady' = IF Handling /\ p = Cur THEN FALSE ELSE steady
      BY DEF UserEdit, Supersede
<1>3. /\ taken'[p] = Nothing
      /\ \A q \in Path : q # p => taken'[q] = taken[q] /\ disk'[q] = disk[q]
      BY <1>1, <1>2 DEF TypeOK
<1>4. TakenIsRecoverable'
      BY <1>1, <1>3, OwedStable
<1>5. \A q \in Path : Blob(q)' = Blob(q) /\ Prior(q)' = Prior(q)
      BY <1>1, BaselineStable
<1>6. QuietWhileLive' /\ HomeJournal' /\ HomeCleanup'
      BY <1>1 DEF IInv, QuietWhileLive, HomeJournal, HomeCleanup
<1>7. Vacated'
      BY <1>1, <1>3, <1>5 DEF IInv, Vacated
<1>8. Handling' = Handling /\ Cur' = Cur
      BY <1>1 DEF Handling, Cur
<1>9. CASE ~Handling
      BY <1>1, <1>4, <1>6, <1>7, <1>8, <1>9 DEF IInv, PlanFits, ArchiveProgress, Handling
<1>10. CASE Handling /\ p = Cur
      <2>1. ~steady' /\ taken'[Cur] = Nothing
            BY <1>2, <1>3, <1>10
      <2>2. PlanFits'
            BY <1>8, <1>10, <2>1 DEF PlanFits
      <2>3. ArchiveProgress'
            BY <1>1, <2>1 DEF IInv, ArchiveProgress
      <2> QED BY <1>4, <1>6, <1>7, <2>2, <2>3 DEF IInv
<1>11. CASE Handling /\ p # Cur
      <2>1. /\ steady' = steady /\ Cur \in Path /\ disk'[Cur] = disk[Cur]
            /\ taken'[Cur] = taken[Cur]
            BY <1>1, <1>2, <1>3, <1>11, CurType
      <2>2. /\ Diffs(Cur)' = Diffs(Cur)
            /\ \A diff : Decide(journal[next].op, Cur, diff)'
                            = Decide(journal[next].op, Cur, diff)
            BY <1>1, <1>11, <2>1, CurType, DecisionStable
      <2>3. PlanFits'
            BY <1>1, <1>8, <1>11, <2>1, <2>2 DEF IInv, PlanFits
      <2>4. ArchiveProgress'
            BY <1>1, <1>8, <2>1 DEF IInv, ArchiveProgress, Copied, Archived
      <2> QED BY <1>4, <1>6, <1>7, <2>3, <2>4 DEF IInv
<1> QED BY <1>9, <1>10, <1>11

LEMMA NotLive == ASSUME IInv, pc # "idle" PROVE ~live
BY DEF IInv, QuietWhileLive

LEMMA AnalyseIInv ==
    ASSUME IInv, TypeOK', Analyse
    PROVE  IInv'
<1>1. /\ TypeOK /\ TakenIsRecoverable /\ ~live
      /\ UNCHANGED <<disk, orig, origin, live, journal, archive, inv, next, taken>>
      BY NotLive DEF IInv, Analyse
<1>2. TakenIsRecoverable'
      BY <1>1, OwedStable
<1>3. \A p \in Path : Blob(p)' = Blob(p) /\ Prior(p)' = Prior(p)
      BY <1>1, BaselineStable
<1>4. QuietWhileLive' /\ HomeJournal' /\ HomeCleanup'
      BY <1>1 DEF IInv, QuietWhileLive, HomeJournal, HomeCleanup
<1>5. Vacated'
      BY <1>1, <1>3 DEF IInv, Vacated
<1>6. /\ Cur \in Path /\ Cur' = Cur /\ Diffs(Cur)' = Diffs(Cur)
      /\ \A diff : Decide(journal[next].op, Cur, diff)'
                      = Decide(journal[next].op, Cur, diff)
      <2>1. next \in DOMAIN journal
            BY <1>1 DEF Analyse, TypeOK
      <2> QED BY <1>1, <2>1, DecisionStable
<1>7. PICK diff \in Diffs(Cur) :
         LET d == Decide(journal[next].op, Cur, diff)
         IN  plan' = IF inv.dry THEN Rehearse(d) ELSE d
      BY DEF Analyse
<1>8. PlanFits'
      BY <1>1, <1>6, <1>7 DEF PlanFits, Analyse
<1>9. ArchiveProgress'
      <2>1. pc' = IF plan'.archive THEN "copy" ELSE "act"
            BY DEF Analyse
      <2> QED BY <2>1 DEF ArchiveProgress
<1> QED BY <1>2, <1>4, <1>5, <1>8, <1>9 DEF IInv

(* archive_file's three writes: what has been decided stands, what is on   *)
(* disk stays, and the archive takes over the content on disk.             *)
LEMMA ArchivingFrame ==
    ASSUME IInv, TypeOK', TakenIsRecoverable',
           UNCHANGED <<disk, orig, origin, live, journal, inv, next, taken, steady>>,
           pc \in {"copy", "meta", "row"}, pc' \in {"meta", "row", "act"},
           plan'.archive = plan.archive, plan'.then = plan.then, ArchiveProgress'
    PROVE  IInv'
<1>1. TypeOK /\ ~live /\ Handling /\ Handling'
      BY NotLive DEF IInv, Handling
<1>2. \A p \in Path : Blob(p)' = Blob(p) /\ Prior(p)' = Prior(p)
      BY <1>1, BaselineStable
<1>3. QuietWhileLive' /\ HomeJournal' /\ HomeCleanup'
      BY <1>1 DEF IInv, QuietWhileLive, HomeJournal, HomeCleanup
<1>4. Vacated'
      BY <1>2 DEF IInv, Vacated
<1>5. Cur \in Path /\ disk'[Cur] = disk[Cur]
      BY <1>1, CurType
<1>6. /\ Cur' = Cur /\ Diffs(Cur)' = Diffs(Cur)
      /\ \A diff : Decide(journal[next].op, Cur, diff)'
                      = Decide(journal[next].op, Cur, diff)
      BY <1>1, <1>5, CurType, DecisionStable
<1>7. PlanFits'
      BY <1>1, <1>5, <1>6 DEF IInv, PlanFits
<1> QED BY <1>3, <1>4, <1>7 DEF IInv

LEMMA ArchiveCopyIInv == ASSUME IInv, TypeOK', ArchiveCopy PROVE IInv'
<1>1. /\ TypeOK /\ pc = "copy" /\ Handling /\ Cur \in Path /\ disk[Cur] \notin Dir
      /\ plan.archive /\ plan \in Plan /\ archive \in [Path -> Slot]
      BY CurType DEF IInv, ArchiveCopy, Handling, ArchiveProgress, TypeOK
<1>2. /\ UNCHANGED <<disk, orig, origin, live, journal, inv, next, taken, steady>>
      /\ Cur' = Cur
      BY DEF ArchiveCopy, ghosts, Cur
<1>3. /\ plan' = [plan EXCEPT !.sidecar = SidecarOf(disk[Cur])]
      /\ pc' = IF disk[Cur] = Absent THEN "act" ELSE "meta"
      BY DEF ArchiveCopy
<1>4. /\ plan'.archive = plan.archive /\ plan'.then = plan.then
      /\ plan'.sidecar = SidecarOf(disk[Cur])
      BY <1>1, <1>3 DEF Plan
<1>5. TakenIsRecoverable'
      <2>1. CASE disk[Cur] \in Regular
            <3> DEFINE s == [archive[Cur] EXCEPT !.copy = disk[Cur]]
            <3>1. archive' = [archive EXCEPT ![Cur] = s] /\ s \in Slot
                  BY <1>1, <2>1 DEF ArchiveCopy, Slot
            <3>2. s.row = archive[Cur].row /\ s.meta = archive[Cur].meta /\ s.copy = disk[Cur]
                  BY <1>1 DEF Slot
            <3> QED BY <1>1, <1>2, <3>1, <3>2, ArchiveWrite
      <2>2. CASE disk[Cur] \notin Regular
            BY <1>1, <1>2, <2>2, OwedStable DEF ArchiveCopy, IInv
      <2> QED BY <2>1, <2>2
<1>6. ArchiveProgress'
      <2>1. SUFFICES ASSUME steady
                     PROVE  pc' = "meta" /\ Copied' /\ plan'.sidecar = SidecarOf(disk[Cur])'
            BY <1>1, <1>2, <1>3, <1>4 DEF ArchiveProgress
      <2>2. disk[Cur] # Absent
            BY <1>1, <2>1, ArchivedContent
      <2>3. disk[Cur] \in Regular \cup Link
            BY <1>1, <2>2 DEF TypeOK, Content
      <2>4. disk[Cur] \notin Link => archive'[Cur].copy = disk[Cur]
            BY <1>1, <2>3 DEF ArchiveCopy, Slot
      <2>5. Copied'
            BY <1>2, <2>4 DEF Copied
      <2> QED BY <1>2, <1>3, <1>4, <2>2, <2>5 DEF SidecarOf
<1> QED BY <1>1, <1>2, <1>3, <1>4, <1>5, <1>6, ArchivingFrame

LEMMA ArchiveMetaIInv == ASSUME IInv, TypeOK', ArchiveMeta PROVE IInv'
<1>1. /\ TypeOK /\ pc = "meta" /\ pc' = "row" /\ Handling /\ Cur \in Path
      /\ plan.archive /\ plan \in Plan /\ archive \in [Path -> Slot]
      BY CurType DEF IInv, ArchiveMeta, Handling, ArchiveProgress, TypeOK
<1>2. /\ UNCHANGED <<disk, orig, origin, live, journal, inv, next, plan, taken, steady>>
      /\ Cur' = Cur
      BY DEF ArchiveMeta, ghosts, Cur
<1> DEFINE s == [archive[Cur] EXCEPT !.meta = plan.sidecar]
<1>3. archive' = [archive EXCEPT ![Cur] = s] /\ s \in Slot
      BY <1>1 DEF ArchiveMeta, Slot, Plan
<1>4. s.row = archive[Cur].row /\ s.copy = archive[Cur].copy /\ s.meta = plan.sidecar
      BY <1>1 DEF Slot
<1>5. steady => Copied /\ plan.sidecar = SidecarOf(disk[Cur])
      BY <1>1 DEF IInv, ArchiveProgress
<1>6. TakenIsRecoverable'
      <2>1. steady /\ disk[Cur] = Torn => s.meta \notin Link
            BY <1>4, <1>5, ContentAssumption DEF SidecarOf, Content, Regular
      <2> QED BY <1>1, <1>2, <1>3, <1>4, <2>1, ArchiveWrite
<1>7. ArchiveProgress'
      <2>1. SUFFICES ASSUME steady
                     PROVE  Copied' /\ archive'[Cur].meta = SidecarOf(disk[Cur])
            BY <1>1, <1>2 DEF ArchiveProgress, SidecarOf
      <2>2. archive'[Cur] = s
            BY <1>1, <1>3
      <2> QED BY <1>2, <1>4, <1>5, <2>1, <2>2 DEF Copied
<1> QED BY <1>1, <1>2, <1>6, <1>7, ArchivingFrame

LEMMA ArchiveRowIInv == ASSUME IInv, TypeOK', ArchiveRow PROVE IInv'
<1>1. /\ TypeOK /\ pc = "row" /\ pc' = "act" /\ Handling /\ Cur \in Path
      /\ plan.archive /\ archive \in [Path -> Slot]
      BY CurType DEF IInv, ArchiveRow, Handling, ArchiveProgress, TypeOK
<1>2. /\ UNCHANGED <<disk, orig, origin, live, journal, inv, next, plan, taken, steady>>
      /\ Cur' = Cur
      BY DEF ArchiveRow, ghosts, Cur
<1> DEFINE s == [archive[Cur] EXCEPT !.row = TRUE]
<1>3. archive' = [archive EXCEPT ![Cur] = s] /\ s \in Slot
      BY <1>1 DEF ArchiveRow, Slot
<1>4. s.row /\ s.copy = archive[Cur].copy /\ s.meta = archive[Cur].meta
      BY <1>1 DEF Slot
<1>5. TakenIsRecoverable'
      BY <1>1, <1>2, <1>3, <1>4, ArchiveWrite
<1>6. ArchiveProgress'
      <2>1. SUFFICES ASSUME steady PROVE Archived(Cur)' = disk[Cur]
            BY <1>1, <1>2 DEF ArchiveProgress
      <2>2. Copied /\ archive[Cur].meta = SidecarOf(disk[Cur])
            BY <1>1, <2>1 DEF IInv, ArchiveProgress
      <2>3. archive'[Cur] = s
            BY <1>1, <1>3
      <2>4. PlainMeta \notin Link
            BY ContentAssumption DEF Content
      <2> QED BY <1>2, <1>4, <2>2, <2>3, <2>4 DEF Archived, Copied, SidecarOf
<1> QED BY <1>1, <1>2, <1>5, <1>6, ArchivingFrame

(* A write cut short, in the archive or on disk.                           *)
LEMMA TornIInv ==
    ASSUME IInv, TypeOK', Frame, archive' \in TornCopy, TornRestore
    PROVE  IInv'
<1>1. CASE archive' = archive
      <2>1. CASE UNCHANGED <<disk, taken>>
            BY <1>1, <2>1, IdleIInv
      <2>2. CASE ~UNCHANGED <<disk, taken>>
            <3>1. /\ pc = "act" /\ plan.then = "restore" /\ Restorable(Cur)
                  /\ disk' = [disk EXCEPT ![WriteTo(Cur)] = Torn]
                  /\ IF WriteTo(Cur) = Cur THEN Take ELSE Supersede(WriteTo(Cur))
                  BY <2>2 DEF TornRestore
            <3> QED BY <1>1, <3>1, ThroughIInv
      <2> QED BY <2>1, <2>2
<1>2. CASE archive' # archive
      <2>1. pc = "copy" /\ archive' = [archive EXCEPT ![Cur].copy = Torn]
            BY <1>2 DEF TornCopy
      <2>2. UNCHANGED <<disk, taken>>
            BY <2>1 DEF TornRestore
      <2>3. Cur \in Path /\ archive[Cur] \in Slot /\ TypeOK
            BY <2>1, CurType DEF IInv, TypeOK, Handling
      <2> DEFINE s == [archive[Cur] EXCEPT !.copy = Torn]
      <2>4. /\ archive' = [archive EXCEPT ![Cur] = s]
            /\ s \in Slot /\ s.row = archive[Cur].row /\ s.meta = archive[Cur].meta
            /\ s.copy = Torn
            BY <2>1, <2>3 DEF Slot, Regular
      <2>5. UNCHANGED <<orig, origin>>
            BY DEF Frame
      <2>6. TakenIsRecoverable'
            BY <2>1, <2>2, <2>4, <2>5, ArchiveWrite
      <2>7. \A p \in Path : Blob(p)' = Blob(p)
            BY <2>3, <2>5, BaselineStable
      <2>8. inv'.home /\ ~inv'.dry => inv' = inv
            BY DEF Frame, NoInvocation
      <2>9. Vacated'
            BY <2>2, <2>5, <2>7, <2>8 DEF IInv, Vacated
      <2> QED BY <2>6, <2>9, FrameIInv DEF IInv
<1> QED BY <1>1, <1>2

(* No command line is remembered when no rollback is running.              *)
Resting == pc \in {"idle", "recover"} => inv = NoInvocation

LEMMA RestingStep == TypeOK /\ Resting /\ [Next]_vars => Resting'
<1> SUFFICES ASSUME TypeOK, Resting, [Next]_vars PROVE Resting'
    OBVIOUS
<1> USE DEF Resting
<1>1. ASSUME UNCHANGED <<pc, inv>> PROVE Resting'
      BY <1>1
<1>2. CASE Command
      BY <1>1, <1>2 DEF Command, CreateFile, ModifyFile, DeleteFile, RenameFile, Exit,
         CommandUnchanged, engine
<1>3. ASSUME NEW i \in Invocations, Begin(i) PROVE Resting'
      BY <1>3 DEF Begin
<1>4. CASE RecoverBegin
      BY <1>4 DEF RecoverBegin
<1>5. CASE Crash \/ PmMissing \/ Finish
      BY <1>5 DEF Crash, PmMissing, Finish, ProcessEnds
<1>6. CASE \E p \in Path, v \in (Content \ {Torn}) \cup {Absent} : UserEdit(p, v)
      BY <1>1, <1>6 DEF UserEdit, engine
<1>7. CASE UNCHANGED vars
      BY <1>1, <1>7 DEF vars, engine
<1>8. CASE PmRemove \/ Analyse \/ ArchiveCopy \/ ArchiveMeta \/ ArchiveRow
      BY <1>8 DEF PmRemove, Analyse, ArchiveCopy, ArchiveMeta, ArchiveRow
<1>9. CASE ActNothing \/ Unlink \/ RemoveDir \/ RestoreBlob \/ OpFails
      BY <1>9 DEF ActNothing, Unlink, RemoveDir, RestoreBlob, OpFails, Advance
<1>10. ASSUME NEW p \in Path, RecoverEntry(p) PROVE Resting'
      BY <1>10 DEF RecoverEntry, ProcessEnds
<1> QED BY <1>2, <1>3, <1>4, <1>5, <1>6, <1>7, <1>8, <1>9, <1>10 DEF Next, EngineStep

LEMMA RestingInvariant == Spec => []Resting
<1>1. Init => Resting
      BY DEF Init, Resting
<1> QED BY <1>1, RestingStep, TypeCorrect, PTL DEF Spec

LEMMA EngineStepIInv == ASSUME IInv, Resting, TypeOK', EngineStep PROVE IInv'
<1> USE DEF ghosts
<1>1. CASE PmRemove
      <2>1. Frame /\ archive' = archive /\ taken' = taken
            BY <1>1, NotLive DEF PmRemove, Frame, Handling
      <2>2. \A p \in Path : disk'[p] \in {disk[p], Absent}
            BY <1>1 DEF PmRemove
      <2> QED BY <2>1, <2>2, IdleIInv
<1>2. CASE PmMissing
      <2>1. Frame /\ archive' = archive /\ taken' = taken /\ disk' = disk
            BY <1>2, NotLive DEF PmMissing, ProcessEnds, Frame, Handling
      <2> QED BY <2>1, IdleIInv
<1>3. CASE ActNothing
      <2>1. Frame /\ archive' = archive /\ taken' = taken /\ disk' = disk
            BY <1>3, NotLive DEF ActNothing, ActUnchanged, Advance, Frame, Handling
      <2> QED BY <2>1, IdleIInv
<1>4. CASE Unlink
      <2>1. Frame /\ archive' = archive
            BY <1>4, NotLive DEF Unlink, ActUnchanged, Advance, Frame, Handling
      <2> QED BY <1>4, <2>1, TakeIInv DEF Unlink
<1>5. CASE RemoveDir
      <2>1. Frame /\ archive' = archive /\ taken' = taken
            BY <1>5, NotLive DEF RemoveDir, ActUnchanged, Advance, Frame, Handling
      <2>2. Cur \in Path /\ TypeOK
            BY <1>5, CurType DEF IInv, RemoveDir, Handling
      <2>3. \A p \in Path : disk'[p] \in {disk[p], Absent}
            BY <1>5, <2>2 DEF RemoveDir, TypeOK
      <2> QED BY <2>1, <2>3, IdleIInv
<1>6. CASE RestoreBlob
      <2>1. Frame /\ archive' = archive
            BY <1>6, NotLive DEF RestoreBlob, ActUnchanged, Advance, Frame, Handling
      <2>2. CASE Restorable(Cur)
            BY <1>6, <2>1, <2>2, ThroughIInv DEF RestoreBlob
      <2>3. CASE ~Restorable(Cur)
            BY <1>6, <2>1, <2>3, IdleIInv DEF RestoreBlob
      <2> QED BY <2>2, <2>3
<1>7. CASE OpFails
      <2>1. Frame
            BY <1>7, NotLive DEF OpFails, Advance, Frame, Handling
      <2> QED BY <1>7, <2>1, TornIInv DEF OpFails
<1>8. CASE Finish
      <2>1. Frame /\ archive' = archive /\ taken' = taken /\ disk' = disk
            BY <1>8, NotLive DEF Finish, ProcessEnds, Frame, Handling
      <2> QED BY <2>1, IdleIInv
<1>9. ASSUME NEW p \in Path, RecoverEntry(p) PROVE IInv'
      <2>1. Frame /\ archive' = archive /\ TypeOK
            BY <1>9, NotLive DEF IInv, RecoverEntry, ProcessEnds, Frame, Handling
      <2>2. CASE disk' = PutBack(p) /\ disk' = disk /\ UNCHANGED taken
            BY <2>1, <2>2, IdleIInv
      <2>3. CASE /\ disk' = PutBack(p) /\ disk' # disk
                 /\ Supersede(IF Archived(p) \in Link THEN p ELSE WriteTo(p))
            <3> DEFINE q == IF Archived(p) \in Link THEN p ELSE WriteTo(p)
            <3>1. q \in Path
                  BY <2>1, WriteToType
            <3>2. disk' = [disk EXCEPT ![q] = Archived(p)]
                  BY <2>3 DEF PutBack
            <3>3. taken' = [taken EXCEPT ![q] = Nothing]
                  BY <2>3 DEF Supersede
            <3> HIDE DEF q
            <3>4. \A x \in Path : \/ taken'[x] = Nothing
                                  \/ taken'[x] = taken[x] /\ disk'[x] = disk[x]
                  BY <2>1, <3>1, <3>2, <3>3 DEF TypeOK
            <3> QED BY <2>1, <3>4, IdleIInv
      <2>4. CASE disk' \in CutShort(p) /\ UNCHANGED taken
            <3>1. \A x \in Path : disk'[x] \in {disk[x], Torn, Absent}
                  BY <2>1, <2>4, CutShortType
            <3>2. inv = NoInvocation
                  BY <1>9 DEF Resting, RecoverEntry
            <3>3. ~inv'.home
                  BY <2>1, <3>2 DEF Frame, NoInvocation
            <3> QED BY <2>1, <2>4, <3>1, <3>3, IdleIInv
      <2> QED BY <1>9, <2>2, <2>3, <2>4 DEF RecoverEntry
<1> QED BY <1>1, <1>2, <1>3, <1>4, <1>5, <1>6, <1>7, <1>8, <1>9, AnalyseIInv,
           ArchiveCopyIInv, ArchiveMetaIInv, ArchiveRowIInv DEF EngineStep

LEMMA CrashIInv == ASSUME IInv, TypeOK', Crash PROVE IInv'
<1>1. Frame /\ inv' = NoInvocation /\ TypeOK
      BY NotLive DEF IInv, Crash, ProcessEnds, Frame, Handling
<1>2. CASE TornRestore
      BY <1>1, <1>2, TornIInv DEF Crash
<1>3. ASSUME NEW p \in pending, UNCHANGED taken, pc = "recover", disk' \in CutShort(p)
      PROVE  IInv'
      <2>1. p \in Path
            BY <1>1 DEF TypeOK
      <2>2. \A x \in Path : disk'[x] \in {disk[x], Torn, Absent}
            BY <1>1, <1>3, <2>1, CutShortType
      <2>3. archive' = archive
            BY <1>3 DEF Crash, TornCopy
      <2> QED BY <1>1, <1>3, <2>2, <2>3, IdleIInv DEF NoInvocation
<1> QED BY <1>2, <1>3 DEF Crash

LEMMA StutterIInv == ASSUME IInv, UNCHANGED vars PROVE IInv'
<1>1. /\ UNCHANGED <<disk, orig, origin, live, journal, status, archive, pc, inv, next>>
      /\ UNCHANGED <<plan, report, pending, taken, quiet, steady, edits, crashes, faults>>
      BY DEF vars, engine, ghosts, budget
<1>2. TypeOK'
      BY <1>1 DEF IInv, TypeOK, Handling
<1>3. TakenIsRecoverable'
      BY <1>1, OwedStable DEF IInv
<1>4. QuietWhileLive' /\ HomeJournal' /\ HomeCleanup'
      BY <1>1 DEF IInv, QuietWhileLive, HomeJournal, HomeCleanup
<1>5. Vacated'
      BY <1>1, BaselineStable DEF IInv, Vacated
<1>6. PlanFits'
      <2>1. CASE Handling
            <3>1. /\ Cur' = Cur /\ Diffs(Cur)' = Diffs(Cur)
                  /\ \A diff : Decide(journal[next].op, Cur, diff)'
                                  = Decide(journal[next].op, Cur, diff)
                  BY <1>1, <2>1, CurType, DecisionStable DEF IInv
            <3> QED BY <1>1, <2>1, <3>1 DEF IInv, PlanFits
      <2>2. CASE ~Handling
            BY <1>1, <2>2 DEF PlanFits, Handling
      <2> QED BY <2>1, <2>2
<1>7. ArchiveProgress'
      BY <1>1 DEF IInv, ArchiveProgress, Copied, Archived, Cur
<1> QED BY <1>2, <1>3, <1>4, <1>5, <1>6, <1>7 DEF IInv

LEMMA StepIInv == IInv /\ Resting /\ [Next]_vars => IInv'
<1> SUFFICES ASSUME IInv, Resting, [Next]_vars PROVE IInv'
    OBVIOUS
<1>1. TypeOK'
      BY TypeStep DEF IInv
<1>2. CASE Command
      BY <1>2, CommandIInv
<1>3. ASSUME NEW i \in Invocations, Begin(i) PROVE IInv'
      BY <1>1, <1>3, BeginIInv
<1>4. CASE RecoverBegin
      <2>1. Frame /\ archive' = archive /\ taken' = taken /\ disk' = disk
            BY <1>4 DEF RecoverBegin, Frame, Handling, ghosts
      <2> QED BY <1>1, <2>1, IdleIInv
<1>5. CASE EngineStep
      BY <1>1, <1>5, EngineStepIInv
<1>6. CASE Crash
      BY <1>1, <1>6, CrashIInv
<1>7. ASSUME NEW p \in Path, NEW v \in (Content \ {Torn}) \cup {Absent}, UserEdit(p, v)
      PROVE  IInv'
      BY <1>1, <1>7, UserEditIInv
<1>8. CASE UNCHANGED vars
      BY <1>8, StutterIInv
<1> QED BY <1>2, <1>3, <1>4, <1>5, <1>6, <1>7, <1>8 DEF Next

LEMMA Invariant == Spec => []IInv
BY InitIInv, StepIInv, RestingInvariant, PTL DEF Spec

(* Archive before remove, for every file system, journal, invocation, kill,*)
(* fault and edit: what a rollback undertook to archive and took off a path*)
(* is what recover would put back there.                                   *)
THEOREM ArchiveBeforeRemove == Spec => []TakenIsRecoverable
<1>1. IInv => TakenIsRecoverable
      BY DEF IInv
<1> QED BY <1>1, Invariant, PTL

-----------------------------------------------------------------------------
(* What a mutation's handler may do, and what it says afterwards.          *)

Acting == Handling /\ (plan.archive \/ plan.then # "none")

(* A handler that does anything is of a real run, and its mutation is one  *)
(* the category and the review permit, and no renaming away; nor a         *)
(* deletion, unless all it does is to restore.                             *)
Removing == {"unlink", "remove", "tryRemove", "rmdir"}
Licensed ==
    Acting => /\ ~inv.dry /\ journal[next].op # "rename_from"
              /\ plan.then \in Removing => journal[next].op # "delete"
              /\ Permitted(Cur) /\ PassesFilter(Cur)

(* A handler that will say Archived archives.                              *)
PlanSays ==
    Handling /\ ~inv.dry /\ plan.result = "Archived" /\ plan.then # "rmdir" => plan.archive

(* Rows to be visited are recover's, and a report is a rollback's.         *)
Held == /\ pending # {} => pc = "recover"
        /\ pc \in {"idle", "pm", "recover"} => report = {}
        /\ quiet /\ Handling => steady

HandlerInv == Licensed /\ PlanSays /\ Held

(* Whoever handles a mutation after a step has just decided on it, or goes *)
(* on with what was decided.                                               *)
GoesOn == /\ Handling /\ UNCHANGED <<journal, inv, next, report, pending>>
          /\ plan'.archive = plan.archive /\ plan'.then = plan.then
          /\ plan'.result = plan.result
          /\ quiet' => quiet /\ steady' = steady

LEMMA HandlingSteps ==
    ASSUME IInv, [Next]_vars, Handling'
    PROVE  Analyse \/ GoesOn
<1>1. TypeOK /\ (pc = "idle" => ~Handling) /\ plan \in Plan
      BY DEF IInv, TypeOK, Handling
<1>2. CASE Command
      <2>1. live /\ UNCHANGED engine
            BY <1>2 DEF Command, CreateFile, ModifyFile, DeleteFile, RenameFile, Exit,
                        CommandUnchanged
      <2>2. pc' = "idle"
            BY <2>1 DEF IInv, QuietWhileLive, engine
      <2> QED BY <2>2 DEF Handling
<1>3. ASSUME NEW i \in Invocations, Begin(i) PROVE FALSE
      BY <1>3 DEF Begin, Handling
<1>4. CASE RecoverBegin
      BY <1>4 DEF RecoverBegin, Handling
<1>5. CASE Crash
      BY <1>5 DEF Crash, ProcessEnds, Handling
<1>6. ASSUME NEW p \in Path, NEW v \in (Content \ {Torn}) \cup {Absent}, UserEdit(p, v)
      PROVE  GoesOn
      BY <1>1, <1>6 DEF UserEdit, GoesOn, engine, Handling
<1>7. CASE UNCHANGED vars
      BY <1>7 DEF vars, engine, ghosts, GoesOn, Handling
<1>8. CASE PmRemove \/ PmMissing \/ Finish
      BY <1>8 DEF PmRemove, PmMissing, Finish, ProcessEnds, Handling
<1>9. CASE ActNothing \/ Unlink \/ RemoveDir \/ RestoreBlob \/ OpFails
      BY <1>9 DEF ActNothing, Unlink, RemoveDir, RestoreBlob, OpFails, Advance, Handling
<1>10. ASSUME NEW p \in Path, RecoverEntry(p) PROVE FALSE
      BY <1>10 DEF RecoverEntry, ProcessEnds, Handling
<1>11. CASE ArchiveCopy
      <2>1. plan' = [plan EXCEPT !.sidecar = SidecarOf(disk[Cur])]
            BY <1>11 DEF ArchiveCopy
      <2>2. /\ plan'.archive = plan.archive /\ plan'.then = plan.then
            /\ plan'.result = plan.result
            BY <1>1, <2>1 DEF Plan
      <2> QED BY <1>11, <2>2 DEF ArchiveCopy, GoesOn, ghosts, Handling
<1>12. CASE ArchiveMeta \/ ArchiveRow
      BY <1>12 DEF ArchiveMeta, ArchiveRow, GoesOn, ghosts, Handling
<1> QED BY <1>2, <1>3, <1>4, <1>5, <1>6, <1>7, <1>8, <1>9, <1>10, <1>11, <1>12
        DEF Next, EngineStep

(* The tables: what is decided of what must not be touched, and what is    *)
(* decided to be said.                                                     *)
LEMMA DecisionLicensed ==
    ASSUME TypeOK, NEW op \in Op, NEW p \in Path, NEW diff,
           Decide(op, p, diff).archive \/ Decide(op, p, diff).then # "none"
    PROVE  /\ op # "rename_from" /\ Permitted(p) /\ PassesFilter(p)
           /\ Decide(op, p, diff).then \in Removing => op # "delete"
<1>1. ~SkipIt.archive /\ SkipIt.then = "none"
      BY DEF SkipIt, Removal
<1>2. Decide(op, p, diff) # SkipIt
      BY <1>1
<1>3. DeletedPlan(p).then \notin Removing
      BY DEF DeletedPlan, Removal, Removing
<1> QED BY <1>2, <1>3 DEF Decide

LEMMA DecisionSays ==
    ASSUME NEW op \in Op, NEW p \in Path, NEW diff,
           Decide(op, p, diff).result = "Archived", Decide(op, p, diff).then # "rmdir"
    PROVE  Decide(op, p, diff).archive
<1>1. SkipIt.result = "Skipped" /\ DeletedPlan(p).result # "Archived"
      BY DEF SkipIt, DeletedPlan, Removal
<1>2. CreatedPlan(p, diff).result = "Archived" => CreatedPlan(p, diff).archive
      BY <1>1 DEF CreatedPlan, Removal
<1>3. ModifiedPlan(p, diff).result = "Archived" /\ ModifiedPlan(p, diff).then # "rmdir"
      => ModifiedPlan(p, diff).archive
      BY <1>1 DEF ModifiedPlan, Removal
<1> QED BY <1>1, <1>2, <1>3 DEF Decide

LEMMA AnalyseHandler ==
    ASSUME IInv, Analyse
    PROVE  Licensed' /\ PlanSays'
<1>1. /\ TypeOK /\ next \in DOMAIN journal /\ Cur \in Path /\ Cur' = Cur
      /\ journal[next].op \in Op /\ UNCHANGED <<journal, inv, next>>
      <2>1. TypeOK /\ next \in DOMAIN journal
            BY DEF IInv, Analyse, TypeOK
      <2> QED BY <2>1, EntryType DEF Cur, Analyse
<1>2. PICK diff \in Diffs(Cur) :
         LET d == Decide(journal[next].op, Cur, diff)
         IN  plan' = IF inv.dry THEN Rehearse(d) ELSE d
      BY DEF Analyse
<1> DEFINE d == Decide(journal[next].op, Cur, diff)
<1>3. d \in Plan /\ ~Rehearse(d).archive /\ Rehearse(d).then = "none"
      BY <1>1, DecideType DEF Rehearse, Plan
<1>4. ASSUME plan'.archive \/ plan'.then # "none"
      PROVE  /\ ~inv.dry /\ journal[next].op # "rename_from"
             /\ plan'.then \in Removing => journal[next].op # "delete"
             /\ Permitted(Cur) /\ PassesFilter(Cur)
      <2>1. ~inv.dry /\ plan' = d
            BY <1>2, <1>3, <1>4
      <2> QED BY <1>1, <1>4, <2>1, DecisionLicensed
<1>5. Permitted(Cur)' = Permitted(Cur) /\ PassesFilter(Cur)' = PassesFilter(Cur)
      BY <1>1 DEF Permitted, PassesFilter
<1>6. Licensed'
      BY <1>1, <1>4, <1>5 DEF Licensed, Acting
<1>7. ASSUME ~inv.dry, plan'.result = "Archived", plan'.then # "rmdir" PROVE plan'.archive
      BY <1>1, <1>2, <1>7, DecisionSays
<1> QED BY <1>1, <1>6, <1>7 DEF PlanSays

LEMMA HandlerStep == IInv /\ HandlerInv /\ [Next]_vars => HandlerInv'
<1> SUFFICES ASSUME IInv, HandlerInv, [Next]_vars PROVE HandlerInv'
    OBVIOUS
<1>1. Licensed' /\ PlanSays'
      <2>1. CASE ~Handling'
            BY <2>1 DEF Licensed, PlanSays, Acting
      <2>2. CASE Handling' /\ Analyse
            BY <2>2, AnalyseHandler
      <2>3. CASE GoesOn
            <3>1. Cur' = Cur /\ Permitted(Cur)' = Permitted(Cur)
                  /\ PassesFilter(Cur)' = PassesFilter(Cur)
                  BY <2>3 DEF GoesOn, Cur, Permitted, PassesFilter
            <3> QED BY <2>3, <3>1 DEF GoesOn, HandlerInv, Licensed, PlanSays, Acting
      <2> QED BY <2>1, <2>2, <2>3, HandlingSteps
<1>2. (quiet /\ Handling => steady)'
      <2>1. CASE ~Handling'
            BY <2>1
      <2>2. CASE Handling' /\ Analyse
            BY <2>2 DEF Analyse
      <2>3. CASE GoesOn
            BY <2>3 DEF GoesOn, HandlerInv, Held
      <2> QED BY <2>1, <2>2, <2>3, HandlingSteps
<1>3. (/\ pending # {} => pc = "recover"
       /\ pc \in {"idle", "pm", "recover"} => report = {})'
      <2> DEFINE Ends == pending' = {} /\ report' = {}
                 Goes == /\ UNCHANGED pending /\ pc # "recover"
                         /\ pc' \notin {"idle", "pm", "recover"}
                 Same == UNCHANGED <<pc, report, pending>>
      <2>0. HandlerInv => (pending # {} => pc = "recover")
                          /\ (pc \in {"idle", "pm", "recover"} => report = {})
            BY DEF HandlerInv, Held
      <2>1. Command => Same
            BY DEF Command, CreateFile, ModifyFile, DeleteFile, RenameFile, Exit,
                   CommandUnchanged, engine
      <2>2. ASSUME NEW i \in Invocations, Begin(i) PROVE Ends
            BY <2>0, <2>2 DEF Begin
      <2>3. RecoverBegin => pc' = "recover" /\ report' = {}
            BY <2>0 DEF RecoverBegin
      <2>4. Crash \/ PmMissing \/ Finish => Ends
            BY DEF Crash, PmMissing, Finish, ProcessEnds
      <2>5. ASSUME NEW p \in Path, NEW v \in (Content \ {Torn}) \cup {Absent}, UserEdit(p, v)
            PROVE  Same
            BY <2>5 DEF UserEdit, engine
      <2>6. UNCHANGED vars => Same
            BY DEF vars, engine
      <2>7. PmRemove \/ Analyse \/ ArchiveCopy \/ ArchiveMeta \/ ArchiveRow => Goes
            BY DEF PmRemove, Analyse, ArchiveCopy, ArchiveMeta, ArchiveRow
      <2>8. ActNothing \/ Unlink \/ RemoveDir \/ RestoreBlob => Goes
            BY DEF ActNothing, Unlink, RemoveDir, RestoreBlob, Advance, ActUnchanged
      <2>9. OpFails => Goes
            BY DEF OpFails, Advance
      <2>10. ASSUME NEW p \in Path, RecoverEntry(p)
             PROVE  Ends \/ (pc' = "recover" /\ report' = {})
             BY <2>0, <2>10 DEF RecoverEntry, ProcessEnds
      <2> QED BY <2>0, <2>1, <2>2, <2>3, <2>4, <2>5, <2>6, <2>7, <2>8, <2>9, <2>10
              DEF Next, EngineStep
<1> QED BY <1>1, <1>2, <1>3 DEF HandlerInv, Held

LEMMA HandlerInit == Init => HandlerInv
BY DEF Init, HandlerInv, Licensed, Acting, PlanSays, Held, Handling

LEMMA HandlerInvariant == Spec => [](IInv /\ HandlerInv)
BY Invariant, HandlerInit, HandlerStep, PTL DEF Spec

-----------------------------------------------------------------------------
(* Who changes the disk while the engine is at work: it, in the last step  *)
(* of a handler, or the user.                                              *)

LEMMA WorkOnPath ==
    ASSUME IInv, pc = "act", edits' = edits, [Next]_vars, disk' # disk
    PROVE  /\ Acting
           /\ \A p \in Path : disk'[p] # disk[p] /\ disk'[p] = Absent =>
                 p = Cur /\ plan.then \in Removing
<1>1. /\ TypeOK /\ ~live /\ Handling /\ Cur \in Path /\ WriteTo(Cur) \in Path
      /\ disk \in [Path -> Content \cup {Absent}] /\ edits \in Nat
      BY NotLive, CurType, WriteToType DEF IInv, Handling, TypeOK
<1> DEFINE Here == /\ plan.then # "none"
                   /\ \A p \in Path : disk'[p] # disk[p] /\ disk'[p] = Absent =>
                         p = Cur /\ plan.then \in Removing
<1>2. ~Command
      BY <1>1 DEF Command, CreateFile, ModifyFile, DeleteFile, RenameFile, Exit
<1>3. ASSUME NEW i \in Invocations PROVE ~Begin(i)
      BY DEF Begin
<1>4. /\ ~RecoverBegin /\ ~PmRemove /\ ~PmMissing /\ ~Analyse /\ ~ArchiveCopy
      /\ ~ArchiveMeta /\ ~ArchiveRow /\ ~Finish
      BY DEF RecoverBegin, PmRemove, PmMissing, Analyse, ArchiveCopy, ArchiveMeta,
             ArchiveRow, Finish
<1>5. ~ActNothing /\ ~UNCHANGED vars
      BY DEF ActNothing, vars
<1>6. ASSUME NEW p \in Path PROVE ~RecoverEntry(p)
      BY DEF RecoverEntry
<1>7. ASSUME NEW p \in Path, NEW v \in (Content \ {Torn}) \cup {Absent}, UserEdit(p, v)
      PROVE  FALSE
      <2>1. edits' = edits + 1
            BY <1>7 DEF UserEdit
      <2> QED BY <1>1, <2>1
<1>8. ASSUME Unlink PROVE Here
      BY <1>1, <1>8 DEF Unlink, Removing
<1>9. ASSUME RemoveDir PROVE Here
      BY <1>1, <1>9 DEF RemoveDir, Removing
<1>10. ASSUME RestoreBlob PROVE Here
      <2>1. disk' = disk \/ disk' = [disk EXCEPT ![WriteTo(Cur)] = Blob(Cur)]
            BY <1>10 DEF RestoreBlob
      <2>2. Restorable(Cur) \/ disk' = disk
            BY <1>10 DEF RestoreBlob
      <2>3. Restorable(Cur) => Blob(Cur) # Absent
            BY <1>1, BaselineTypes, ContentAssumption DEF Restorable, Content, Regular
      <2> QED BY <1>1, <1>10, <2>1, <2>2, <2>3 DEF RestoreBlob
<1>11. TornRestore => Here
      <2>1. Torn # Absent
            BY ContentAssumption DEF Content, Regular
      <2> QED BY <1>1, <2>1 DEF TornRestore
<1>12. ASSUME OpFails PROVE Here
      BY <1>11, <1>12 DEF OpFails
<1>13. ASSUME Crash PROVE Here
      BY <1>11, <1>13 DEF Crash
<1>14. Here
      BY <1>2, <1>3, <1>4, <1>5, <1>6, <1>7, <1>8, <1>9, <1>10, <1>12, <1>13
         DEF Next, EngineStep
<1> QED BY <1>1, <1>14 DEF Acting

(* No rollback removes a path without a mutation of that very path that    *)
(* licenses it: the class and the review of a path are looked at when its  *)
(* handler decides, and what was decided is what is done.                  *)
THEOREM OnlyLicensedRemovals == Spec => RemovalsAreLicensed
<1> DEFINE Removes ==
        \A p \in Path : EngineChanges(p) /\ disk'[p] = Absent =>
          /\ ~inv.dry /\ Permitted(p) /\ PassesFilter(p)
          /\ \E i \in DOMAIN journal :
                journal[i].path = p /\ journal[i].op \notin {"rename_from", "delete"}
<1>1. IInv /\ HandlerInv /\ [Next]_vars => Removes
      <2> SUFFICES ASSUME IInv, HandlerInv, [Next]_vars, NEW p \in Path, EngineChanges(p),
                          disk'[p] = Absent
                   PROVE  /\ ~inv.dry /\ Permitted(p) /\ PassesFilter(p)
                          /\ \E i \in DOMAIN journal :
                                /\ journal[i].path = p
                                /\ journal[i].op \notin {"rename_from", "delete"}
          OBVIOUS
      <2>1. pc = "act" /\ edits' = edits /\ disk'[p] # disk[p]
            BY DEF EngineChanges
      <2>2. Acting /\ p = Cur /\ plan.then \in Removing
            BY <2>1, WorkOnPath
      <2>3. /\ ~inv.dry /\ journal[next].op \notin {"rename_from", "delete"}
            /\ Permitted(Cur) /\ PassesFilter(Cur)
            BY <2>2 DEF HandlerInv, Licensed
      <2>4. next \in DOMAIN journal /\ Cur = journal[next].path
            BY <2>2 DEF IInv, TypeOK, Acting, Cur
      <2> QED BY <2>2, <2>3, <2>4
<1> HIDE DEF Removes
<1>2. Spec => [][Removes]_vars
      BY <1>1, HandlerInvariant, PTL DEF Spec
<1> USE DEF Removes
<1> QED BY <1>2 DEF RemovalsAreLicensed

(* A dry run changes nothing, wherever it is killed: whatever its handlers *)
(* decide is rehearsed.                                                    *)
THEOREM DryRunsAreDry == Spec => DryRunChangesNothing
<1> DEFINE Dry == inv.dry /\ pc \notin {"idle", "recover"} /\ edits' = edits
                  => UNCHANGED <<disk, archive, status>>
<1>1. IInv /\ HandlerInv /\ [Next]_vars => Dry
      <2> SUFFICES ASSUME IInv, HandlerInv, [Next]_vars, inv.dry, pc \notin {"idle", "recover"},
                          edits' = edits
                   PROVE  UNCHANGED <<disk, archive, status>>
          OBVIOUS
      <2>1. /\ TypeOK /\ ~live /\ edits \in Nat
            /\ Handling => ~plan.archive /\ plan.then = "none"
            BY NotLive DEF IInv, HandlerInv, Licensed, Acting, TypeOK
      <2>2. pc \notin {"copy", "meta", "row"}
            BY <2>1 DEF IInv, ArchiveProgress, Handling
      <2>3. pc = "act" => plan.then = "none"
            BY <2>1 DEF Handling
      <2>4. ~Command
            BY <2>1 DEF Command, CreateFile, ModifyFile, DeleteFile, RenameFile, Exit
      <2>5. ASSUME NEW i \in Invocations PROVE ~Begin(i)
            BY DEF Begin
      <2>6. /\ ~RecoverBegin /\ ~ArchiveCopy /\ ~ArchiveMeta /\ ~ArchiveRow
            /\ ~Unlink /\ ~RemoveDir /\ ~RestoreBlob /\ ~OpFails
            BY <2>2, <2>3 DEF RecoverBegin, ArchiveCopy, ArchiveMeta, ArchiveRow, Unlink,
                              RemoveDir, RestoreBlob, OpFails
      <2>7. ASSUME NEW p \in Path PROVE ~RecoverEntry(p)
            BY DEF RecoverEntry
      <2>8. ASSUME NEW p \in Path, NEW v \in (Content \ {Torn}) \cup {Absent}, UserEdit(p, v)
            PROVE  FALSE
            <3>1. edits' = edits + 1
                  BY <2>8 DEF UserEdit
            <3> QED BY <2>1, <3>1
      <2>9. CASE PmRemove
            <3>1. disk' = [p \in Path |-> disk[p]]
                  BY <2>9 DEF PmRemove, Delegates
            <3>2. disk = [p \in Path |-> disk[p]]
                  BY <2>1 DEF TypeOK
            <3> QED BY <2>9, <3>1, <3>2 DEF PmRemove
      <2>10. CASE PmMissing \/ Analyse \/ ActNothing \/ Finish \/ UNCHANGED vars
            BY <2>10 DEF PmMissing, Analyse, ActNothing, ActUnchanged, Finish, vars
      <2>11. CASE Crash
            <3>1. TornRestore /\ archive' \in TornCopy
                  BY <2>11 DEF Crash
            <3>2. UNCHANGED <<disk, archive>>
                  BY <2>2, <2>3, <3>1 DEF TornRestore, TornCopy
            <3> QED BY <2>11, <3>2 DEF Crash
      <2> QED BY <2>4, <2>5, <2>6, <2>7, <2>8, <2>9, <2>10, <2>11 DEF Next, EngineStep
<1> HIDE DEF Dry
<1>2. Spec => [][Dry]_vars
      BY <1>1, HandlerInvariant, PTL DEF Spec
<1> USE DEF Dry
<1> QED BY <1>2 DEF DryRunChangesNothing

-----------------------------------------------------------------------------
(* What recover has passed is back where it was taken.                     *)

LEMMA PutBackOwed ==
    ASSUME IInv, NEW p \in Path, taken[p] # Nothing, Undertaken(p, taken[p]), disk' = PutBack(p)
    PROVE  \/ disk'[p] = taken[p].what
           \/ ~taken[p].home /\ disk'[p] = Torn
           \/ disk[p] \in Dir
<1>1. /\ TypeOK /\ Archived(p) \in Regular \cup Link \cup {Nothing}
      /\ taken[p].what \in File \cup Link
      BY ArchivedType DEF IInv, TypeOK, Owed
<1>2. \/ Archived(p) = taken[p].what
      \/ ~taken[p].home /\ Archived(p) = Torn
      BY DEF IInv, TakenIsRecoverable
<1>3. Archived(p) # Nothing
      BY <1>1, <1>2, ContentAssumption DEF Content, Regular
<1>4. disk[p] \notin Link /\ WriteTo(p) = p
      <2>1. disk[p] \in {Absent, Blob(p), Torn} /\ Blob(p) \in File \cup {Nothing}
            BY <1>1, BaselineTypes DEF IInv, Vacated
      <2>2. disk[p] \in Content \cup {Absent}
            BY <1>1 DEF TypeOK
      <2> QED BY <2>1, <2>2, ContentAssumption DEF WriteTo, Content, Regular
<1>5. disk[p] \notin Dir => disk'[p] = Archived(p)
      BY <1>1, <1>3, <1>4 DEF PutBack, TypeOK
<1> QED BY <1>2, <1>5

(* recover_archive leaves at each path it visits what was taken from there,*)
(* or has met an error there and owes it still.                            *)
THEOREM RecoveryReturns == Spec => RecoverReturnsTaken
<1> DEFINE Returns ==
        \A p \in pending \ pending' :
          crashes' = crashes /\ taken[p] # Nothing /\ Undertaken(p, taken[p]) =>
              \/ disk'[p] = taken[p].what
              \/ ~taken[p].home /\ disk'[p] = Torn
              \/ disk[p] \in Dir
              \/ faults' # faults /\ taken'[p] = taken[p]
<1>1. IInv /\ HandlerInv /\ [Next]_vars => Returns
      <2> SUFFICES ASSUME IInv, HandlerInv, [Next]_vars, NEW p \in pending \ pending',
                          crashes' = crashes, taken[p] # Nothing, Undertaken(p, taken[p])
                   PROVE  \/ disk'[p] = taken[p].what
                          \/ ~taken[p].home /\ disk'[p] = Torn
                          \/ disk[p] \in Dir
                          \/ faults' # faults /\ taken'[p] = taken[p]
          OBVIOUS
      <2>1. TypeOK /\ pc = "recover" /\ p \in Path /\ ~live
            BY NotLive DEF IInv, HandlerInv, Held, TypeOK
      <2>2. ~Command
            BY <2>1 DEF Command, CreateFile, ModifyFile, DeleteFile, RenameFile, Exit
      <2>3. ASSUME NEW i \in Invocations PROVE ~Begin(i)
            BY <2>1 DEF Begin
      <2>4. /\ ~RecoverBegin /\ ~PmRemove /\ ~PmMissing /\ ~Analyse /\ ~ArchiveCopy
            /\ ~ArchiveMeta /\ ~ArchiveRow /\ ~Finish /\ ~Unlink /\ ~RemoveDir /\ ~ActNothing
            /\ ~RestoreBlob /\ ~OpFails
            BY <2>1 DEF RecoverBegin, PmRemove, PmMissing, Analyse, ArchiveCopy, ArchiveMeta,
                   ArchiveRow, Finish, Unlink, RemoveDir, ActNothing, RestoreBlob, OpFails
      <2>5. ~Crash /\ ~UNCHANGED vars
            BY <2>1 DEF Crash, TypeOK, vars, engine
      <2>6. ASSUME NEW q \in Path, NEW v \in (Content \ {Torn}) \cup {Absent} PROVE ~UserEdit(q, v)
            BY DEF UserEdit, engine
      <2>7. PICK q \in Path : RecoverEntry(q)
            BY <2>2, <2>3, <2>4, <2>5, <2>6 DEF Next, EngineStep
      <2>8. p = q
            BY <2>7 DEF RecoverEntry
      <2>9. CASE disk' = PutBack(p)
            BY <2>1, <2>9, PutBackOwed
      <2>10. CASE faults' = faults + 1 /\ UNCHANGED taken
            BY <2>1, <2>10 DEF TypeOK
      <2> QED BY <2>7, <2>8, <2>9, <2>10 DEF RecoverEntry
<1> HIDE DEF Returns
<1>2. Spec => [][Returns]_vars
      BY <1>1, HandlerInvariant, PTL DEF Spec
<1> USE DEF Returns
<1> QED BY <1>2 DEF RecoverReturnsTaken

-----------------------------------------------------------------------------
(* Reports.                                                                *)

(* A row stays.                                                            *)
LEMMA RowsStay ==
    ASSUME IInv, [Next]_vars, NEW p \in Path, archive[p].row
    PROVE  archive'[p].row
<1>1. TypeOK /\ archive \in [Path -> Slot]
      BY DEF IInv, TypeOK
<1>2. archive' \in TornCopy => archive'[p].row
      BY <1>1 DEF TornCopy, Slot
<1>3. ArchiveCopy \/ ArchiveMeta \/ ArchiveRow => archive'[p].row
      BY <1>1 DEF ArchiveCopy, ArchiveMeta, ArchiveRow, Slot
<1>4. OpFails \/ Crash => archive'[p].row
      BY <1>2 DEF OpFails, Crash
<1>5. /\ Command => archive' = archive
      /\ \A i \in Invocations : Begin(i) => archive' = archive
      /\ RecoverBegin \/ PmRemove \/ PmMissing \/ Analyse \/ Finish => archive' = archive
      BY DEF Command, CreateFile, ModifyFile, DeleteFile, RenameFile, Exit, CommandUnchanged,
             Begin, RecoverBegin, PmRemove, PmMissing, Analyse, Finish
<1>6. /\ ActNothing \/ Unlink \/ RemoveDir \/ RestoreBlob => archive' = archive
      /\ \A q \in Path : RecoverEntry(q) => archive' = archive
      /\ \A q \in Path, v \in (Content \ {Torn}) \cup {Absent} :
            UserEdit(q, v) => archive' = archive
      /\ UNCHANGED vars => archive' = archive
      BY DEF ActNothing, Unlink, RemoveDir, RestoreBlob, ActUnchanged, RecoverEntry, UserEdit, vars
<1> QED BY <1>3, <1>4, <1>5, <1>6 DEF Next, EngineStep

(* A handler that has come to its last step has a row for what it archived.*)
LEMMA ActingBacked ==
    ASSUME IInv, HandlerInv, pc = "act", quiet, ~inv.dry,
           plan.result = "Archived", plan.then # "rmdir"
    PROVE  archive[Cur].row
<1>1. Handling /\ steady /\ plan.archive
      BY DEF HandlerInv, Held, PlanSays, Handling
<1>2. Archived(Cur) = disk[Cur] /\ disk[Cur] # Nothing
      BY <1>1, CurType, ContentAssumption DEF IInv, ArchiveProgress, TypeOK
<1> QED BY <1>2 DEF Archived

(* What a step does to the report.                                         *)
Told(res) == Say(res) /\ (res # "Failed" => pc = "act")

LEMMA ReportGrows ==
    ASSUME IInv, HandlerInv, [Next]_vars
    PROVE  \/ report' = {}
           \/ report' = report /\ (quiet' => quiet) /\ inv' = inv
           \/ quiet' = quiet /\ inv' = inv /\ (Told(plan.result) \/ Told("Failed"))
<1> DEFINE Quietly == report' = report /\ (quiet' => quiet) /\ inv' = inv
           Loudly == quiet' = quiet /\ inv' = inv /\ (Told(plan.result) \/ Told("Failed"))
<1>1. Command \/ PmRemove \/ Analyse \/ ArchiveCopy \/ ArchiveMeta \/ ArchiveRow => Quietly
      BY DEF Command, CreateFile, ModifyFile, DeleteFile, RenameFile, Exit, CommandUnchanged,
             PmRemove, Analyse, ArchiveCopy, ArchiveMeta, ArchiveRow, engine, ghosts
<1>2. ASSUME NEW i \in Invocations, Begin(i) PROVE report' = {}
      BY <1>2 DEF Begin, HandlerInv, Held
<1>3. RecoverBegin => Quietly
      BY DEF RecoverBegin, ghosts
<1>4. PmMissing \/ Finish \/ Crash => report' = {}
      BY DEF PmMissing, Finish, Crash, ProcessEnds
<1>5. ASSUME NEW p \in Path, RecoverEntry(p) PROVE report' = {} \/ Quietly
      BY <1>5 DEF RecoverEntry, ProcessEnds
<1>6. ASSUME NEW p \in Path, NEW v \in (Content \ {Torn}) \cup {Absent}, UserEdit(p, v)
      PROVE  Quietly
      BY <1>6 DEF UserEdit, engine, HandlerInv, Held
<1>7. UNCHANGED vars => Quietly
      BY DEF vars, engine, ghosts
<1>8. ActNothing \/ Unlink \/ RemoveDir \/ RestoreBlob => Loudly
      BY DEF ActNothing, Unlink, RemoveDir, RestoreBlob, ActUnchanged, Advance, Told
<1>9. OpFails => Loudly
      BY DEF OpFails, ResultOfFailure, Advance, Told
<1> QED BY <1>1, <1>2, <1>3, <1>4, <1>5, <1>6, <1>7, <1>8, <1>9 DEF Next, EngineStep

LEMMA ReportStep ==
    ASSUME IInv, HandlerInv, ArchivedReportIsBacked, [Next]_vars
    PROVE  ArchivedReportIsBacked'
<1>1. SUFFICES ASSUME NEW r \in report', quiet', r.result = "Archived", ~inv'.dry,
                      r.then # "rmdir"
               PROVE  archive'[r.entry.path].row
      BY DEF ArchivedReportIsBacked
<1>2. \A q \in report : q.entry.path \in Path
      BY DEF IInv, TypeOK
<1>3. quiet /\ inv' = inv
      BY <1>1, ReportGrows
<1>4. CASE r \in report
      <2>1. archive[r.entry.path].row
            BY <1>1, <1>3, <1>4 DEF ArchivedReportIsBacked
      <2> QED BY <1>2, <1>4, <2>1, RowsStay
<1>5. CASE r \notin report
      <2>1. /\ r = [entry |-> journal[next], result |-> plan.result, then |-> plan.then]
            /\ pc = "act"
            <3>1. Told(plan.result) \/ Told("Failed")
                  BY <1>1, <1>5, ReportGrows
            <3>2. ASSUME Told("Failed") PROVE FALSE
                  BY <1>1, <1>5, <3>2 DEF Told, Say
            <3>3. r = [entry |-> journal[next], result |-> plan.result, then |-> plan.then]
                  BY <1>1, <1>5, <3>1, <3>2 DEF Told, Say
            <3> QED BY <1>1, <3>1, <3>2, <3>3 DEF Told
      <2>2. r.entry.path = Cur /\ Cur \in Path
            BY <2>1, CurType DEF IInv, Handling, Cur
      <2>3. archive[Cur].row
            BY <1>1, <1>3, <2>1, ActingBacked
      <2> QED BY <2>2, <2>3, RowsStay
<1> QED BY <1>4, <1>5

(* No report of an undisturbed rollback says Archived of what is not.      *)
THEOREM ReportsAreBacked == Spec => []ArchivedReportIsBacked
<1>1. Init => ArchivedReportIsBacked
      BY DEF Init, ArchivedReportIsBacked
<1>2. IInv /\ HandlerInv /\ ArchivedReportIsBacked /\ [Next]_vars => ArchivedReportIsBacked'
      BY ReportStep
<1> QED BY <1>1, <1>2, HandlerInvariant, PTL DEF Spec
-----------------------------------------------------------------------------
(* Where there is no baseline nothing is written back, and what the        *)
(* rollback of an app has been through is gone or reported.                *)

Rolling == pc = "loop" \/ Handling

(* A mutation that created its path, or may have, and may be undone.       *)
Creates(i) == /\ Permitted(journal[i].path) /\ PassesFilter(journal[i].path)
              /\ \/ journal[i].op \in {"create", "rename_to"}
                 \/ journal[i].op = "modify" /\ inv.home

Cleared(p) == disk[p] \in Dir \cup {Absent} \/ FailedFor(p)

ClearedBehind ==
    Rolling /\ quiet /\ ~inv.dry =>
        \A i \in DOMAIN journal : i < next /\ Creates(i) => Cleared(journal[i].path)

CleanupInv == /\ origin # "run"
              /\ ~Rolling => next = 1
              /\ pc = "pm" \/ Rolling => status # "RolledBack"
              /\ ClearedBehind

(* Nothing written back: a step of the engine makes paths absent.          *)
LEMMA CleanupRemoves ==
    ASSUME IInv, origin # "run", Handling,
           ActNothing \/ Unlink \/ RemoveDir \/ RestoreBlob \/ OpFails
    PROVE  \A p \in Path : disk'[p] = disk[p] \/ disk'[p] = Absent
<1>1. Cur \in Path /\ disk \in [Path -> Content \cup {Absent}]
      BY CurType DEF IInv, TypeOK
<1>2. ~Restorable(Cur)
      BY <1>1, HomeHasNoBaseline DEF Restorable
<1>3. CASE ActNothing \/ RestoreBlob \/ OpFails
      BY <1>2, <1>3 DEF ActNothing, RestoreBlob, OpFails, TornRestore
<1>4. CASE Unlink \/ RemoveDir
      BY <1>1, <1>4 DEF Unlink, RemoveDir
<1> QED BY <1>3, <1>4

(* The decision for a created path that is still there is to remove it.    *)
LEMMA CreationRemoved ==
    ASSUME IInv, origin # "run", Handling, steady, ~inv.dry, Creates(next),
           disk[Cur] \notin Dir \cup {Absent}
    PROVE  plan.then \in {"remove", "unlink"}
<1>1. Cur \in Path /\ Cur = journal[next].path /\ Prior(Cur) = Nothing
      BY CurType, HomeHasNoBaseline DEF IInv, Cur
<1>2. PICK diff \in Diffs(Cur) : plan.then = Decide(journal[next].op, Cur, diff).then
      BY DEF IInv, PlanFits
<1>3. diff = "New"
      BY <1>1, <1>2 DEF Diffs
<1>4. CreatedPlan(Cur, diff).then = "remove"
      BY <1>3 DEF CreatedPlan, Removal
<1>5. inv.home => ModifiedPlan(Cur, diff).then = "unlink"
      BY <1>1 DEF ModifiedPlan, Removal
<1> QED BY <1>1, <1>2, <1>4, <1>5 DEF Creates, Decide

(* So what ends its handler clears it.                                     *)
LEMMA CreationCleared ==
    ASSUME IInv, HandlerInv, origin # "run", Handling, quiet, ~inv.dry, Creates(next),
           ActNothing \/ Unlink \/ RemoveDir \/ RestoreBlob \/ OpFails,
           NEW p \in Path, p = Cur
    PROVE  Cleared(p)'
<1>1. /\ disk \in [Path -> Content \cup {Absent}] /\ steady
      /\ p = journal[next].path
      BY CurType DEF IInv, TypeOK, HandlerInv, Held, Cur
<1>2. disk'[p] = disk[p] \/ disk'[p] = Absent
      BY CleanupRemoves
<1>3. CASE disk[p] \in Dir \cup {Absent}
      BY <1>2, <1>3 DEF Cleared
<1>4. CASE disk[p] \notin Dir \cup {Absent}
      <2>1. plan.then \in {"remove", "unlink"}
            BY <1>1, <1>4, CreationRemoved
      <2>2. CASE Unlink
            BY <1>1, <2>2 DEF Unlink, Cleared
      <2>3. ~ActNothing /\ ~RemoveDir /\ ~RestoreBlob
            BY <1>4, <2>1 DEF ActNothing, RemoveDir, RestoreBlob
      <2>4. CASE OpFails
            <3>1. ResultOfFailure = "Failed"
                  BY <2>1 DEF ResultOfFailure
            <3>2. [entry |-> journal[next], result |-> "Failed", then |-> plan.then] \in report'
                  BY <2>4, <3>1 DEF OpFails, Advance, Say
            <3>3. FailedFor(p)'
                  BY <1>1, <3>2 DEF FailedFor
            <3> QED BY <3>3 DEF Cleared
      <2> QED BY <2>2, <2>3, <2>4
<1> QED BY <1>3, <1>4

LEMMA EndsHandler ==
    ASSUME IInv, HandlerInv, CleanupInv, Handling,
           ActNothing \/ Unlink \/ RemoveDir \/ RestoreBlob \/ OpFails
    PROVE  CleanupInv'
<1>1. /\ next' = next + 1 /\ pc' = "loop" /\ report \subseteq report'
      /\ UNCHANGED <<origin, journal, status, inv, quiet>>
      BY DEF ActNothing, Unlink, RemoveDir, RestoreBlob, OpFails, Advance, Say, ActUnchanged
<1>2. /\ next \in DOMAIN journal /\ next \in Nat /\ Cur = journal[next].path /\ Cur \in Path
      /\ DOMAIN journal \subseteq Nat
      /\ \A i \in DOMAIN journal : journal[i].path \in Path
      BY CurType, EntryType DEF IInv, TypeOK, Cur
<1>3. ASSUME NEW i \in DOMAIN journal, i < next + 1, Creates(i), quiet, ~inv.dry
      PROVE  Cleared(journal[i].path)'
      <2>1. CASE i = next
            BY <1>1, <1>2, <1>3, <2>1, CreationCleared DEF CleanupInv
      <2>2. CASE i < next
            <3>1. Cleared(journal[i].path)
                  BY <1>3, <2>2 DEF CleanupInv, ClearedBehind, Rolling
            <3>2. disk'[journal[i].path] \in {disk[journal[i].path], Absent}
                  BY <1>2, CleanupRemoves DEF CleanupInv
            <3>3. FailedFor(journal[i].path) => FailedFor(journal[i].path)'
                  BY <1>1 DEF FailedFor
            <3> QED BY <1>1, <3>1, <3>2, <3>3 DEF Cleared
      <2> QED BY <1>2, <1>3, <2>1, <2>2
<1>4. \A i \in DOMAIN journal : Creates(i)' = Creates(i)
      BY <1>1 DEF Creates, Permitted, PassesFilter
<1>5. ClearedBehind'
      BY <1>1, <1>3, <1>4 DEF ClearedBehind
<1>6. Rolling' /\ status' # "RolledBack"
      BY <1>1 DEF CleanupInv, Rolling
<1> QED BY <1>1, <1>5, <1>6 DEF CleanupInv

(* Steps that leave what has been cleared as it is.                        *)
LEMMA KeepsCleared ==
    ASSUME CleanupInv, Rolling, pc' # "pm",
           UNCHANGED <<origin, status, journal, inv, next, report>>,
           quiet' => quiet /\ disk' = disk, Rolling'
    PROVE  CleanupInv'
<1>1. \A i : Creates(i)' = Creates(i)
      BY DEF Creates, Permitted, PassesFilter
<1>2. \A p : quiet' /\ Cleared(p) => Cleared(p)'
      BY DEF Cleared, FailedFor
<1>3. ClearedBehind'
      BY <1>1, <1>2 DEF CleanupInv, ClearedBehind
<1> QED BY <1>3 DEF CleanupInv

LEMMA CleanupStep == IInv /\ HandlerInv /\ CleanupInv /\ [Next]_vars => CleanupInv'
<1> SUFFICES ASSUME IInv, HandlerInv, CleanupInv, [Next]_vars PROVE CleanupInv'
    OBVIOUS
<1> DEFINE Rests == /\ ~Rolling' /\ next' = 1 /\ origin' # "run"
                    /\ pc' = "pm" => status' # "RolledBack"
<1>1. Rests => CleanupInv'
      BY DEF CleanupInv, ClearedBehind
<1>2. ~Rolling => next = 1
      BY DEF CleanupInv
<1>3. Command => Rests
      <2>1. Command => live /\ UNCHANGED <<origin, engine>>
            BY DEF Command, CreateFile, ModifyFile, DeleteFile, RenameFile, Exit,
                   CommandUnchanged
      <2>2. Command => pc = "idle" /\ pc' = pc /\ next' = next /\ origin' = origin
            BY <2>1 DEF IInv, QuietWhileLive, engine
      <2> QED BY <2>2, <1>2 DEF CleanupInv, Rolling, Handling
<1>4. ASSUME NEW i \in Invocations, Begin(i) PROVE Rests
      BY <1>2, <1>4 DEF Begin, CleanupInv, Rolling, Handling
<1>5. RecoverBegin \/ PmMissing \/ Finish \/ Crash => Rests
      BY <1>2 DEF RecoverBegin, PmMissing, Finish, Crash, ProcessEnds, CleanupInv, Rolling, Handling
<1>6. ASSUME NEW p \in Path, RecoverEntry(p) PROVE Rests
      BY <1>2, <1>6 DEF RecoverEntry, ProcessEnds, CleanupInv, Rolling, Handling
<1>7. CASE PmRemove
      <2>1. /\ pc = "pm" /\ next = 1 /\ pc' = "loop" /\ status' = status
            /\ UNCHANGED <<origin, next, journal>>
            BY <1>2, <1>7 DEF PmRemove, Rolling, Handling
      <2>2. \A i \in DOMAIN journal : ~(i < 1)
            BY DEF IInv, TypeOK
      <2> QED BY <2>1, <2>2 DEF CleanupInv, ClearedBehind, Rolling
<1>8. CASE Analyse
      BY <1>8, KeepsCleared DEF Analyse, Rolling, Handling
<1>9. CASE ArchiveCopy \/ ArchiveMeta \/ ArchiveRow
      BY <1>9, KeepsCleared DEF ArchiveCopy, ArchiveMeta, ArchiveRow, ghosts, Rolling, Handling
<1>10. CASE ActNothing \/ Unlink \/ RemoveDir \/ RestoreBlob \/ OpFails
       <2>1. Handling
             BY <1>10 DEF ActNothing, Unlink, RemoveDir, RestoreBlob, OpFails, Handling
       <2> QED BY <1>10, <2>1, EndsHandler
<1>11. ASSUME NEW p \in Path, NEW v \in (Content \ {Torn}) \cup {Absent}, UserEdit(p, v)
       PROVE  CleanupInv'
       <2>1. /\ UNCHANGED <<origin, status, journal, pc, inv, next, report>>
             /\ pc # "idle" => ~quiet'
             BY <1>11 DEF UserEdit, engine
       <2>2. CASE Rolling
             <3>1. ~quiet' /\ Rolling' /\ pc' # "pm"
                   BY <2>1, <2>2 DEF Rolling, Handling
             <3> QED BY <2>1, <2>2, <3>1, KeepsCleared
       <2>3. CASE ~Rolling
             BY <1>1, <1>2, <2>1, <2>3 DEF CleanupInv, Rolling, Handling
       <2> QED BY <2>2, <2>3
<1>12. CASE UNCHANGED vars
       <2>1. UNCHANGED <<origin, status, journal, pc, inv, next, report, quiet, disk>>
             BY <1>12 DEF vars, engine, ghosts
       <2>2. CASE Rolling
             <3>1. Rolling' /\ pc' # "pm"
                   BY <2>1, <2>2 DEF Rolling, Handling
             <3> QED BY <2>1, <2>2, <3>1, KeepsCleared
       <2>3. CASE ~Rolling
             BY <1>1, <1>2, <2>1, <2>3 DEF CleanupInv, Rolling, Handling
       <2> QED BY <2>2, <2>3
<1> QED BY <1>1, <1>3, <1>4, <1>5, <1>6, <1>7, <1>8, <1>9, <1>10, <1>11, <1>12
        DEF Next, EngineStep

(* A rollback that closes the transaction has come to the end of the       *)
(* journal.                                                                *)
LEMMA FinishingReports ==
    ASSUME IInv, CleanupInv, [Next]_vars, Finishing
    PROVE  \A i \in DOMAIN journal :
              quiet /\ Creates(i) => Cleared(journal[i].path)
<1>1. Rolling /\ status # "RolledBack" /\ status' = "RolledBack" /\ pc = "loop"
      /\ pc' = "idle"
      BY DEF Finishing, CleanupInv, Rolling
<1>2. Finish
      <2>1. ~Command /\ ~RecoverBegin /\ ~PmRemove /\ ~PmMissing /\ ~Analyse /\ ~ArchiveCopy
            /\ ~ArchiveMeta /\ ~ArchiveRow /\ ~ActNothing /\ ~Unlink /\ ~RemoveDir
            /\ ~RestoreBlob /\ ~OpFails /\ ~Crash
            <3>1. Command \/ Crash => status' = status
                  BY DEF Command, CreateFile, ModifyFile, DeleteFile, RenameFile, Exit,
                     CommandUnchanged, Crash
            <3> QED BY <1>1, <3>1 DEF RecoverBegin, PmRemove, PmMissing, Analyse, ArchiveCopy,
                    ArchiveMeta, ArchiveRow, ActNothing, Unlink, RemoveDir, RestoreBlob, OpFails
      <2>2. /\ \A i \in Invocations : ~Begin(i)
            /\ \A p \in Path : ~RecoverEntry(p)
            /\ \A p \in Path, v \in (Content \ {Torn}) \cup {Absent} : UserEdit(p, v) => status' = status
            /\ UNCHANGED vars => status' = status
            BY <1>1 DEF Begin, RecoverEntry, UserEdit, vars
      <2> QED BY <1>1, <2>1, <2>2 DEF Next, EngineStep
<1>3. next > Len(journal) /\ ~inv.dry
      BY <1>1, <1>2 DEF Finish
<1>4. \A i \in DOMAIN journal : i < next
      BY <1>3 DEF IInv, TypeOK
<1> QED BY <1>1, <1>3, <1>4 DEF CleanupInv, ClearedBehind

(* When the bucket of a tracked app becomes RolledBack, each file that the *)
(* app created and the review selected is gone or was reported as failed.  *)
(* (With a baseline it is not always so: a blob restored through a symlink *)
(* may bring back a created file that its own mutation had removed.)       *)
THEOREM CleanupReports ==
    ASSUME Origins \subseteq {"tracking"}
    PROVE  Spec => ReportedOrGone
<1> DEFINE Reports ==
        Finishing =>
          \A i \in DOMAIN journal :
             LET p == journal[i].path IN
             /\ Permitted(p) /\ PassesFilter(p) /\ Prior(p) = Nothing /\ quiet
             /\ \/ journal[i].op \in {"create", "rename_to"}
                \/ journal[i].op = "modify" /\ inv.home
             => disk[p] \in Dir \cup {Absent} \/ FailedFor(p)
<1>1. Init => CleanupInv
      <2> SUFFICES ASSUME Init PROVE CleanupInv
          OBVIOUS
      <2>1. origin # "run" /\ pc = "idle" /\ next = 1
            BY DEF Init
      <2> QED BY <2>1 DEF CleanupInv, ClearedBehind, Rolling, Handling
<1>2. IInv /\ HandlerInv /\ CleanupInv /\ [Next]_vars => CleanupInv'
      BY CleanupStep
<1>3. IInv /\ CleanupInv /\ [Next]_vars => [Reports]_vars
      BY FinishingReports DEF Creates, Cleared
<1> HIDE DEF Reports
<1>4. Spec => [][Reports]_vars
      BY <1>1, <1>2, <1>3, HandlerInvariant, PTL DEF Spec
<1> QED BY <1>4 DEF ReportedOrGone, Reports
=============================================================================
